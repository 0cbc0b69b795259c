-------------------------- MODULE PgliteLockProofs --------------------------
(***************************************************************************)
(* That the directory lock of PGLite keeps its promises for any number of  *)
(* processes, inodes and crashes: one writer at a time unless something    *)
(* went wrong that the code cannot see, and no surgery beside a writer.    *)
(***************************************************************************)
EXTENDS PgliteLock, FiniteSetTheorems, TLAPS

\* A process knows of a dead holder only while it is removing its lock.
Suspecting ==
  {"stat", "claim", "break", "reclaim", "again", "verify", "leave", "unlink",
   "rmdir", "unclaim", "record"}
SuspicionsEnd ==
  \A p \in Proc :
    /\ run[p].pc \notin Suspecting => run[p].victim = None
    /\ run[p].pc \notin Suspecting \ {"stat"} => run[p].seen = NoDir

\* The holder found dead is dead: a pid lives once.
VictimsDead == \A p \in Proc : run[p].victim \in Pid => run[p].victim \in Dead

\* Under a claim that nobody breaks there is one reaper.
Claiming == {"verify", "leave", "unlink", "rmdir", "unclaim"}
OneReaper ==
  "claim broken" \notin mishaps =>
    \A p \in Proc : run[p].pc \in Claiming => claim = p

-----------------------------------------------------------------------------
(* One writer *)

Innocent == mishaps \subseteq {"no record", "outlived"}

\* Whoever holds the lock made the directory that is there, and the file says so
\* from the moment it is written to the moment it is removed.
HoldersOwn ==
  \A p \in Proc :
    Holding(p) =>
      /\ dir # NoDir /\ dir.by = p
      /\ run[p].pc \in {"write", "dropdir"} => dir.file = None /\ ~dir.old
      /\ run[p].pc \notin {"write", "dropdir"} => dir.file = p

\* No reaper of an unknown holder has its eye on a lock that is held.
HoldersUnseen ==
  \A p, q \in Proc :
    Holding(p) /\ run[q].victim = None => run[q].seen # dir.ino

\* What a reaper is removing belongs to nobody.
ReapsTheDead ==
  \A q \in Proc :
    run[q].pc \in {"unlink", "rmdir"} => dir # NoDir /\ \A p \in Proc : ~Holding(p)

Locked == HoldersOwn /\ HoldersUnseen /\ ReapsTheDead
HeldByOne == Innocent => Locked

-----------------------------------------------------------------------------
(* Surgery *)

\* As far as the marker says, nobody has lost the lock.
Unmarked == ~marker /\ mishaps \subseteq {"unknown holder"}

\* There is one holder.  It made the directory that is there, or that has been
\* removed by somebody who is about to write the marker.
OneHolder ==
  /\ \A p, q \in Proc : Holding(p) /\ Holding(q) => p = q
  /\ \A p \in Proc :
       Holding(p) =>
         \/ dir # NoDir /\ dir.by = p
         \/ dir = NoDir /\ \E q \in Proc : Unrecorded(q)

\* Nobody writes his name into another's directory.
NamesItsMaker == dir # NoDir /\ dir.file \in Pid => dir.file = dir.by

\* The lock of a process found dead is removed from nobody else.
ReapsTheVictim ==
  \A q \in Proc :
    run[q].pc \in {"unlink", "rmdir"} /\ run[q].victim \in Pid =>
      dir # NoDir /\ \A p \in Proc : Holding(p) => dir.by # p

Alone == OneHolder /\ NamesItsMaker /\ ReapsTheVictim
NobodyLost == Unmarked => Alone

IInv ==
  /\ TypeOK /\ SuspicionsEnd /\ VictimsDead /\ OneReaper
  /\ HeldByOne /\ NobodyLost

-----------------------------------------------------------------------------
(* Moves: what a step does to the record of a process *)

\* p is at x, suspects v of holding the directory i; the others stay.
Moves(p, x, v, i) ==
  /\ run'[p].pc = x /\ run'[p].victim = v /\ run'[p].seen = i
  /\ \A q \in Proc : q # p => run'[q] = run[q]

LEMMA GoMoves ==
  ASSUME run \in [Proc -> Run], NEW p \in Proc, NEW x \in Pc, Go(p, x)
  PROVE  Moves(p, x, run[p].victim, run[p].seen) /\ run' \in [Proc -> Run]
<1>1. run[p] \in Run
  OBVIOUS
<1>2. [run[p] EXCEPT !.pc = x] \in Run
  BY <1>1 DEF Run
<1>3. run' = [run EXCEPT ![p] = [run[p] EXCEPT !.pc = x]]
  BY DEF Go
<1>. QED  BY <1>1, <1>2, <1>3 DEF Moves, Run

LEMMA AnewMoves ==
  ASSUME run \in [Proc -> Run], NEW p \in Proc, NEW x \in Pc, Anew(p, x)
  PROVE  Moves(p, x, None, NoDir) /\ run' \in [Proc -> Run]
<1>1. [Idle EXCEPT !.pc = x, !.reaped = run[p].reaped] \in Run
  BY DEF Run, Idle
<1>. QED  BY <1>1 DEF Anew, Moves, Idle

LEMMA StopMoves ==
  ASSUME run \in [Proc -> Run], NEW p \in Proc, Stop(p)
  PROVE  Moves(p, "idle", None, NoDir) /\ run' \in [Proc -> Run]
<1>1. Idle \in Run
  BY DEF Run, Idle, Pc
<1>. QED  BY <1>1 DEF Stop, Moves, Idle

LEMMA SuspectMoves ==
  ASSUME run \in [Proc -> Run], NEW p \in Proc, NEW w \in Pid \cup {None}, Suspect(p, w)
  PROVE  Moves(p, "stat", w, run[p].seen) /\ run' \in [Proc -> Run]
<1>1. run[p] \in Run
  OBVIOUS
<1>2. [run[p] EXCEPT !.pc = "stat", !.victim = w] \in Run
  BY <1>1 DEF Run, Pc
<1>3. run' = [run EXCEPT ![p] = [run[p] EXCEPT !.pc = "stat", !.victim = w]]
  BY DEF Suspect
<1>. QED  BY <1>1, <1>2, <1>3 DEF Moves, Run

LEMMA StatMoves ==
  ASSUME TypeOK, NEW p \in Proc, Stat(p), dir # NoDir
  PROVE  Moves(p, "claim", run[p].victim, dir.ino) /\ run' \in [Proc -> Run]
<1>1. run[p] \in Run /\ dir.ino \in Ino
  BY DEF TypeOK, Dir
<1>2. [run[p] EXCEPT !.pc = "claim", !.seen = dir.ino] \in Run
  BY <1>1 DEF Run, Pc
<1>3. run' = [run EXCEPT ![p] = [run[p] EXCEPT !.pc = "claim", !.seen = dir.ino]]
  BY DEF Stat
<1>. QED  BY <1>1, <1>2, <1>3 DEF Moves, Run, TypeOK

LEMMA RmdirMoves ==
  ASSUME TypeOK, NEW p \in Proc, Rmdir(p)
  PROVE  Moves(p, "unclaim", run[p].victim, run[p].seen) /\ run' \in [Proc -> Run]
<1>1. run[p] \in Run
  BY DEF TypeOK
<1>2. [run[p] EXCEPT !.pc = "unclaim", !.reaped = TRUE] \in Run
  BY <1>1 DEF Run, Pc
<1>3. run' = [run EXCEPT ![p] = [run[p] EXCEPT !.pc = "unclaim", !.reaped = TRUE]]
  BY DEF Rmdir
<1>. QED  BY <1>1, <1>2, <1>3 DEF Moves, Run, TypeOK

LEMMA CrashMoves ==
  ASSUME TypeOK, NEW p \in Proc, Crash(p)
  PROVE  Moves(p, "dead", None, NoDir) /\ run' \in [Proc -> Run]
<1>1. [Idle EXCEPT !.pc = "dead"] \in Run
  BY DEF Run, Idle, Pc
<1>. QED  BY <1>1 DEF Crash, Moves, Idle, TypeOK

-----------------------------------------------------------------------------
(* Types *)

Act(p) == Step(p) \/ Operate(p) \/ Close(p) \/ Crash(p)

LEMMA DirTypes ==
  ASSUME TypeOK
  PROVE  Unlinked \in Dir \cup {NoDir} /\ Emptied \in Dir \cup {NoDir}
BY DEF TypeOK, Unlinked, Emptied, Dir

LEMMA DeadArePids == Dead \subseteq Pid
BY DEF Dead, Pid

LEMMA TypesHold ==
  ASSUME TypeOK, NEW p \in Proc, Act(p)
  PROVE  TypeOK'
<1>. run[p] \in Run /\ run \in [Proc -> Run]
  BY DEF TypeOK
<1>. p \in Pid
  BY DEF Pid
<1>. USE NamesAssumption DEF TypeOK, Pc, At, disk
<1>1. CASE Begin(p)
  BY <1>1, GoMoves DEF Begin
<1>2. CASE Check(p)
  BY <1>2, GoMoves DEF Check
<1>3. CASE ReadFile(p)
  BY <1>3, GoMoves, SuspectMoves, DeadArePids DEF ReadFile
<1>4. CASE Busy(p)
  BY <1>4, GoMoves, StopMoves DEF Busy, FileRead, Dead
<1>5. CASE Age(p)
  BY <1>5, GoMoves, SuspectMoves DEF Age
<1>6. CASE Stat(p)
  BY <1>6, AnewMoves, StatMoves DEF Stat, Mishap
<1>7. CASE Claim(p)
  BY <1>7, GoMoves DEF Claim
<1>8. CASE Break(p)
  BY <1>8, GoMoves, AnewMoves DEF Break, Dead
<1>9. CASE Reclaim(p)
  BY <1>9, GoMoves DEF Reclaim, Dead
<1>10. CASE Again(p)
  BY <1>10, GoMoves, AnewMoves DEF Again
<1>11. CASE Verify(p)
  BY <1>11, GoMoves DEF Verify
<1>12. CASE Leave(p)
  BY <1>12, AnewMoves DEF Leave
<1>13. CASE Unlink(p)
  BY <1>13, GoMoves, DirTypes DEF Unlink
<1>14. CASE Rmdir(p)
  BY <1>14, RmdirMoves, DirTypes DEF Rmdir
<1>15. CASE Unclaim(p)
  BY <1>15, GoMoves, AnewMoves DEF Unclaim
<1>16. CASE Record(p)
  BY <1>16, AnewMoves DEF Record, Mishap
<1>17. CASE Mkdir(p)
  <2>1. \A i \in Ino : [ino |-> i, file |-> None, by |-> p, old |-> FALSE] \in Dir
    BY DEF Dir
  <2>2. \A i \in Ino : Untimely(i) \subseteq {"unknown holder", "no record"}
    BY DEF Untimely
  <2>. QED  BY <1>17, <2>1, <2>2, GoMoves DEF Mkdir
<1>18. CASE Write(p)
  BY <1>18, GoMoves DEF Write, Dir
<1>19. CASE Operated(p)
  BY <1>19, GoMoves DEF Operated
<1>20. CASE Release(p)
  BY <1>20, GoMoves, StopMoves DEF Release
<1>21. CASE Drop(p)
  BY <1>21, GoMoves, DirTypes DEF Drop
<1>22. CASE DropDir(p)
  BY <1>22, StopMoves, DirTypes DEF DropDir
<1>23. CASE Operate(p)
  BY <1>23, GoMoves DEF Operate
<1>24. CASE Close(p)
  BY <1>24, GoMoves DEF Close
<1>25. CASE Crash(p)
  BY <1>25, CrashMoves DEF Crash, Dead
<1>. QED
  BY <1>1, <1>2, <1>3, <1>4, <1>5, <1>6, <1>7, <1>8, <1>9, <1>10, <1>11, <1>12, <1>13, <1>14, <1>15, <1>16, <1>17, <1>18, <1>19, <1>20, <1>21, <1>22, <1>23, <1>24, <1>25 DEF Act, Step

-----------------------------------------------------------------------------
(* Suspicions and claims *)

LEMMA SuspicionsEndIf ==
  ASSUME SuspicionsEnd, NEW p \in Proc, NEW x, NEW v, NEW i, Moves(p, x, v, i),
         x \notin Suspecting => v = None,
         x \notin Suspecting \ {"stat"} => i = NoDir
  PROVE  SuspicionsEnd'
BY DEF SuspicionsEnd, Moves

LEMMA SuspicionsEndStep ==
  ASSUME TypeOK, SuspicionsEnd, NEW p \in Proc, Act(p)
  PROVE  SuspicionsEnd'
<1>. run \in [Proc -> Run]
  BY DEF TypeOK
<1>0. /\ run[p].pc \notin Suspecting => run[p].victim = None
      /\ run[p].pc \notin Suspecting \ {"stat"} => run[p].seen = NoDir
  BY DEF SuspicionsEnd
<1>1. CASE Begin(p) \/ Check(p) \/ Busy(p) \/ Mkdir(p) \/ Write(p)
  BY <1>0, <1>1, GoMoves, StopMoves, SuspicionsEndIf
     DEF Begin, Check, Busy, Mkdir, Write, At, Pc, Suspecting
<1>2. CASE ReadFile(p) \/ Age(p)
  BY <1>0, <1>2, GoMoves, SuspectMoves, DeadArePids, SuspicionsEndIf
     DEF ReadFile, Age, At, Pc, Suspecting
<1>3. CASE Stat(p)
  <2>1. CASE dir = NoDir
    BY <1>3, <2>1, AnewMoves, SuspicionsEndIf DEF Stat, Pc
  <2>2. CASE dir # NoDir
    BY <1>3, <2>2, StatMoves, SuspicionsEndIf DEF Suspecting
  <2>. QED  BY <2>1, <2>2
<1>4. CASE Claim(p) \/ Break(p)
  BY <1>4, GoMoves, AnewMoves, SuspicionsEndIf DEF Claim, Break, Pc, Suspecting
<1>5. CASE Reclaim(p) \/ Again(p)
  BY <1>5, GoMoves, AnewMoves, SuspicionsEndIf DEF Reclaim, Again, Pc, Suspecting
<1>6. CASE Verify(p)
  BY <1>6, GoMoves, SuspicionsEndIf DEF Verify, Pc, Suspecting
<1>7. CASE Leave(p) \/ Unlink(p) \/ Rmdir(p)
  BY <1>7, GoMoves, AnewMoves, RmdirMoves, SuspicionsEndIf DEF Leave, Unlink, Pc, Suspecting
<1>8. CASE Unclaim(p) \/ Record(p)
  <2>1. CASE Unclaim(p)
    BY <2>1, GoMoves, AnewMoves, SuspicionsEndIf DEF Unclaim, Pc, Suspecting
  <2>2. CASE Record(p)
    BY <2>2, AnewMoves, SuspicionsEndIf DEF Record, Pc, Suspecting
  <2>. QED  BY <1>8, <2>1, <2>2
<1>9. CASE Operated(p) \/ Release(p) \/ Drop(p) \/ DropDir(p) \/ Operate(p) \/ Close(p)
  BY <1>0, <1>9, GoMoves, StopMoves, SuspicionsEndIf
     DEF Operated, Release, Drop, DropDir, Operate, Close, At, Pc, Suspecting
<1>10. CASE Crash(p)
  BY <1>10, CrashMoves, SuspicionsEndIf
<1>. QED
  BY <1>1, <1>2, <1>3, <1>4, <1>5, <1>6, <1>7, <1>8, <1>9, <1>10 DEF Act, Step

\* A step is one process's, and that process lives.
LEMMA OthersStay ==
  ASSUME TypeOK, NEW p \in Proc, Act(p)
  PROVE  run[p].pc # "dead" /\ \A q \in Proc : q # p => run'[q] = run[q]
<1>. USE DEF TypeOK, Go, Anew, Stop, Suspect, At
<1>1. CASE Begin(p) \/ Check(p) \/ Busy(p) \/ Mkdir(p) \/ Write(p) \/ ReadFile(p) \/ Age(p)
  BY <1>1 DEF Begin, Check, Busy, Mkdir, Write, ReadFile, Age
<1>2. CASE Stat(p) \/ Claim(p) \/ Break(p) \/ Reclaim(p) \/ Again(p) \/ Verify(p)
  BY <1>2 DEF Stat, Claim, Break, Reclaim, Again, Verify
<1>3. CASE Leave(p) \/ Unlink(p) \/ Rmdir(p) \/ Unclaim(p) \/ Record(p)
  BY <1>3 DEF Leave, Unlink, Rmdir, Unclaim, Record
<1>4. CASE Operated(p) \/ Release(p) \/ Drop(p) \/ DropDir(p) \/ Operate(p) \/ Close(p)
  BY <1>4 DEF Operated, Release, Drop, DropDir, Operate, Close
<1>5. CASE Crash(p)
  BY <1>5 DEF Crash, Dead
<1>. QED
  BY <1>1, <1>2, <1>3, <1>4, <1>5 DEF Act, Step

LEMMA DeadGrows ==
  ASSUME TypeOK, NEW p \in Proc, Act(p)
  PROVE  Dead \subseteq Dead'
BY OthersStay DEF Dead

LEMMA VictimsDeadStep ==
  ASSUME TypeOK, VictimsDead, NEW p \in Proc, Act(p)
  PROVE  VictimsDead'
<1>1. run'[p].victim \in Dead \cup {None, run[p].victim}
  <2>. run \in [Proc -> Run]
    BY DEF TypeOK
  <2>. USE DEF Moves, At, Pc
  <2>1. CASE Begin(p) \/ Check(p) \/ Busy(p) \/ Mkdir(p) \/ Write(p)
    BY <2>1, GoMoves, StopMoves DEF Begin, Check, Busy, Mkdir, Write
  <2>2. CASE ReadFile(p) \/ Age(p)
    BY <2>2, GoMoves, SuspectMoves, DeadArePids DEF ReadFile, Age
  <2>3. CASE Stat(p)
    <3>1. CASE dir = NoDir
      BY <2>3, <3>1, AnewMoves DEF Stat
    <3>2. CASE dir # NoDir
      BY <2>3, <3>2, StatMoves
    <3>. QED  BY <3>1, <3>2
  <2>4. CASE Claim(p) \/ Break(p) \/ Reclaim(p)
    BY <2>4, GoMoves, AnewMoves DEF Claim, Break, Reclaim
  <2>5. CASE Again(p) \/ Verify(p)
    BY <2>5, GoMoves, AnewMoves DEF Again, Verify
  <2>6. CASE Leave(p) \/ Unlink(p) \/ Rmdir(p) \/ Unclaim(p) \/ Record(p)
    BY <2>6, GoMoves, AnewMoves, RmdirMoves DEF Leave, Unlink, Unclaim, Record
  <2>7. CASE Operated(p) \/ Release(p) \/ Drop(p) \/ DropDir(p) \/ Operate(p) \/ Close(p)
    BY <2>7, GoMoves, StopMoves DEF Operated, Release, Drop, DropDir, Operate, Close
  <2>8. CASE Crash(p)
    BY <2>8, CrashMoves
  <2>. QED
    BY <2>1, <2>2, <2>3, <2>4, <2>5, <2>6, <2>7, <2>8 DEF Act, Step
<1>. QED
  BY <1>1, OthersStay, DeadGrows, NamesAssumption DEF VictimsDead

\* Mishaps are not forgotten.
LEMMA MishapsGrow ==
  ASSUME NEW p \in Proc, Act(p)
  PROVE  mishaps \subseteq mishaps'
<1>. USE DEF Mishap
<1>1. CASE Begin(p) \/ Check(p) \/ Busy(p) \/ Mkdir(p) \/ Write(p) \/ ReadFile(p) \/ Age(p)
  BY <1>1 DEF Begin, Check, Busy, Mkdir, Write, ReadFile, Age
<1>2. CASE Stat(p) \/ Claim(p) \/ Break(p) \/ Reclaim(p) \/ Again(p) \/ Verify(p)
  BY <1>2 DEF Stat, Claim, Break, Reclaim, Again, Verify
<1>3. CASE Leave(p) \/ Unlink(p) \/ Rmdir(p) \/ Unclaim(p) \/ Record(p)
  BY <1>3 DEF Leave, Unlink, Rmdir, Unclaim, Record
<1>4. CASE Operated(p) \/ Release(p) \/ Drop(p) \/ DropDir(p) \/ Operate(p) \/ Close(p)
  BY <1>4 DEF Operated, Release, Drop, DropDir, Operate, Close
<1>5. CASE Crash(p)
  BY <1>5 DEF Crash
<1>. QED
  BY <1>1, <1>2, <1>3, <1>4, <1>5 DEF Act, Step

Claimed == \A q \in Proc : run[q].pc \in Claiming => claim = q

LEMMA ClaimedIf ==
  ASSUME Claimed, NEW p \in Proc, NEW x, NEW v, NEW i, Moves(p, x, v, i),
         claim' = claim, x \notin Claiming
  PROVE  Claimed'
BY DEF Claimed, Moves

LEMMA ClaimedWhileLooking ==
  ASSUME Claimed, run \in [Proc -> Run], NEW p \in Proc, UNCHANGED disk,
         \/ Go(p, "check") \/ Go(p, "mkdir") \/ Go(p, "read") \/ Go(p, "age") \/ Stop(p)
         \/ \E w \in Pid \cup {None} : Suspect(p, w)
  PROVE  Claimed'
<1>. claim' = claim
  BY DEF disk
<1>1. CASE Go(p, "check") \/ Go(p, "mkdir")
  BY <1>1, GoMoves, ClaimedIf DEF Pc, Claiming
<1>2. CASE Go(p, "read") \/ Go(p, "age")
  BY <1>2, GoMoves, ClaimedIf DEF Pc, Claiming
<1>3. CASE Stop(p)
  BY <1>3, StopMoves, ClaimedIf DEF Claiming
<1>4. CASE \E w \in Pid \cup {None} : Suspect(p, w)
  BY <1>4, SuspectMoves, ClaimedIf DEF Claiming
<1>. QED  BY <1>1, <1>2, <1>3, <1>4

LEMMA OneReaperStep ==
  ASSUME TypeOK, OneReaper, NEW p \in Proc, Act(p)
  PROVE  OneReaper'
<1>. SUFFICES ASSUME "claim broken" \notin mishaps, "claim broken" \notin mishaps', Claimed
              PROVE  Claimed'
  BY MishapsGrow DEF OneReaper, Claimed
<1>. run \in [Proc -> Run] /\ NoDir \notin Proc
  BY NamesAssumption DEF TypeOK, Pid
<1>0. UNCHANGED disk => claim' = claim
  BY DEF disk
<1>1. CASE Begin(p) \/ Check(p) \/ Busy(p)
  BY <1>1, ClaimedWhileLooking DEF Begin, Check, Busy
<1>2. CASE ReadFile(p) \/ Age(p)
  BY <1>2, DeadArePids, ClaimedWhileLooking DEF ReadFile, Age
<1>13. CASE Mkdir(p) \/ Write(p)
  BY <1>13, GoMoves, ClaimedIf DEF Mkdir, Write, Pc, Claiming
<1>3. CASE Stat(p)
  <2>1. CASE dir = NoDir
    BY <1>3, <2>1, AnewMoves, ClaimedIf DEF Stat, disk, Pc, Claiming
  <2>2. CASE dir # NoDir
    <3>. claim' = claim
      BY <1>3 DEF Stat, disk
    <3>. QED  BY <1>3, <2>2, StatMoves, ClaimedIf DEF Claiming
  <2>. QED  BY <2>1, <2>2
<1>4. CASE Claim(p) \/ Again(p)
  <2>1. CASE claim = NoDir
    <3>1. claim' = p /\ Moves(p, "verify", run[p].victim, run[p].seen)
      BY <1>4, <2>1, GoMoves DEF Claim, Again, Pc
    <3>. QED  BY <2>1, <3>1 DEF Claimed, Moves
  <2>2. CASE claim # NoDir
    BY <1>4, <2>2, GoMoves, AnewMoves, ClaimedIf DEF Claim, Again, Pc, Claiming
  <2>. QED  BY <2>1, <2>2
<1>5. CASE Break(p)
  <2>. claim' = claim
    BY <1>5 DEF Break, disk
  <2>. QED  BY <1>5, GoMoves, AnewMoves, ClaimedIf DEF Break, Pc, Claiming
<1>6. CASE Reclaim(p)
  <2>1. claim \notin Pid \ Dead
    BY <1>6 DEF Reclaim
  <2>2. \A q \in Proc : run[q].pc \in Claiming => q \in Pid \ Dead
    BY NamesAssumption DEF Dead, Pid, Claiming
  <2>3. \A q \in Proc : run[q].pc \notin Claiming
    BY <2>1, <2>2 DEF Claimed
  <2>4. Moves(p, "again", run[p].victim, run[p].seen)
    BY <1>6, GoMoves DEF Reclaim, Pc
  <2>. QED  BY <2>3, <2>4 DEF Claimed, Moves, Claiming
<1>7. CASE Verify(p)
  <2>. run[p].pc \in Claiming /\ claim' = claim
    BY <1>7 DEF Verify, At, Claiming, disk
  <2>. QED  BY OthersStay DEF Claimed
<1>8. CASE Leave(p) \/ Unclaim(p)
  <2>1. run[p].pc \in Claiming
    BY <1>8 DEF Leave, Unclaim, At, Claiming
  <2>2. \A q \in Proc : q # p => run[q].pc \notin Claiming
    BY <2>1 DEF Claimed
  <2>3. run'[p].pc \notin Claiming
    BY <1>8, GoMoves, AnewMoves DEF Leave, Unclaim, Moves, Pc, Claiming
  <2>. QED  BY <2>2, <2>3, OthersStay DEF Claimed
<1>9. CASE Unlink(p) \/ Rmdir(p)
  <2>. run[p].pc \in Claiming /\ claim' = claim
    BY <1>9 DEF Unlink, Rmdir, At, Claiming
  <2>. QED  BY OthersStay DEF Claimed
<1>12. CASE Record(p)
  BY <1>12, AnewMoves, ClaimedIf DEF Record, Pc, Claiming
<1>10. CASE Operated(p) \/ Release(p) \/ Drop(p) \/ DropDir(p) \/ Operate(p) \/ Close(p)
  <2>1. CASE Operated(p) \/ Operate(p) \/ Close(p)
    BY <1>0, <2>1, GoMoves, ClaimedIf DEF Operated, Operate, Close, Pc, Claiming
  <2>2. CASE Release(p) \/ Drop(p) \/ DropDir(p)
    BY <1>0, <2>2, GoMoves, StopMoves, ClaimedIf DEF Release, Drop, DropDir, Pc, Claiming
  <2>. QED  BY <1>10, <2>1, <2>2
<1>11. CASE Crash(p)
  BY <1>11, CrashMoves, ClaimedIf DEF Crash, disk, Claiming
<1>. QED
  BY <1>1, <1>2, <1>3, <1>4, <1>5, <1>6, <1>7, <1>8, <1>9, <1>10, <1>11, <1>12,
     <1>13 DEF Act, Step

-----------------------------------------------------------------------------
(* One writer *)

\* A process that looks, waits, claims or leaves changes nothing for the holders.
LEMMA QuietStep ==
  ASSUME TypeOK, Locked, NEW p \in Proc, dir' = dir, NEW x, NEW v, NEW i,
         Moves(p, x, v, i), x \notin HoldPc \cup {"unlink", "rmdir"},
         i = NoDir \/ (v = run[p].victim /\ i = run[p].seen)
  PROVE  Locked'
<1>. USE DEF Locked, Holding, HoldPc, Moves
<1>1. HoldersOwn'
  BY DEF HoldersOwn
<1>2. HoldersUnseen'
  <2>. SUFFICES ASSUME NEW h \in Proc, NEW q \in Proc, Holding(h)', run'[q].victim = None
                PROVE  run'[q].seen # dir.ino
    BY DEF HoldersUnseen
  <2>1. Holding(h)
    OBVIOUS
  <2>2. dir.ino # NoDir
    BY <2>1, NamesAssumption DEF HoldersOwn, TypeOK, Dir
  <2>. QED  BY <2>1, <2>2 DEF HoldersUnseen
<1>3. ReapsTheDead'
  BY DEF ReapsTheDead
<1>. QED  BY <1>1, <1>2, <1>3

\* A holder goes on with the lock in the same state.
LEMMA HolderStep ==
  ASSUME TypeOK, Locked, NEW p \in Proc, dir' = dir, NEW x \in HoldPc \ {"write", "dropdir"},
         run[p].pc \in HoldPc \ {"write", "dropdir"},
         Moves(p, x, run[p].victim, run[p].seen)
  PROVE  Locked'
<1>. USE DEF Locked, Holding, HoldPc, Moves
<1>1. HoldersOwn'
  BY DEF HoldersOwn
<1>2. HoldersUnseen'
  BY DEF HoldersUnseen
<1>3. ReapsTheDead'
  BY DEF ReapsTheDead
<1>. QED  BY <1>1, <1>2, <1>3

LEMMA LockedStep ==
  ASSUME TypeOK, SuspicionsEnd, VictimsDead, OneReaper, Locked, Innocent',
         NEW p \in Proc, Act(p)
  PROVE  Locked'
<1>1. Innocent /\ "claim broken" \notin mishaps
  BY MishapsGrow DEF Innocent
<1>. run \in [Proc -> Run]
  BY DEF TypeOK
<1>2. CASE Begin(p) \/ Check(p) \/ Busy(p)
  BY <1>2, GoMoves, StopMoves, QuietStep DEF Begin, Check, Busy, disk, HoldPc, Pc
<1>3. CASE ReadFile(p) \/ Age(p)
  <2>1. run[p].seen = NoDir
    BY <1>3 DEF ReadFile, Age, At, SuspicionsEnd, Suspecting
  <2>. QED
    BY <1>3, <2>1, GoMoves, SuspectMoves, DeadArePids, QuietStep
       DEF ReadFile, Age, disk, HoldPc, Pc
<1>4. CASE Stat(p)
  <2>1. CASE dir = NoDir
    BY <1>4, <2>1, AnewMoves, QuietStep DEF Stat, disk, HoldPc, Pc
  <2>2. CASE dir # NoDir
    <3>1. Moves(p, "claim", run[p].victim, dir.ino) /\ dir' = dir
      BY <1>4, <2>2, StatMoves DEF Stat, disk
    <3>2. run[p].victim = None => dir.file = Garbled \/ (dir.file = None /\ dir.old)
      BY <1>4, <2>2 DEF Stat, Innocent, Mishap, Unreadable
    <3>3. run[p].victim = None => \A h \in Proc : ~Holding(h)
      BY <3>2, NamesAssumption DEF Locked, HoldersOwn, Pid
    <3>. USE <3>1 DEF Locked, Holding, HoldPc, Moves
    <3>4. HoldersOwn'
      BY DEF HoldersOwn
    <3>5. HoldersUnseen'
      BY <3>3 DEF HoldersUnseen
    <3>6. ReapsTheDead'
      BY DEF ReapsTheDead
    <3>. QED  BY <3>4, <3>5, <3>6
  <2>. QED  BY <2>1, <2>2
<1>5. CASE Claim(p) \/ Break(p) \/ Reclaim(p)
  <2>1. CASE Claim(p) \/ Break(p)
    BY <2>1, GoMoves, AnewMoves, QuietStep DEF Claim, Break, disk, HoldPc, Pc
  <2>2. CASE Reclaim(p)
    <3>. Moves(p, "again", run[p].victim, run[p].seen) /\ dir' = dir
      BY <2>2, GoMoves DEF Reclaim, Pc
    <3>. QED  BY QuietStep DEF HoldPc
  <2>. QED  BY <1>5, <2>1, <2>2
<1>6. CASE Again(p)
  BY <1>6, GoMoves, AnewMoves, QuietStep DEF Again, HoldPc, Pc
<1>7. CASE Verify(p)
  <2>1. CASE ~Confirmed(p)
    <3>. Go(p, "leave") /\ dir' = dir
      BY <1>7, <2>1 DEF Verify, disk
    <3>. QED  BY GoMoves, QuietStep DEF HoldPc, Pc
  <2>2. CASE Confirmed(p)
    <3>1. Moves(p, "unlink", run[p].victim, run[p].seen) /\ dir' = dir
      BY <1>7, <2>2, GoMoves DEF Verify, disk, Pc
    <3>2. dir # NoDir /\ \A h \in Proc : ~Holding(h)
      <4>1. CASE run[p].victim \in Pid
        <5>1. dir # NoDir /\ dir.file = run[p].victim /\ dir.file \in Dead
          BY <2>2, <4>1 DEF Confirmed, VictimsDead
        <5>. QED
          BY <5>1, NamesAssumption DEF Dead, Locked, HoldersOwn, Holding, HoldPc, Pid
      <4>2. CASE run[p].victim \notin Pid
        <5>1. run[p].victim = None
          BY <4>2 DEF Run
        <5>2. dir # NoDir /\ (dir.file = Garbled \/ dir.ino = run[p].seen)
          BY <2>2, <4>2 DEF Confirmed
        <5>. QED
          BY <5>1, <5>2, NamesAssumption DEF Locked, HoldersOwn, HoldersUnseen, Pid
      <4>. QED  BY <4>1, <4>2
    <3>. USE <3>1, <3>2 DEF Locked, Holding, HoldPc, Moves
    <3>4. HoldersOwn'
      BY DEF HoldersOwn
    <3>5. HoldersUnseen'
      BY DEF HoldersUnseen
    <3>6. ReapsTheDead'
      BY DEF ReapsTheDead
    <3>. QED  BY <3>4, <3>5, <3>6
  <2>. QED  BY <2>1, <2>2
<1>8. CASE Leave(p) \/ Unclaim(p) \/ Record(p)
  <2>1. CASE Leave(p)
    BY <2>1, AnewMoves, QuietStep DEF Leave, HoldPc, Pc
  <2>2. CASE Unclaim(p)
    BY <2>2, GoMoves, AnewMoves, QuietStep DEF Unclaim, HoldPc, Pc
  <2>3. CASE Record(p)
    BY <2>3, AnewMoves, QuietStep DEF Record, HoldPc, Pc
  <2>. QED  BY <1>8, <2>1, <2>2, <2>3
<1>9. CASE Unlink(p)
  <2>1. Moves(p, "rmdir", run[p].victim, run[p].seen)
    BY <1>9, GoMoves DEF Unlink, Pc
  <2>2. dir # NoDir /\ \A h \in Proc : ~Holding(h)
    BY <1>9 DEF Unlink, At, Locked, ReapsTheDead
  <2>3. dir' # NoDir
    BY <1>9, <2>2, NamesAssumption DEF Unlink, Unlinked, TypeOK, Dir
  <2>4. \A h \in Proc : ~Holding(h)'
    BY <2>1, <2>2 DEF Moves, Holding, HoldPc
  <2>. QED
    BY <2>3, <2>4 DEF Locked, HoldersOwn, HoldersUnseen, ReapsTheDead
<1>10. CASE Rmdir(p)
  <2>1. Moves(p, "unclaim", run[p].victim, run[p].seen)
    BY <1>10, RmdirMoves
  <2>2. dir # NoDir /\ \A h \in Proc : ~Holding(h)
    BY <1>10 DEF Rmdir, At, Locked, ReapsTheDead
  <2>3. \A h \in Proc : ~Holding(h)'
    BY <2>1, <2>2 DEF Moves, Holding, HoldPc
  <2>4. \A q \in Proc : run'[q].pc \notin {"unlink", "rmdir"}
    BY <1>1, <1>10, <2>1 DEF Rmdir, At, Moves, OneReaper, Claiming
  <2>. QED
    BY <2>3, <2>4 DEF Locked, HoldersOwn, HoldersUnseen, ReapsTheDead
<1>11. CASE Mkdir(p)
  <2>1. CASE dir # NoDir
    BY <1>11, <2>1, GoMoves, QuietStep DEF Mkdir, HoldPc, Pc
  <2>2. CASE dir = NoDir
    <3>1. PICK i \in Ino :
            /\ dir' = [ino |-> i, file |-> None, by |-> p, old |-> FALSE]
            /\ mishaps' = mishaps \cup Untimely(i)
      BY <1>11, <2>2 DEF Mkdir
    <3>2. Moves(p, "write", run[p].victim, run[p].seen)
      BY <1>11, <2>2, GoMoves DEF Mkdir, Pc
    <3>3. \A h \in Proc : ~Holding(h)
      BY <2>2 DEF Locked, HoldersOwn
    <3>4. \A q \in Proc : run[q].victim = None => run[q].seen # i
      BY <3>1 DEF Untimely, Innocent
    <3>5. \A q \in Proc : run[q].pc \notin {"unlink", "rmdir"}
      BY <2>2 DEF Locked, ReapsTheDead
    <3>6. dir' # NoDir
      <4>. dir' \in Dir
        BY <3>1 DEF Dir, Pid
      <4>. QED  BY NamesAssumption
    <3>. USE DEF Locked, Holding, HoldPc, Moves
    <3>7. HoldersOwn'
      BY <3>1, <3>2, <3>3, <3>6 DEF HoldersOwn
    <3>8. HoldersUnseen'
      BY <3>1, <3>2, <3>4 DEF HoldersUnseen
    <3>9. ReapsTheDead'
      BY <3>2, <3>5 DEF ReapsTheDead
    <3>. QED  BY <3>7, <3>8, <3>9
  <2>. QED  BY <2>1, <2>2
<1>12. CASE Write(p)
  <2>1. dir # NoDir /\ dir.by = p /\ Holding(p)
    BY <1>12 DEF Write, At, Locked, HoldersOwn, Holding, HoldPc
  <2>2. /\ Moves(p, "open", run[p].victim, run[p].seen)
        /\ dir' = [dir EXCEPT !.file = p]
    BY <1>12, <2>1, GoMoves DEF Write, Pc
  <2>3. dir \in Dir /\ dir' \in Dir
    BY <2>1, <2>2 DEF TypeOK, Dir, Pid
  <2>4. \A h \in Proc : Holding(h)' => h = p
    BY <2>1, <2>2 DEF Locked, HoldersOwn, Moves, Holding, HoldPc
  <2>5. dir' # NoDir /\ dir'.by = p /\ dir'.file = p /\ dir'.ino = dir.ino
    BY <2>1, <2>2, <2>3, NamesAssumption DEF Dir
  <2>. USE DEF Locked, Holding, HoldPc, Moves
  <2>6. HoldersOwn'
    BY <2>2, <2>4, <2>5 DEF HoldersOwn
  <2>7. HoldersUnseen'
    BY <2>1, <2>2, <2>4, <2>5 DEF HoldersUnseen
  <2>8. ReapsTheDead'
    BY <2>1, <2>2 DEF ReapsTheDead
  <2>. QED  BY <2>6, <2>7, <2>8
<1>13. CASE Operated(p) \/ Operate(p) \/ Close(p)
  BY <1>13, GoMoves, HolderStep DEF Operated, Operate, Close, At, disk, HoldPc, Pc
<1>14. CASE Release(p)
  BY <1>14, GoMoves, StopMoves, HolderStep, QuietStep DEF Release, At, disk, HoldPc, Pc
<1>15. CASE Drop(p)
  <2>1. dir # NoDir /\ dir.by = p /\ Holding(p)
    BY <1>15 DEF Drop, At, Locked, HoldersOwn, Holding, HoldPc
  <2>2. /\ Moves(p, "dropdir", run[p].victim, run[p].seen)
        /\ dir' = [dir EXCEPT !.file = None, !.old = FALSE]
    BY <1>15, <2>1, GoMoves DEF Drop, Unlinked, Pc
  <2>3. dir \in Dir /\ dir' \in Dir
    BY <2>1, <2>2 DEF TypeOK, Dir
  <2>4. \A h \in Proc : Holding(h)' => h = p
    BY <2>1, <2>2 DEF Locked, HoldersOwn, Moves, Holding, HoldPc
  <2>5. dir' # NoDir /\ dir'.by = p /\ dir'.file = None /\ ~dir'.old /\ dir'.ino = dir.ino
    BY <2>1, <2>2, <2>3, NamesAssumption DEF Dir
  <2>. USE DEF Locked, Holding, HoldPc, Moves
  <2>6. HoldersOwn'
    BY <2>2, <2>4, <2>5 DEF HoldersOwn
  <2>7. HoldersUnseen'
    BY <2>1, <2>2, <2>4, <2>5 DEF HoldersUnseen
  <2>8. ReapsTheDead'
    BY <2>1, <2>2 DEF ReapsTheDead
  <2>. QED  BY <2>6, <2>7, <2>8
<1>16. CASE DropDir(p)
  <2>1. dir # NoDir /\ dir.by = p /\ Holding(p)
    BY <1>16 DEF DropDir, At, Locked, HoldersOwn, Holding, HoldPc
  <2>2. Moves(p, "idle", None, NoDir)
    BY <1>16, StopMoves DEF DropDir
  <2>3. \A h \in Proc : ~Holding(h)'
    BY <2>1, <2>2 DEF Locked, HoldersOwn, Moves, Holding, HoldPc
  <2>4. \A q \in Proc : run'[q].pc \notin {"unlink", "rmdir"}
    BY <2>1, <2>2 DEF Moves, Locked, ReapsTheDead
  <2>. QED
    BY <2>3, <2>4 DEF Locked, HoldersOwn, HoldersUnseen, ReapsTheDead
<1>17. CASE Crash(p)
  BY <1>17, CrashMoves, QuietStep DEF Crash, disk, HoldPc
<1>. QED
  BY <1>2, <1>3, <1>4, <1>5, <1>6, <1>7, <1>8, <1>9, <1>10, <1>11, <1>12, <1>13,
     <1>14, <1>15, <1>16, <1>17 DEF Act, Step

-----------------------------------------------------------------------------
(* Surgery *)

LEMMA QuietAlone ==
  ASSUME TypeOK, Alone, NEW p \in Proc, dir' = dir, NEW x, NEW v, NEW i,
         Moves(p, x, v, i), x \notin HoldPc \cup {"unlink", "rmdir"},
         Unrecorded(p) => Unrecorded(p)'
  PROVE  Alone'
<1>. USE DEF Alone, Holding, HoldPc, Moves
<1>1. OneHolder'
  <2>1. \A q \in Proc : Unrecorded(q) => Unrecorded(q)'
    BY DEF Unrecorded
  <2>. QED  BY <2>1 DEF OneHolder
<1>2. NamesItsMaker'
  BY DEF NamesItsMaker
<1>3. ReapsTheVictim'
  BY DEF ReapsTheVictim
<1>. QED  BY <1>1, <1>2, <1>3

LEMMA HolderAlone ==
  ASSUME TypeOK, Alone, NEW p \in Proc, dir' = dir, NEW x \in HoldPc,
         run[p].pc \in HoldPc, Moves(p, x, run[p].victim, run[p].seen)
  PROVE  Alone'
<1>. USE DEF Alone, Holding, HoldPc, Moves
<1>1. OneHolder'
  <2>1. \A q \in Proc : Unrecorded(q) => Unrecorded(q)'
    BY DEF Unrecorded
  <2>. QED  BY <2>1 DEF OneHolder
<1>2. NamesItsMaker'
  BY DEF NamesItsMaker
<1>3. ReapsTheVictim'
  BY DEF ReapsTheVictim
<1>. QED  BY <1>1, <1>2, <1>3

LEMMA AloneStep ==
  ASSUME TypeOK, SuspicionsEnd, VictimsDead, OneReaper, Alone, Unmarked, Unmarked',
         NEW p \in Proc, Act(p)
  PROVE  Alone'
<1>1. /\ "claim broken" \notin mishaps
      /\ "claim broken" \notin mishaps' /\ "no record" \notin mishaps'
      /\ ~marker'
  BY DEF Unmarked
<1>. run \in [Proc -> Run]
  BY DEF TypeOK
<1>2. CASE Begin(p) \/ Check(p) \/ Busy(p)
  BY <1>2, GoMoves, StopMoves, QuietAlone DEF Begin, Check, Busy, disk, HoldPc, Pc, At, Unrecorded
<1>3. CASE ReadFile(p) \/ Age(p)
  BY <1>3, GoMoves, SuspectMoves, DeadArePids, QuietAlone
     DEF ReadFile, Age, disk, HoldPc, Pc, At, Unrecorded
<1>4. CASE Stat(p)
  <2>1. CASE dir = NoDir
    BY <1>4, <2>1, AnewMoves, QuietAlone DEF Stat, disk, HoldPc, Pc, At, Unrecorded
  <2>2. CASE dir # NoDir
    <3>. Moves(p, "claim", run[p].victim, dir.ino) /\ dir' = dir /\ ~Unrecorded(p)
      BY <1>4, <2>2, StatMoves DEF Stat, disk, At, Unrecorded
    <3>. QED  BY QuietAlone DEF HoldPc
  <2>. QED  BY <2>1, <2>2
<1>5. CASE Claim(p) \/ Break(p) \/ Reclaim(p)
  <2>1. CASE Claim(p) \/ Break(p)
    BY <2>1, GoMoves, AnewMoves, QuietAlone DEF Claim, Break, disk, HoldPc, Pc, At, Unrecorded
  <2>2. CASE Reclaim(p)
    <3>. /\ Moves(p, "again", run[p].victim, run[p].seen) /\ dir' = dir
         /\ ~Unrecorded(p)
      BY <2>2, GoMoves DEF Reclaim, Pc, At, Unrecorded
    <3>. QED  BY QuietAlone DEF HoldPc
  <2>. QED  BY <1>5, <2>1, <2>2
<1>6. CASE Again(p)
  BY <1>6, GoMoves, AnewMoves, QuietAlone DEF Again, HoldPc, Pc, At, Unrecorded
<1>7. CASE Verify(p)
  <2>1. CASE ~Confirmed(p)
    <3>. Go(p, "leave") /\ dir' = dir /\ run[p].pc = "verify"
      BY <1>7, <2>1 DEF Verify, disk, At
    <3>. QED  BY GoMoves, QuietAlone DEF HoldPc, Pc, Unrecorded
  <2>2. CASE Confirmed(p)
    <3>1. Moves(p, "unlink", run[p].victim, run[p].seen) /\ dir' = dir /\ run[p].pc = "verify"
      BY <1>7, <2>2, GoMoves DEF Verify, disk, Pc, At
    <3>2. CASE run[p].victim \in Pid
      <4>1. dir # NoDir /\ dir.file \in Dead /\ dir.by = dir.file
        BY <2>2, <3>2 DEF Confirmed, VictimsDead, Alone, NamesItsMaker
      <4>2. \A h \in Proc : Holding(h) => dir.by # h
        BY <4>1, NamesAssumption DEF Dead, Holding, HoldPc, Pid
      <4>. USE <3>1 DEF Alone, Holding, HoldPc, Moves
      <4>3. OneHolder'
        BY DEF OneHolder, Unrecorded
      <4>4. NamesItsMaker'
        BY DEF NamesItsMaker
      <4>5. ReapsTheVictim'
        BY <4>1, <4>2 DEF ReapsTheVictim
      <4>. QED  BY <4>3, <4>4, <4>5
    <3>3. CASE run[p].victim \notin Pid
      <4>. USE <3>1 DEF Alone, Holding, HoldPc, Moves
      <4>3. OneHolder'
        BY DEF OneHolder, Unrecorded
      <4>4. NamesItsMaker'
        BY DEF NamesItsMaker
      <4>5. ReapsTheVictim'
        BY <3>3 DEF ReapsTheVictim
      <4>. QED  BY <4>3, <4>4, <4>5
    <3>. QED  BY <3>2, <3>3
  <2>. QED  BY <2>1, <2>2
<1>8. CASE Leave(p) \/ Unclaim(p)
  BY <1>8, GoMoves, AnewMoves, QuietAlone DEF Leave, Unclaim, HoldPc, Pc, At, Unrecorded, Moves
<1>9. CASE Record(p)
  BY <1>1, <1>9 DEF Record, Mishap
<1>10. CASE Unlink(p)
  <2>1. Moves(p, "rmdir", run[p].victim, run[p].seen) /\ run[p].pc = "unlink"
    BY <1>10, GoMoves DEF Unlink, Pc, At
  <2>2. (dir' = NoDir <=> dir = NoDir) /\ (dir # NoDir => dir'.by = dir.by /\ dir'.file = None)
    BY <1>10, NamesAssumption DEF Unlink, Unlinked, TypeOK, Dir
  <2>3. \A q \in Proc : q # p => run'[q].pc \notin {"unlink", "rmdir"}
    BY <1>1, <2>1 DEF Moves, OneReaper, Claiming
  <2>. USE <2>1, <2>2 DEF Alone, Holding, HoldPc, Moves
  <2>4. OneHolder'
    BY DEF OneHolder, Unrecorded
  <2>5. NamesItsMaker'
    BY NamesAssumption DEF NamesItsMaker
  <2>6. ReapsTheVictim'
    BY <2>3 DEF ReapsTheVictim
  <2>. QED  BY <2>4, <2>5, <2>6
<1>11. CASE Rmdir(p)
  <2>1. Moves(p, "unclaim", run[p].victim, run[p].seen) /\ run[p].pc = "rmdir"
    BY <1>11, RmdirMoves DEF Rmdir, At
  <2>2. dir' \in {dir, NoDir}
    BY <1>11 DEF Rmdir, Emptied
  <2>3. \A q \in Proc : run'[q].pc \notin {"unlink", "rmdir"}
    BY <1>1, <2>1 DEF Moves, OneReaper, Claiming
  <2>4. \A q \in Proc : Unrecorded(q) => Unrecorded(q)'
    BY <2>1 DEF Unrecorded, Moves
  <2>5. \A h \in Proc : Holding(h)' => Holding(h) /\ h # p
    BY <2>1 DEF Holding, HoldPc, Moves
  <2>. USE DEF Alone
  <2>6. OneHolder'
    <3>1. CASE dir' = dir
      BY <2>4, <2>5, <3>1 DEF OneHolder
    <3>2. CASE dir # NoDir /\ dir' = NoDir
      <4>1. CASE run[p].victim = None
        <5>. Unrecorded(p)'
          BY <2>1, <4>1 DEF Unrecorded, Moves
        <5>. QED  BY <2>5, <3>2 DEF OneHolder
      <4>2. CASE run[p].victim # None
        <5>1. run[p].victim \in Pid
          BY <4>2 DEF Run
        <5>2. \A h \in Proc : Holding(h) => dir.by # h
          BY <2>1, <5>1 DEF ReapsTheVictim
        <5>. QED  BY <2>5, <3>2, <5>2 DEF OneHolder
      <4>. QED  BY <4>1, <4>2
    <3>. QED  BY <2>2, <3>1, <3>2
  <2>7. NamesItsMaker'
    BY <2>2 DEF NamesItsMaker
  <2>8. ReapsTheVictim'
    BY <2>3 DEF ReapsTheVictim
  <2>. QED  BY <2>6, <2>7, <2>8
<1>12. CASE Mkdir(p)
  <2>1. CASE dir # NoDir
    BY <1>12, <2>1, GoMoves, QuietAlone DEF Mkdir, HoldPc, Pc, At, Unrecorded
  <2>2. CASE dir = NoDir
    <3>1. PICK i \in Ino :
            /\ dir' = [ino |-> i, file |-> None, by |-> p, old |-> FALSE]
            /\ mishaps' = mishaps \cup Untimely(i)
      BY <1>12, <2>2 DEF Mkdir
    <3>2. Moves(p, "write", run[p].victim, run[p].seen)
      BY <1>12, <2>2, GoMoves DEF Mkdir, Pc
    <3>3. \A q \in Proc : ~Unrecorded(q)
      BY <1>1, <3>1 DEF Untimely
    <3>4. \A h \in Proc : ~Holding(h)
      BY <2>2, <3>3 DEF Alone, OneHolder
    <3>5. \A q \in Proc : run[q].pc \in {"unlink", "rmdir"} => run[q].victim \notin Pid
      BY <2>2 DEF Alone, ReapsTheVictim
    <3>6. dir' # NoDir
      <4>. dir' \in Dir
        BY <3>1 DEF Dir, Pid
      <4>. QED  BY NamesAssumption
    <3>. USE DEF Alone, Holding, HoldPc, Moves
    <3>7. OneHolder'
      BY <3>1, <3>2, <3>4, <3>6 DEF OneHolder
    <3>8. NamesItsMaker'
      BY <3>1, NamesAssumption DEF NamesItsMaker
    <3>9. ReapsTheVictim'
      BY <3>2, <3>5 DEF ReapsTheVictim
    <3>. QED  BY <3>7, <3>8, <3>9
  <2>. QED  BY <2>1, <2>2
<1>13. CASE Write(p)
  <2>1. CASE dir = NoDir
    BY <1>13, <2>1, GoMoves, QuietAlone DEF Write, HoldPc, Pc, At, Unrecorded
  <2>2. CASE dir # NoDir
    <3>1. /\ Moves(p, "open", run[p].victim, run[p].seen)
          /\ dir' = [dir EXCEPT !.file = p] /\ Holding(p)
      BY <1>13, <2>2, GoMoves DEF Write, Pc, At, Holding, HoldPc
    <3>2. dir \in Dir /\ dir' \in Dir /\ dir.by = p
      BY <2>2, <3>1 DEF TypeOK, Dir, Pid, Alone, OneHolder
    <3>3. dir' # NoDir /\ dir'.by = p /\ dir'.file = p
      BY <3>1, <3>2, NamesAssumption DEF Dir
    <3>4. \A h \in Proc : Holding(h)' => h = p
      BY <3>1 DEF Alone, OneHolder, Moves, Holding, HoldPc
    <3>. USE DEF Alone
    <3>5. OneHolder'
      BY <3>3, <3>4 DEF OneHolder
    <3>6. NamesItsMaker'
      BY <3>3 DEF NamesItsMaker
    <3>7. ReapsTheVictim'
      BY <3>1, <3>2 DEF ReapsTheVictim, Moves, Holding, HoldPc
    <3>. QED  BY <3>5, <3>6, <3>7
  <2>. QED  BY <2>1, <2>2
<1>14. CASE Operated(p) \/ Operate(p) \/ Close(p)
  BY <1>14, GoMoves, HolderAlone DEF Operated, Operate, Close, At, disk, HoldPc, Pc
<1>15. CASE Release(p)
  BY <1>15, GoMoves, StopMoves, HolderAlone, QuietAlone
     DEF Release, At, disk, HoldPc, Pc, Unrecorded
<1>16. CASE Drop(p)
  <2>1. Moves(p, "dropdir", run[p].victim, run[p].seen) /\ Holding(p) /\ run[p].pc = "drop"
    BY <1>16, GoMoves DEF Drop, Pc, At, Holding, HoldPc
  <2>2. (dir' = NoDir <=> dir = NoDir) /\ (dir # NoDir => dir'.by = dir.by /\ dir'.file = None)
    BY <1>16, NamesAssumption DEF Drop, Unlinked, TypeOK, Dir
  <2>3. \A q \in Proc : run[q].pc \in {"unlink", "rmdir"} => run[q].victim \notin Pid
    BY <2>1 DEF Alone, OneHolder, ReapsTheVictim
  <2>. USE <2>1, <2>2 DEF Alone, Holding, HoldPc, Moves
  <2>4. OneHolder'
    BY DEF OneHolder, Unrecorded
  <2>5. NamesItsMaker'
    BY NamesAssumption DEF NamesItsMaker
  <2>6. ReapsTheVictim'
    BY <2>3 DEF ReapsTheVictim
  <2>. QED  BY <2>4, <2>5, <2>6
<1>17. CASE DropDir(p)
  <2>1. Moves(p, "idle", None, NoDir) /\ Holding(p)
    BY <1>17, StopMoves DEF DropDir, At, Holding, HoldPc
  <2>2. dir' \in {dir, NoDir}
    BY <1>17 DEF DropDir, Emptied
  <2>3. \A q \in Proc : run[q].pc \in {"unlink", "rmdir"} => run[q].victim \notin Pid
    BY <2>1 DEF Alone, OneHolder, ReapsTheVictim
  <2>4. \A h \in Proc : ~Holding(h)'
    BY <2>1 DEF Alone, OneHolder, Moves, Holding, HoldPc
  <2>5. NamesItsMaker'
    BY <2>2 DEF Alone, NamesItsMaker
  <2>6. ReapsTheVictim'
    BY <2>1, <2>3 DEF ReapsTheVictim, Moves
  <2>. QED  BY <2>4, <2>5, <2>6 DEF Alone, OneHolder
<1>18. CASE Crash(p)
  <2>. ~Unrecorded(p) /\ dir' = dir
    BY <1>1, <1>18 DEF Crash, disk
  <2>. QED  BY <1>18, CrashMoves, QuietAlone DEF HoldPc
<1>. QED
  BY <1>2, <1>3, <1>4, <1>5, <1>6, <1>7, <1>8, <1>9, <1>10, <1>11, <1>12, <1>13,
     <1>14, <1>15, <1>16, <1>17, <1>18 DEF Act, Step

-----------------------------------------------------------------------------
(* Time and disks *)

\* Nothing but the age of the lock changes, and nobody is about to write its file
\* or to remove the directory.
LEMMA WaitStep ==
  ASSUME IInv, Wait
  PROVE  IInv'
<1>1. dir # NoDir /\ dir' = [dir EXCEPT !.old = TRUE] /\ dir \in Dir
  BY DEF Wait, IInv, TypeOK
<1>2. dir' \in Dir
  BY <1>1 DEF Dir
<1>3. /\ dir' # NoDir
      /\ dir'.by = dir.by /\ dir'.file = dir.file /\ dir'.ino = dir.ino
  BY <1>1, <1>2, NamesAssumption DEF Dir
<1>4. UNCHANGED <<claim, marker, run, mishaps>>
  BY DEF Wait
<1>5. (TypeOK /\ SuspicionsEnd /\ VictimsDead /\ OneReaper)'
  BY <1>2, <1>4 DEF IInv, TypeOK, SuspicionsEnd, VictimsDead, Dead, OneReaper
<1>6. HeldByOne'
  <2>. SUFFICES ASSUME Locked
                PROVE  Locked'
    BY <1>4 DEF IInv, HeldByOne, Locked, Innocent
  <2>1. \A p \in Proc : run[p].pc \notin {"write", "dropdir"}
    BY DEF Wait
  <2>. QED
    BY <1>1, <1>3, <1>4, <2>1
       DEF Locked, HoldersOwn, HoldersUnseen, ReapsTheDead, Holding, HoldPc
<1>7. NobodyLost'
  <2>. SUFFICES ASSUME Alone
                PROVE  Alone'
    BY <1>4 DEF IInv, NobodyLost, Alone, Unmarked
  <2>. QED
    BY <1>1, <1>3, <1>4
       DEF Alone, OneHolder, NamesItsMaker, ReapsTheVictim, Holding, HoldPc, Unrecorded
<1>. QED  BY <1>5, <1>6, <1>7 DEF IInv

LEMMA GarbleStep ==
  ASSUME IInv, Garble
  PROVE  IInv'
<1>1. /\ dir # NoDir /\ dir.file \in Pid
      /\ dir' = [dir EXCEPT !.file = Garbled] /\ dir \in Dir
  BY DEF Garble, IInv, TypeOK
<1>2. dir' \in Dir
  BY <1>1 DEF Dir
<1>3. dir' # NoDir /\ dir'.by = dir.by /\ dir'.file = Garbled /\ dir'.ino = dir.ino
  BY <1>1, <1>2, NamesAssumption DEF Dir
<1>4. UNCHANGED <<claim, marker, run>> /\ mishaps \subseteq mishaps'
  BY DEF Garble, Mishap
<1>5. (TypeOK /\ SuspicionsEnd /\ VictimsDead)'
  BY <1>2, <1>4 DEF Garble, Mishap, IInv, TypeOK, SuspicionsEnd, VictimsDead, Dead
<1>6. OneReaper'
  BY <1>4 DEF IInv, OneReaper
<1>7. HeldByOne'
  <2>. SUFFICES ASSUME Locked, Innocent'
                PROVE  Locked'
    BY <1>4 DEF IInv, HeldByOne, Locked, Innocent
  <2>1. dir.file \in Dead
    <3>. SUFFICES ASSUME dir.file \notin Dead
                  PROVE  FALSE
      OBVIOUS
    <3>. "unknown holder" \in mishaps'
      BY DEF Garble, Mishap
    <3>. QED  BY DEF Innocent
  <2>2. \A h \in Proc : ~Holding(h)
    BY <1>1, <2>1, NamesAssumption DEF Locked, HoldersOwn, Holding, HoldPc, Dead, Pid
  <2>. QED
    BY <1>1, <1>3, <1>4, <2>2
       DEF Locked, HoldersOwn, HoldersUnseen, ReapsTheDead, Holding, HoldPc
<1>8. NobodyLost'
  <2>. SUFFICES ASSUME Alone
                PROVE  Alone'
    BY <1>4 DEF IInv, NobodyLost, Alone, Unmarked
  <2>. QED
    BY <1>1, <1>3, <1>4, NamesAssumption
       DEF Alone, OneHolder, NamesItsMaker, ReapsTheVictim, Holding, HoldPc, Unrecorded
<1>. QED  BY <1>5, <1>6, <1>7, <1>8 DEF IInv

\* The marker goes.  If what it stood for is over, everything is in order again.
LEMMA ExpireStep ==
  ASSUME IInv, Expire
  PROVE  IInv'
<1>1. UNCHANGED <<dir, claim, run>> /\ mishaps \subseteq mishaps'
  BY DEF Expire, Mishap
<1>2. (TypeOK /\ SuspicionsEnd /\ VictimsDead)'
  BY <1>1 DEF Expire, Mishap, IInv, TypeOK, SuspicionsEnd, VictimsDead, Dead
<1>3. OneReaper'
  BY <1>1 DEF IInv, OneReaper
<1>4. HeldByOne'
  <2>. SUFFICES ASSUME Locked
                PROVE  Locked'
    BY <1>1 DEF IInv, HeldByOne, Locked, Innocent, Expire, Mishap
  <2>. QED
    BY <1>1 DEF Locked, HoldersOwn, HoldersUnseen, ReapsTheDead, Holding
<1>5. NobodyLost'
  <2>. SUFFICES ASSUME Unmarked'
                PROVE  Alone'
    BY DEF NobodyLost, Alone
  <2>1. ~Unsettled
    <3>1. "outlived" \notin mishaps'
      BY DEF Unmarked
    <3>2. Unsettled => mishaps' = mishaps \cup {"outlived"}
      BY DEF Expire, Mishap
    <3>. QED  BY <3>1, <3>2
  <2>2. \A p \in Proc : Holding(p) => dir # NoDir /\ dir.by = p
    BY <2>1 DEF Unsettled, MadeBy
  <2>3. OneHolder
    BY <2>2 DEF OneHolder
  <2>4. NamesItsMaker
    BY <2>1 DEF Unsettled, MadeBy, NamesItsMaker
  <2>5. ReapsTheVictim
    <3>. SUFFICES ASSUME NEW q \in Proc, run[q].pc \in {"unlink", "rmdir"},
                         run[q].victim \in Pid
                  PROVE  dir # NoDir /\ \A p \in Proc : Holding(p) => dir.by # p
      BY DEF ReapsTheVictim
    <3>1. dir # NoDir /\ dir.by = run[q].victim
      BY <2>1 DEF Unsettled, MadeBy
    <3>2. run[q].victim \in Dead
      BY DEF IInv, VictimsDead
    <3>3. \A p \in Proc : Holding(p) => p \notin Dead
      BY NamesAssumption DEF Holding, HoldPc, Dead
    <3>. QED  BY <3>1, <3>2, <3>3
  <2>. QED
    BY <1>1, <2>3, <2>4, <2>5
       DEF Alone, OneHolder, NamesItsMaker, ReapsTheVictim, Holding, Unrecorded
<1>. QED  BY <1>2, <1>3, <1>4, <1>5 DEF IInv

-----------------------------------------------------------------------------
(* The theorems *)

LEMMA InitIInv == Init => IInv
<1>. SUFFICES ASSUME Init
              PROVE  IInv
  OBVIOUS
<1>1. \A p \in Proc : run[p] = Idle
  BY DEF Init
<1>2. TypeOK
  <2>1. dir \in Dir \cup {NoDir}
    <3>1. \A i \in Ino, f \in {Past, None, Garbled} :
            [ino |-> i, file |-> f, by |-> Past, old |-> FALSE] \in Dir
      BY DEF Dir, Pid
    <3>. QED  BY <3>1 DEF Init
  <2>2. Idle \in Run
    BY DEF Run, Idle, Pc
  <2>. QED  BY <2>1, <2>2 DEF Init, TypeOK, Pid
<1>3. SuspicionsEnd /\ VictimsDead /\ OneReaper
  <2>1. \A p \in Proc : run[p].pc = "idle" /\ run[p].victim = None /\ run[p].seen = NoDir
    BY <1>1 DEF Idle
  <2>2. None \notin Pid
    BY NamesAssumption
  <2>3. SuspicionsEnd
    BY <2>1 DEF SuspicionsEnd
  <2>4. VictimsDead
    BY <2>1, <2>2 DEF VictimsDead
  <2>5. OneReaper
    BY <2>1 DEF OneReaper, Claiming
  <2>. QED  BY <2>3, <2>4, <2>5
<1>4. \A p \in Proc : ~Holding(p) /\ run[p].pc \notin {"unlink", "rmdir"}
  BY <1>1 DEF Holding, HoldPc, Idle
<1>5. NamesItsMaker
  BY NamesAssumption DEF Init, NamesItsMaker
<1>. QED
  BY <1>2, <1>3, <1>4, <1>5
     DEF IInv, HeldByOne, Locked, HoldersOwn, HoldersUnseen, ReapsTheDead,
         NobodyLost, Alone, OneHolder, ReapsTheVictim

LEMMA UnmarkedBefore ==
  ASSUME TypeOK, NEW p \in Proc, Act(p), Unmarked'
  PROVE  Unmarked
<1>1. mishaps \subseteq mishaps'
  BY MishapsGrow
<1>2. marker => marker'
  <2>1. CASE Record(p)
    <3>1. ~marker' /\ "no record" \notin mishaps'
      BY DEF Unmarked
    <3>2. marker' = TRUE \/ mishaps' = mishaps \cup {"no record"}
      BY <2>1 DEF Record, Mishap
    <3>. QED  BY <3>1, <3>2
  <2>2. CASE ~Record(p)
    BY <2>2
       DEF Act, Step, disk, Begin, Check, ReadFile, Busy, Age, Stat, Claim, Break,
           Reclaim, Again, Verify, Leave, Unlink, Rmdir, Unclaim, Mkdir, Write,
           Operated, Release, Drop, DropDir, Operate, Close, Crash
  <2>. QED  BY <2>1, <2>2
<1>. QED  BY <1>1, <1>2 DEF Unmarked

LEMMA NextIInv == IInv /\ [Next]_vars => IInv'
<1>. SUFFICES ASSUME IInv, [Next]_vars
              PROVE  IInv'
  OBVIOUS
<1>1. ASSUME NEW p \in Proc, Act(p)
      PROVE  IInv'
  <2>1. (TypeOK /\ SuspicionsEnd /\ VictimsDead /\ OneReaper)'
    BY <1>1, TypesHold, SuspicionsEndStep, VictimsDeadStep, OneReaperStep DEF IInv
  <2>2. HeldByOne'
    <3>. SUFFICES ASSUME Innocent'
                  PROVE  Locked'
      BY DEF HeldByOne, Locked
    <3>. Innocent
      BY <1>1, MishapsGrow DEF Innocent
    <3>. QED  BY <1>1, LockedStep DEF IInv, HeldByOne, Locked
  <2>3. NobodyLost'
    <3>. SUFFICES ASSUME Unmarked'
                  PROVE  Alone'
      BY DEF NobodyLost, Alone
    <3>. Unmarked
      BY <1>1, UnmarkedBefore DEF IInv
    <3>. QED  BY <1>1, AloneStep DEF IInv, NobodyLost, Alone
  <2>. QED  BY <2>1, <2>2, <2>3 DEF IInv
<1>2. CASE UNCHANGED vars
  <2>. UNCHANGED <<dir, claim, marker, run, mishaps>>
    BY <1>2 DEF vars
  <2>1. (TypeOK /\ SuspicionsEnd /\ VictimsDead /\ OneReaper)'
    BY DEF IInv, TypeOK, SuspicionsEnd, VictimsDead, Dead, OneReaper
  <2>2. HeldByOne'
    BY DEF IInv, HeldByOne, Innocent, Locked, HoldersOwn, HoldersUnseen, ReapsTheDead,
           Holding
  <2>3. NobodyLost'
    BY DEF IInv, NobodyLost, Unmarked, Alone, OneHolder, NamesItsMaker, ReapsTheVictim,
           Holding, Unrecorded
  <2>. QED  BY <2>1, <2>2, <2>3 DEF IInv
<1>. QED
  BY <1>1, <1>2, WaitStep, ExpireStep, GarbleStep DEF Next, Act

LEMMA Invariance == Spec => []IInv
BY InitIInv, NextIInv, PTL DEF Spec

\* The variables keep their types.
THEOREM TypeCorrect == Spec => []TypeOK
<1>1. IInv => TypeOK
  BY DEF IInv
<1>. QED  BY <1>1, Invariance, PTL

\* However many processes compete, die and come after each other, one of them at
\* most has the data directory open, unless the lock of a holder that could not be
\* known was removed or a claim was broken under its reaper.
THEOREM SoleWriterAlways == Spec => []SoleWriter
<1>1. IInv => SoleWriter
  <2>. SUFFICES ASSUME IInv, Innocent
                PROVE  Cardinality(Writers) <= 1
    BY DEF SoleWriter, Innocent
  <2>1. \A p, q \in Writers : p = q
    BY DEF Writers, IInv, HeldByOne, Locked, HoldersOwn, Holding, HoldPc
  <2>2. CASE Writers = {}
    BY <2>2, FS_EmptySet
  <2>3. CASE Writers # {}
    <3>1. PICK p : Writers = {p}
      BY <2>1, <2>3
    <3>. QED  BY <3>1, FS_Singleton
  <2>. QED  BY <2>2, <2>3
<1>. QED  BY <1>1, Invariance, PTL

\* The write-ahead log is repaired by nobody beside whom another has the directory
\* open, as long as no claim was broken under its reaper, every reap of an
\* unknown holder was on record before the next lock, and the marker stood until the
\* holders that it warned of were gone.
THEOREM SurgeryIsAlone == Spec => OperatesAlone
<1>1. IInv /\ [Next]_vars =>
        [\A p \in Proc :
           /\ At(p, "open") /\ run'[p].pc = "surgery"
           /\ mishaps \subseteq {"unknown holder"}
           => Writers = {p}]_vars
  <2>. SUFFICES ASSUME IInv, Next, NEW p \in Proc,
                       At(p, "open"), run'[p].pc = "surgery",
                       mishaps \subseteq {"unknown holder"}
                PROVE  Writers = {p}
    BY DEF vars
  <2>1. Operate(p)
    <3>1. PICK q \in Proc : Act(q)
      BY DEF Next, Act, Wait, Expire, Garble, At
    <3>2. q = p
      BY <3>1, OthersStay DEF IInv, At
    <3>. QED
      BY <3>1, <3>2, CrashMoves, GoMoves
         DEF Act, Step, At, Begin, Check, ReadFile, Busy, Age, Stat, Claim, Break,
             Reclaim, Again, Verify, Leave, Unlink, Rmdir, Unclaim, Record, Mkdir,
             Write, Operated, Release, Drop, DropDir, Close, Moves, IInv, TypeOK, Pc
  <2>2. OneHolder
    BY <2>1 DEF Operate, IInv, NobodyLost, Alone, Unmarked
  <2>. QED
    BY <2>2 DEF OneHolder, Writers, Holding, HoldPc, At
<1>. QED  BY <1>1, Invariance, PTL DEF Spec, OperatesAlone
=============================================================================
