----------------------------- MODULE PgliteLock -----------------------------
(***************************************************************************)
(* The lock that keeps a PGLite data directory to one process: a directory *)
(* made by mkdir with a file in it that names the holder, and a second     *)
(* directory, the claim, under which the lock of a dead holder is removed  *)
(* (gbrain/src/core/pglite-lock.ts).  Every system call that others can    *)
(* see is a step.  A process that has the lock opens the database; when it *)
(* finds it torn it may repair the write-ahead log in place (pglite-engine *)
(* .ts, pglite-repair.ts), which no other writer survives.                 *)
(***************************************************************************)
EXTENDS FiniteSets, Naturals

CONSTANTS
  Proc,       \* processes, by pid; a pid lives once
  Past,       \* the pids of processes that died before this history begins
  Ino,        \* inode numbers; that of a removed directory may come again
  NoDir,      \* no such directory
  None,       \* the file is not there
  Garbled,    \* the file does not parse
  MaxCrashes  \* bound

Pid == Proc \cup {Past}
Dir == [ino : Ino, file : Pid \cup {None, Garbled}, by : Pid, old : BOOLEAN]

ASSUME NamesAssumption ==
  /\ {None, Garbled, NoDir} \cap Pid = {} /\ None # Garbled /\ Past \notin Proc
  /\ NoDir \notin Dir \cup Ino
ASSUME BoundsAssumption == MaxCrashes \in Nat

VARIABLES
  dir,      \* .gbrain-lock: its inode, what its file says, who made it (history)
            \* and whether it is older than the grace of an acquisition
  claim,    \* the process whose .reap-claim is on disk, or NoDir
  marker,   \* .lock-reap.json is there, and younger than REAP_QUARANTINE_MS
  run,      \* what every process is doing
  mishaps   \* history: what the guarantees make an exception for

vars == <<dir, claim, marker, run, mishaps>>

\* victim: the holder found dead, or None when the file did not say.  seen: the
\* inode of the victim's directory.
Idle == [pc |-> "idle", victim |-> None, seen |-> NoDir, reaped |-> FALSE]
Pc == {"idle", "check", "read", "age", "stat", "claim", "break", "reclaim",
       "again", "verify", "leave", "unlink", "rmdir", "unclaim", "record",
       "mkdir", "write", "open", "surgery", "release", "drop", "dropdir", "dead"}
Run ==
  [pc : Pc,
   victim : Pid \cup {None}, seen : Ino \cup {NoDir}, reaped : BOOLEAN]

Init ==
  /\ \/ dir = NoDir
     \/ \E i \in Ino, f \in {Past, None, Garbled} :
          dir = [ino |-> i, file |-> f, by |-> Past, old |-> FALSE]
  /\ claim \in {NoDir, Past}
  /\ marker = FALSE
  /\ run = [p \in Proc |-> Idle]
  /\ mishaps = {}

-----------------------------------------------------------------------------
Dead == {Past} \cup {p \in Proc : run[p].pc = "dead"}
Writers == {p \in Proc : run[p].pc \in {"open", "surgery"}}

disk == <<dir, claim, marker>>

At(p, pc) == run[p].pc = pc
Go(p, pc) == run' = [run EXCEPT ![p].pc = pc]
\* What was found out about the lock is forgotten.
Anew(p, pc) ==
  run' = [run EXCEPT ![p] = [Idle EXCEPT !.pc = pc, !.reaped = run[p].reaped]]
Stop(p) == run' = [run EXCEPT ![p] = Idle]
Mishap(w) == mishaps' = mishaps \cup {w}

-----------------------------------------------------------------------------
(* acquireLock: a look at the lock *)

Begin(p) ==
  /\ At(p, "idle")
  /\ Go(p, "check")
  /\ UNCHANGED <<disk, mishaps>>

Check(p) ==
  /\ At(p, "check")
  /\ Go(p, IF dir = NoDir THEN "mkdir" ELSE "read")
  /\ UNCHANGED <<disk, mishaps>>

Suspect(p, who) == run' = [run EXCEPT ![p].pc = "stat", ![p].victim = who]

FileRead == IF dir = NoDir THEN None ELSE dir.file

\* Mutant: what could not be read is taken for the token of a holder.
ReadFileGarbled(p) ==
  /\ At(p, "read")
  /\ \/ FileRead \in Dead \cup {Garbled} /\ Suspect(p, FileRead)
     \/ FileRead = None /\ Go(p, "age")
  /\ UNCHANGED <<disk, mishaps>>

ReadFile(p) ==
  /\ At(p, "read")
  /\ \/ FileRead \in Dead /\ Suspect(p, FileRead)
     \/ FileRead = Garbled /\ Suspect(p, None)
     \/ FileRead = None /\ Go(p, "age")
  /\ UNCHANGED <<disk, mishaps>>

\* A live holder: the caller looks again until its time is up, or throws at once
\* when the holder is gbrain serve.
Busy(p) ==
  /\ At(p, "read") /\ FileRead \in Pid \ Dead
  /\ Go(p, "check") \/ Stop(p)
  /\ UNCHANGED <<disk, mishaps>>

\* A lock without a file is an acquisition in flight until it is old.  One that
\* has gone by now is as old as can be.
Age(p) ==
  /\ At(p, "age")
  /\ \/ (dir # NoDir => dir.old) /\ Suspect(p, None)
     \/ dir # NoDir /\ ~dir.old /\ Go(p, "check")
  /\ UNCHANGED <<disk, mishaps>>

-----------------------------------------------------------------------------
(* tryReapLockDir and breakStaleClaim *)

\* A lock that may be one that nobody will complete.
Unreadable == dir.file = Garbled \/ (dir.file = None /\ dir.old)

\* The directory that is there now need not be the one that was looked at.
Stat(p) ==
  /\ At(p, "stat")
  /\ IF dir = NoDir THEN Anew(p, "mkdir")
     ELSE run' = [run EXCEPT ![p].pc = "claim", ![p].seen = dir.ino]
  /\ IF dir # NoDir /\ run[p].victim = None /\ ~Unreadable
       THEN Mishap("unknown holder") ELSE UNCHANGED mishaps
  /\ UNCHANGED disk

Claim(p) ==
  /\ At(p, "claim")
  /\ IF claim = NoDir THEN claim' = p /\ Go(p, "verify")
                      ELSE UNCHANGED claim /\ Go(p, "break")
  /\ UNCHANGED <<dir, marker, mishaps>>

\* Mutant: a stale claim is never broken.
BreakNever(p) == At(p, "break") /\ Anew(p, "mkdir") /\ UNCHANGED <<disk, mishaps>>

\* The claim of a dead process is stale, and so is one held for too long; it is
\* read first and removed then.
Break(p) ==
  /\ At(p, "break")
  /\ \/ claim \in Pid /\ Go(p, "reclaim")
     \/ claim = NoDir /\ Go(p, "again")
     \/ claim \in Pid \ Dead /\ Anew(p, "mkdir")
  /\ UNCHANGED <<disk, mishaps>>

\* rmSync: the claim removed need not be the one that was read.
Reclaim(p) ==
  /\ At(p, "reclaim")
  /\ claim' = NoDir
  /\ Go(p, "again")
  /\ mishaps' = mishaps \cup (IF claim \in Pid \ Dead THEN {"claim broken"} ELSE {})
  /\ UNCHANGED <<dir, marker>>

Again(p) ==
  /\ At(p, "again")
  /\ IF claim = NoDir THEN claim' = p /\ Go(p, "verify")
                      ELSE UNCHANGED claim /\ Anew(p, "mkdir")
  /\ UNCHANGED <<dir, marker, mishaps>>

\* Mutant: the reaper trusts what it saw before it had the claim.
ConfirmedAnyway(p) == dir # NoDir

\* The lock on disk is still the victim's.
Confirmed(p) ==
  IF run[p].victim \in Pid THEN dir # NoDir /\ dir.file = run[p].victim
  ELSE /\ dir # NoDir
       /\ dir.file = Garbled \/ (dir.file = None /\ dir.ino = run[p].seen)

Verify(p) ==
  /\ At(p, "verify")
  /\ Go(p, IF Confirmed(p) THEN "unlink" ELSE "leave")
  /\ UNCHANGED <<disk, mishaps>>

Leave(p) ==
  /\ At(p, "leave")
  /\ claim' = NoDir
  /\ Anew(p, "mkdir")
  /\ UNCHANGED <<dir, marker, mishaps>>

\* rmSync(recursive): the file, then the directory if it is empty still.
Unlinked == IF dir = NoDir THEN NoDir ELSE [dir EXCEPT !.file = None, !.old = FALSE]
Emptied == IF dir # NoDir /\ dir.file = None THEN NoDir ELSE dir

Unlink(p) ==
  /\ At(p, "unlink")
  /\ dir' = Unlinked
  /\ Go(p, "rmdir")
  /\ UNCHANGED <<claim, marker, mishaps>>

Rmdir(p) ==
  /\ At(p, "rmdir")
  /\ dir' = Emptied
  /\ run' = [run EXCEPT ![p].pc = "unclaim", ![p].reaped = TRUE]
  /\ UNCHANGED <<claim, marker, mishaps>>

Unclaim(p) ==
  /\ At(p, "unclaim")
  /\ claim' = NoDir
  /\ IF run[p].victim = None THEN Go(p, "record") ELSE Anew(p, "mkdir")
  /\ UNCHANGED <<dir, marker, mishaps>>

\* The lock of a holder of whom nothing is known is gone, and no marker says so.
Unrecorded(p) == run[p].victim = None /\ run[p].pc \in {"unclaim", "record"}

\* Mutant: the reap is not recorded.
RecordNothing(p) ==
  At(p, "record") /\ Anew(p, "mkdir") /\ UNCHANGED <<disk, mishaps>>

\* recordReap, for a holder of whom nothing is known.  A write that fails is
\* swallowed; it may have truncated an earlier marker.
Record(p) ==
  /\ At(p, "record")
  /\ \/ marker' = TRUE /\ UNCHANGED mishaps
     \/ marker' \in {marker, FALSE} /\ Mishap("no record")
  /\ Anew(p, "mkdir")
  /\ UNCHANGED <<dir, claim>>

-----------------------------------------------------------------------------
(* acquireLock: mkdir, and the file *)

\* A new lock with the inode of one that is being reaped, or before the reap of an
\* unknown holder is on record.
Untimely(i) ==
  (IF \E q \in Proc : run[q].seen = i /\ run[q].victim = None THEN {"unknown holder"} ELSE {})
  \cup (IF \E q \in Proc : Unrecorded(q) THEN {"no record"} ELSE {})

Mkdir(p) ==
  /\ At(p, "mkdir")
  /\ IF dir = NoDir
       THEN /\ \E i \in Ino :
                 /\ dir' = [ino |-> i, file |-> None, by |-> p, old |-> FALSE]
                 /\ mishaps' = mishaps \cup Untimely(i)
            /\ Go(p, "write")
       ELSE UNCHANGED <<dir, mishaps>> /\ Go(p, "check")
  /\ UNCHANGED <<claim, marker>>

\* writeFileSync and renameSync go by path, whoever made the directory there.
Write(p) ==
  /\ At(p, "write")
  /\ IF dir # NoDir THEN dir' = [dir EXCEPT !.file = p] /\ Go(p, "open")
                    ELSE UNCHANGED dir /\ Go(p, "check")
  /\ UNCHANGED <<claim, marker, mishaps>>

-----------------------------------------------------------------------------
(* connect, attemptWalRepairAndRetry, disconnect and releaseLock *)

\* PGlite.create aborts on a torn log.
Operate(p) ==
  /\ At(p, "open") /\ ~run[p].reaped /\ ~marker
  /\ Go(p, "surgery")
  /\ UNCHANGED <<disk, mishaps>>

Operated(p) ==
  /\ At(p, "surgery")
  /\ Go(p, "open") \/ Go(p, "release")
  /\ UNCHANGED <<disk, mishaps>>

Close(p) ==
  /\ At(p, "open") /\ Go(p, "release")
  /\ UNCHANGED <<disk, mishaps>>

Release(p) ==
  /\ At(p, "release")
  /\ IF dir # NoDir /\ dir.file \in Pid \ {p} THEN Stop(p) ELSE Go(p, "drop")
  /\ UNCHANGED <<disk, mishaps>>

Drop(p) ==
  /\ At(p, "drop")
  /\ dir' = Unlinked
  /\ Go(p, "dropdir")
  /\ UNCHANGED <<claim, marker, mishaps>>

DropDir(p) ==
  /\ At(p, "dropdir")
  /\ dir' = Emptied
  /\ Stop(p)
  /\ UNCHANGED <<claim, marker, mishaps>>

-----------------------------------------------------------------------------
(* Deaths, time, disks *)

Crash(p) ==
  /\ ~At(p, "idle") /\ p \notin Dead
  /\ Cardinality(Dead \ {Past}) < MaxCrashes
  /\ run' = [run EXCEPT ![p] = [Idle EXCEPT !.pc = "dead"]]
  /\ mishaps' = mishaps \cup (IF Unrecorded(p) THEN {"no record"} ELSE {})
  /\ UNCHANGED disk

\* Ten seconds pass over a lock without a file; nobody who lives takes that long
\* between two system calls.
Wait ==
  /\ dir # NoDir /\ dir.file = None /\ ~dir.old
  /\ \A p \in Proc : run[p].pc \notin {"write", "rmdir", "dropdir"}
  /\ dir' = [dir EXCEPT !.old = TRUE]
  /\ UNCHANGED <<claim, marker, run, mishaps>>

\* A process uses a lock that it did not make, the file names one that did not, or
\* a reaper takes one for the maker that is not.
MadeBy(q) == dir # NoDir /\ dir.by = q
HoldPc == {"write", "open", "surgery", "release", "drop", "dropdir"}
Holding(p) == run[p].pc \in HoldPc
Unsettled ==
  \/ \E p \in Proc : Holding(p) /\ ~MadeBy(p)
  \/ dir # NoDir /\ dir.file \in Pid /\ ~MadeBy(dir.file)
  \/ \E q \in Proc : run[q].pc \in {"unlink", "rmdir"}
                     /\ run[q].victim \in Pid /\ ~MadeBy(run[q].victim)

\* The marker counts for REAP_QUARANTINE_MS, or until somebody's clock steps back.
Expire ==
  /\ marker
  /\ marker' = FALSE
  /\ IF Unsettled THEN Mishap("outlived") ELSE UNCHANGED mishaps
  /\ UNCHANGED <<dir, claim, run>>

\* The file cannot be read any more.
Garble ==
  /\ dir # NoDir /\ dir.file \in Pid
  /\ dir' = [dir EXCEPT !.file = Garbled]
  /\ IF dir.file \in Dead THEN UNCHANGED mishaps ELSE Mishap("unknown holder")
  /\ UNCHANGED <<claim, marker, run>>

-----------------------------------------------------------------------------
Step(p) ==
  \/ Begin(p) \/ Check(p) \/ ReadFile(p) \/ Busy(p) \/ Age(p) \/ Stat(p)
  \/ Claim(p) \/ Break(p) \/ Reclaim(p) \/ Again(p) \/ Verify(p)
  \/ Leave(p) \/ Unlink(p) \/ Rmdir(p) \/ Unclaim(p) \/ Record(p)
  \/ Mkdir(p) \/ Write(p) \/ Operated(p) \/ Release(p) \/ Drop(p) \/ DropDir(p)

Next ==
  \/ \E p \in Proc : Step(p) \/ Operate(p) \/ Close(p) \/ Crash(p)
  \/ Wait \/ Expire \/ Garble

Spec == Init /\ [][Next]_vars

\* A process goes on as long as it lives, commands are run again and again, and
\* time passes.  Nothing makes a holder close the database.
Fairness == WF_vars(Wait) /\ \A p \in Proc : WF_vars(Step(p))

FairSpec == Spec /\ Fairness

-----------------------------------------------------------------------------
(* Properties *)

\* Every variable keeps its type.
TypeOK ==
  /\ dir \in Dir \cup {NoDir} /\ claim \in Pid \cup {NoDir}
  /\ marker \in BOOLEAN
  /\ run \in [Proc -> Run]
  /\ mishaps \subseteq {"unknown holder", "claim broken", "no record", "outlived"}

\* Two processes never have the data directory open, unless a lock was removed of
\* whose holder nothing was known (the file of a live holder spoilt, another
\* directory judged than the one removed), or a claim was broken under a reaper
\* that lives (held for too long, or broken by two at a time).
\* Deaths at any step, the reaper's own included, do not suffice.
SoleWriter == mishaps \subseteq {"no record", "outlived"} => Cardinality(Writers) <= 1

\* The write-ahead log is never reset beside another process that has the data
\* directory open, not even after a live holder lost its lock because its file was
\* unreadable: neither the process that removed the lock does it nor one that came
\* later and found a lock in order.  The exceptions: a claim was broken under a
\* reaper that lives; the reap is not on record, because it is too early or because
\* the write failed; or its effects outlived the marker.
OperatesAlone ==
  [][\A p \in Proc :
       /\ At(p, "open") /\ run'[p].pc = "surgery"
       /\ mishaps \subseteq {"unknown holder"}
       => Writers = {p}]_vars

\* The lock of a process that died, wherever it died, is removed in the end, also
\* when the process that was removing it died too; unless everybody who lives has
\* the directory open already.
DeadLockCleared ==
  \A q \in Pid :
    (q \in Dead /\ dir # NoDir /\ dir.by = q)
      ~> (dir = NoDir \/ dir.by # q \/ Proc \ Dead \subseteq Writers)
=============================================================================
