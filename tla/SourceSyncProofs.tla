-------------------------- MODULE SourceSyncProofs --------------------------
(***************************************************************************)
(* That the bookmark of a source goes only forward and that a brain which  *)
(* says it is up to date is, for any number of files, commits and callers, *)
(* any history without reverts and any settings.                           *)
(***************************************************************************)
EXTENDS SourceSync, TLAPS

-----------------------------------------------------------------------------
(* Types *)

Leased ==
  /\ owner \in Caller \cup {Nobody} /\ quiet \in BOOLEAN
  /\ at_work = {c \in Caller : run[c].pc # "idle"}
  /\ run \in [Caller -> Run]

\* An incremental run starts at a commit.
Rooted ==
  \A c \in Caller : run[c].pc # "idle" /\ ~run[c].full => run[c].from # 0

LEMMA IdleType == Idle \in Run
BY HistoryAssumption DEF Idle, Run, Commits

LEMMA CommitFacts ==
  /\ 0 \in Commits /\ 1 \in Commit
  /\ \A k \in Commit : k \in Commits
BY HistoryAssumption DEF Commit, Commits

LEMMA InitTypes == Init => TypeOK
<1> SUFFICES ASSUME Init
             PROVE  TypeOK
  OBVIOUS
<1>1. run \in [Caller -> Run] /\ at_work = {c \in Caller : run[c].pc # "idle"}
  <2>1. Idle.pc = "idle"
    BY DEF Idle
  <2>. QED  BY <2>1, IdleType DEF Init, LeaseInit
<1>2. ledger \in [File -> Entry]
  BY DEF Init, NoEntry, Entry
<1>3. faults \in 0..MaxFaults
  BY BoundsAssumption DEF Init
<1>. QED  BY <1>1, <1>2, <1>3, CommitFacts DEF Init, LeaseInit, TypeOK

\* The run of one caller goes on.
LEMMA SetTypes ==
  ASSUME TypeOK, NEW c \in Caller, NEW r \in Run, run[c].pc # "idle",
         r.pc # "idle", Set(c, r), UNCHANGED leaseVars
  PROVE  Leased'
BY DEF TypeOK, Leased, Set, leaseVars

LEMMA ProceedTypes ==
  ASSUME TypeOK, NEW c \in Caller, run[c].pc # "idle", UNCHANGED leaseVars,
         NEW pc \in {"resolve", "mint", "drain", "advance", "clear", "mark",
                     "reconcile"},
         Proceed(c, pc)
  PROVE  Leased'
<1>1. [run[c] EXCEPT !.pc = pc] \in Run
  BY DEF TypeOK, Run
<1>2. Set(c, [run[c] EXCEPT !.pc = pc])
  BY DEF TypeOK, Set, Proceed
<1>. QED  BY <1>1, <1>2, SetTypes DEF TypeOK, Run

LEMMA StopTypes ==
  ASSUME TypeOK, NEW c \in Caller, Stop(c)
  PROVE  Leased'
BY IdleType DEF TypeOK, Leased, Stop, Leave, Set, Idle

LEMMA DrainTypes ==
  ASSUME NEW r \in Run, NEW f \in File
  PROVE  /\ Handled(r, f) \in Run /\ Handled(r, f).pc = r.pc
         /\ Cleanly(r, f) \in Run /\ Cleanly(r, f).pc = r.pc
         /\ Failing(r, f) \in Run /\ Failing(r, f).pc = r.pc
         /\ Threw(r, f) \in Run /\ Threw(r, f).pc = r.pc
         /\ OnInfra(r, f) \in Run /\ OnInfra(r, f).pc = r.pc
BY DEF Run, Handled, Cleanly, Failing, Threw, OnInfra

LEMMA FaultTypes ==
  ASSUME TypeOK, NEW n \in Nat, Fault(n)
  PROVE  faults' \in 0..MaxFaults
BY BoundsAssumption DEF TypeOK, Fault

LEMMA MishapTypes ==
  ASSUME TypeOK, NEW w \in {"clash", "rewound", "rough"}, Mishap(w)
  PROVE  mishaps' \subseteq {"clash", "rewound", "rough"}
BY DEF TypeOK, Mishap

\* PinOf names a commit.
LEMMA PinType == TypeOK => \A k \in Commit : PinOf(k) \in Commits
BY CommitFacts DEF TypeOK, PinOf

LEMMA DroppedTypes ==
  ASSUME TypeOK, NEW k \in Commits, Dropped(k)
  PROVE  /\ target' \in [Commit -> Commits]
         /\ paths' \in [Commit -> SUBSET File]
BY CommitFacts DEF TypeOK, Dropped

LEMMA RecordedTypes ==
  ASSUME TypeOK, NEW r
  PROVE  Recorded(r) \in [File -> Entry]
<1> DEFINE kept(f) == IF f \in Resolved(r) THEN NoEntry ELSE ledger[f]
           again(f) == IF kept(f).state = "open" THEN kept(f).attempts + 1 ELSE 1
<1>1. ASSUME NEW f \in File
      PROVE  kept(f) \in Entry /\ again(f) \in Nat
  BY <1>1 DEF TypeOK, Entry, NoEntry
<1>2. ASSUME NEW f \in File
      PROVE  Smaller(again(f), Threshold) \in Nat
  BY <1>1, <1>2, BoundsAssumption DEF Smaller
<1>3. ASSUME NEW f \in File
      PROVE  (IF f \in r.failed
                THEN [state |-> "open", attempts |-> Smaller(again(f), Threshold)]
                ELSE kept(f)) \in Entry
  BY <1>1, <1>2 DEF Entry
<1>. QED  BY <1>3 DEF Recorded

LEMMA StepTypes ==
  ASSUME TypeOK, Rooted, NEW c \in Caller, Step(c) \/ SaveWalk(c) \/ Crash(c)
  PROVE  TypeOK'
<1> DEFINE r == run[c]
<1>0. r \in Run /\ r.from \in Commits /\ r.pin \in Commits
  BY DEF TypeOK, Run
<1>1. CASE Resolve(c)
  <2>1. CASE r.from = head
    BY <1>1, <2>1, StopTypes, <1>0, DroppedTypes
       DEF Resolve, TypeOK, Leased, brain
  <2>2. CASE r.from # head
    <3> DEFINE y == [r EXCEPT !.pc = IF DiffOf(r.from, PinOf(r.from)) = {} THEN "advance" ELSE "mint",
                              !.pin = PinOf(r.from),
                              !.todo = DiffOf(r.from, PinOf(r.from)) \ Banked(r.from)]
    <3>1. PinOf(r.from) \in Commits
      <4>1. r.from \in Commit
        BY <1>0, <1>1 DEF Resolve, Rooted, Commit, Commits
      <4>. QED  BY <4>1, PinType
    <3>2. y \in Run /\ y.pc # "idle"
      <4>1. DiffOf(r.from, PinOf(r.from)) \in SUBSET File
        BY DEF DiffOf
      <4>2. \A pc \in {"advance", "mint"} :
              [r EXCEPT !.pc = pc, !.pin = PinOf(r.from),
                        !.todo = DiffOf(r.from, PinOf(r.from)) \ Banked(r.from)] \in Run
        BY <1>0, <3>1, <4>1 DEF Run
      <4>. QED  BY <1>0, <4>2 DEF Run
    <3>3. Leased'
      BY <1>1, <2>2, <3>2, SetTypes DEF Resolve
    <3>. QED  BY <1>0, <1>1, <2>2, <3>3, DroppedTypes DEF Resolve, TypeOK, Leased, brain
  <2>. QED  BY <2>1, <2>2
<1>2. CASE Mint(c)
  <2>1. CASE Stop(c)
    <3>1. Leased' /\ faults' \in 0..MaxFaults /\ target' \in [Commit -> Commits]
      BY <1>0, <1>2, <2>1, StopTypes, FaultTypes DEF Mint, TypeOK
    <3>. QED  BY <1>2, <3>1 DEF Mint, TypeOK, Leased, brain
  <2>2. CASE ~Stop(c)
    <3>1. Leased'
      BY <1>2, <2>2, ProceedTypes DEF Mint
    <3>2. target' \in [Commit -> Commits]
      BY <1>0, <1>2, <2>2 DEF Mint, TypeOK
    <3>. QED  BY <1>2, <2>2, <3>1, <3>2 DEF Mint, TypeOK, Leased, brain
  <2>. QED  BY <2>1, <2>2
<1>3. CASE Walk(c)
  <2> DEFINE y == [r EXCEPT !.pc = "drain", !.pin = head, !.done = walked,
                            !.todo = Tracked(head) \ walked]
  <2>1. y \in Run /\ y.pc # "idle"
    <3>1. walked \in SUBSET File /\ Tracked(head) \ walked \in SUBSET File /\ head \in Commits
      BY CommitFacts DEF TypeOK, Tracked
    <3>. QED  BY <1>0, <3>1 DEF Run
  <2>. QED  BY <1>3, <2>1, SetTypes DEF Walk, TypeOK, Leased, checkpoint, brain
<1>4. ASSUME NEW f \in File, DeleteFile(c, f)
      PROVE  TypeOK'
  BY <1>0, <1>4, DrainTypes, SetTypes, FaultTypes
     DEF DeleteFile, TypeOK, Leased, Draining, checkpoint
<1>5. ASSUME NEW f \in File, ImportFile(c, f)
      PROVE  TypeOK'
  <2>1. pages' \in [File -> (Content \ Bad) \cup {Absent}]
    BY <1>5 DEF ImportFile, TypeOK
  <2>2. faults' \in 0..MaxFaults /\ mishaps' \subseteq {"clash", "rewound", "rough"}
    BY <1>5, FaultTypes, MishapTypes DEF ImportFile, TypeOK
  <2>3. Leased'
    BY <1>0, <1>5, DrainTypes, SetTypes DEF ImportFile, Importable, Draining
  <2>. QED  BY <1>5, <2>1, <2>2, <2>3 DEF ImportFile, TypeOK, Leased, checkpoint
<1>6. CASE Flush(c)
  <2>1. [r EXCEPT !.done = {}] \in Run
    BY <1>0 DEF Run
  <2>. QED  BY <1>0, <1>6, <2>1, SetTypes DEF Flush, Bank, TypeOK, Leased, Draining, Run, brain
<1>7. CASE Partial(c)
  BY <1>0, <1>7, StopTypes, FaultTypes DEF Partial, Bank, TypeOK, Leased, Run, brain
<1>8. ASSUME NEW skip \in Skipping, Gate(c, skip)
      PROVE  TypeOK'
  <2>1. ledger' \in [File -> Entry]
    BY <1>8, RecordedTypes DEF Gate
  <2>2. walked' \subseteq File
    BY <1>0, <1>8 DEF Gate, TypeOK, Run
  <2>3. CASE Stop(c)
    BY <1>8, <2>1, <2>2, <2>3, StopTypes, MishapTypes DEF Gate, TypeOK, Leased
  <2>4. CASE ~Stop(c)
    <3> DEFINE y == [r EXCEPT !.pc = "advance",
                              !.skips = IF skip THEN File ELSE r.failed]
    <3>1. y \in Run /\ y.pc # "idle"
      BY <1>0 DEF Run
    <3>. QED  BY <1>8, <2>1, <2>2, <2>4, <3>1, SetTypes DEF Gate, TypeOK, Leased, Draining
  <2>. QED  BY <2>3, <2>4
<1>9. CASE Advance(c)
  BY <1>0, <1>9, ProceedTypes DEF Advance, TypeOK, Leased, checkpoint
<1>10. CASE Clear(c)
  <2>1. Leased'
    BY <1>10, ProceedTypes DEF Clear
  <2>2. target' \in [Commit -> Commits] /\ paths' \in [Commit -> SUBSET File]
    BY <1>0, <1>10, CommitFacts DEF Clear, TypeOK
  <2>3. faults' \in 0..MaxFaults
    BY <1>10, FaultTypes DEF Clear, TypeOK
  <2>. QED  BY <1>10, <2>1, <2>2, <2>3 DEF Clear, TypeOK, Leased, brain
<1>11. CASE Mark(c)
  <2>1. ledger' \in [File -> Entry]
    BY <1>11 DEF Mark, TypeOK, Entry
  <2>. QED  BY <1>11, <2>1, ProceedTypes, StopTypes DEF Mark, TypeOK, Leased, checkpoint
<1>12. CASE Reconcile(c)
  BY <1>12, StopTypes DEF Reconcile, TypeOK, Leased, checkpoint
<1>13. CASE SaveWalk(c)
  BY <1>0, <1>13 DEF SaveWalk, TypeOK, Run, brain, leaseVars
<1>14. CASE Crash(c)
  <2>1. Leased' /\ faults' \in 0..MaxFaults
    BY <1>14, StopTypes, FaultTypes DEF Crash
  <2>2. mishaps' \subseteq {"clash", "rewound", "rough"}
    BY <1>14, MishapTypes DEF Crash, Rough, TypeOK
  <2>3. paths' \in [Commit -> SUBSET File]
    BY <1>0, <1>14 DEF Crash, Bank, TypeOK, Run
  <2>. QED  BY <1>14, <2>1, <2>2, <2>3 DEF Crash, TypeOK, Leased, brain
<1>. QED
  BY <1>1, <1>2, <1>3, <1>4, <1>5, <1>6, <1>7, <1>8, <1>9, <1>10, <1>11, <1>12,
     <1>13, <1>14 DEF Step

LEMMA StartTypes ==
  ASSUME TypeOK, NEW c \in Caller, NEW full \in Fulls, Start(c, full)
  PROVE  TypeOK'
<1> DEFINE r == [Idle EXCEPT !.pc = "resolve", !.full = full \/ anchor = 0,
                             !.from = IF full THEN 0 ELSE anchor]
<1>1. r \in Run /\ r.pc # "idle"
  BY BoundsAssumption, IdleType, HistoryAssumption DEF TypeOK, Run, Idle, Commits
<1>2. Leased'
  BY <1>1 DEF Start, Take, Set, TypeOK, Leased
<1>3. mishaps' \subseteq {"clash", "rewound", "rough"}
  BY MishapTypes DEF Start, TypeOK
<1>. QED  BY <1>2, <1>3 DEF Start, TypeOK, Leased, brain, checkpoint

LEMMA OtherTypes ==
  ASSUME TypeOK, Starve \/ Recover \/ Push \/ Rewind
  PROVE  TypeOK'
<1>1. CASE Starve
  BY <1>1, FaultTypes, BoundsAssumption
     DEF Starve, LockMoves, GoQuiet, TypeOK, brain, checkpoint
<1>2. CASE Recover
  BY <1>2 DEF Recover, LockMoves, Renew, TypeOK, brain, checkpoint
<1>3. CASE Push
  <2>1. head' \in Commit
    BY <1>3, HistoryAssumption DEF Push, TypeOK, Commit
  <2>2. UNCHANGED <<owner, quiet, at_work, pages, anchor, ledger, target, paths,
                    walked, run, faults, mishaps>>
    BY <1>3 DEF Push, brain, checkpoint, leaseVars
  <2>. QED  BY <2>1, <2>2 DEF TypeOK
<1>4. CASE Rewind
  <2>1. head' \in Commit
    BY <1>4, HistoryAssumption DEF Rewind, TypeOK, Commit
  <2>2. faults' \in 0..MaxFaults /\ mishaps' \subseteq {"clash", "rewound", "rough"}
    BY <1>4, FaultTypes, MishapTypes, BoundsAssumption DEF Rewind
  <2>3. UNCHANGED <<owner, quiet, at_work, pages, anchor, ledger, target, paths,
                    walked, run>>
    BY <1>4 DEF Rewind, brain, checkpoint, leaseVars
  <2>. QED  BY <2>1, <2>2, <2>3 DEF TypeOK
<1>. QED  BY <1>1, <1>2, <1>3, <1>4

LEMMA SetRooted ==
  ASSUME TypeOK, Rooted, NEW c \in Caller, NEW r, Set(c, r),
         r.pc = "idle" \/ r.full \/ r.from # 0
  PROVE  Rooted'
BY DEF TypeOK, Rooted, Set

\* A step of a run leaves full and from alone, or ends the run.
LEMMA StepKeeps ==
  ASSUME TypeOK, NEW c \in Caller, Step(c) \/ SaveWalk(c) \/ Crash(c)
  PROVE  \E r : /\ Set(c, r)
                /\ r.pc # "idle" => /\ run[c].pc # "idle" /\ r.full = run[c].full
                                    /\ r.from = run[c].from
<1> DEFINE r == run[c]
<1>0. r \in Run /\ run \in [Caller -> Run]
  BY DEF TypeOK
<1>1. CASE Stop(c)
  BY <1>1 DEF Stop, Idle
<1>2. ASSUME NEW y, Set(c, y), y.full = r.full, y.from = r.from, r.pc # "idle"
      PROVE  \E z : /\ Set(c, z)
                    /\ z.pc # "idle" => /\ r.pc # "idle" /\ z.full = r.full
                                        /\ z.from = r.from
  BY <1>2
<1>3. CASE Resolve(c) \/ Walk(c) \/ Flush(c)
  BY <1>0, <1>1, <1>2, <1>3 DEF Resolve, Walk, Flush, Run, Draining
<1>4. CASE Mint(c) \/ Advance(c) \/ Clear(c) \/ Mark(c)
  BY <1>0, <1>1, <1>2, <1>4 DEF Mint, Advance, Clear, Mark, Run, Proceed, Set
<1>5. ASSUME NEW f \in File, DeleteFile(c, f) \/ ImportFile(c, f)
      PROVE  \E z : /\ Set(c, z)
                    /\ z.pc # "idle" => /\ r.pc # "idle" /\ z.full = r.full
                                        /\ z.from = r.from
  <2>1. \A z \in {Handled(r, f), Cleanly(r, f), Failing(r, f), Threw(r, f), OnInfra(r, f)} :
          z.full = r.full /\ z.from = r.from
    BY <1>0 DEF Run, Handled, Cleanly, Failing, Threw, OnInfra
  <2>. QED  BY <1>2, <1>5, <2>1 DEF DeleteFile, ImportFile, Importable, Draining
<1>6. ASSUME NEW skip \in Skipping, Gate(c, skip)
      PROVE  \E z : /\ Set(c, z)
                    /\ z.pc # "idle" => /\ r.pc # "idle" /\ z.full = r.full
                                        /\ z.from = r.from
  BY <1>0, <1>1, <1>2, <1>6 DEF Gate, Run, Draining
<1>7. CASE Partial(c) \/ Reconcile(c) \/ Crash(c)
  BY <1>1, <1>7 DEF Partial, Reconcile, Crash
<1>8. CASE SaveWalk(c)
  BY <1>0, <1>8 DEF SaveWalk, Set, Draining, Run
<1>. QED  BY <1>3, <1>4, <1>5, <1>6, <1>7, <1>8 DEF Step

LEMMA NextRooted == TypeOK /\ Rooted /\ [Next]_vars => Rooted'
<1> SUFFICES ASSUME TypeOK, Rooted, [Next]_vars
             PROVE  Rooted'
  OBVIOUS
<1>1. ASSUME NEW c \in Caller, Step(c) \/ SaveWalk(c) \/ Crash(c)
      PROVE  Rooted'
  BY <1>1, StepKeeps DEF TypeOK, Rooted, Set
<1>2. ASSUME NEW c \in Caller, NEW full \in Fulls, Start(c, full)
      PROVE  Rooted'
  BY <1>2, SetRooted, BoundsAssumption DEF Start, Idle
<1>3. CASE Starve \/ Recover \/ Push \/ Rewind \/ UNCHANGED vars
  BY <1>3 DEF Rooted, Starve, Recover, LockMoves, Push, Rewind, vars
<1>. QED  BY <1>1, <1>2, <1>3 DEF Next

LEMMA NextTypes == TypeOK /\ Rooted /\ [Next]_vars => TypeOK'
<1> SUFFICES ASSUME TypeOK, Rooted, [Next]_vars
             PROVE  TypeOK'
  OBVIOUS
<1>1. CASE UNCHANGED vars
  BY <1>1 DEF vars, TypeOK, leaseVars
<1>. QED  BY <1>1, StartTypes, StepTypes, OtherTypes DEF Next

\* Every variable of the sync keeps its type, and the callers at work are those
\* whose run is under way.
THEOREM SyncTypes == Spec => []TypeOK
<1>1. Init => Rooted
  BY DEF Init, Rooted, Idle
<1>. QED  BY <1>1, InitTypes, NextTypes, NextRooted, PTL DEF Spec

-----------------------------------------------------------------------------
(* The lease *)

\* A sync touches its lock only in the ways a lease allows: what DbLock.tla
\* implements is what performSync relies on.
THEOREM SyncKeepsLease == Spec => LeaseSpec
<1>1. Init => LeaseInit
  BY DEF Init
<1>2. TypeOK /\ [Next]_vars => [LeaseNext]_leaseVars
  <2> SUFFICES ASSUME TypeOK, [Next]_vars
               PROVE  [LeaseNext]_leaseVars
    OBVIOUS
  <2>1. ASSUME NEW c \in Caller, Stop(c)
        PROVE  LeaseNext
    BY <2>1 DEF Stop, LeaseNext
  <2>2. ASSUME NEW c \in Caller, Step(c) \/ SaveWalk(c) \/ Crash(c)
        PROVE  LeaseNext \/ UNCHANGED leaseVars
    BY <2>1, <2>2 DEF Step, SaveWalk, Crash, Resolve, Mint, Walk, DeleteFile,
       ImportFile, Flush, Partial, Gate, Advance, Clear, Mark, Reconcile
  <2>3. ASSUME NEW c \in Caller, NEW full \in Fulls, Start(c, full)
        PROVE  LeaseNext
    BY <2>3 DEF Start, LeaseNext
  <2>4. CASE Starve \/ Recover
    BY <2>4 DEF Starve, Recover, LockMoves, LeaseNext
  <2>5. CASE Push \/ Rewind \/ UNCHANGED vars
    BY <2>5 DEF Push, Rewind, vars
  <2>. QED  BY <2>2, <2>3, <2>4, <2>5 DEF Next
<1>. QED  BY <1>1, <1>2, SyncTypes, PTL DEF Spec, LeaseSpec

-----------------------------------------------------------------------------
(* Where runs stand, and the bookmark *)

\* Neither a lost lock nor a rewritten history.
Orderly == mishaps \subseteq {"rough"}

\* What an incremental run knows of its range until it advances.
Ranged(r) ==
  /\ r.from = anchor /\ r.from # 0
  /\ r.from < r.pin /\ r.pin <= head
  /\ r.todo \cup r.ok \subseteq DiffOf(r.from, r.pin)

Positioned(r) ==
  /\ r.pc \in {"resolve", "mint"} => r.done = {} /\ r.ok = {}
  /\ r.pc = "resolve" /\ ~r.full => r.from = anchor /\ r.from # 0
  /\ r.pc \in {"mint", "drain", "advance"} /\ ~r.full => Ranged(r)
  /\ r.pc \in {"mint", "clear"} => ~r.full
  /\ r.pc = "mint" => target[r.from] \in {0, r.pin}
  /\ r.pc = "drain" /\ ~r.full => target[r.from] = r.pin
  /\ r.pc \in {"drain", "advance"} /\ r.full =>
       anchor <= r.pin /\ 0 < r.pin /\ r.pin <= head
  /\ r.pc = "reconcile" => r.full
  /\ r.pc \in {"mark", "reconcile"} /\ r.full => r.pin = anchor /\ r.pin # 0
  /\ r.pc = "clear" => r.from < anchor /\ r.from # 0

Stored ==
  \A k \in Commit :
    /\ anchor <= k /\ target[k] = 0 => paths[k] = {}
    /\ target[k] # 0 => k <= anchor /\ k < target[k] /\ target[k] <= head

Positions ==
  Orderly =>
    /\ at_work \subseteq {owner}
    /\ anchor <= head
    /\ Stored
    /\ \A c \in Caller : Positioned(run[c])

LEMMA IdlePositioned ==
  ASSUME NEW r, r.pc = "idle"
  PROVE  Positioned(r)
BY DEF Positioned

\* Whoever holds the lock works alone.
LEMMA Alone ==
  ASSUME TypeOK, Positions, Orderly, NEW c \in Caller, run[c].pc # "idle"
  PROVE  /\ at_work = {c} /\ owner = c
         /\ \A d \in Caller \ {c} : run[d].pc = "idle"
BY DEF TypeOK, Positions

\* It is enough to look at the run that moved.
LEMMA Moved ==
  ASSUME TypeOK, Positions, Orderly, NEW c \in Caller, run[c].pc # "idle",
         \A d \in Caller \ {c} : run'[d] = run[d],
         Positioned(run[c])'
  PROVE  (\A d \in Caller : Positioned(run[d]))'
<1> SUFFICES ASSUME NEW d \in Caller
             PROVE  Positioned(run[d])'
  OBVIOUS
<1>1. CASE d = c
  BY <1>1
<1>2. CASE d # c
  <2>1. run'[d].pc = "idle"
    BY <1>2, Alone
  <2>. QED  BY <2>1 DEF Positioned
<1>. QED  BY <1>1, <1>2

\* A run that ends frees the lock.
LEMMA StopAlone ==
  ASSUME TypeOK, Positions, Orderly, NEW c \in Caller, run[c].pc # "idle",
         Stop(c)
  PROVE  /\ (at_work \subseteq {owner})'
         /\ (\A d \in Caller : Positioned(run[d]))'
<1>1. at_work' = {}
  BY Alone DEF Stop, Leave
<1>2. run'[c].pc = "idle" /\ \A d \in Caller \ {c} : run'[d] = run[d]
  BY DEF TypeOK, Stop, Set, Idle
<1>3. Positioned(run[c])'
  BY <1>2 DEF Positioned
<1>. QED  BY <1>1, <1>2, <1>3, Moved

LEMMA DrainFields ==
  ASSUME NEW r \in Run, NEW f \in File,
         NEW z \in {Handled(r, f), Cleanly(r, f), Failing(r, f), Threw(r, f),
                    OnInfra(r, f)}
  PROVE  /\ z.pc = r.pc /\ z.full = r.full /\ z.from = r.from /\ z.pin = r.pin
         /\ z.todo = r.todo \ {f} /\ z.ok \subseteq r.ok \cup {f}
BY DEF Run, Handled, Cleanly, Failing, Threw, OnInfra

\* What is common to the steps of a run that goes on.
LEMMA GoesOn ==
  ASSUME TypeOK, Positions, Orderly, NEW c \in Caller, run[c].pc # "idle",
         NEW r, Set(c, r), UNCHANGED leaseVars
  PROVE  /\ run'[c] = r
         /\ \A d \in Caller \ {c} : run'[d] = run[d]
         /\ (at_work \subseteq {owner})'
BY DEF TypeOK, Positions, Set, leaseVars

LEMMA StepPositions ==
  ASSUME TypeOK, Rooted, Positions, Orderly, Orderly', NEW c \in Caller,
         Step(c) \/ SaveWalk(c) \/ Crash(c)
  PROVE  Positions'
<1> DEFINE r == run[c]
<1> USE CommitFacts
<1>0. /\ r \in Run /\ run \in [Caller -> Run] /\ r.from \in Commits
      /\ r.pin \in Commits /\ r.full \in BOOLEAN
      /\ head \in Nat /\ anchor \in Nat /\ r.from \in Nat /\ r.pin \in Nat
      /\ target \in [Commit -> Commits] /\ paths \in [Commit -> SUBSET File]
  BY DEF TypeOK, Run, Commit, Commits
<1>p. Stored /\ anchor <= head /\ Positioned(r) /\ at_work \subseteq {owner}
  BY DEF Positions
<1>1. CASE Resolve(c)
  <2>0. r.pc = "resolve" /\ ~r.full /\ r.from = anchor /\ r.from \in Commit
        /\ r.done = {} /\ r.ok = {} /\ UNCHANGED <<head, anchor>>
    BY <1>0, <1>1, <1>p DEF Resolve, Positioned, Commit, Commits, brain
  <2>1. Stored'
    BY <1>0, <1>1, <1>p, <2>0 DEF Resolve, Dropped, Stored, Commit, Commits
  <2>2. CASE Stop(c)
    BY <1>p, <2>0, <2>1, <2>2, StopAlone DEF Positions
  <2>3. CASE ~Stop(c)
    <3> DEFINE y == [r EXCEPT !.pc = IF DiffOf(r.from, PinOf(r.from)) = {} THEN "advance" ELSE "mint",
                              !.pin = PinOf(r.from),
                              !.todo = DiffOf(r.from, PinOf(r.from)) \ Banked(r.from)]
    <3>1. r.from # head /\ Set(c, y) /\ UNCHANGED leaseVars
      BY <1>1, <2>3 DEF Resolve
    <3>2. r.from < PinOf(r.from) /\ PinOf(r.from) <= head
      BY <1>0, <1>p, <2>0, <3>1 DEF Stored, PinOf, Resumes, Commits
    <3>3. target'[r.from] \in {0, PinOf(r.from)}
      BY <1>0, <1>1, <2>0 DEF Resolve, Dropped, PinOf, Resumes
    <3>4. /\ y.pc \in {"advance", "mint"} /\ y.full = r.full /\ y.from = r.from
          /\ y.pin = PinOf(r.from) /\ y.done = {} /\ y.ok = {}
          /\ y.todo \subseteq DiffOf(r.from, PinOf(r.from))
      BY <1>0, <2>0 DEF Run
    <3>5. Positioned(run[c])'
      <4>1. run'[c] = y
        BY <2>0, <3>1, GoesOn
      <4> HIDE DEF y
      <4>2. /\ y.from < y.pin /\ y.pin <= head /\ target'[y.from] \in {0, y.pin}
            /\ y.from = anchor /\ y.from # 0
        BY <1>0, <2>0, <3>2, <3>3, <3>4 DEF Commit
      <4>3. y.todo \cup y.ok \subseteq DiffOf(y.from, y.pin)
        BY <3>4
      <4>4. y.pin \in Nat /\ ~y.full
        BY <1>0, <2>0, <3>2, <3>4, PinType DEF Commits
      <4>5. Ranged(run[c])'
        BY <1>0, <2>0, <4>1, <4>2, <4>3, <4>4 DEF Ranged, DiffOf
      <4>. QED  BY <1>0, <2>0, <3>4, <4>1, <4>2, <4>4, <4>5 DEF Positioned
    <3>. QED  BY <1>p, <2>0, <2>1, <3>1, <3>5, GoesOn, Moved DEF Positions
  <2>. QED  BY <2>2, <2>3
<1>2. CASE Mint(c)
  <2>0. /\ r.pc = "mint" /\ ~r.full /\ Ranged(r) /\ r.from \in Commit
        /\ UNCHANGED <<head, anchor, paths>>
    BY <1>0, <1>2, <1>p DEF Mint, Positioned, Ranged, Commit, Commits, brain
  <2>1. CASE Stop(c) /\ UNCHANGED target
    BY <1>p, <2>0, <2>1, StopAlone DEF Positions, Stored
  <2>2. CASE target' = [target EXCEPT ![r.from] = r.pin] /\ Proceed(c, "drain")
             /\ UNCHANGED leaseVars
    <3>1. Stored'
      BY <1>0, <1>p, <2>0, <2>2 DEF Stored, Ranged, Commits
    <3>2. run'[c] = [r EXCEPT !.pc = "drain"] /\ Set(c, [r EXCEPT !.pc = "drain"])
      BY <1>0, <2>2 DEF Proceed, Set
    <3>3. Positioned(run[c])'
      BY <1>0, <1>p, <2>0, <2>2, <3>2 DEF Positioned, Ranged, DiffOf, Run
    <3>. QED  BY <1>p, <2>0, <2>2, <3>1, <3>2, <3>3, GoesOn, Moved DEF Positions
  <2>. QED  BY <1>2, <2>1, <2>2 DEF Mint
<1>3. CASE Walk(c)
  <2> DEFINE y == [r EXCEPT !.pc = "drain", !.pin = head, !.done = walked,
                            !.todo = Tracked(head) \ walked]
  <2>0. /\ r.pc = "resolve" /\ r.full /\ Set(c, y) /\ UNCHANGED leaseVars
        /\ UNCHANGED <<head, anchor, target, paths>>
    BY <1>3 DEF Walk, brain, checkpoint
  <2>1. y.pc = "drain" /\ y.full /\ y.pin = head
    BY <1>0, <2>0 DEF Run
  <2>2. 0 < head
    BY <1>0 DEF TypeOK, Commit
  <2>3. Positioned(run[c])'
    <3>1. run'[c] = y
      BY <2>0, GoesOn
    <3> HIDE DEF y
    <3>2. run'[c].pc = "drain" /\ run'[c].full /\ run'[c].pin = head
      BY <2>1, <3>1
    <3>. QED  BY <1>0, <1>p, <2>0, <2>2, <3>2 DEF Positioned
  <2>. QED  BY <1>p, <2>0, <2>3, GoesOn, Moved DEF Positions, Stored
<1>4. ASSUME NEW f \in File, DeleteFile(c, f) \/ ImportFile(c, f)
      PROVE  Positions'
  <2>1. /\ r.pc = "drain" /\ f \in r.todo /\ UNCHANGED leaseVars
        /\ UNCHANGED <<head, anchor, target, paths>>
    BY <1>4 DEF DeleteFile, ImportFile, Importable, Draining, checkpoint
  <2>2. PICK z \in {Handled(r, f), Cleanly(r, f), Failing(r, f), Threw(r, f),
                    OnInfra(r, f)} : Set(c, z)
    BY <1>4 DEF DeleteFile, ImportFile
  <2>3. /\ z.pc = r.pc /\ z.full = r.full /\ z.from = r.from /\ z.pin = r.pin
        /\ z.todo \cup z.ok \subseteq r.todo \cup r.ok
    BY <1>0, <2>1, DrainFields
  <2>4. Positioned(run[c])'
    BY <1>p, <2>1, <2>2, <2>3, GoesOn DEF Positioned, Ranged, DiffOf
  <2>. QED  BY <1>p, <2>1, <2>2, <2>4, GoesOn, Moved DEF Positions, Stored
<1>5. ASSUME Bank(r), r.pc = "drain", ~r.full, UNCHANGED <<target, anchor, head>>
      PROVE  Stored'
  <2>1. Ranged(r) /\ target[r.from] = r.pin /\ r.from \in Commit
    BY <1>0, <1>5, <1>p DEF Positioned, Ranged, Commit, Commits
  <2>. QED  BY <1>0, <1>5, <1>p, <2>1 DEF Bank, Stored, Ranged
<1>6. CASE Flush(c)
  <2>0. /\ r.pc = "drain" /\ ~r.full /\ Set(c, [r EXCEPT !.done = {}])
        /\ UNCHANGED leaseVars /\ UNCHANGED <<head, anchor, target>> /\ Bank(r)
    BY <1>6 DEF Flush, Draining, brain
  <2>1. Positioned(run[c])'
    BY <1>0, <1>p, <2>0, GoesOn DEF Positioned, Ranged, DiffOf, Run
  <2>. QED  BY <1>5, <1>p, <2>0, <2>1, GoesOn, Moved DEF Positions
<1>7. CASE Partial(c)
  <2>0. /\ r.pc = "drain" /\ ~r.full /\ Stop(c)
        /\ UNCHANGED <<head, anchor, target>>
    BY <1>7 DEF Partial, Draining, brain
  <2>1. Stored'
    BY <1>5, <1>7, <1>p, <2>0 DEF Partial, Stored
  <2>. QED  BY <1>p, <2>0, <2>1, StopAlone DEF Positions
<1>8. ASSUME NEW skip \in Skipping, Gate(c, skip)
      PROVE  Positions'
  <2>0. r.pc = "drain" /\ UNCHANGED <<head, anchor, target, paths>>
    BY <1>8 DEF Gate, Draining
  <2>1. CASE Stop(c)
    BY <1>p, <2>0, <2>1, StopAlone DEF Positions, Stored
  <2>2. CASE ~Stop(c)
    <3> DEFINE y == [r EXCEPT !.pc = "advance",
                              !.skips = IF skip THEN File ELSE r.failed]
    <3>1. Set(c, y) /\ UNCHANGED leaseVars
      BY <1>8, <2>2 DEF Gate
    <3>2. /\ y.pc = "advance" /\ y.full = r.full /\ y.from = r.from
          /\ y.pin = r.pin /\ y.todo = r.todo /\ y.ok = r.ok
      BY <1>0 DEF Run
    <3>3. Positioned(run[c])'
      <4>1. run'[c] = y
        BY <2>0, <3>1, GoesOn
      <4> HIDE DEF y
      <4>. QED  BY <1>p, <2>0, <3>2, <4>1 DEF Positioned, Ranged, DiffOf
    <3>. QED  BY <1>p, <2>0, <3>1, <3>3, GoesOn, Moved DEF Positions, Stored
  <2>. QED  BY <2>1, <2>2
<1>9. CASE Advance(c)
  <2> DEFINE y == [r EXCEPT !.pc = IF r.full THEN "mark" ELSE "clear"]
  <2>0. /\ r.pc = "advance" /\ Set(c, y) /\ UNCHANGED leaseVars
        /\ anchor' = r.pin /\ UNCHANGED <<head, target, paths>>
    BY <1>9 DEF Advance, Proceed, Set, checkpoint
  <2>1. /\ y.pc = (IF r.full THEN "mark" ELSE "clear") /\ y.full = r.full
        /\ y.from = r.from /\ y.pin = r.pin
    BY <1>0 DEF Run
  <2>2. anchor <= r.pin /\ r.pin <= head /\ 0 < r.pin
    BY <1>0, <1>p, <2>0 DEF Positioned, Ranged
  <2>3. Stored'
    <3>. SUFFICES ASSUME NEW k \in Commit
                  PROVE  /\ r.pin <= k /\ target[k] = 0 => paths[k] = {}
                         /\ target[k] # 0 => k <= r.pin /\ k < target[k] /\ target[k] <= head
      BY <2>0 DEF Stored
    <3>1. k \in Nat
      BY DEF Commit
    <3>2. r.pin <= k => anchor <= k
      BY <1>0, <2>2, <3>1 DEF TypeOK, Commit, Commits
    <3>. QED  BY <1>0, <1>p, <2>2, <3>1, <3>2 DEF Stored
  <2>4. Positioned(run[c])'
    <3>1. run'[c] = y
      BY <2>0, GoesOn
    <3> HIDE DEF y
    <3>. QED  BY <1>0, <1>p, <2>0, <2>1, <2>2, <3>1 DEF Positioned, Ranged
  <2>. QED  BY <1>0, <1>p, <2>0, <2>2, <2>3, <2>4, GoesOn, Moved DEF Positions
<1>10. CASE Clear(c)
  <2> DEFINE y == [r EXCEPT !.pc = "mark"]
  <2>0. /\ r.pc = "clear" /\ ~r.full /\ Set(c, y) /\ UNCHANGED leaseVars
        /\ UNCHANGED <<head, anchor>> /\ r.from \in Commit
    BY <1>0, <1>10, <1>p DEF Clear, Proceed, Set, brain, Positioned, Commit, Commits
  <2>1. Stored'
    <3>1. r.from < anchor /\ anchor \in Nat
      BY <1>0, <1>p, <2>0 DEF Positioned, TypeOK, Commits
    <3>2. /\ target' \in {target, [target EXCEPT ![r.from] = 0]}
          /\ paths' \in {paths, [paths EXCEPT ![r.from] = {}]}
      BY <1>10 DEF Clear
    <3>3. target \in [Commit -> Commits] /\ paths \in [Commit -> SUBSET File]
      BY DEF TypeOK
    <3>4. ASSUME NEW k \in Commit
          PROVE  /\ anchor <= k /\ target'[k] = 0 => paths'[k] = {}
                 /\ target'[k] # 0 => k <= anchor /\ k < target'[k] /\ target'[k] <= head
      <4>1. CASE k = r.from
        <5>1. ~(anchor <= k)
          BY <2>0, <3>1, <4>1 DEF Commit
        <5>2. target'[k] \in {0, target[k]}
          BY <2>0, <3>2, <3>3, <4>1
        <5>. QED  BY <1>p, <5>1, <5>2 DEF Stored
      <4>2. CASE k # r.from
        <5>1. target'[k] = target[k] /\ paths'[k] = paths[k]
          BY <2>0, <3>2, <3>3, <4>2
        <5>. QED  BY <1>p, <5>1 DEF Stored
      <4>. QED  BY <4>1, <4>2
    <3>. QED  BY <2>0, <3>4 DEF Stored
  <2>2. y.pc = "mark" /\ ~y.full
    BY <1>0, <2>0 DEF Run
  <2>3. Positioned(run[c])'
    BY <2>0, <2>2, GoesOn DEF Positioned
  <2>. QED  BY <1>p, <2>0, <2>1, <2>3, GoesOn, Moved DEF Positions
<1>11. CASE Mark(c)
  <2>0. r.pc = "mark" /\ UNCHANGED <<head, anchor, target, paths>>
    BY <1>11 DEF Mark, checkpoint
  <2>1. CASE Stop(c)
    BY <1>p, <2>0, <2>1, StopAlone DEF Positions, Stored
  <2>2. CASE ~Stop(c)
    <3> DEFINE y == [r EXCEPT !.pc = "reconcile"]
    <3>1. r.full /\ Set(c, y) /\ UNCHANGED leaseVars
      BY <1>11, <2>2 DEF Mark, Proceed, Set
    <3>2. y.pc = "reconcile" /\ y.full /\ y.pin = r.pin
      BY <1>0, <3>1 DEF Run
    <3>3. Positioned(run[c])'
      BY <1>p, <2>0, <3>1, <3>2, GoesOn DEF Positioned
    <3>. QED  BY <1>p, <2>0, <3>1, <3>3, GoesOn, Moved DEF Positions, Stored
  <2>. QED  BY <2>1, <2>2
<1>12. CASE Reconcile(c)
  <2>0. r.pc # "idle" /\ Stop(c) /\ UNCHANGED <<head, anchor, target, paths>>
    BY <1>12 DEF Reconcile, checkpoint
  <2>. QED  BY <1>p, <2>0, StopAlone DEF Positions, Stored
<1>13. CASE SaveWalk(c)
  BY <1>13 DEF SaveWalk, Positions, Positioned, Ranged, Stored, DiffOf, brain, leaseVars
<1>14. CASE Crash(c)
  <2>0. r.pc # "idle" /\ Stop(c) /\ UNCHANGED <<head, anchor, target>>
    BY <1>14 DEF Crash, brain
  <2>1. Stored'
    BY <1>5, <1>14, <1>p, <2>0 DEF Crash, Draining, Stored
  <2>. QED  BY <1>p, <2>0, <2>1, StopAlone DEF Positions
<1>. QED
  BY <1>1, <1>2, <1>3, <1>4, <1>6, <1>7, <1>8, <1>9, <1>10, <1>11, <1>12,
     <1>13, <1>14 DEF Step

LEMMA InitPositions == Init => Positions
BY IdlePositioned, HistoryAssumption DEF Init, LeaseInit, Positions, Stored, Idle

\* A new sync works alone when it does not clash.
LEMMA StartPositions ==
  ASSUME TypeOK, Positions, Orderly, Orderly', NEW c \in Caller,
         NEW full \in Fulls, Start(c, full)
  PROVE  Positions'
<1> DEFINE r == [Idle EXCEPT !.pc = "resolve", !.full = full \/ anchor = 0,
                             !.from = IF full THEN 0 ELSE anchor]
<1>1. at_work = {}
  BY DEF Start, Mishap, Orderly
<1>2. \A d \in Caller : run[d].pc = "idle"
  BY <1>1 DEF TypeOK
<1>3. run'[c] = r /\ \A d \in Caller \ {c} : run'[d] = run[d]
  BY DEF Start, Set, TypeOK
<1>4. /\ r.pc = "resolve" /\ r.done = {} /\ r.ok = {}
      /\ r.full = (full \/ anchor = 0) /\ r.from = (IF full THEN 0 ELSE anchor)
  BY DEF Idle
<1>5. UNCHANGED <<anchor, head, target, paths>>
  BY DEF Start, brain, checkpoint
<1>6. \A d \in Caller : Positioned(run[d])'
  BY <1>2, <1>3, <1>4, <1>5 DEF Positioned
<1>7. (at_work \subseteq {owner})'
  BY <1>1 DEF Start, Take
<1>. QED  BY <1>5, <1>6, <1>7 DEF Positions, Stored

LEMMA OtherPositions ==
  ASSUME TypeOK, Positions, Orderly, Orderly',
         Starve \/ Recover \/ Push \/ Rewind \/ UNCHANGED vars
  PROVE  Positions'
<1>1. CASE Starve \/ Recover \/ UNCHANGED vars
  <2>1. UNCHANGED <<owner, at_work, head, anchor, target, paths, run>>
    BY <1>1 DEF Starve, Recover, LockMoves, GoQuiet, Renew, brain, checkpoint, vars,
                leaseVars
  <2>. QED  BY <2>1 DEF Positions, Stored, Positioned, Ranged, DiffOf
<1>2. CASE Push
  <2>1. /\ UNCHANGED <<owner, at_work, anchor, target, paths, run>>
        /\ head' = head + 1
    BY <1>2 DEF Push, brain, checkpoint, leaseVars
  <2>2. /\ head \in Nat /\ anchor \in Nat /\ \A k \in Commit : target[k] \in Nat
        /\ \A c \in Caller : run[c].pin \in Nat
    BY DEF TypeOK, Run, Commit, Commits
  <2>3. ASSUME NEW c \in Caller
        PROVE  Positioned(run[c])'
    BY <2>1, <2>2 DEF Positions, Positioned, Ranged, DiffOf
  <2>. QED  BY <2>1, <2>2, <2>3 DEF Positions, Stored
<1>3. CASE Rewind
  BY <1>3 DEF Rewind, Mishap, Orderly
<1>. QED  BY <1>1, <1>2, <1>3

LEMMA MishapsGrow == [Next]_vars => mishaps \subseteq mishaps'
<1> SUFFICES ASSUME [Next]_vars
             PROVE  mishaps \subseteq mishaps'
  OBVIOUS
<1>1. ASSUME NEW c \in Caller, Step(c) \/ SaveWalk(c) \/ Crash(c)
      PROVE  mishaps \subseteq mishaps'
  BY <1>1 DEF Step, SaveWalk, Crash, Rough, Resolve, Mint, Walk, DeleteFile,
     ImportFile, Flush, Partial, Gate, Advance, Clear, Mark, Reconcile, Mishap
<1>2. ASSUME NEW c \in Caller, NEW full \in Fulls, Start(c, full)
      PROVE  mishaps \subseteq mishaps'
  BY <1>2 DEF Start, Mishap
<1>3. CASE Starve \/ Recover \/ Push \/ Rewind \/ UNCHANGED vars
  BY <1>3 DEF Starve, Recover, LockMoves, Push, Rewind, Mishap, vars
<1>. QED  BY <1>1, <1>2, <1>3 DEF Next

LEMMA NextPositions == TypeOK /\ Rooted /\ Positions /\ [Next]_vars => Positions'
<1> SUFFICES ASSUME TypeOK, Rooted, Positions, [Next]_vars, Orderly'
             PROVE  Positions'
  BY DEF Positions
<1>1. Orderly
  BY MishapsGrow DEF Orderly
<1>. QED  BY <1>1, StepPositions, StartPositions, OtherPositions DEF Next

\* The inductive invariant so far.
LEMMA SyncPositions == Spec => [](TypeOK /\ Rooted /\ Positions)
<1>1. Init => Rooted
  BY DEF Init, Rooted, Idle
<1>. QED
  BY <1>1, InitTypes, InitPositions, NextTypes, NextRooted, NextPositions, PTL DEF Spec

\* The bookmark of a source never goes back, unless the history does or a sync
\* that had lost its lock met another: kills, resumes, stored pins and full
\* syncs cannot undo an advance.
THEOREM SyncBookmark == Spec => BookmarkForward
<1> DEFINE Forward == anchor' < anchor => mishaps \cap {"clash", "rewound"} # {}
<1>1. TypeOK /\ Positions /\ [Next]_vars => [Forward]_vars
  <2> SUFFICES ASSUME TypeOK, Positions, Next, Orderly, anchor' # anchor
               PROVE  ~(anchor' < anchor)
    <3> SUFFICES ASSUME TypeOK, Positions, [Next]_vars, anchor' < anchor
                 PROVE  ~Orderly
      BY DEF Orderly, TypeOK
    <3>1. anchor' # anchor
      BY DEF TypeOK, Commits
    <3>. QED  BY <3>1 DEF vars
  <2>1. ASSUME NEW c \in Caller, Advance(c)
        PROVE  ~(anchor' < anchor)
    <3>1. anchor' = run[c].pin /\ run[c].pc = "advance"
      BY <2>1 DEF Advance
    <3>2. anchor \in Nat /\ run[c].pin \in Nat
      BY DEF TypeOK, Run, Commits
    <3>3. anchor <= run[c].pin
      BY <3>1, <3>2 DEF Positions, Positioned, Ranged
    <3>. QED  BY <3>1, <3>2, <3>3
  <2>2. \E c \in Caller : Advance(c)
    BY DEF Next, Step, Start, SaveWalk, Crash, Starve, Recover, LockMoves, Push, Rewind,
       Resolve, Mint, Walk, DeleteFile, ImportFile, Flush, Partial, Gate, Clear,
       Mark, Reconcile, brain
  <2>. QED  BY <2>1, <2>2
<1>. QED  BY <1>1, SyncPositions, PTL DEF Spec, BookmarkForward

-----------------------------------------------------------------------------
(* What a resumed run skips *)

Banking ==
  NoRevert /\ Orderly =>
    /\ anchor # 0 /\ target[anchor] # 0 =>
         \A f \in paths[anchor] : Fresh(f, target[anchor])
    /\ \A c \in Caller : run[c].pc = "drain" /\ ~run[c].full =>
         \A f \in run[c].done : Fresh(f, run[c].pin)

\* A page that an import brings to HEAD's tree is fresh with respect to every
\* commit.
LEMMA ImportFresh ==
  ASSUME NEW f \in File, NEW k \in Commit, pages'[f] = Tree[head'][f]
  PROVE  Fresh(f, k)'
BY DEF Fresh

\* Without reverts a change between j and k still shows at HEAD.
LEMMA ChangeShows ==
  ASSUME TypeOK, NoRevert, NEW f \in File, NEW j \in Commit, NEW k \in Commit,
         j <= k, k <= head, Tree[j][f] # Tree[k][f]
  PROVE  Tree[head][f] # Tree[j][f]
BY DEF TypeOK, NoRevert

LEMMA FreshDown ==
  ASSUME TypeOK, NoRevert, NEW f \in File, NEW j \in Commit, NEW k \in Commit,
         j <= k, k <= head, Fresh(f, k)
  PROVE  Fresh(f, j)
BY ChangeShows DEF Fresh

LEMMA PushFresh ==
  ASSUME TypeOK, NoRevert, NEW f \in File, NEW k \in Commit, k <= head,
         Fresh(f, k), Push
  PROVE  Fresh(f, k)'
<1>1. head \in Commit /\ head' \in Commit /\ head <= head' /\ pages' = pages
  BY HistoryAssumption DEF TypeOK, Push, Commit, brain
<1>2. Tree[head'][f] = Tree[k][f] => Tree[head][f] = Tree[k][f]
  BY <1>1 DEF NoRevert
<1>. QED  BY <1>1, <1>2 DEF Fresh

\* A deletion is right for every commit up to the pin.
LEMMA DeleteFresh ==
  ASSUME TypeOK, Positions, Orderly, NoRevert, NEW c \in Caller, NEW f \in File,
         DeleteFile(c, f), pages' = [pages EXCEPT ![f] = Absent],
         NEW k \in Commit, k <= run[c].pin
  PROVE  Fresh(f, k)'
<1> DEFINE r == run[c]
<1>1. f \in Deleted(r) /\ r.pc = "drain" /\ ~r.full /\ head' = head
  BY DEF DeleteFile, Draining
<1>2. r.pin <= head /\ r.from < r.pin /\ r.pin \in Commits /\ r.from \in Commits
  BY <1>1 DEF Positions, Positioned, Ranged, TypeOK, Run
<1>3. r.pin \in Commit
  BY <1>2 DEF Commit, Commits
<1>4. Tree[r.pin][f] = Absent
  BY <1>1 DEF Deleted, Tracked
<1>5. pages'[f] = Absent
  BY DEF TypeOK
<1>6. Tree[k][f] # Absent => Tree[head][f] # Tree[k][f]
  BY <1>2, <1>3, <1>4, ChangeShows
<1>. QED  BY <1>1, <1>5, <1>6 DEF Fresh

LEMMA StepFresh ==
  ASSUME TypeOK, Positions, Orderly, NoRevert, NEW c \in Caller,
         Step(c) \/ SaveWalk(c) \/ Crash(c),
         NEW f \in File, NEW k \in Commit, Fresh(f, k),
         run[c].pc = "drain" /\ ~run[c].full => k <= run[c].pin
  PROVE  Fresh(f, k)'
<1>1. ASSUME NEW g \in File, DeleteFile(c, g)
      PROVE  Fresh(f, k)'
  <2>1. head' = head /\ run[c].pc = "drain" /\ ~run[c].full
    BY <1>1 DEF DeleteFile, Draining
  <2>2. CASE g = f /\ pages' = [pages EXCEPT ![g] = Absent]
    BY <1>1, <2>1, <2>2, DeleteFresh
  <2>3. CASE g # f \/ pages' = pages
    BY <1>1, <2>1, <2>3 DEF DeleteFile, Fresh, TypeOK
  <2>. QED  BY <1>1, <2>2, <2>3 DEF DeleteFile
<1>2. ASSUME NEW g \in File, ImportFile(c, g)
      PROVE  Fresh(f, k)'
  <2>1. head' = head
    BY <1>2 DEF ImportFile
  <2>2. pages'[f] = pages[f] \/ pages'[f] = Tree[head][f]
    BY <1>2 DEF ImportFile, TypeOK
  <2>. QED  BY <2>1, <2>2 DEF Fresh
<1>3. CASE Reconcile(c)
  <2>1. head' = head /\ (pages'[f] = pages[f] \/ pages'[f] = Tree[head][f])
    BY <1>3 DEF Reconcile, Tracked
  <2>. QED  BY <2>1 DEF Fresh
<1>4. CASE UNCHANGED <<pages, head>>
  BY <1>4 DEF Fresh
<1>. QED
  BY <1>1, <1>2, <1>3, <1>4 DEF Step, SaveWalk, Crash, Resolve, Mint, Walk, Flush,
     Partial, Gate, Advance, Clear, Mark, brain

LEMMA InitBanking == Init => Banking
BY DEF Init, Banking, Idle

\* What becomes of one file of a drain.
LEMMA DrainResults ==
  ASSUME NEW r \in Run, NEW f \in File
  PROVE  /\ Handled(r, f).done = r.done \cup {f} /\ Handled(r, f).failed = r.failed
         /\ Cleanly(r, f).done = r.done \cup {f} /\ Cleanly(r, f).failed = r.failed
         /\ Failing(r, f).done = r.done /\ Failing(r, f).failed = r.failed \cup {f}
         /\ Threw(r, f).done = r.done /\ Threw(r, f).failed = r.failed \cup {f}
         /\ OnInfra(r, f).done = r.done /\ OnInfra(r, f).failed = r.failed \cup {f}
         /\ Handled(r, f).threw = r.threw /\ Cleanly(r, f).threw = r.threw
         /\ Failing(r, f).threw = r.threw
         /\ ~r.full => ~Threw(r, f).threw /\ ~OnInfra(r, f).threw
BY DEF Run, Handled, Cleanly, Failing, Threw, OnInfra

LEMMA DeleteCases ==
  ASSUME TypeOK, NEW c \in Caller, NEW f \in File, DeleteFile(c, f)
  PROVE  /\ run[c].pc = "drain" /\ ~run[c].full /\ f \in run[c].todo
         /\ f \in Deleted(run[c]) /\ head' = head
         /\ \/ run'[c] = Handled(run[c], f) /\ pages' = [pages EXCEPT ![f] = Absent]
            \/ run'[c] = Failing(run[c], f) /\ pages' = pages
BY DEF TypeOK, DeleteFile, Draining, Set

LEMMA ImportCases ==
  ASSUME TypeOK, NEW c \in Caller, NEW f \in File, ImportFile(c, f)
  PROVE  /\ run[c].pc = "drain" /\ f \in run[c].todo /\ head' = head
         /\ ~run[c].full => f \notin Deleted(run[c])
         /\ \/ /\ Tree[head][f] = Absent /\ pages' = pages
               /\ IF run[c].full THEN "rough" \in mishaps'
                                 ELSE run'[c] = Cleanly(run[c], f)
            \/ run'[c] = Failing(run[c], f) /\ pages' = pages
            \/ /\ pages'[f] = Tree[head][f]
               /\ run'[c] \in {Handled(run[c], f), Cleanly(run[c], f)}
            \/ /\ run'[c] = OnInfra(run[c], f) /\ pages' = pages
               /\ run[c].full => "rough" \in mishaps'
<1>1. /\ run[c].pc = "drain" /\ f \in run[c].todo /\ head' = head
      /\ ~run[c].full => f \notin Deleted(run[c])
  BY DEF ImportFile, Importable, Draining
<1>2. \A r : Set(c, r) => run'[c] = r
  BY DEF TypeOK, Set
<1>3. CASE Tree[head][f] = Absent
  BY <1>1, <1>2, <1>3, HistoryAssumption DEF ImportFile, Mishap
<1>4. CASE Tree[head][f] \in Bad
  BY <1>1, <1>2, <1>4, HistoryAssumption DEF ImportFile
<1>5. CASE Tree[head][f] \in Content \ Bad
  <2>1. CASE pages' = [pages EXCEPT ![f] = Tree[head][f]]
             /\ Set(c, IF Tree[head][f] = pages[f] THEN Handled(run[c], f)
                                                   ELSE Cleanly(run[c], f))
    BY <1>1, <1>2, <2>1 DEF TypeOK
  <2>2. CASE /\ Set(c, OnInfra(run[c], f)) /\ UNCHANGED pages
             /\ IF run[c].full THEN Mishap("rough") ELSE UNCHANGED mishaps
    BY <1>1, <1>2, <2>2 DEF Mishap
  <2>. QED  BY <1>5, <2>1, <2>2, HistoryAssumption DEF ImportFile
<1>. QED  BY <1>3, <1>4, <1>5 DEF ImportFile

\* What an incremental drain takes for done needs no second look.
LEMMA DoneFresh ==
  ASSUME TypeOK, Positions, Banking, Orderly, NoRevert, NEW c \in Caller,
         NEW g \in File, DeleteFile(c, g) \/ ImportFile(c, g), ~run[c].full,
         NEW k \in Commit, k = run[c].pin
  PROVE  \A f \in run'[c].done : Fresh(f, k)'
<1> DEFINE r == run[c]
<1>0. r \in Run /\ r.pc = "drain" /\ g \in r.todo /\ head' = head
  BY DeleteCases, ImportCases DEF TypeOK
<1>1. Ranged(r)
  BY <1>0 DEF Positions, Positioned
<1>2. k <= r.pin
  BY DEF Commit
<1>3. \A f \in r.done : Fresh(f, k)'
  <2>1. \A f \in r.done : Fresh(f, k) /\ f \in File
    BY <1>0 DEF Banking, Run
  <2>2. Step(c)
    BY DEF Step
  <2>. QED  BY <1>2, <2>1, <2>2, StepFresh
<1>4. CASE run'[c].done = r.done
  BY <1>3, <1>4
<1>5. ASSUME run'[c].done = r.done \cup {g}, Fresh(g, k)'
      PROVE  \A f \in run'[c].done : Fresh(f, k)'
  BY <1>3, <1>5
<1>6. CASE DeleteFile(c, g)
  <2>1. CASE pages' = [pages EXCEPT ![g] = Absent] /\ run'[c] = Handled(r, g)
    <3>1. Fresh(g, k)'
      BY <1>2, <1>6, <2>1, DeleteFresh
    <3>. QED  BY <1>0, <1>5, <2>1, <3>1, DrainResults
  <2>2. CASE run'[c] = Failing(r, g)
    BY <1>0, <1>4, <2>2, DrainResults
  <2>. QED  BY <1>6, <2>1, <2>2, DeleteCases
<1>7. CASE ImportFile(c, g)
  <2>1. CASE Tree[head][g] = Absent /\ run'[c] = Cleanly(r, g)
    <3>1. g \in DiffOf(r.from, r.pin) /\ g \notin Deleted(r)
      BY <1>0, <1>1, <1>7, ImportCases DEF Ranged
    <3>2. Tree[r.pin][g] # Absent
      BY <3>1 DEF Deleted, Tracked
    <3>3. Fresh(g, k)'
      BY <1>0, <2>1, <3>2 DEF Fresh
    <3>. QED  BY <1>0, <1>5, <2>1, <3>3, DrainResults
  <2>2. CASE pages'[g] = Tree[head][g] /\ run'[c] \in {Handled(r, g), Cleanly(r, g)}
    <3>1. Fresh(g, k)'
      BY <1>0, <2>2 DEF Fresh
    <3>. QED  BY <1>0, <1>5, <2>2, <3>1, DrainResults
  <2>3. CASE run'[c] \in {Failing(r, g), OnInfra(r, g)}
    BY <1>0, <1>4, <2>3, DrainResults
  <2>. QED  BY <1>7, <2>1, <2>2, <2>3, ImportCases
<1>. QED  BY <1>6, <1>7

\* A path that was banked stays good.
LEMMA BankKept ==
  ASSUME TypeOK, Positions, Banking, Orderly, NoRevert, NEW c \in Caller,
         Step(c) \/ SaveWalk(c) \/ Crash(c), anchor # 0, target[anchor] # 0,
         NEW f \in paths[anchor], NEW k \in Commit, k = target[anchor]
  PROVE  Fresh(f, k)'
<1>1. anchor \in Commit /\ f \in File
  BY DEF TypeOK, Commit, Commits
<1>2. Fresh(f, k)
  BY DEF Banking
<1>3. run[c].pc = "drain" /\ ~run[c].full => k <= run[c].pin
  BY DEF Positions, Positioned, Ranged, Commit
<1>. QED  BY <1>1, <1>2, <1>3, StepFresh

\* So does a file that is done.
LEMMA DoneKept ==
  ASSUME TypeOK, Positions, Banking, Orderly, NoRevert, NEW c \in Caller,
         Step(c) \/ SaveWalk(c) \/ Crash(c), run[c].pc = "drain", ~run[c].full,
         NEW f \in run[c].done, NEW k \in Commit, k = run[c].pin
  PROVE  Fresh(f, k)'
<1>1. f \in File
  BY DEF TypeOK, Run
<1>2. Fresh(f, k) /\ k <= run[c].pin
  BY DEF Banking, Commit
<1>. QED  BY <1>1, <1>2, StepFresh

LEMMA StepBanked ==
  ASSUME TypeOK, Rooted, Positions, Banking, Orderly, NoRevert, NEW c \in Caller,
         Step(c) \/ SaveWalk(c) \/ Crash(c), anchor' # 0, target'[anchor'] # 0,
         NEW f \in paths'[anchor'], NEW k \in Commit, k = target'[anchor']
  PROVE  Fresh(f, k)'
<1> DEFINE r == run[c]
<1> USE CommitFacts
<1>0. /\ r \in Run /\ r.from \in Commits /\ r.pin \in Commits /\ anchor \in Commits
      /\ target \in [Commit -> Commits] /\ paths \in [Commit -> SUBSET File]
      /\ Stored /\ Positioned(r)
  BY DEF TypeOK, Run, Positions
<1>1. ASSUME anchor' = anchor, target'[anchor] = target[anchor],
             paths'[anchor] = paths[anchor]
      PROVE  Fresh(f, k)'
  BY <1>1, BankKept
<1>2. CASE Resolve(c)
  <2>1. anchor' = anchor /\ r.from = anchor /\ anchor \in Commit
    BY <1>0, <1>2 DEF Resolve, brain, Positioned, Commit, Commits
  <2>. QED  BY <1>0, <1>1, <1>2, <2>1 DEF Resolve, Dropped
<1>3. CASE Mint(c)
  <2>1. anchor' = anchor /\ r.from = anchor /\ anchor \in Commit /\ paths' = paths
        /\ target[anchor] \in {0, r.pin}
    BY <1>0, <1>3 DEF Mint, brain, Positioned, Ranged, Commit, Commits
  <2>2. anchor <= anchor
    BY <2>1 DEF Commit
  <2>3. target[anchor] # 0 \/ paths[anchor] = {}
    BY <1>0, <2>1, <2>2 DEF Stored
  <2>. QED  BY <1>0, <1>1, <1>3, <2>1, <2>3 DEF Mint
<1>4. ASSUME Bank(r), r.pc = "drain", ~r.full, UNCHANGED <<anchor, target>>
      PROVE  Fresh(f, k)'
  <2>1. r.from = anchor /\ target[anchor] = r.pin /\ anchor \in Commit
    BY <1>0, <1>4 DEF Positioned, Ranged, Commit, Commits
  <2>2. f \in paths[anchor] \cup r.done
    BY <1>0, <1>4, <2>1 DEF Bank
  <2>. QED  BY <1>4, <2>1, <2>2, BankKept, DoneKept
<1>5. CASE Flush(c) \/ Partial(c) \/ Crash(c)
  <2>1. UNCHANGED <<anchor, target>>
    BY <1>5 DEF Flush, Partial, Crash, brain
  <2>2. paths' = paths \/ (Bank(r) /\ r.pc = "drain" /\ ~r.full)
    BY <1>5 DEF Flush, Partial, Crash, Draining
  <2>. QED  BY <1>1, <1>4, <2>1, <2>2
<1>6. CASE Advance(c)
  <2>1. anchor' = r.pin /\ target' = target /\ paths' = paths /\ r.pc = "advance"
    BY <1>6 DEF Advance, checkpoint
  <2>2. anchor <= r.pin /\ r.pin \in Commit
    BY <1>0, <2>1 DEF Positioned, Ranged, Commit, Commits
  <2>3. r.pin <= anchor
    BY <2>1, <2>2 DEF Positions, Stored
  <2>4. r.pin = anchor
    BY <1>0, <2>2, <2>3 DEF Commits
  <2>. QED  BY <1>1, <2>1, <2>4
<1>7. CASE Clear(c)
  <2>1. anchor' = anchor /\ r.from < anchor /\ anchor \in Nat
    BY <1>0, <1>7 DEF Clear, brain, Positioned, Commits
  <2>2. r.from # anchor
    BY <2>1
  <2>3. target'[anchor] = target[anchor] /\ paths'[anchor] = paths[anchor]
    <3>1. anchor \in Commit
      BY <1>0, <2>1 DEF Commit, Commits
    <3>2. /\ target' \in {target, [target EXCEPT ![r.from] = 0]}
          /\ paths' \in {paths, [paths EXCEPT ![r.from] = {}]}
      BY <1>7 DEF Clear
    <3>. QED  BY <1>0, <2>2, <3>1, <3>2
  <2>. QED  BY <1>1, <2>1, <2>3
<1>8. CASE UNCHANGED <<anchor, target, paths>>
  BY <1>1, <1>8
<1>. QED
  BY <1>2, <1>3, <1>5, <1>6, <1>7, <1>8 DEF Step, SaveWalk, Walk, DeleteFile,
     ImportFile, Gate, Mark, Reconcile, checkpoint, brain

LEMMA StepDone ==
  ASSUME TypeOK, Positions, Banking, Orderly, NoRevert, NEW c \in Caller,
         Step(c) \/ SaveWalk(c) \/ Crash(c), run'[c].pc = "drain", ~run'[c].full,
         NEW f \in run'[c].done, NEW k \in Commit, k = run'[c].pin
  PROVE  Fresh(f, k)'
<1> DEFINE r == run[c]
<1>0. r \in Run /\ run \in [Caller -> Run] /\ Positioned(r)
  BY DEF TypeOK, Positions
<1>1. ~Stop(c)
  BY <1>0 DEF Stop, Set, Idle
<1>2. ASSUME NEW g \in File, DeleteFile(c, g) \/ ImportFile(c, g)
      PROVE  Fresh(f, k)'
  <2>1. PICK z \in {Handled(r, g), Cleanly(r, g), Failing(r, g), Threw(r, g),
                    OnInfra(r, g)} : run'[c] = z
    BY <1>0, <1>2 DEF DeleteFile, ImportFile, Set
  <2>2. z.full = r.full /\ z.pin = r.pin
    BY <1>0, DrainFields
  <2>. QED  BY <1>2, <2>1, <2>2, DoneFresh
<1>3. CASE Mint(c)
  <2>1. run'[c] = [r EXCEPT !.pc = "drain"] /\ r.pc = "mint"
    BY <1>0, <1>1, <1>3 DEF Mint, Proceed
  <2>2. run'[c].done = r.done
    BY <1>0, <2>1 DEF Run
  <2>. QED  BY <1>0, <2>1, <2>2 DEF Positioned
<1>4. CASE Flush(c)
  BY <1>0, <1>4 DEF Flush, Set, Run
<1>5. CASE SaveWalk(c)
  BY <1>5 DEF SaveWalk
<1>6. CASE Resolve(c)
  BY <1>0, <1>1, <1>6 DEF Resolve, Set, Run
<1>7. CASE Walk(c)
  BY <1>0, <1>7 DEF Walk, Set, Run
<1>8. ASSUME NEW skip \in Skipping, Gate(c, skip)
      PROVE  FALSE
  <2> DEFINE y == [r EXCEPT !.pc = "advance",
                            !.skips = IF skip THEN File ELSE r.failed]
  <2>1. run'[c] = y
    BY <1>0, <1>1, <1>8 DEF Gate, Set
  <2>2. y.pc = "advance"
    BY <1>0 DEF Run
  <2>. QED  BY <2>1, <2>2
<1>9. CASE Advance(c) \/ Clear(c) \/ Mark(c)
  BY <1>0, <1>1, <1>9 DEF Advance, Clear, Mark, Proceed, Run
<1>10. CASE Partial(c) \/ Reconcile(c) \/ Crash(c)
  BY <1>1, <1>10 DEF Partial, Reconcile, Crash
<1>. QED
  BY <1>2, <1>3, <1>4, <1>5, <1>6, <1>7, <1>8, <1>9, <1>10 DEF Step

LEMMA NextBanking ==
  TypeOK /\ Rooted /\ Positions /\ Banking /\ [Next]_vars => Banking'
<1> SUFFICES ASSUME TypeOK, Rooted, Positions, Banking, [Next]_vars, Orderly',
                    NoRevert
             PROVE  Banking'
  BY DEF Banking, NoRevert
<1>0. Orderly /\ TypeOK' /\ Positions'
  BY MishapsGrow, NextTypes, NextPositions DEF Orderly
<1> USE <1>0
<1>f. /\ target' \in [Commit -> Commits] /\ anchor' \in Commits
      /\ run' \in [Caller -> Run]
      /\ anchor \in Commits /\ target \in [Commit -> Commits]
      /\ paths \in [Commit -> SUBSET File] /\ run \in [Caller -> Run]
  BY DEF TypeOK
<1>1. ASSUME anchor' # 0, target'[anchor'] # 0
      PROVE  anchor' \in Commit /\ target'[anchor'] \in Commit
  BY <1>1, <1>f DEF Commit, Commits
<1>2. ASSUME NEW d \in Caller, run'[d].pc = "drain", ~run'[d].full
      PROVE  run'[d].pin \in Commit
  <2>1. Ranged(run[d])'
    BY <1>2 DEF Positions, Positioned
  <2>2. run'[d].pin \in Commits /\ run'[d].from \in Commits
    BY <1>f DEF Run
  <2>. QED  BY <2>1, <2>2 DEF Ranged, Commit, Commits
<1>3. ASSUME NEW c \in Caller, Step(c) \/ SaveWalk(c) \/ Crash(c)
      PROVE  Banking'
  <2>1. ASSUME anchor' # 0, target'[anchor'] # 0, NEW f \in paths'[anchor'],
               NEW k \in Commit, k = target'[anchor']
        PROVE  Fresh(f, k)'
    BY <1>3, <2>1, StepBanked
  <2>2. ASSUME NEW d \in Caller, run'[d].pc = "drain", ~run'[d].full,
               NEW f \in run'[d].done, NEW k \in Commit, k = run'[d].pin
        PROVE  Fresh(f, k)'
    <3>1. d = c
      <4>1. c \in at_work /\ run[c].pc # "idle"
        BY <1>3, StepKeeps DEF TypeOK, Step, SaveWalk, Crash, Resolve, Mint, Walk, DeleteFile, ImportFile,
              Importable, Flush, Partial, Gate, Advance, Clear, Mark, Reconcile,
              Draining
      <4>2. d # c => run'[d].pc = "idle"
        BY <1>3, <1>f, <4>1, Alone, StepKeeps DEF Set
      <4>. QED  BY <2>2, <4>2
    <3>. QED  BY <1>3, <2>2, <3>1, StepDone
  <2>. QED  BY <1>1, <1>2, <2>1, <2>2 DEF Banking
<1>4. ASSUME UNCHANGED <<pages, anchor, target, paths>>,
             head' = head \/ Push,
             \A d \in Caller : run'[d].pc = "drain" => run'[d] = run[d]
      PROVE  Banking'
  <2>1. ASSUME NEW f \in File, NEW k \in Commit, k <= head, Fresh(f, k)
        PROVE  Fresh(f, k)'
    BY <1>4, <2>1, PushFresh DEF Fresh
  <2>2. ASSUME anchor' # 0, target'[anchor'] # 0, NEW f \in paths'[anchor'],
               NEW k \in Commit, k = target'[anchor']
        PROVE  Fresh(f, k)'
    <3>1. Fresh(f, k) /\ f \in File /\ k <= head
      BY <1>1, <1>4, <1>f, <2>2 DEF Banking, Positions, Stored, Commit, Commits
    <3>. QED  BY <2>1, <3>1
  <2>3. ASSUME NEW d \in Caller, run'[d].pc = "drain", ~run'[d].full,
               NEW f \in run'[d].done, NEW k \in Commit, k = run'[d].pin
        PROVE  Fresh(f, k)'
    <3>1. run'[d] = run[d]
      BY <1>4, <2>3
    <3>2. Fresh(f, k) /\ f \in File /\ k <= head
      BY <1>f, <2>3, <3>1 DEF Banking, Positions, Positioned, Ranged, Run
    <3>. QED  BY <2>1, <3>2
  <2>. QED  BY <1>1, <1>2, <2>2, <2>3 DEF Banking
<1>5. ASSUME NEW c \in Caller, NEW full \in Fulls, Start(c, full)
      PROVE  Banking'
  <2>1. run'[c].pc = "resolve" /\ \A d \in Caller \ {c} : run'[d] = run[d]
    BY <1>5, <1>f DEF Start, Set, Idle
  <2>. QED  BY <1>4, <1>5, <2>1 DEF Start, brain, checkpoint
<1>6. CASE Starve \/ Recover \/ Push \/ UNCHANGED vars
  BY <1>4, <1>6 DEF Starve, Recover, LockMoves, Push, brain, checkpoint, vars
<1>7. CASE Rewind
  BY <1>7 DEF Rewind, Mishap, Orderly
<1>. QED  BY <1>3, <1>5, <1>6, <1>7 DEF Next

\* A resumed run skips only what needs no second look, in any history without
\* reverts: commits that land while a run drains, kills before or after a flush
\* and pins that outlive their run do not hide a file from the next range.
THEOREM SyncBanked == Spec => []BankedIsDone
<1>1. Init => Rooted
  BY DEF Init, Rooted, Idle
<1>2. Banking => BankedIsDone
  BY DEF Banking, BankedIsDone, Orderly
<1>. QED
  BY <1>1, <1>2, InitTypes, InitPositions, InitBanking, NextTypes, NextRooted,
     NextPositions, NextBanking, PTL DEF Spec

-----------------------------------------------------------------------------
(* What the brain may miss *)

Accounted(r) ==
  /\ r.pc \in {"mint", "drain"} /\ ~r.full =>
       \A f \in DiffOf(r.from, r.pin) : f \in r.todo \cup r.failed \/ Fresh(f, r.pin)
  /\ r.pc = "drain" /\ r.full =>
       \A f \in Tracked(r.pin) : f \in r.todo \cup r.failed \/ Fresh(f, r.pin)

Excused(f, k) == ledger[f] # NoEntry \/ Fresh(f, k)

\* Past its gate, a full sync still has the untracked files to look at.
Unreconciled(r, f) ==
  r.full /\ r.pc \in {"advance", "mark", "reconcile"} /\ f \notin Tracked(r.pin)

Passed(r) ==
  /\ r.pc = "advance" /\ ~r.full => \A f \in File : Excused(f, r.pin)
  /\ r.pc \in {"advance", "mark", "reconcile"} /\ r.full =>
       \A f \in Tracked(r.pin) : Excused(f, r.pin)

Contents ==
  NoRevert /\ mishaps = {} =>
    /\ \A c \in Caller : ~run[c].threw
    /\ walked # {} => \E c \in Caller : run[c].full /\ run[c].pc = "drain"
    /\ anchor # 0 => \A f \in File :
         Excused(f, anchor) \/ \E c \in Caller : Unreconciled(run[c], f)
    /\ \A c \in Caller : Accounted(run[c]) /\ Passed(run[c])

\* Rows are kept or made for the failed files, and for those nobody resolved.
LEMMA GateRows ==
  ASSUME TypeOK, NEW c \in Caller, NEW skip \in Skipping, Gate(c, skip),
         NEW f \in File
  PROVE  /\ f \in run[c].failed => ledger'[f] # NoEntry
         /\ f \notin run[c].failed \cup Resolved(run[c]) => ledger'[f] = ledger[f]
BY DEF Gate, Recorded, NoEntry

\* What the invariants say of the one run at work.
LEMMA AloneContents ==
  ASSUME TypeOK, Positions, Contents, NoRevert, mishaps = {}, NEW c \in Caller,
         run[c].pc # "idle"
  PROVE  /\ Orderly
         /\ ~run[c].threw /\ Accounted(run[c]) /\ Passed(run[c])
         /\ walked # {} => run[c].full /\ run[c].pc = "drain"
         /\ anchor # 0 => \A f \in File : Excused(f, anchor) \/ Unreconciled(run[c], f)
<1>1. Orderly
  BY DEF Orderly
<1>2. \A d \in Caller \ {c} : run[d].pc = "idle"
  BY <1>1, Alone
<1>3. \A d \in Caller : run[d].pc \in {"drain", "advance", "mark", "reconcile"} => d = c
  BY <1>2
<1>. QED  BY <1>1, <1>3 DEF Contents, Unreconciled

LEMMA AtWork ==
  ASSUME TypeOK, NEW c \in Caller, Step(c) \/ SaveWalk(c) \/ Crash(c)
  PROVE  run[c].pc # "idle"
BY DEF Step, SaveWalk, Crash, Resolve, Mint, Walk, DeleteFile, ImportFile,
   Importable, Flush, Partial, Gate, Advance, Clear, Mark, Reconcile, Draining

\* A gate has every file of the range looked at.
LEMMA GateRange ==
  ASSUME TypeOK, Positions, Contents, NoRevert, mishaps = {}, NEW c \in Caller,
         NEW skip \in Skipping, Gate(c, skip), ~run[c].full,
         NEW f \in File, NEW k \in Commit, k = run[c].pin
  PROVE  /\ Excused(f, k)'
         /\ \A j \in Commit : j = anchor => Excused(f, j)'
<1> DEFINE r == run[c]
<1>0. /\ r.pc = "drain" /\ r.todo = {} /\ UNCHANGED <<pages, head, anchor>>
      /\ r \in Run
  BY DEF Gate, Draining, TypeOK
<1>1. /\ Orderly /\ Accounted(r)
      /\ anchor # 0 => Excused(f, anchor) \/ Unreconciled(r, f)
  BY <1>0, AloneContents
<1>2. Ranged(r)
  BY <1>0, <1>1 DEF Positions, Positioned
<1>3. /\ anchor \in Commit /\ r.from = anchor /\ anchor <= k /\ k <= head
      /\ Excused(f, anchor)
  BY <1>1, <1>2 DEF Ranged, TypeOK, Commit, Commits, Unreconciled
<1>4. ASSUME NEW j \in Commit, Fresh(f, j)
      PROVE  Fresh(f, j)'
  BY <1>0, <1>4 DEF Fresh
<1>5. CASE f \in r.failed
  BY <1>5, GateRows DEF Excused
<1>6. CASE f \notin r.failed /\ f \in DiffOf(anchor, k)
  <2>1. Fresh(f, k)
    BY <1>0, <1>1, <1>3, <1>6 DEF Accounted
  <2>2. Fresh(f, anchor)
    BY <1>3, <2>1, FreshDown
  <2>. QED  BY <1>3, <1>4, <2>1, <2>2 DEF Excused
<1>7. CASE f \notin r.failed /\ f \notin DiffOf(anchor, k)
  <2>1. f \notin Resolved(r)
    BY <1>2, <1>3, <1>7 DEF Resolved, Deleted, Ranged
  <2>2. ledger'[f] = ledger[f]
    BY <1>7, <2>1, GateRows
  <2>3. Tree[anchor][f] = Tree[k][f]
    BY <1>7 DEF DiffOf
  <2>. QED  BY <1>3, <1>4, <2>2, <2>3 DEF Excused, Fresh
<1>. QED  BY <1>5, <1>6, <1>7

LEMMA GateTree ==
  ASSUME TypeOK, Positions, Contents, NoRevert, mishaps = {}, NEW c \in Caller,
         NEW skip \in Skipping, Gate(c, skip), run[c].full,
         NEW f \in File, NEW k \in Commit, k = run[c].pin, f \in Tracked(k)
  PROVE  /\ Excused(f, k)'
         /\ \A j \in Commit : j = anchor => Excused(f, j)'
<1> DEFINE r == run[c]
<1>0. /\ r.pc = "drain" /\ r.todo = {} /\ UNCHANGED <<pages, head, anchor>>
      /\ r \in Run
  BY DEF Gate, Draining, TypeOK
<1>1. Orderly /\ Accounted(r)
  BY <1>0, AloneContents
<1>2. anchor <= k /\ k <= head
  BY <1>0, <1>1 DEF Positions, Positioned
<1>3. CASE f \in r.failed
  BY <1>3, GateRows DEF Excused
<1>4. CASE f \notin r.failed
  <2>1. Fresh(f, k)
    BY <1>0, <1>1, <1>4 DEF Accounted
  <2>2. \A j \in Commit : j = anchor => Fresh(f, j)
    BY <1>2, <2>1, FreshDown
  <2>. QED  BY <1>0, <2>1, <2>2 DEF Excused, Fresh
<1>. QED  BY <1>3, <1>4

\* A full sync that its gate stops forgets no row it should have kept.
LEMMA GateBlocked ==
  ASSUME TypeOK, Positions, Contents, NoRevert, mishaps = {}, mishaps' = {},
         NEW c \in Caller, NEW skip \in Skipping, Gate(c, skip), Stop(c),
         run[c].full, NEW f \in File, f \notin Tracked(run[c].pin),
         NEW j \in Commit, j = anchor
  PROVE  Excused(f, j)'
<1> DEFINE r == run[c]
<1>0. /\ r.pc = "drain" /\ UNCHANGED <<pages, head, anchor>> /\ r \in Run
  BY DEF Gate, Draining, TypeOK
<1>1. Excused(f, anchor)
  BY <1>0, AloneContents DEF Unreconciled, Commit
<1>2. ~Passes(r, Recorded(r), skip)
  <2>1. run'[c].pc = "idle"
    BY DEF Stop, Set, Idle, TypeOK
  <2> DEFINE y == [r EXCEPT !.pc = "advance",
                            !.skips = IF skip THEN File ELSE r.failed]
  <2>2. y.pc = "advance"
    BY <1>0 DEF Run
  <2>3. Set(c, y) => run'[c] = y
    BY DEF Set, TypeOK
  <2>. QED  BY <2>1, <2>2, <2>3 DEF Gate
<1>3. Forgotten(r) = {}
  BY <1>2 DEF Gate, Mishap
<1>4. CASE f \in r.failed
  BY <1>4, GateRows DEF Excused
<1>5. CASE f \notin r.failed
  <2>1. ledger[f] = NoEntry
    BY <1>3, <1>5 DEF Forgotten
  <2>. QED  BY <1>0, <1>1, <2>1 DEF Excused, Fresh
<1>. QED  BY <1>4, <1>5

LEMMA MarkRows ==
  ASSUME TypeOK, NEW c \in Caller, Mark(c), NEW f \in File, ledger[f] # NoEntry
  PROVE  ledger'[f] # NoEntry
BY DEF TypeOK, Mark, Entry, NoEntry

LEMMA StepExcused ==
  ASSUME TypeOK, Rooted, Positions, Contents, NoRevert, mishaps = {},
         mishaps' = {}, NEW c \in Caller, Step(c) \/ SaveWalk(c) \/ Crash(c),
         NEW f \in File, NEW k \in Commit, k = anchor'
  PROVE  Excused(f, k)' \/ Unreconciled(run[c], f)'
<1> DEFINE r == run[c]
<1>0. /\ r \in Run /\ run \in [Caller -> Run] /\ r.pc # "idle" /\ Orderly
      /\ Passed(r) /\ Positioned(r)
      /\ anchor # 0 => Excused(f, anchor) \/ Unreconciled(r, f)
  BY AtWork, AloneContents DEF TypeOK, Positions
<1>1. ASSUME NEW skip \in Skipping, Gate(c, skip)
      PROVE  Excused(f, k)' \/ Unreconciled(run[c], f)'
  <2>1. r.pc = "drain" /\ k = anchor
    BY <1>1 DEF Gate, Draining
  <2>2. r.pin \in Commit
    BY <1>0, <2>1 DEF Positioned, Ranged, Run, Commit, Commits
  <2>3. CASE ~r.full
    BY <1>1, <2>1, <2>2, <2>3, GateRange
  <2>4. CASE r.full /\ f \in Tracked(r.pin)
    BY <1>1, <2>1, <2>2, <2>4, GateTree
  <2>5. CASE r.full /\ f \notin Tracked(r.pin) /\ Stop(c)
    BY <1>1, <2>1, <2>5, GateBlocked
  <2>6. CASE r.full /\ f \notin Tracked(r.pin) /\ ~Stop(c)
    <3> DEFINE y == [r EXCEPT !.pc = "advance",
                              !.skips = IF skip THEN File ELSE r.failed]
    <3>1. run'[c] = y
      BY <1>0, <1>1, <2>6 DEF Gate, Set
    <3>2. y.pc = "advance" /\ y.full = r.full /\ y.pin = r.pin
      BY <1>0 DEF Run
    <3> HIDE DEF y
    <3>. QED  BY <2>6, <3>1, <3>2 DEF Unreconciled, Tracked
  <2>. QED  BY <2>3, <2>4, <2>5, <2>6
<1>2. CASE Advance(c)
  <2>1. r.pc = "advance" /\ k = r.pin /\ UNCHANGED <<pages, head, ledger>>
    BY <1>2 DEF Advance
  <2>2. CASE ~r.full \/ f \in Tracked(r.pin)
    BY <1>0, <2>1, <2>2 DEF Passed, Excused, Fresh
  <2>3. CASE r.full /\ f \notin Tracked(r.pin)
    <3>1. run'[c] = [r EXCEPT !.pc = "mark"]
      BY <1>0, <1>2, <2>3 DEF Advance, Proceed
    <3>2. run'[c].pc = "mark" /\ run'[c].full = r.full /\ run'[c].pin = r.pin
      BY <1>0, <3>1 DEF Run
    <3>. QED  BY <2>3, <3>2 DEF Unreconciled, Tracked
  <2>. QED  BY <2>2, <2>3
<1>3. CASE Mark(c)
  <2>1. k = anchor /\ UNCHANGED <<pages, head>> /\ anchor # 0
    BY <1>3 DEF Mark, Commit
  <2>2. CASE Excused(f, anchor)
    BY <1>3, <2>1, <2>2, MarkRows DEF Excused, Fresh
  <2>3. CASE Unreconciled(r, f)
    <3>1. run'[c] = [r EXCEPT !.pc = "reconcile"]
      BY <1>0, <1>3, <2>3 DEF Mark, Proceed, Unreconciled
    <3>2. run'[c].pc = "reconcile" /\ run'[c].full = r.full /\ run'[c].pin = r.pin
      BY <1>0, <3>1 DEF Run
    <3>. QED  BY <2>3, <3>2 DEF Unreconciled, Tracked
  <2>. QED  BY <1>0, <2>1, <2>2, <2>3
<1>4. CASE Reconcile(c)
  <2>1. /\ r.pc = "reconcile" /\ k = anchor /\ UNCHANGED <<head, ledger>>
        /\ pages' = [g \in File |-> IF g \in Tracked(head) THEN pages[g] ELSE Absent]
    BY <1>4 DEF Reconcile
  <2>2. r.full /\ r.pin = anchor
    BY <1>0, <2>1 DEF Positioned
  <2>3. CASE f \notin Tracked(head)
    BY <2>1, <2>3 DEF Excused, Fresh, Tracked
  <2>4. CASE f \in Tracked(head) /\ f \notin Tracked(k)
    BY <2>1, <2>4 DEF Excused, Fresh, Tracked
  <2>5. CASE f \in Tracked(head) /\ f \in Tracked(k)
    BY <1>0, <2>1, <2>2, <2>5 DEF Passed, Excused, Fresh
  <2>. QED  BY <2>3, <2>4, <2>5
<1>5. CASE UNCHANGED <<anchor, ledger>> /\ ~Mark(c) /\ ~Reconcile(c) /\ ~Advance(c)
  <2>1. k = anchor /\ anchor # 0
    BY <1>5 DEF Commit
  <2>2. ~Unreconciled(r, f)
    BY <1>5 DEF Unreconciled, Step, SaveWalk, Crash, Rough, Mishap, Resolve, Mint,
       Walk, DeleteFile, ImportFile, Importable, Flush, Partial, Gate, Clear,
       Draining, Positions, Positioned
  <2>3. r.pc = "drain" /\ ~r.full => k <= r.pin
    BY <1>0, <2>1 DEF Positioned, Ranged, TypeOK, Run, Commits
  <2>4. Fresh(f, k) => Fresh(f, k)'
    BY <1>0, <2>3, StepFresh
  <2>. QED  BY <1>0, <1>5, <2>1, <2>2, <2>4 DEF Excused
<1>. QED
  <2>1. CASE \E skip \in Skipping : Gate(c, skip)
    BY <1>1, <2>1
  <2>2. CASE ~ \E skip \in Skipping : Gate(c, skip)
    BY <1>2, <1>3, <1>4, <1>5, <2>2 DEF Step, SaveWalk, Crash, Resolve, Mint, Walk,
       DeleteFile, ImportFile, Flush, Partial, Clear, brain
  <2>. QED  BY <2>1, <2>2

LEMMA StepAccounted ==
  ASSUME TypeOK, Rooted, Positions, Banking, Contents, NoRevert, mishaps = {},
         mishaps' = {}, NEW c \in Caller, Step(c) \/ SaveWalk(c) \/ Crash(c)
  PROVE  Accounted(run[c])'
<1> DEFINE r == run[c]
<1>0. /\ r \in Run /\ run \in [Caller -> Run] /\ r.pc # "idle" /\ Orderly
      /\ Accounted(r) /\ Positioned(r)
      /\ walked # {} => r.full /\ r.pc = "drain"
  BY AtWork, AloneContents DEF TypeOK, Positions
<1>1. ASSUME run'[c].pc \notin {"mint", "drain"}
      PROVE  Accounted(run[c])'
  BY <1>1 DEF Accounted
<1>2. ASSUME UNCHANGED <<pages, head>>,
             run'[c].pc = "drain", r.pc \in {"mint", "drain"},
             run'[c].full = r.full, r.full => r.pc = "drain",
             run'[c].from = r.from, run'[c].pin = r.pin,
             run'[c].todo = r.todo, run'[c].failed = r.failed
      PROVE  Accounted(run[c])'
  BY <1>0, <1>2 DEF Accounted, DiffOf, Tracked, Fresh
<1>3. CASE Resolve(c)
  <2>1. CASE Stop(c)
    BY <1>0, <1>1, <2>1 DEF Stop, Set, Idle
  <2>2. CASE ~Stop(c)
    <3> DEFINE y == [r EXCEPT !.pc = IF DiffOf(r.from, PinOf(r.from)) = {} THEN "advance" ELSE "mint",
                              !.pin = PinOf(r.from),
                              !.todo = DiffOf(r.from, PinOf(r.from)) \ Banked(r.from)]
    <3>1. run'[c] = y /\ r.pc = "resolve" /\ ~r.full /\ UNCHANGED <<pages, head>>
      BY <1>0, <1>3, <2>2 DEF Resolve, Set, brain
    <3>2. /\ y.full = r.full /\ y.from = r.from /\ y.pin = PinOf(r.from)
          /\ y.todo = DiffOf(r.from, PinOf(r.from)) \ Banked(r.from)
      BY <1>0 DEF Run
    <3> HIDE DEF y
    <3>3. r.from = anchor /\ anchor # 0
      BY <1>0, <3>1 DEF Positioned
    <3>4. ASSUME NEW f \in Banked(r.from)
          PROVE  Fresh(f, PinOf(r.from))
      BY <1>0, <3>3, <3>4 DEF Banked, Resumes, PinOf, Banking
    <3>5. \A f \in DiffOf(y.from, y.pin) : f \in y.todo \cup y.failed \/ Fresh(f, y.pin)
      BY <3>2, <3>4
    <3>6. ~y.full
      BY <3>1, <3>2
    <3>. QED  BY <3>1, <3>5, <3>6 DEF Accounted, DiffOf, Tracked, Fresh
  <2>. QED  BY <2>1, <2>2
<1>4. CASE Mint(c)
  <2>1. CASE Stop(c)
    BY <1>0, <1>1, <2>1 DEF Stop, Set, Idle
  <2>2. CASE ~Stop(c)
    <3>1. run'[c] = [r EXCEPT !.pc = "drain"] /\ r.pc = "mint"
          /\ UNCHANGED <<pages, head>>
      BY <1>0, <1>4, <2>2 DEF Mint, Proceed, brain
    <3>2. ~r.full
      BY <1>0, <3>1 DEF Positioned
    <3>. QED  BY <1>0, <1>2, <3>1, <3>2 DEF Run
  <2>. QED  BY <2>1, <2>2
<1>5. CASE Walk(c)
  <2> DEFINE y == [r EXCEPT !.pc = "drain", !.pin = head, !.done = walked,
                            !.todo = Tracked(head) \ walked]
  <2>1. run'[c] = y /\ r.full /\ UNCHANGED <<pages, head>> /\ r.pc = "resolve"
    BY <1>0, <1>5 DEF Walk, Set, brain
  <2>2. y.full /\ y.pin = head /\ y.todo = Tracked(head)
    BY <1>0, <2>1 DEF Run
  <2> HIDE DEF y
  <2>. QED  BY <2>1, <2>2 DEF Accounted, Tracked
<1>6. ASSUME NEW g \in File, DeleteFile(c, g) \/ ImportFile(c, g)
      PROVE  Accounted(run[c])'
  <2>0. r.pc = "drain" /\ g \in r.todo /\ head' = head
    BY <1>6, DeleteCases, ImportCases
  <2>1. PICK z \in {Handled(r, g), Cleanly(r, g), Failing(r, g), Threw(r, g),
                    OnInfra(r, g)} : run'[c] = z
    BY <1>0, <1>6 DEF DeleteFile, ImportFile, Set
  <2>2. /\ z.pc = r.pc /\ z.full = r.full /\ z.from = r.from /\ z.pin = r.pin
        /\ z.todo = r.todo \ {g}
        /\ r.failed \subseteq z.failed
    BY <1>0, DrainFields, DrainResults
  <2>3. r.pin \in Commit
    BY <1>0, <2>0 DEF Positioned, Ranged, Run, Commit, Commits
  <2>4. ASSUME NEW f \in File, f # g, NEW k \in Commit, k = r.pin,
               f \in r.todo \cup r.failed \/ Fresh(f, k)
        PROVE  f \in z.todo \cup z.failed \/ Fresh(f, k)'
    <3>1. k <= r.pin
      BY <2>4 DEF Commit
    <3>2. Step(c)
      BY <1>6 DEF Step
    <3>. QED  BY <1>0, <2>2, <2>4, <3>1, <3>2, StepFresh
  <2>5. ASSUME NEW k \in Commit, k = r.pin
        PROVE  g \in z.todo \cup z.failed \/ Fresh(g, k)'
    <3>1. CASE ~r.full
      <4>1. g \in z.done \/ g \in z.failed
        BY <1>0, DrainResults
      <4>. QED  BY <1>0, <1>6, <2>1, <2>5, <3>1, <4>1, DoneFresh
    <3>2. CASE r.full
      <4>1. ImportFile(c, g)
        BY <1>6, <3>2, DeleteCases
      <4>2. run'[c] = Failing(r, g) \/ pages'[g] = Tree[head][g]
        BY <2>0, <3>2, <4>1, ImportCases
      <4>. QED  BY <1>0, <2>0, <2>1, <2>5, <4>2, ImportFresh, DrainResults
    <3>. QED  BY <3>1, <3>2
  <2>6. /\ \A f \in DiffOf(r.from, r.pin) : f \in File
        /\ \A f \in Tracked(r.pin) : f \in File
    BY DEF DiffOf, Tracked
  <2>7. ASSUME NEW f \in File, NEW k \in Commit, k = r.pin,
               f \in r.todo \cup r.failed \/ Fresh(f, k)
        PROVE  f \in z.todo \cup z.failed \/ Fresh(f, k)'
    BY <2>4, <2>5, <2>7
  <2>8. ASSUME NEW k \in Commit, k = r.pin
        PROVE  Accounted(run[c])'
    <3>1. run'[c].pin = k /\ run'[c].from = r.from /\ run'[c].full = r.full
          /\ run'[c].pc = "drain" /\ run'[c].todo = z.todo
          /\ run'[c].failed = z.failed
      BY <2>0, <2>1, <2>2, <2>8
    <3>2. CASE ~r.full
      <4>1. \A f \in DiffOf(r.from, k) : f \in z.todo \cup z.failed \/ Fresh(f, k)'
        BY <1>0, <2>0, <2>6, <2>7, <2>8, <3>2 DEF Accounted
      <4>. QED  BY <3>1, <3>2, <4>1 DEF Accounted, DiffOf, Fresh
    <3>3. CASE r.full
      <4>1. \A f \in Tracked(k) : f \in z.todo \cup z.failed \/ Fresh(f, k)'
        BY <1>0, <2>0, <2>6, <2>7, <2>8, <3>3 DEF Accounted
      <4>. QED  BY <3>1, <3>3, <4>1 DEF Accounted, Tracked, Fresh
    <3>. QED  BY <3>2, <3>3
  <2>. QED  BY <2>3, <2>8
<1>7. CASE Flush(c)
  <2>1. run'[c] = [r EXCEPT !.done = {}] /\ r.pc = "drain" /\ UNCHANGED <<pages, head>>
    BY <1>0, <1>7 DEF Flush, Set, Draining, brain
  <2>. QED  BY <1>0, <1>2, <2>1 DEF Run
<1>8. CASE SaveWalk(c)
  BY <1>0, <1>2, <1>8 DEF SaveWalk, Draining, brain
<1>9. ASSUME NEW skip \in Skipping, Gate(c, skip)
      PROVE  Accounted(run[c])'
  <2> DEFINE y == [r EXCEPT !.pc = "advance",
                            !.skips = IF skip THEN File ELSE r.failed]
  <2>1. run'[c] = y \/ run'[c] = Idle
    BY <1>0, <1>9 DEF Gate, Set, Stop
  <2>2. y.pc = "advance" /\ Idle.pc = "idle"
    BY <1>0 DEF Run, Idle
  <2> HIDE DEF y
  <2>. QED  BY <1>1, <2>1, <2>2
<1>10. CASE Advance(c) \/ Clear(c) \/ Mark(c) \/ Stop(c)
  <2>1. \/ \E pc \in {"mark", "clear", "reconcile"} : run'[c] = [r EXCEPT !.pc = pc]
        \/ run'[c] = Idle
    BY <1>0, <1>10 DEF Advance, Clear, Mark, Proceed, Stop, Set
  <2>2. run'[c].pc \in {"mark", "clear", "reconcile", "idle"}
    BY <1>0, <2>1 DEF Run, Idle
  <2>. QED  BY <1>1, <2>2
<1>. QED
  BY <1>3, <1>4, <1>5, <1>6, <1>7, <1>8, <1>9, <1>10
     DEF Step, Partial, Reconcile, Crash

LEMMA StepPassed ==
  ASSUME TypeOK, Rooted, Positions, Banking, Contents, NoRevert, mishaps = {},
         mishaps' = {}, NEW c \in Caller, Step(c) \/ SaveWalk(c) \/ Crash(c)
  PROVE  Passed(run[c])'
<1> DEFINE r == run[c]
<1>0. /\ r \in Run /\ run \in [Caller -> Run] /\ r.pc # "idle" /\ Orderly
      /\ Passed(r) /\ Positioned(r)
      /\ anchor # 0 => \A f \in File : Excused(f, anchor) \/ Unreconciled(r, f)
  BY AtWork, AloneContents DEF TypeOK, Positions
<1>1. ASSUME run'[c].pc \notin {"advance", "mark", "reconcile"}
      PROVE  Passed(run[c])'
  BY <1>1 DEF Passed
<1>2. CASE Resolve(c) /\ ~Stop(c)
  <2> DEFINE y == [r EXCEPT !.pc = IF DiffOf(r.from, PinOf(r.from)) = {} THEN "advance" ELSE "mint",
                            !.pin = PinOf(r.from),
                            !.todo = DiffOf(r.from, PinOf(r.from)) \ Banked(r.from)]
  <2>1. /\ run'[c] = y /\ r.pc = "resolve" /\ ~r.full
        /\ UNCHANGED <<pages, head, ledger>>
    BY <1>0, <1>2 DEF Resolve, Set, brain
  <2>2. /\ y.full = r.full /\ y.pin = PinOf(r.from)
        /\ y.pc = (IF DiffOf(r.from, PinOf(r.from)) = {} THEN "advance" ELSE "mint")
    BY <1>0 DEF Run
  <2> HIDE DEF y
  <2>3. r.from = anchor /\ anchor # 0
    BY <1>0, <2>1 DEF Positioned
  <2>4. CASE DiffOf(r.from, PinOf(r.from)) = {}
    <3>1. ASSUME NEW f \in File
          PROVE  Excused(f, PinOf(r.from))
      <4>1. Excused(f, anchor)
        BY <1>0, <2>1, <2>3 DEF Unreconciled
      <4>2. Tree[anchor][f] = Tree[PinOf(r.from)][f]
        BY <2>3, <2>4 DEF DiffOf
      <4>. QED  BY <4>1, <4>2 DEF Excused, Fresh
    <3>. QED  BY <2>1, <2>2, <3>1 DEF Passed, Excused, Fresh
  <2>5. CASE DiffOf(r.from, PinOf(r.from)) # {}
    BY <1>1, <2>1, <2>2, <2>5
  <2>. QED  BY <2>4, <2>5
<1>3. ASSUME NEW skip \in Skipping, Gate(c, skip)
      PROVE  Passed(run[c])'
  <2> DEFINE y == [r EXCEPT !.pc = "advance",
                            !.skips = IF skip THEN File ELSE r.failed]
  <2>1. run'[c] = y \/ run'[c] = Idle
    BY <1>0, <1>3 DEF Gate, Set, Stop
  <2>2. y.pc = "advance" /\ y.full = r.full /\ y.pin = r.pin /\ Idle.pc = "idle"
    BY <1>0 DEF Run, Idle
  <2> HIDE DEF y
  <2>3. CASE run'[c] = Idle
    BY <1>1, <2>2, <2>3
  <2>4. CASE run'[c] = y
    <3>0. r.pc = "drain"
      BY <1>3 DEF Gate, Draining
    <3>1. r.pin \in Commit
      BY <1>0, <3>0 DEF Positioned, Ranged, Run, Commit, Commits
    <3>2. ASSUME NEW k \in Commit, k = r.pin, NEW f \in File,
                 ~r.full \/ f \in Tracked(k)
          PROVE  Excused(f, k)'
      BY <1>3, <3>2, GateRange, GateTree
    <3>3. ASSUME NEW k \in Commit, k = r.pin
          PROVE  Passed(run[c])'
      <4>1. run'[c].pin = k /\ run'[c].full = r.full /\ run'[c].pc = "advance"
        BY <2>2, <2>4, <3>3
      <4>2. \A f \in Tracked(k) : f \in File
        BY DEF Tracked
      <4>. QED  BY <3>2, <3>3, <4>1, <4>2 DEF Passed, Excused, Tracked, Fresh
    <3>. QED  BY <3>1, <3>3
  <2>. QED  BY <2>1, <2>3, <2>4
<1>4. CASE Advance(c)
  <2>1. /\ r.pc = "advance" /\ UNCHANGED <<pages, head, ledger>>
        /\ run'[c] = [r EXCEPT !.pc = IF r.full THEN "mark" ELSE "clear"]
    BY <1>0, <1>4 DEF Advance, Proceed
  <2>2. /\ run'[c].pc = (IF r.full THEN "mark" ELSE "clear")
        /\ run'[c].full = r.full /\ run'[c].pin = r.pin
    BY <1>0, <2>1 DEF Run
  <2>. QED  BY <1>0, <2>1, <2>2 DEF Passed, Excused, Tracked, Fresh
<1>5. CASE Clear(c)
  <2>1. run'[c] = [r EXCEPT !.pc = "mark"] /\ r.pc = "clear"
    BY <1>0, <1>5 DEF Clear, Proceed
  <2>2. ~r.full
    BY <1>0, <2>1 DEF Positioned
  <2>3. run'[c].pc = "mark" /\ ~run'[c].full
    BY <1>0, <2>1, <2>2 DEF Run
  <2>. QED  BY <2>3 DEF Passed
<1>6. CASE Mark(c) /\ ~Stop(c)
  <2>1. /\ r.pc = "mark" /\ r.full /\ UNCHANGED <<pages, head>>
        /\ run'[c] = [r EXCEPT !.pc = "reconcile"]
    BY <1>0, <1>6 DEF Mark, Proceed
  <2>2. run'[c].pc = "reconcile" /\ run'[c].full /\ run'[c].pin = r.pin
    BY <1>0, <2>1 DEF Run
  <2>3. \A f \in Tracked(r.pin) : f \in File /\ Excused(f, r.pin)
    BY <1>0, <2>1 DEF Passed, Tracked
  <2>4. \A f \in File : ledger[f] # NoEntry => ledger'[f] # NoEntry
    BY <1>6, MarkRows
  <2>. QED  BY <2>1, <2>2, <2>3, <2>4 DEF Passed, Excused, Tracked, Fresh
<1>7. CASE Mint(c) \/ Walk(c) \/ Flush(c) \/ SaveWalk(c)
  <2>1. run'[c].pc \in {"drain", "idle"}
    <3>1. CASE Mint(c)
      <4>1. run'[c] = [r EXCEPT !.pc = "drain"] \/ run'[c] = Idle
        BY <1>0, <3>1 DEF Mint, Proceed, Stop, Set
      <4>. QED  BY <1>0, <4>1 DEF Idle, Run
    <3>4. CASE Walk(c)
      BY <1>0, <3>4 DEF Walk, Set, Run
    <3>2. CASE Flush(c)
      BY <1>0, <3>2 DEF Flush, Draining, Set, Run
    <3>3. CASE SaveWalk(c)
      BY <3>3 DEF SaveWalk, Draining
    <3>. QED  BY <1>7, <3>1, <3>2, <3>3, <3>4
  <2>. QED  BY <1>1, <2>1
<1>8. ASSUME NEW g \in File, DeleteFile(c, g) \/ ImportFile(c, g)
      PROVE  Passed(run[c])'
  <2>1. PICK z \in {Handled(r, g), Cleanly(r, g), Failing(r, g), Threw(r, g),
                    OnInfra(r, g)} : run'[c] = z
    BY <1>0, <1>8 DEF DeleteFile, ImportFile, Set
  <2>2. z.pc = "drain"
    BY <1>0, <1>8, DrainFields, DeleteCases, ImportCases
  <2>. QED  BY <1>1, <2>1, <2>2
<1>9. CASE Stop(c)
  BY <1>0, <1>1, <1>9 DEF Stop, Set, Idle
<1>. QED
  BY <1>2, <1>3, <1>4, <1>5, <1>6, <1>7, <1>8, <1>9
     DEF Step, Partial, Reconcile, Crash

LEMMA StepThrew ==
  ASSUME TypeOK, Positions, Contents, NoRevert, mishaps = {}, mishaps' = {},
         NEW c \in Caller, Step(c) \/ SaveWalk(c) \/ Crash(c)
  PROVE  ~run'[c].threw
<1> DEFINE r == run[c]
<1>0. /\ r \in Run /\ run \in [Caller -> Run] /\ ~r.threw
  BY AtWork, AloneContents DEF TypeOK
<1>1. ASSUME NEW g \in File, DeleteFile(c, g) \/ ImportFile(c, g)
      PROVE  ~run'[c].threw
  <2>1. CASE DeleteFile(c, g)
    BY <1>0, <2>1, DeleteCases, DrainResults
  <2>2. CASE ImportFile(c, g)
    BY <1>0, <2>2, ImportCases, DrainResults
  <2>. QED  BY <1>1, <2>1, <2>2
<1>2. ASSUME NEW y, y.threw = r.threw, run'[c] = y
      PROVE  ~run'[c].threw
  BY <1>0, <1>2
<1>3. CASE Stop(c)
  BY <1>0, <1>3 DEF Stop, Set, Idle
<1>4. CASE Walk(c)
  <2> DEFINE y == [r EXCEPT !.pc = "drain", !.pin = head, !.done = walked,
                            !.todo = Tracked(head) \ walked]
  <2>1. run'[c] = y
    BY <1>0, <1>4 DEF Walk, Set
  <2>2. y.threw = r.threw
    BY <1>0 DEF Run
  <2> HIDE DEF y
  <2>. QED  BY <1>2, <2>1, <2>2
<1>9. CASE Flush(c)
  <2>1. run'[c] = [r EXCEPT !.done = {}]
    BY <1>0, <1>9 DEF Flush, Set
  <2>. QED  BY <1>0, <1>2, <2>1 DEF Run
<1>8. CASE Resolve(c)
  <2> DEFINE y == [r EXCEPT !.pc = IF DiffOf(r.from, PinOf(r.from)) = {} THEN "advance" ELSE "mint",
                            !.pin = PinOf(r.from),
                            !.todo = DiffOf(r.from, PinOf(r.from)) \ Banked(r.from)]
  <2>1. Stop(c) \/ run'[c] = y
    BY <1>0, <1>8 DEF Resolve, Set
  <2>2. y.threw = r.threw
    BY <1>0 DEF Run
  <2> HIDE DEF y
  <2>. QED  BY <1>2, <1>3, <2>1, <2>2
<1>5. CASE Mint(c) \/ Advance(c) \/ Clear(c) \/ Mark(c)
  <2>1. Stop(c) \/ \E pc \in {"drain", "mark", "clear", "reconcile"} :
                     run'[c] = [r EXCEPT !.pc = pc]
    BY <1>0, <1>5 DEF Mint, Advance, Clear, Mark, Proceed
  <2>. QED  BY <1>0, <1>2, <1>3, <2>1 DEF Run
<1>6. ASSUME NEW skip \in Skipping, Gate(c, skip)
      PROVE  ~run'[c].threw
  <2> DEFINE y == [r EXCEPT !.pc = "advance",
                            !.skips = IF skip THEN File ELSE r.failed]
  <2>1. Stop(c) \/ run'[c] = y
    BY <1>0, <1>6 DEF Gate, Set
  <2>2. y.threw = r.threw
    BY <1>0 DEF Run
  <2> HIDE DEF y
  <2>. QED  BY <1>2, <1>3, <2>1, <2>2
<1>7. CASE SaveWalk(c)
  BY <1>0, <1>7 DEF SaveWalk
<1>. QED
  BY <1>1, <1>3, <1>4, <1>8, <1>9, <1>5, <1>6, <1>7 DEF Step, Partial, Reconcile, Crash

LEMMA StepWalked ==
  ASSUME TypeOK, Positions, Contents, NoRevert, mishaps = {}, mishaps' = {},
         NEW c \in Caller, Step(c) \/ SaveWalk(c) \/ Crash(c), walked' # {}
  PROVE  run'[c].full /\ run'[c].pc = "drain"
<1> DEFINE r == run[c]
<1>0. /\ r \in Run /\ run \in [Caller -> Run] /\ ~r.threw
      /\ walked # {} => r.full /\ r.pc = "drain"
  BY AtWork, AloneContents DEF TypeOK
<1>1. CASE SaveWalk(c)
  BY <1>1 DEF SaveWalk, Draining
<1>2. ASSUME NEW skip \in Skipping, Gate(c, skip)
      PROVE  FALSE
  BY <1>0, <1>2 DEF Gate
<1>3. CASE walked' = walked /\ ~SaveWalk(c)
  <2>1. r.full /\ r.pc = "drain"
    BY <1>0, <1>3
  <2>2. PICK g \in File : ImportFile(c, g)
    BY <1>2, <1>3, <2>1 DEF Step, Resolve, Mint, Walk, DeleteFile, Flush, Partial,
       Advance, Clear, Mark, Reconcile, Crash, Rough, Mishap
  <2>3. PICK z \in {Handled(r, g), Cleanly(r, g), Failing(r, g), Threw(r, g),
                    OnInfra(r, g)} : run'[c] = z
    BY <1>0, <2>2 DEF ImportFile, Set
  <2>. QED  BY <1>0, <2>1, <2>3, DrainFields
<1>. QED
  BY <1>1, <1>2, <1>3 DEF Step, Resolve, Mint, Walk, DeleteFile, ImportFile, Flush,
     Partial, Advance, Clear, Mark, Reconcile, Crash, checkpoint

LEMMA InitContents == Init => Contents
BY DEF Init, Contents, Idle, Accounted, Passed

LEMMA NextContents ==
  TypeOK /\ Rooted /\ Positions /\ Banking /\ Contents /\ [Next]_vars => Contents'
<1> SUFFICES ASSUME TypeOK, Rooted, Positions, Banking, Contents, [Next]_vars,
                    mishaps' = {}, NoRevert
             PROVE  Contents'
  BY DEF Contents, NoRevert
<1>0. mishaps = {} /\ Orderly /\ Orderly' /\ TypeOK' /\ Positions'
  BY MishapsGrow, NextTypes, NextPositions DEF Orderly
<1> USE <1>0
<1>f. run \in [Caller -> Run] /\ anchor' \in Commits
  BY DEF TypeOK
<1>1. anchor' # 0 => anchor' \in Commit
  BY <1>f DEF Commit, Commits
<1>2. ASSUME NEW c \in Caller, Step(c) \/ SaveWalk(c) \/ Crash(c)
      PROVE  Contents'
  <2>1. \A d \in Caller \ {c} : run'[d] = run[d] /\ run'[d].pc = "idle"
    BY <1>2, <1>f, AtWork, Alone, StepKeeps DEF Set
  <2>2. \A d \in Caller : ~run'[d].threw
    BY <1>2, <2>1, StepThrew DEF Contents
  <2>3. walked' # {} => \E d \in Caller : run'[d].full /\ run'[d].pc = "drain"
    BY <1>2, StepWalked
  <2>4. ASSUME NEW f \in File, NEW k \in Commit, k = anchor'
        PROVE  Excused(f, k)' \/ Unreconciled(run[c], f)'
    BY <1>2, <2>4, StepExcused
  <2>5. Accounted(run[c])' /\ Passed(run[c])'
    BY <1>2, StepAccounted, StepPassed
  <2>6. ASSUME NEW d \in Caller \ {c}
        PROVE  Accounted(run[d])' /\ Passed(run[d])'
    BY <2>1 DEF Accounted, Passed
  <2>. QED  BY <1>1, <2>2, <2>3, <2>4, <2>5, <2>6 DEF Contents
<1>3. ASSUME UNCHANGED <<pages, ledger, walked, anchor>>, head' = head \/ Push,
             \A d \in Caller : run'[d] = run[d] \/ (run'[d].pc = "resolve" /\ ~run'[d].threw /\ run[d].pc = "idle")
      PROVE  Contents'
  <2>1. ASSUME NEW f \in File, NEW k \in Commit, k <= head, Fresh(f, k)
        PROVE  Fresh(f, k)'
    BY <1>3, <2>1, PushFresh DEF Fresh
  <2>2. ASSUME NEW f \in File, NEW k \in Commit, k <= head, Excused(f, k)
        PROVE  Excused(f, k)'
    BY <1>3, <2>1, <2>2 DEF Excused
  <2>3. \A d \in Caller : ~run'[d].threw
    BY <1>3 DEF Contents
  <2>4. walked' # {} => \E d \in Caller : run'[d].full /\ run'[d].pc = "drain"
    <3>1. \A d \in Caller : run[d].pc = "drain" => run'[d] = run[d]
      BY <1>3
    <3>. QED  BY <1>3, <3>1 DEF Contents
  <2>5. ASSUME NEW f \in File, NEW k \in Commit, k = anchor'
        PROVE  Excused(f, k)' \/ \E d \in Caller : Unreconciled(run[d], f)'
    <3>1. k = anchor /\ k <= head /\ anchor # 0
      BY <1>3, <2>5 DEF Positions, Commit
    <3>2. CASE Excused(f, k)
      BY <2>2, <3>1, <3>2
    <3>3. ASSUME NEW d \in Caller, Unreconciled(run[d], f)
          PROVE  Unreconciled(run[d], f)'
      <4>1. run'[d] = run[d]
        BY <1>3, <3>3 DEF Unreconciled
      <4>. QED  BY <3>3, <4>1 DEF Unreconciled, Tracked
    <3>. QED  BY <3>1, <3>2, <3>3 DEF Contents
  <2>6. ASSUME NEW d \in Caller
        PROVE  Accounted(run[d])' /\ Passed(run[d])'
    <3>1. CASE run'[d].pc = "resolve"
      BY <3>1 DEF Accounted, Passed
    <3>2. CASE run'[d] = run[d] /\ run[d].pc \in {"mint", "drain", "advance", "mark", "reconcile"}
      <4>1. CASE run[d].full \/ run[d].pc \in {"mint", "drain", "advance"}
        <5>1. run[d].pin \in Commit /\ run[d].pin <= head
          BY <1>f, <3>2, <4>1 DEF Positions, Positioned, Ranged, Run, Commit, Commits
        <5>2. /\ \A f \in DiffOf(run[d].from, run[d].pin) : f \in File
              /\ \A f \in Tracked(run[d].pin) : f \in File
          BY DEF DiffOf, Tracked
        <5>3. ASSUME NEW k \in Commit, k = run[d].pin
              PROVE  Accounted(run[d])' /\ Passed(run[d])'
          <6>1. run'[d].pin = k
            BY <3>2, <5>3
          <6>2. /\ run[d].pc \in {"mint", "drain"} /\ ~run[d].full =>
                     \A f \in DiffOf(run[d].from, k) :
                        f \in run[d].todo \cup run[d].failed \/ Fresh(f, k)'
                /\ run[d].pc = "drain" /\ run[d].full =>
                     \A f \in Tracked(k) :
                        f \in run[d].todo \cup run[d].failed \/ Fresh(f, k)'
            BY <2>1, <5>1, <5>2, <5>3 DEF Contents, Accounted
          <6>3. /\ run[d].pc = "advance" /\ ~run[d].full =>
                     \A f \in File : Excused(f, k)'
                /\ run[d].pc \in {"advance", "mark", "reconcile"} /\ run[d].full =>
                     \A f \in Tracked(k) : Excused(f, k)'
            BY <2>2, <5>1, <5>2, <5>3 DEF Contents, Passed
          <6>4. Accounted(run[d])'
            BY <3>2, <6>1, <6>2 DEF Accounted, DiffOf, Tracked, Fresh
          <6>5. Passed(run[d])'
            BY <3>2, <6>1, <6>3 DEF Passed, Excused, Tracked, Fresh
          <6>. QED  BY <6>4, <6>5
        <5>. QED  BY <5>1, <5>3
      <4>2. CASE ~run[d].full /\ run[d].pc \in {"mark", "reconcile"}
        BY <3>2, <4>2 DEF Accounted, Passed
      <4>. QED  BY <3>2, <4>1, <4>2
    <3>3. CASE run'[d] = run[d] /\ run[d].pc \in {"idle", "resolve", "clear"}
      BY <3>3 DEF Accounted, Passed
    <3>4. run[d].pc \in {"idle", "resolve", "mint", "drain", "advance", "clear",
                         "mark", "reconcile"}
      BY <1>f DEF Run
    <3>. QED  BY <1>3, <3>1, <3>2, <3>3, <3>4
  <2>. QED  BY <1>1, <2>3, <2>4, <2>5, <2>6 DEF Contents
<1>4. ASSUME NEW c \in Caller, NEW full \in Fulls, Start(c, full)
      PROVE  Contents'
  <2>1. run'[c].pc = "resolve" /\ ~run'[c].threw
        /\ \A d \in Caller \ {c} : run'[d] = run[d]
    BY <1>4, <1>f DEF Start, Set, Idle
  <2>2. run[c].pc = "idle"
    BY <1>4 DEF Start, Take, TypeOK
  <2>. QED  BY <1>3, <1>4, <2>1, <2>2 DEF Start, brain, checkpoint
<1>5. CASE Starve \/ Recover \/ Push \/ UNCHANGED vars
  BY <1>3, <1>5 DEF Starve, Recover, LockMoves, Push, brain, checkpoint, vars
<1>6. CASE Rewind
  BY <1>6 DEF Rewind, Mishap
<1>. QED  BY <1>2, <1>4, <1>5, <1>6 DEF Next

\* The conjunction that Next preserves.
SyncInv == TypeOK /\ Rooted /\ Positions /\ Banking /\ Contents

\* What is stored, what is banked and what the brain may miss agree with where
\* the runs stand, in every reachable state.
THEOREM SyncInvariance == Spec => []SyncInv
<1>1. Init => SyncInv
  BY InitTypes, InitPositions, InitBanking, InitContents
     DEF SyncInv, Rooted, Init, Idle
<1>2. SyncInv /\ [Next]_vars => SyncInv'
  BY NextTypes, NextRooted, NextPositions, NextBanking, NextContents DEF SyncInv
<1>. QED  BY <1>1, <1>2, PTL DEF Spec

\* A brain that says it is up to date is: at rest with the bookmark at HEAD,
\* every page is what its file holds there or the ledger shows the failure,
\* whatever kills, resumes, timeouts, failed writes and new commits came before.
THEOREM SyncFaithful == Spec => []Faithful
<1>1. SyncInv => Faithful
  <2> SUFFICES ASSUME SyncInv, NoRevert, mishaps = {}, at_work = {}, anchor = head,
                      NEW f \in File, ledger[f] = NoEntry
               PROVE  pages[f] = Tree[head][f]
    BY DEF Faithful
  <2>1. anchor # 0
    BY DEF SyncInv, TypeOK, Commit
  <2>2. \A c \in Caller : run[c].pc = "idle"
    BY DEF SyncInv, TypeOK
  <2>3. Excused(f, anchor)
    BY <2>1, <2>2 DEF SyncInv, Contents, Unreconciled
  <2>. QED  BY <2>3 DEF Excused, Fresh
<1>. QED  BY <1>1, SyncInvariance, PTL
=============================================================================
