------------------------------- MODULE DbLock -------------------------------
(***************************************************************************)
(* One named lock: its row in gbrain_cycle_locks, the calls that acquire,  *)
(* refresh and release it, and the ways others get rid of a holder         *)
(* (gbrain/src/core/db-lock.ts, sync-lock.ts, and the supervisor's wait).  *)
(*                                                                         *)
(* Every SQL statement is one action; between two statements of one call   *)
(* anything may happen.  A CALLER is one call of withRefreshingLock (or of *)
(* tryWithDbElection, or a supervisor); several callers may share a        *)
(* process, hence a pid.  The fence (acquired_at) names one acquisition:   *)
(* it is kept as the caller whose handle carries it, and becomes Stale     *)
(* when no handle carries it any more.                                     *)
(*                                                                         *)
(* Time passes in ticks.  hb is the age of last_refreshed_at, which every  *)
(* write of the row sets together with ttl_expires_at, so the lease has    *)
(* lapsed iff hb > TTL; age is the age of acquired_at.  age saturates at   *)
(* the reuse grace, hb past every bound that it is compared with.          *)
(***************************************************************************)
EXTENDS Naturals, FiniteSets

CONSTANTS
  Caller, Process, Host,
  ProcOf,      \* the process of a caller
  HostOf,      \* the host of a process
  Nobody,      \* no row; no owner
  Stale,       \* the fence of an acquisition whose handle is gone
  GonePid,     \* a pid that no process has
  TTL,         \* ttlMinutes, in ticks
  Grace,       \* resolveStealGraceSeconds, in ticks
  ReuseGrace,  \* HOLDER_TAKEOVER_GRACE_MS, in ticks
  MaxAge,      \* --max-age, in ticks
  Margin,      \* the 60 s that waitForDbLockTakeover adds, in ticks
  Waiters,     \* callers that wait for a takeover: the supervisors
  Punctual,    \* callers whose event loop and connection never starve
  Ops          \* bound: what this instance exercises, a subset of OpNames

OpNames == {"safe", "force", "maxage", "reap", "pidreuse"}

ASSUME CallersAssumption ==
  /\ ProcOf \in [Caller -> Process] /\ HostOf \in [Process -> Host]
  /\ Nobody \notin Caller /\ Stale \notin Caller /\ Nobody # Stale
  /\ GonePid \notin Process
  /\ Punctual \subseteq Caller /\ Waiters \subseteq Caller
ASSUME ClocksAssumption ==
  /\ TTL \in Nat /\ Grace \in Nat /\ ReuseGrace \in Nat
  /\ MaxAge \in Nat /\ Margin \in Nat
  /\ Ops \subseteq OpNames

VARIABLES
  lock,   \* the row, or NoRow
  alive,  \* alive[p]: process p runs
  call,   \* what each caller is doing
  op      \* an operator's --break-lock, or a reaper, between its two statements

vars == <<lock, alive, call, op>>

NoRow == [pid |-> GonePid, host |-> Nobody, fence |-> Nobody, hb |-> 0, age |-> 0]
Row ==
  [pid : Process \cup {GonePid}, host : Host, fence : Caller \cup {Stale},
   hb : Nat, age : Nat]

\* pc: "try" before the upsert, "inspect" after it was refused, "delete" once
\* the holder was judged dead, "retry" after its row was deleted, "observe"
\* and "asleep" in the loop of waitForDbLockTakeover, "work" once it holds the
\* lock.  seen: the pid of the snapshot.  beating: the refresh timer runs.
\* waiting, waited: in waitForDbLockTakeover, and for how long.  base: its
\* baseline; "moved" once the row was acquired or refreshed after it.
CallState ==
  [pc : {"idle", "try", "inspect", "delete", "retry", "observe", "asleep",
         "work"},
   seen : Process \cup {GonePid}, beating : BOOLEAN, waiting : BOOLEAN,
   waited : Nat, base : {"none", "same", "moved"}]

Idle == [pc |-> "idle", seen |-> GonePid, beating |-> FALSE,
         waiting |-> FALSE, waited |-> 0, base |-> "none"]

\* how: which judgement was passed; same: acquired_at is still the snapshot's.
OpState == [how : {"none", "safe", "force", "maxage", "reap"},
            seen : Process \cup {GonePid}, same : BOOLEAN]
NoOp == [how |-> "none", seen |-> GonePid, same |-> FALSE]

Init ==
  /\ lock = NoRow
  /\ alive = [p \in Process |-> TRUE]
  /\ call = [c \in Caller |-> Idle]
  /\ op = NoOp

-----------------------------------------------------------------------------
Held == lock # NoRow
AtWork == {c \in Caller : call[c].pc = "work"}
HostOfCall(c) == HostOf[ProcOf[c]]
Larger(m, n) == IF m > n THEN m ELSE n
Smaller(m, n) == IF m < n THEN m ELSE n

Expired == lock.hb > TTL

\* Mutant: INSERT ... ON CONFLICT DO NOTHING.
TakeableFreeOnly == ~Held

\* The WHERE of ON CONFLICT DO UPDATE, or no row to conflict with.
Takeable == Held => Expired /\ lock.hb > Grace

Running == {p \in Process : alive[p]}

\* classifyHolderLiveness = 'dead_eligible', asked on host h.
DeadLocally(h) ==
  /\ lock.host = h
  /\ lock.pid \notin Running
  /\ lock.age >= ReuseGrace

\* Mutants: each leaves one term out of the wait.
MaxWaitWithoutLease == Grace + Margin
MaxWaitWithoutGrace == TTL + Margin
MaxWaitWithoutMargin == TTL + Grace

MaxWait == TTL + Grace + Margin

\* The row's last_refreshed_at moved on under everybody who waits.
Noticed(cl) == [c \in Caller |->
  IF cl[c].base = "same" THEN [cl[c] EXCEPT !.base = "moved"] ELSE cl[c]]

\* acquireOnce found the lock free or lapsed: INSERT, or the steal.
Grab(c) ==
  /\ lock' = [pid |-> ProcOf[c], host |-> HostOfCall(c), fence |-> c,
              hb |-> 0, age |-> 0]
  /\ call' = [Noticed(call) EXCEPT
                ![c] = [Idle EXCEPT !.pc = "work", !.beating = TRUE]]
  /\ op' = [op EXCEPT !.same = FALSE]

\* tryAcquireDbLock returns null.
Refuse(c) ==
  call' = [call EXCEPT ![c] =
             IF call[c].waiting
               THEN [call[c] EXCEPT !.pc = "observe", !.seen = GonePid]
               ELSE Idle]

-----------------------------------------------------------------------------
(* tryAcquireDbLock *)

StartTry(c) ==
  /\ call[c].pc = "idle" /\ alive[ProcOf[c]]
  /\ call' = [call EXCEPT ![c].pc = "try"]
  /\ UNCHANGED <<lock, alive, op>>

Upsert(c) ==
  /\ call[c].pc \in {"try", "retry"}
  /\ UNCHANGED alive
  /\ \/ Takeable /\ Grab(c)
     \/ /\ ~Takeable
        /\ IF call[c].pc = "try" THEN call' = [call EXCEPT ![c].pc = "inspect"]
                                 ELSE Refuse(c)
        /\ UNCHANGED <<lock, op>>

Inspect(c) ==
  /\ call[c].pc = "inspect"
  /\ IF Held /\ ~Expired /\ DeadLocally(HostOfCall(c))
       THEN call' = [call EXCEPT ![c].pc = "delete", ![c].seen = lock.pid]
       ELSE Refuse(c)
  /\ UNCHANGED <<lock, alive, op>>

\* Mutant: deleteLockRow without the pid.
TakeOverAnyPid(c) ==
  /\ call[c].pc = "delete"
  /\ IF Held
       THEN /\ lock' = NoRow
            /\ call' = [call EXCEPT ![c].pc = "retry", ![c].seen = GonePid]
       ELSE Refuse(c) /\ UNCHANGED lock
  /\ UNCHANGED <<alive, op>>

\* deleteLockRow: by id and pid only.
TakeOver(c) ==
  /\ call[c].pc = "delete"
  /\ IF Held /\ lock.pid = call[c].seen
       THEN /\ lock' = NoRow
            /\ call' = [call EXCEPT ![c].pc = "retry", ![c].seen = GonePid]
       ELSE Refuse(c) /\ UNCHANGED lock
  /\ UNCHANGED <<alive, op>>

-----------------------------------------------------------------------------
(* withRefreshingLock *)

Fenced(c) == Held /\ lock.fence = c

\* A tick of the refresh timer.  No row matched: the timer stops, the work
\* goes on.
Refresh(c) ==
  /\ call[c].pc = "work" /\ call[c].beating
  /\ IF Fenced(c)
       THEN /\ lock' = [lock EXCEPT !.hb = 0]
            /\ call' = Noticed(call)
       ELSE /\ call' = [call EXCEPT ![c].beating = FALSE]
            /\ UNCHANGED lock
  /\ UNCHANGED <<alive, op>>

\* The handle is gone and its DELETE did not reach the row.
Orphaned(C) ==
  IF lock.fence \in C THEN [lock EXCEPT !.fence = Stale] ELSE lock

\* Mutant: release() matches the pid, as it did before acquired_at was the fence.
FinishByPid(c) ==
  /\ call[c].pc = "work"
  /\ call' = [call EXCEPT ![c] = Idle]
  /\ lock' \in {IF Held /\ lock.pid = ProcOf[c] THEN NoRow ELSE lock,
                Orphaned({c})}
  /\ UNCHANGED <<alive, op>>

\* The work returns or throws; release() is fenced, and its failure swallowed.
Finish(c) ==
  /\ call[c].pc = "work"
  /\ call' = [call EXCEPT ![c] = Idle]
  /\ lock' \in {IF Fenced(c) THEN NoRow ELSE lock, Orphaned({c})}
  /\ UNCHANGED <<alive, op>>

-----------------------------------------------------------------------------
(* The supervisor's wait for a holder on another host *)

StartWait(c) ==
  /\ c \in Waiters
  /\ call[c].pc = "idle" /\ alive[ProcOf[c]]
  /\ Held /\ lock.host # HostOfCall(c)
  /\ \E b \in {"same", "none"} :  \* the row is gone, or reading it threw
       call' = [call EXCEPT ![c] =
                  [Idle EXCEPT !.pc = "try", !.waiting = TRUE, !.base = b]]
  /\ UNCHANGED <<lock, alive, op>>

\* The look at the row after each refused try.  It may throw: then nothing is
\* learnt from this poll.
Observe(c) ==
  /\ call[c].pc = "observe"
  /\ \E seen \in {TRUE, FALSE} :
       LET row == seen /\ Held
       IN  call' = [call EXCEPT ![c] =
             IF (row /\ call[c].base = "moved") \/ call[c].waited >= MaxWait
               THEN Idle
               ELSE [call[c] EXCEPT
                       !.pc = "asleep",
                       !.base = IF row /\ @ = "none" THEN "same" ELSE @]]
  /\ UNCHANGED <<lock, alive, op>>

-----------------------------------------------------------------------------
(* gbrain sync --break-lock and reapDeadHolderLocks, run on host h *)

Judged(how, h) ==
  CASE how = "force"  -> TRUE
    [] how = "safe"   -> lock.host = h /\ (Expired \/ DeadLocally(h))
    [] how = "maxage" -> lock.host = h
    [] how = "reap"   -> DeadLocally(h)

OpInspect(how, h) ==
  /\ op.how = "none" /\ Held
  /\ Judged(how, h)
  /\ op' = [how |-> how, seen |-> lock.pid, same |-> TRUE]
  /\ UNCHANGED <<lock, alive, call>>

\* deleteLockRow, deleteLockRowIfStale, deleteLockRowExact.
Matched ==
  /\ Held /\ lock.pid = op.seen
  /\ op.how = "maxage" => lock.hb > MaxAge
  /\ op.how = "reap" => op.same

OpDelete ==
  /\ op.how # "none"
  /\ lock' = IF Matched THEN NoRow ELSE lock
  /\ op' = NoOp
  /\ UNCHANGED <<alive, call>>

-----------------------------------------------------------------------------
(* Processes and time *)

CallsOf(p) == {c \in Caller : ProcOf[c] = p}
Gone(cl, p) == [c \in Caller |-> IF ProcOf[c] = p THEN Idle ELSE cl[c]]

\* SIGKILL, OOM, a lost host: no cleanup runs.
Crash(p) ==
  /\ alive[p]
  /\ alive' = [alive EXCEPT ![p] = FALSE]
  /\ lock' = Orphaned(CallsOf(p))
  /\ call' = Gone(call, p)
  /\ UNCHANGED op

\* SIGTERM, an uncaught exception: registerCleanup's fenced DELETE runs.
Terminate(p) ==
  /\ alive[p]
  /\ alive' = [alive EXCEPT ![p] = FALSE]
  /\ lock' = IF lock.fence \in CallsOf(p) THEN NoRow ELSE lock
  /\ call' = Gone(call, p)
  /\ UNCHANGED op

\* The service manager starts the process again.  It has a new pid, so the old
\* one, where it is still written, is nobody's; or the same pid by coincidence.
Repid(p, q) == IF q = p THEN GonePid ELSE q
Restart(p) ==
  /\ ~alive[p]
  /\ alive' = [alive EXCEPT ![p] = TRUE]
  /\ \/ /\ lock' = [lock EXCEPT !.pid = Repid(p, lock.pid)]
        /\ op' = [op EXCEPT !.seen = Repid(p, op.seen)]
        /\ call' = [c \in Caller |->
                      [call[c] EXCEPT !.seen = Repid(p, call[c].seen)]]
     \/ /\ "pidreuse" \in Ops
        /\ UNCHANGED <<lock, op, call>>

HbCap == Larger(TTL + Grace + Margin, MaxAge) + 1

\* A punctual holder refreshes before its lease lapses, and a punctual waiter
\* polls once a tick; nobody else promises anything.
InTime ==
  \A c \in Punctual :
    /\ Fenced(c) => lock.hb < TTL
    /\ call[c].waiting => call[c].pc = "asleep"

Woken(s) ==
  IF s.waiting
    THEN [s EXCEPT !.waited = IF @ < MaxWait THEN @ + 1 ELSE @,
                   !.pc = IF @ = "asleep" THEN "try" ELSE @]
    ELSE s

Tick ==
  /\ InTime
  /\ lock' = IF Held
               THEN [lock EXCEPT !.hb = IF @ < HbCap THEN @ + 1 ELSE @,
                                 !.age = IF @ < ReuseGrace THEN @ + 1 ELSE @]
               ELSE lock
  /\ call' = [c \in Caller |-> Woken(call[c])]
  /\ UNCHANGED <<alive, op>>

-----------------------------------------------------------------------------
Step(c) ==
  \/ StartTry(c) \/ Upsert(c) \/ Inspect(c) \/ TakeOver(c)
  \/ Refresh(c) \/ Finish(c) \/ StartWait(c) \/ Observe(c)

Next ==
  \/ \E c \in Caller : Step(c)
  \/ \E how \in Ops \cap {"safe", "force", "maxage", "reap"}, h \in Host :
       OpInspect(how, h)
  \/ OpDelete
  \/ \E p \in Process : Crash(p) \/ Terminate(p) \/ Restart(p)
  \/ Tick

Spec == Init /\ [][Next]_vars

\* A call that was started goes on, timers fire and time passes; nothing makes
\* the protected work end.  A supervisor
\* is restarted by its process manager, takes up the lock again, and does not
\* die at the same statement every time.
Fairness ==
  /\ SF_vars(Tick)
  /\ \A p \in Process : WF_vars(Restart(p))
  /\ \A c \in Caller :
       WF_vars(Inspect(c) \/ TakeOver(c) \/ Observe(c))
  /\ \A c \in Punctual : WF_vars(Refresh(c))
  /\ \A c \in Waiters : SF_vars(StartTry(c)) /\ SF_vars(Upsert(c))

FairSpec == Spec /\ Fairness

-----------------------------------------------------------------------------
(* Properties *)

\* Types.
TypeOK ==
  /\ lock \in Row \cup {NoRow}
  /\ alive \in [Process -> BOOLEAN]
  /\ call \in [Caller -> CallState]
  /\ op \in OpState

\* How long an owner must have been silent before anyone may dispossess it.
Silence == LET lapse == Larger(TTL, Grace)
           IN  IF "maxage" \in Ops /\ MaxAge < lapse THEN MaxAge ELSE lapse

\* The refinement mapping to Lease.
Owner == IF lock.fence \in Caller THEN lock.fence ELSE Nobody
Quiet == Owner # Nobody /\ lock.hb > Silence
L == INSTANCE Lease WITH owner <- Owner, quiet <- Quiet, at_work <- AtWork

\* The lock of a caller that is at work and was heard within its lease is not
\* taken over, deleted or released by anybody else: not by a takeover or a
\* reaper that judged an earlier row, not by the release of a call of the same
\* process that had lost the lock before (the fences of tryAcquireDbLock).
ImplementsLease == L!LeaseSpec

\* Callers that refresh in time are never inside the protected work together,
\* whatever the others do (withRefreshingLock).
Exclusive ==
  \A c, d \in Punctual \cap AtWork : c = d

\* What the wait leaves when the lease and the grace of a dead holder, which run
\* at the same time, are over.
Spare == Smaller(TTL, Grace) + Margin

\* A waiter runs out of time only in front of a row that was refreshed after the
\* spare time had passed: a holder that dies before, even during the wait and
\* while its row cannot be read, is replaced by that wait (the bound of
\* waitForDbLockTakeover covers the lease, the steal grace and the margin).
OutwaitsTheDead ==
  \A c \in Punctual :
    call[c].pc = "observe" /\ call[c].waited >= MaxWait /\ Held
      => lock.hb + Spare <= call[c].waited

\* The row of a dead holder does not stay, on whatever host it died.
DeadHolderReplaced == Held /\ lock.fence = Stale ~> lock.fence # Stale

\* deleteLockRow claims "no TOCTOU window between liveness check and DELETE": a
\* safe --break-lock does not delete a lease that is in force.
SafeBreakSpares ==
  [][op.how = "safe" /\ op'.how = "none" /\ Owner # Nobody /\ lock' = NoRow
       => Expired]_vars
=============================================================================
