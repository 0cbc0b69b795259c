---------------------------- MODULE LockRenewal ----------------------------
(***************************************************************************)
(* The clocks between which a claimed job lives: the renewal timer of its  *)
(* worker, the timeout of each renewal, the deadline at which a failed     *)
(* renewal is verified, the hard eviction, the lease in the database and   *)
(* the grace of the stall sweep (gbrain/src/core/minions: lock-renewal-    *)
(* tick.ts, launchJob in worker.ts, renewLock and handleStalled in         *)
(* queue.ts).                                                              *)
(* One claim of one job.  Time is counted in units; MinionQueue, which has *)
(* no time, lets the outcomes of this module happen at any moment.  The    *)
(* worker's event loop may be late by MaxLate with whatever it has to do.  *)
(***************************************************************************)
EXTENDS Integers

CONSTANTS
  Settings,   \* lease and environment a job may be launched with
  Cap,        \* RENEWAL_INTERVAL_CAP_MS
  MarginCap,  \* of the safety margin a lease gets by default
  MaxLate,    \* bound: for how long the event loop of the worker is blocked
  MaxOrphans  \* bound: abandoned renewals that may still reach the database

\* parsePositiveInt refuses a setting that is not a positive number; the grace may be 0.
ASSUME SettingsAssumption ==
  /\ Settings \subseteq [lock : Nat \ {0}, timeout : Nat \ {0}, margin : Nat \ {0},
                         evict : Nat \ {0}, grace : Nat]
  /\ {Cap, MarginCap} \subseteq Nat \ {0} /\ {MaxLate, MaxOrphans} \subseteq Nat

VARIABLES
  knobs,     \* the settings of this job
  handler,   \* "running", "fenced" or "evicted" (its signal is aborted), "ended"
  row,       \* "ours", "lost" to a sweep, "revoked" by a pause or a cancel, or "done"
  left,      \* lock_until minus now
  phase,     \* what the tick in flight awaits, or "none"
  rest,      \* time to the timeout of that
  asked,     \* the renewal awaited: "sent", "yes", "no" or "nothing"
  orphans,   \* renewals whose timeout has passed
  next,      \* time to the next callback of the timer
  since,     \* time since the last renewal known to have succeeded
  failures,  \* consecutiveFailures
  lag,       \* for how long a callback has been due
  gone       \* history: time since the row was lost to a sweep

vars == <<knobs, handler, row, left, phase, rest, asked, orphans, next, since,
          failures, lag, gone>>

Smaller(a, b) == IF a < b THEN a ELSE b

\* renewalIntervalFor and the default margin; one unit stands for their floor.
IntervalFor(lock) == IF lock < 2 THEN 1 ELSE Smaller(lock \div 2, Cap)
MarginFor(lock) == IF lock < 6 THEN 1 ELSE Smaller(lock \div 6, MarginCap)

\* resolveLockRenewalKnobs: a value that does not fit the others is replaced.
KnobsOf(s) ==
  LET margin == IF 2 * s.margin >= s.lock THEN MarginFor(s.lock) ELSE s.margin
      soft == s.lock - margin
  IN [lock |-> s.lock, grace |-> s.grace, interval |-> IntervalFor(s.lock), deadline |-> soft,
      timeout |-> Smaller(s.timeout, IntervalFor(s.lock)),
      evict |-> IF s.evict < soft THEN soft ELSE s.evict]

Lapsed == -(knobs.grace + 1)
\* since is not counted beyond this.
Ceiling == knobs.evict + 5 * knobs.interval + 5 * MaxLate

\* launchJob, right after the claim.
Init ==
  /\ \E s \in Settings : knobs = KnobsOf(s)
  /\ handler = "running" /\ row = "ours" /\ left = knobs.lock
  /\ phase = "none" /\ rest = 0 /\ asked = "nothing" /\ orphans = 0
  /\ next = knobs.interval /\ since = 0 /\ failures = 0 /\ lag = 0 /\ gone = 0

call == <<phase, rest, asked, orphans>>

-----------------------------------------------------------------------------
(* The tick (runLockRenewalTick) *)

\* Mutant: the call is given as long as the lease.
AskForLease(p) == phase' = p /\ rest' = knobs.lock /\ asked' = "sent"

Ask(p) == phase' = p /\ rest' = knobs.timeout /\ asked' = "sent"

Abandon == orphans' = IF asked = "sent" THEN Smaller(orphans + 1, MaxOrphans) ELSE orphans

\* The callback of the timer; one that finds a tick in flight is skipped.
Fire ==
  /\ handler = "running" /\ next = 0
  /\ next' = knobs.interval
  /\ IF phase = "none" THEN Ask("renew") /\ UNCHANGED orphans ELSE UNCHANGED call
  /\ UNCHANGED <<knobs, handler, row, left, since, failures, lag, gone>>

Settled == phase' = "none" /\ rest' = 0 /\ asked' = "nothing"

\* The renewal, or its verification, comes back true.
Renewed ==
  /\ handler = "running" /\ asked = "yes"
  /\ Settled
  /\ since' = 0 /\ failures' = 0
  /\ UNCHANGED <<knobs, handler, row, left, orphans, next, lag, gone>>

\* It comes back false: the row is not this worker's any more.
Fenced ==
  /\ handler = "running" /\ asked = "no"
  /\ Settled
  /\ handler' = "fenced"
  /\ UNCHANGED <<knobs, row, left, orphans, next, since, failures, lag, gone>>

\* The driver throws, or the timeout comes first; either way the statement may have
\* been executed, or may be executed yet.
Failed == handler = "running" /\ asked # "nothing" /\ failures' = Smaller(failures + 1, 3)

Reconnect == phase' = "reconnect" /\ rest' = knobs.timeout /\ asked' = "nothing"

\* The first attempt failed with time left for another tick, or it is verified.
RenewFails ==
  /\ Failed /\ phase = "renew"
  /\ IF since + knobs.interval < knobs.deadline THEN Reconnect ELSE Ask("verify")
  /\ Abandon
  /\ UNCHANGED <<knobs, handler, row, left, next, since, lag, gone>>

\* Mutant: the time is taken before the verification and not after it.
VerifyFailsStale ==
  /\ Failed /\ phase = "verify"
  /\ IF since - (knobs.timeout - rest) >= knobs.evict
       THEN Settled /\ handler' = "evicted"
       ELSE Reconnect /\ UNCHANGED handler
  /\ Abandon
  /\ UNCHANGED <<knobs, row, left, next, since, lag, gone>>

\* Nor can the lease be verified: the job is kept until the hard eviction.
VerifyFails ==
  /\ Failed /\ phase = "verify"
  /\ IF since >= knobs.evict THEN Settled /\ handler' = "evicted"
                             ELSE Reconnect /\ UNCHANGED handler
  /\ Abandon
  /\ UNCHANGED <<knobs, row, left, next, since, lag, gone>>

\* attemptReconnectOnce ends, one way or the other.
Reconnected ==
  /\ handler = "running" /\ phase = "reconnect"
  /\ Settled
  /\ UNCHANGED <<knobs, handler, row, left, orphans, next, since, failures, lag, gone>>

\* The handler returns; executeJob stops the timer and records the result.
End ==
  /\ handler = "running"
  /\ handler' = "ended"
  /\ row' = IF row = "ours" THEN "done" ELSE row
  /\ UNCHANGED <<knobs, left, call, next, since, failures, lag, gone>>

-----------------------------------------------------------------------------
(* The database (renewLock, handleStalled and what else takes the row away) *)

\* The UPDATE is fenced by the token; it does not look at lock_until.
Extend == left' = IF row = "ours" THEN knobs.lock ELSE left

\* Mutant: the UPDATE does not name the token, so it finds the row whoever has it.
ExecuteUnfenced ==
  /\ handler = "running" /\ asked = "sent"
  /\ Extend
  /\ asked' = "yes"
  /\ UNCHANGED <<knobs, handler, row, phase, rest, orphans, next, since, failures,
                 lag, gone>>

Execute ==
  /\ handler = "running" /\ asked = "sent"
  /\ Extend
  /\ asked' = IF row = "ours" THEN "yes" ELSE "no"
  /\ UNCHANGED <<knobs, handler, row, phase, rest, orphans, next, since, failures,
                 lag, gone>>

ExecuteLate ==
  /\ handler = "running" /\ orphans > 0
  /\ Extend
  /\ orphans' = orphans - 1
  /\ UNCHANGED <<knobs, handler, row, phase, rest, asked, next, since, failures,
                 lag, gone>>

\* Cancelled by its signal, or lost with its connection.
Vanish ==
  /\ handler = "running" /\ orphans > 0
  /\ orphans' = orphans - 1
  /\ UNCHANGED <<knobs, handler, row, left, phase, rest, asked, next, since,
                 failures, lag, gone>>

\* Mutant: the sweep gives no grace.
ReclaimableAtOnce == left < 0
Reclaimable == left < -knobs.grace

\* The stall sweep of any worker.
Reclaim ==
  /\ handler = "running" /\ row = "ours" /\ Reclaimable
  /\ row' = "lost"
  /\ UNCHANGED <<knobs, handler, left, call, next, since, failures, lag, gone>>

\* A pause, a cancel, a kill, a timeout sweep.
Revoke ==
  /\ handler = "running" /\ row = "ours"
  /\ row' = "revoked"
  /\ UNCHANGED <<knobs, handler, left, call, next, since, failures, lag, gone>>

-----------------------------------------------------------------------------
(* Time *)

\* What the event loop has to do now.
Due == next = 0 \/ (phase # "none" /\ rest = 0)

Less(n) == IF n = 0 THEN 0 ELSE n - 1

Pass ==
  /\ handler = "running"
  /\ Due => lag < MaxLate
  /\ lag' = IF Due THEN lag + 1 ELSE 0
  /\ left' = IF left = Lapsed THEN left ELSE left - 1
  /\ rest' = Less(rest) /\ next' = Less(next)
  /\ since' = Smaller(since + 1, Ceiling)
  /\ gone' = IF row = "lost" THEN Smaller(gone + 1, Ceiling) ELSE gone
  /\ UNCHANGED <<knobs, handler, row, phase, asked, orphans, failures>>

-----------------------------------------------------------------------------
Next ==
  \/ Fire \/ Renewed \/ Fenced \/ RenewFails \/ VerifyFails \/ Reconnected \/ End
  \/ Execute \/ ExecuteLate \/ Vanish \/ Reclaim \/ Revoke
  \/ Pass

Spec == Init /\ [][Next]_vars

-----------------------------------------------------------------------------
(* Properties *)

\* Every variable keeps its type.
TypeOK ==
  /\ \E s \in Settings : knobs = KnobsOf(s)
  /\ handler \in {"running", "fenced", "evicted", "ended"}
  /\ row \in {"ours", "lost", "revoked", "done"}
  /\ left \in Lapsed..knobs.lock /\ since \in 0..Ceiling /\ gone \in 0..Ceiling
  /\ phase \in {"none", "renew", "verify", "reconnect"} /\ rest \in 0..knobs.timeout
  /\ asked \in {"nothing", "sent", "yes", "no"} /\ orphans \in 0..MaxOrphans
  /\ next \in 0..knobs.interval /\ failures \in 0..3 /\ lag \in 0..MaxLate

\* The hard eviction is checked only after a renewal and its verification have both
\* failed, one callback after the check that just missed it.
BlindBound == knobs.evict + knobs.interval + 3 * knobs.timeout + 4 * MaxLate

\* No handler runs on for longer than this without a renewal that is known to have
\* succeeded (hardEvictMs, lock-renewal-tick.ts:123).
BlindBounded == handler = "running" => since < BlindBound

\* Once a stall sweep has given the job to somebody else, the first handler is told so,
\* or evicted, within a bounded time: for so long two handlers may run.
TwoHandlersBounded ==
  handler = "running" /\ row = "lost"
    => gone + knobs.lock + knobs.grace < BlindBound + knobs.timeout + MaxLate

\* A lease in which a whole tick ends before the next callback is due, and two
\* callbacks and a call fit before the sweep.  One of 300 s is roomy, the default of
\* 30 s is not.
Roomy ==
  /\ 2 * knobs.timeout + 2 * MaxLate < knobs.interval
  /\ 2 * knobs.interval + knobs.timeout + 3 * MaxLate <= knobs.lock + knobs.grace

\* A sweep never takes a roomy lease from a live worker over a single failed call: the
\* tick that follows a failure comes in time (the cadence of worker.ts:1047, the
\* bounded reconnect and the timeout clamp).
SpareSingleFailure ==
  [][Roomy /\ row = "ours" /\ row' = "lost" => failures >= 2]_vars
=============================================================================
