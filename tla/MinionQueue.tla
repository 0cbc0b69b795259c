---------------------------- MODULE MinionQueue ----------------------------
(***************************************************************************)
(* The Minions job queue: the rows of minion_jobs, the child_done messages *)
(* of minion_inbox, and the worker runs that claim the rows                *)
(* (gbrain/src/core/minions/queue.ts and worker.ts).                       *)
(*                                                                         *)
(* Every public method of MinionQueue is one transaction or one statement, *)
(* so every method is one action.  A RUN is one execution of a claimed job *)
(* by a worker: launchJob/executeJob, its renewal and timeout timers.  Its *)
(* identity is its lock token, which claim() mints afresh.  Nothing stops  *)
(* a run that lost its row: it stays in "run" as a zombie and goes on      *)
(* calling the queue with its old token.                                   *)
(*                                                                         *)
(* Time is abstracted to what the predicates of the sweeps tell apart:     *)
(*   lock_until  "live" (> now), "grace" (lapsed, within the reclaim       *)
(*               grace), "lapsed" (< now - grace), "null";                 *)
(*   timeout_at  "ahead", "past", "null";                                  *)
(*   started_at  "recent", "old" (past the wall-clock threshold), "null".  *)
(* delay_until is not kept: a delayed row may become due at any moment.    *)
(***************************************************************************)
EXTENDS Naturals, Sequences, FiniteSets

CONSTANTS
  Job,            \* row ids; SERIAL, so an id is never used twice
  Run,            \* lock tokens of the runs that may exist at the same time
  NoJob,          \* parent_job_id IS NULL
  NoRun,          \* lock_token IS NULL
  Stale,          \* the token of a run that ended: no one presents it again
  Submissions,    \* for each row id, the options add() may be called with
  MaxSpawnDepth,  \* DEFAULT_MAX_SPAWN_DEPTH
  MaxRetries,     \* bound: how often an operator retries one row
  StartCap,       \* bound: attempts_started saturates here (see Claim)
  Ops             \* bound: the optional operations this instance exercises

Policies == {"fail_parent", "remove_dep", "ignore", "continue"}

\* The options of add() that later operations read.  0 in max_children stands
\* for NULL, which chk_max_children_positive leaves free; timeout_ms only says
\* whether the row has a deadline.
Options ==
  [parent_job_id : Job \cup {NoJob}, on_child_fail : Policies,
   max_attempts : Nat \ {0}, max_stalled : Nat, max_children : Nat,
   timeout_ms : BOOLEAN, remove_on_complete : BOOLEAN,
   remove_on_fail : BOOLEAN]

OpNames == {"pause", "retry", "cancel", "remove", "ttl", "release", "skip",
            "throws", "leasefull"}

ASSUME IdsAssumption ==
  /\ NoJob \notin Job
  /\ NoRun \notin Run /\ Stale \notin Run /\ NoRun # Stale
ASSUME SubmissionsAssumption ==
  /\ Submissions \in [Job -> SUBSET Options]
  /\ \A j \in Job : \A o \in Submissions[j] : o.max_attempts <= StartCap
ASSUME BoundsAssumption ==
  /\ MaxSpawnDepth \in Nat /\ MaxRetries \in Nat /\ StartCap \in Nat
  /\ Ops \subseteq OpNames

VARIABLES
  row,    \* minion_jobs
  inbox,  \* inbox[<<p, c>>]: outcomes of the child_done messages of c to p, in order
  run     \* what each run is doing

vars == <<row, inbox, run>>

Terminal == {"completed", "failed", "dead", "cancelled"}
Live == {"waiting", "active", "delayed", "waiting-children", "paused"}
Outcomes == {"complete", "failed", "dead", "cancelled", "timeout"}

\* The columns of a row.  "retries" counts retryJob calls: the incarnation of
\* the row, kept for the properties only.
Row ==
  [status : Terminal \cup Live \cup {"absent", "deleted"},
   lock_token : Run \cup {NoRun, Stale},
   lock_until : {"null", "live", "grace", "lapsed"},
   timeout_at : {"null", "ahead", "past"},
   started_at : {"null", "recent", "old"},
   attempts_made : Nat, attempts_started : Nat, stalled_counter : Nat,
   parent_job_id : Job \cup {NoJob}, depth : Nat,
   opt : Options, retries : Nat]

DefaultOptions ==
  [parent_job_id |-> NoJob, on_child_fail |-> "fail_parent",
   max_attempts |-> 3, max_stalled |-> 5, max_children |-> 0,
   timeout_ms |-> FALSE, remove_on_complete |-> FALSE,
   remove_on_fail |-> FALSE]

NoRow(s) ==
  [status |-> s, lock_token |-> NoRun, lock_until |-> "null",
   timeout_at |-> "null", started_at |-> "null", attempts_made |-> 0,
   attempts_started |-> 0, stalled_counter |-> 0, parent_job_id |-> NoJob,
   depth |-> 0, opt |-> DefaultOptions, retries |-> 0]

\* phase: "claimed" until the post-claim checks are done, "skipping" between
\* the two steps of a quiet-hours skip, "running" while the handler runs,
\* "evicted" when the grace timer gave the run up, "failing" once completeJob
\* threw, "refail" once failJob threw.  last: job.attempts_made + 1 >=
\* job.max_attempts in the snapshot the run took at its claim.  timed:
\* job.timeout_ms is set.  abort: why the AbortController fired.  to: the
\* status a repeated failJob writes.
RunState ==
  [phase : {"idle", "claimed", "skipping", "running", "evicted", "failing",
            "refail"},
   job : Job \cup {NoJob}, last : BOOLEAN, timed : BOOLEAN,
   abort : {"none", "infra", "timeout"}, to : {"none", "delayed", "dead"}]

IdleRun == [phase |-> "idle", job |-> NoJob, last |-> FALSE,
            timed |-> FALSE, abort |-> "none", to |-> "none"]

Init ==
  /\ row = [j \in Job |-> NoRow("absent")]
  /\ inbox = [pc \in Job \X Job |-> <<>>]
  /\ run = [r \in Run |-> IdleRun]

-----------------------------------------------------------------------------
(* Helpers on a table t of rows: the statements the transactions share.    *)

Children(t, p) == {c \in Job : t[c].parent_job_id = p}
LiveChildren(t, p) == {c \in Children(t, p) : t[c].status \in Live}
Parents(t, C) == {t[c].parent_job_id : c \in C}

\* Mutant: only running children are waited for.
UnblockRunningOnly(t, P) ==
  [j \in Job |->
     IF /\ j \in P /\ t[j].status = "waiting-children"
        /\ \A c \in Children(t, j) : t[c].status # "active"
     THEN [t[j] EXCEPT !.status = "waiting", !.started_at = "null"]
     ELSE t[j]]

\* UPDATE ... SET status = 'waiting', started_at = NULL WHERE id IN P AND
\* status = 'waiting-children' AND NOT EXISTS (a non-terminal child).
Unblock(t, P) ==
  [j \in Job |->
     IF j \in P /\ t[j].status = "waiting-children" /\ LiveChildren(t, j) = {}
     THEN [t[j] EXCEPT !.status = "waiting", !.started_at = "null"]
     ELSE t[j]]

\* INSERT INTO minion_inbox ... WHERE EXISTS (the parent, non-terminal in t).
Report(t, C, outcome) ==
  [pc \in Job \X Job |->
     IF /\ pc[2] \in C
        /\ row[pc[2]].parent_job_id = pc[1]
        /\ t[pc[1]].status \in Live
     THEN Append(inbox[pc], outcome)
     ELSE inbox[pc]]

\* DELETE FROM minion_jobs: children keep their row with parent_job_id NULL
\* (ON DELETE SET NULL), the row's own inbox goes (ON DELETE CASCADE).
Delete(t, j) ==
  [i \in Job |->
     IF i = j THEN [NoRow("deleted") EXCEPT !.retries = t[j].retries]
     ELSE IF t[i].parent_job_id = j THEN [t[i] EXCEPT !.parent_job_id = NoJob]
     ELSE t[i]]
PurgeInbox(ib, j) == [pc \in Job \X Job |-> IF pc[1] = j THEN <<>> ELSE ib[pc]]

Unlock(x, s) == [x EXCEPT !.status = s, !.lock_token = NoRun,
                          !.lock_until = "null"]

\* The rows at or below R: the recursive CTE of cancelJobs.  add() refuses a
\* depth above MaxSpawnDepth, so that many levels reach every descendant.
Descendants(t, R) ==
  LET level[n \in 0..MaxSpawnDepth] ==
        IF n = 0 THEN R
        ELSE level[n-1] \cup {c \in Job : t[c].parent_job_id \in level[n-1]}
  IN  level[MaxSpawnDepth]

\* Mutant: the token is not compared.
FencedByStatus(r) == row[run[r].job].status = "active"

\* The WHERE clause of every write a run makes to its own row.
Fenced(r) ==
  /\ row[run[r].job].status = "active"
  /\ row[run[r].job].lock_token = r

\* The run ends.  A row that still carries its token keeps a value no later
\* run presents, so r can stand for a new token again.
Retire(t, r) ==
  [j \in Job |-> IF t[j].lock_token = r
                 THEN [t[j] EXCEPT !.lock_token = Stale] ELSE t[j]]
Finish(r, t) ==
  /\ row' = Retire(t, r)
  /\ run' = [run EXCEPT ![r] = IdleRun]

-----------------------------------------------------------------------------
(* Submission and operator calls.                                          *)

\* add(): the parent row is locked FOR UPDATE, its depth and child cap are
\* checked, the row is inserted and a runnable parent starts to wait.  The
\* parent's status is not looked at: a terminal parent is accepted, and the
\* flip leaves the parent's lock_token in place.
Add(j, o, s) ==
  LET p == o.parent_job_id
      d == IF p = NoJob THEN 0 ELSE row[p].depth + 1
      t == [row EXCEPT ![j] = [NoRow(s) EXCEPT !.parent_job_id = p,
                                               !.depth = d, !.opt = o]]
  IN  /\ row[j].status = "absent"
      /\ p # NoJob =>
           /\ row[p].status \in Live \cup Terminal
           /\ d <= MaxSpawnDepth
           /\ \/ row[p].opt.max_children = 0
              \/ Cardinality(LiveChildren(row, p)) < row[p].opt.max_children
      /\ row' = [i \in Job |->
                   IF i = p /\ t[i].status \in {"waiting", "active", "delayed"}
                   THEN [t[i] EXCEPT !.status = "waiting-children"]
                   ELSE t[i]]
      /\ UNCHANGED <<inbox, run>>

\* cancelJobs(): the non-terminal rows C end, then child_done goes to their
\* parents that are still live, then the parents P are put back to work.
CancelRows(C, P) ==
  LET t == [j \in Job |-> IF j \in C THEN Unlock(row[j], "cancelled")
                          ELSE row[j]]
  IN  /\ row' = Unblock(t, P)
      /\ inbox' = Report(t, C, "cancelled")

\* The rows are those at or below the roots, and their parents the ones looked
\* at in the end.
CancelledRows(roots) == {c \in Descendants(row, roots) : row[c].status \in Live}
CancelJobs(roots) ==
  CancelRows(CancelledRows(roots), Parents(row, CancelledRows(roots)))

CancelJob(j) ==
  /\ "cancel" \in Ops
  /\ CancelJobs({j})
  /\ UNCHANGED run

\* rootStatuses is checked where the cancel reads its roots and not where it
\* ends them: one that a run claimed in between is ended under that run.
ReadWaiting(j) ==
  \/ row[j].status = "waiting"
  \/ \E r \in Run : run[r].job = j /\ Fenced(r)
HandleWaitingTTL(S) ==
  /\ "ttl" \in Ops
  /\ \A j \in S : ReadWaiting(j)
  /\ CancelJobs(S)
  /\ UNCHANGED run

\* The cancels that may be under way: the rows each of them ends, and the run
\* whose quiet-hours skip called it, if one did.
CancelCall(roots, r) == [rows |-> CancelledRows(roots), by |-> r]
CancelCalls ==
  {CancelCall({j}, NoRun) : j \in {i \in Job : "cancel" \in Ops}}
  \cup {CancelCall(S, NoRun) :
          S \in {T \in SUBSET {j \in Job : ReadWaiting(j)} : "ttl" \in Ops}}
  \cup {CancelCall({run[r].job}, r) :
          r \in {q \in Run : run[q].phase = "skipping"}}

\* cancelJobs() locks the rows it ends and not their parents.  Of two calls for
\* different children of a parent that overlap, each still counts the child of
\* the other as live, and neither releases the parent.  (Every other statement
\* that ends a child holds the parent FOR UPDATE, which the key share lock of
\* the message to the parent conflicts with.)
CancelsOverlap(a, b) ==
  LET C == a.rows \cup b.rows
      shared == Parents(row, a.rows) \cap Parents(row, b.rows)
  IN  /\ a.rows \cap b.rows = {}
      /\ shared \ {NoJob} # {}
      /\ CancelRows(C, Parents(row, C) \ shared)
      /\ run' = [r \in Run |-> IF r \in {a.by, b.by} THEN IdleRun ELSE run[r]]

\* Mutant: retry keeps the attempts of the last incarnation.
RetryKeepsAttempts(j) ==
  /\ "retry" \in Ops /\ row[j].retries < MaxRetries
  /\ row[j].status \in {"failed", "dead"}
  /\ row' = [row EXCEPT ![j] =
       [Unlock(row[j], "waiting") EXCEPT
          !.started_at = "null", !.attempts_started = 0,
          !.stalled_counter = 0, !.retries = @ + 1]]
  /\ UNCHANGED <<inbox, run>>

RetryJob(j) ==
  /\ "retry" \in Ops /\ row[j].retries < MaxRetries
  /\ row[j].status \in {"failed", "dead"}
  /\ row' = [row EXCEPT ![j] =
       [Unlock(row[j], "waiting") EXCEPT
          !.started_at = "null", !.attempts_made = 0, !.attempts_started = 0,
          !.stalled_counter = 0, !.retries = @ + 1]]
  /\ UNCHANGED <<inbox, run>>

PauseJob(j) ==
  /\ "pause" \in Ops
  /\ row[j].status \in {"waiting", "active", "delayed"}
  /\ row' = [row EXCEPT ![j] = Unlock(@, "paused")]
  /\ UNCHANGED <<inbox, run>>

ResumeJob(j) ==
  /\ row[j].status = "paused"
  /\ row' = [row EXCEPT ![j] = Unlock(@, "waiting")]
  /\ UNCHANGED <<inbox, run>>

\* removeJob(), and prune() one row at a time.
RemoveJob(j) ==
  /\ "remove" \in Ops
  /\ row[j].status \in Terminal
  /\ row' = Delete(row, j)
  /\ inbox' = PurgeInbox(inbox, j)
  /\ UNCHANGED run

-----------------------------------------------------------------------------
(* Claiming and what a worker does before it launches the handler.         *)

\* Mutant: the attempt under way is not counted.
SnapshotOffByOne(j) ==
  [timed |-> row[j].opt.timeout_ms,
   last |-> row[j].attempts_made >= row[j].opt.max_attempts]

\* The snapshot claim() returns, as far as executeJob reads it.
Snapshot(j) ==
  [timed |-> row[j].opt.timeout_ms,
   last |-> row[j].attempts_made + 1 >= row[j].opt.max_attempts]

\* claim(): one UPDATE on a waiting row no other claim has locked (SKIP
\* LOCKED).  Which one, by priority and age, is left open.  Nothing reads
\* attempts_started but the CHECK against attempts_made, so it saturates.
Claim(r, j) ==
  /\ run[r].phase = "idle"
  /\ row[j].status = "waiting"
  /\ row' = [row EXCEPT ![j] =
       [row[j] EXCEPT
          !.status = "active", !.lock_token = r, !.lock_until = "live",
          !.timeout_at = IF row[j].opt.timeout_ms THEN "ahead" ELSE "null",
          !.attempts_started = IF @ < StartCap THEN @ + 1 ELSE @,
          !.started_at = IF @ = "null" THEN "recent" ELSE @]]
  /\ run' = [run EXCEPT ![r] =
       [phase |-> "claimed", job |-> j, last |-> Snapshot(j).last,
        timed |-> Snapshot(j).timed, abort |-> "none", to |-> "none"]]
  /\ UNCHANGED inbox

\* releaseClaimForPause() and the "defer" of handleQuietHoursDefer(): an
\* UPDATE fenced by the token alone.
ReleaseClaim(r) ==
  LET j == run[r].job
      t == IF row[j].lock_token = r
           THEN [row EXCEPT ![j] = Unlock(@, "delayed")] ELSE row
  IN  /\ "release" \in Ops
      /\ run[r].phase = "claimed"
      /\ Finish(r, t)
      /\ UNCHANGED inbox

\* The "skip" of handleQuietHoursDefer(): first the lock goes, ...
QuietSkipUnlock(r) ==
  LET j == run[r].job
  IN  /\ "skip" \in Ops
      /\ run[r].phase = "claimed"
      /\ row' = IF row[j].lock_token = r
                THEN [row EXCEPT ![j] = Unlock(@, @.status)] ELSE row
      /\ run' = [run EXCEPT ![r].phase = "skipping"]
      /\ UNCHANGED inbox

\* ... then cancelJob(), by id, ...
QuietSkipCancel(r) ==
  /\ run[r].phase = "skipping"
  /\ CancelJobs({run[r].job})
  /\ run' = [run EXCEPT ![r] = IdleRun]

\* ... or, when cancelJob() throws, a plain UPDATE of the status.
QuietSkipFallback(r) ==
  LET j == run[r].job
  IN  /\ run[r].phase = "skipping"
      /\ Finish(r, IF row[j].status \in Live
                   THEN [row EXCEPT ![j].status = "cancelled"] ELSE row)
      /\ UNCHANGED inbox

Launch(r) ==
  /\ run[r].phase = "claimed"
  /\ run' = [run EXCEPT ![r].phase = "running"]
  /\ UNCHANGED <<row, inbox>>

-----------------------------------------------------------------------------
(* A running handler: its timers, and the recording of its outcome.        *)

\* One renewal tick that reached the database.  The UPDATE is fenced by token
\* and status, not by lock_until: a lapsed lock no one reclaimed is revived.
RenewLock(r) ==
  /\ run[r].phase = "running" /\ run[r].abort # "infra"
  /\ IF Fenced(r)
     THEN /\ row' = [row EXCEPT ![run[r].job].lock_until = "live"]
          /\ UNCHANGED run
     ELSE /\ run' = [run EXCEPT ![r].abort =
                        IF @ = "none" THEN "infra" ELSE @]
          /\ UNCHANGED row
  /\ UNCHANGED inbox

\* should_abort: renewal stayed unreachable for too long, by the run's clock.
RenewalGivesUp(r) ==
  /\ run[r].phase = "running" /\ run[r].abort = "none"
  /\ run' = [run EXCEPT ![r].abort = "infra"]
  /\ UNCHANGED <<row, inbox>>

\* The worker's own per-job timer.
TimeoutFires(r) ==
  /\ run[r].phase = "running" /\ run[r].abort = "none" /\ run[r].timed
  /\ run' = [run EXCEPT ![r].abort = "timeout"]
  /\ UNCHANGED <<row, inbox>>

\* completeJob(), once its UPDATE matched: the parent is told and unblocked,
\* then the row is deleted if it asked for it.
CompletedRows(j) ==
  LET t == Unblock([row EXCEPT ![j] = Unlock(@, "completed")],
                   Parents(row, {j}))
  IN  IF row[j].opt.remove_on_complete THEN Delete(t, j) ELSE t
\* Mutant: the message carries the status in place of the outcome.
CompletedInboxStatus(j) ==
  LET ib == Report([row EXCEPT ![j] = Unlock(@, "completed")], {j}, "completed")
  IN  IF row[j].opt.remove_on_complete THEN PurgeInbox(ib, j) ELSE ib
CompletedInbox(j) ==
  LET ib == Report([row EXCEPT ![j] = Unlock(@, "completed")], {j}, "complete")
  IN  IF row[j].opt.remove_on_complete THEN PurgeInbox(ib, j) ELSE ib

\* Mutant: the parent fails whatever its status is.
FailAnyParent(t, p) ==
  [i \in Job |-> IF i = p THEN [t[i] EXCEPT !.status = "failed"] ELSE t[i]]

\* failJob(), once its UPDATE matched: the message goes to the parent before
\* the policy may make the parent terminal.
FailParent(t, p) ==
  [i \in Job |-> IF i = p /\ t[i].status = "waiting-children"
                 THEN [t[i] EXCEPT !.status = "failed"] ELSE t[i]]
FailedRow(j, s) ==
  [Unlock(row[j], s) EXCEPT
     !.attempts_made = @ + 1,
     !.started_at = IF s = "delayed" THEN "null" ELSE @]
FailedRows(j, s) ==
  LET p == row[j].parent_job_id
      policy == row[j].opt.on_child_fail
      t == [row EXCEPT ![j] = FailedRow(j, s)]
      hooked == CASE policy = "fail_parent" -> FailParent(t, p)
                  [] policy = "remove_dep" ->
                       Unblock([t EXCEPT ![j].parent_job_id = NoJob], {p})
                  [] OTHER -> Unblock(t, {p})
  IN  IF s = "delayed" THEN t
      ELSE IF row[j].opt.remove_on_fail THEN Delete(hooked, j) ELSE hooked
\* Mutant: a failed child tells no one.
FailedInboxSilent(j, s) == inbox
FailedInbox(j, s) ==
  LET ib == Report([row EXCEPT ![j] = FailedRow(j, s)], {j}, s)
  IN  IF s = "delayed" THEN inbox
      ELSE IF row[j].opt.remove_on_fail THEN PurgeInbox(ib, j) ELSE ib

\* What the two calls leave in the database: nothing, when the fence fails.
RowsAfterComplete(r) == IF Fenced(r) THEN CompletedRows(run[r].job) ELSE row
InboxAfterComplete(r) == IF Fenced(r) THEN CompletedInbox(run[r].job) ELSE inbox
RowsAfterFail(r, s) == IF Fenced(r) THEN FailedRows(run[r].job, s) ELSE row
InboxAfterFail(r, s) == IF Fenced(r) THEN FailedInbox(run[r].job, s) ELSE inbox

\* The handler returned; an abort does not keep its result from completeJob().
Complete(r) ==
  /\ run[r].phase \in {"running", "evicted"}
  /\ Finish(r, RowsAfterComplete(r))
  /\ inbox' = InboxAfterComplete(r)

\* completeJob() threw: rolled back, or committed with the reply lost.  The
\* catch block goes on as if the handler had failed.
CompleteThrows(r) ==
  /\ "throws" \in Ops
  /\ run[r].phase \in {"running", "evicted"}
  /\ run' = [run EXCEPT ![r].phase = "failing"]
  /\ \/ row' = RowsAfterComplete(r) /\ inbox' = InboxAfterComplete(r)
     \/ UNCHANGED <<row, inbox>>

\* The status executeJob picks: dead on the last attempt of its snapshot or on
\* an UnrecoverableError, else delayed.  A repeated call keeps its status.
FailStatus(r) ==
  CASE run[r].phase = "refail" -> {run[r].to}
    [] run[r].phase # "refail" /\ run[r].last -> {"dead"}
    [] run[r].phase = "failing" /\ ~run[r].last -> {"delayed"}
    [] OTHER -> {"delayed", "dead"}
MayFail(r) ==
  \/ run[r].phase \in {"running", "evicted", "failing"} /\ run[r].abort # "infra"
  \/ run[r].phase = "refail"

Fail(r, s) ==
  /\ MayFail(r) /\ s \in FailStatus(r)
  /\ Finish(r, RowsAfterFail(r, s))
  /\ inbox' = InboxAfterFail(r, s)

\* failJob() threw a connection error: the worker reconnects and calls it once
\* more with the same arguments.
FailThrows(r, s) ==
  /\ "throws" \in Ops
  /\ run[r].phase # "refail" /\ MayFail(r) /\ s \in FailStatus(r)
  /\ run' = [run EXCEPT ![r].phase = "refail", ![r].to = s]
  /\ \/ row' = RowsAfterFail(r, s) /\ inbox' = InboxAfterFail(r, s)
     \/ UNCHANGED <<row, inbox>>

\* The grace timer after a timeout abort: the row is dead-lettered, the slot is
\* freed, and the handler that ignored the abort is still running.  An error of
\* this failJob() is swallowed.
ForceEvict(r) ==
  /\ run[r].phase = "running" /\ run[r].abort = "timeout"
  /\ \/ row' = RowsAfterFail(r, "dead") /\ inbox' = InboxAfterFail(r, "dead")
     \/ "throws" \in Ops /\ UNCHANGED <<row, inbox>>
  /\ run' = [run EXCEPT ![r].phase = "evicted"]

\* RateLeaseUnavailableError: back to delayed, no attempt spent.
ReleaseLeaseFullJob(r) ==
  /\ "leasefull" \in Ops
  /\ run[r].phase \in {"running", "evicted"} /\ run[r].abort # "infra"
  /\ Finish(r, IF Fenced(r)
               THEN [row EXCEPT ![run[r].job] =
                       [Unlock(@, "delayed") EXCEPT !.started_at = "null"]]
               ELSE row)
  /\ UNCHANGED inbox

\* The run ends and records nothing: an infrastructure abort, a spawn failure,
\* a shutdown, a failure that could not be recorded, or a crash of the worker.
Abandon(r) ==
  /\ run[r].phase # "idle"
  /\ Finish(r, row)
  /\ UNCHANGED inbox

-----------------------------------------------------------------------------
(* The sweeps of the workers' maintenance tick.  Every worker of a queue    *)
(* runs them on its own timer, so no order holds between two of them.  Rows *)
(* another transaction has locked are skipped (SKIP LOCKED): "skipped".     *)

\* Mutant: promotion leaves started_at alone.
PromoteKeepsStart(S) ==
  /\ S # {} /\ \A j \in S : row[j].status = "delayed"
  /\ row' = [j \in Job |-> IF j \in S THEN Unlock(row[j], "waiting") ELSE row[j]]
  /\ UNCHANGED <<inbox, run>>

PromoteDelayed(S) ==
  /\ S # {} /\ \A j \in S : row[j].status = "delayed"
  /\ row' = [j \in Job |-> IF j \in S
       THEN [Unlock(row[j], "waiting") EXCEPT !.started_at = "null"] ELSE row[j]]
  /\ UNCHANGED <<inbox, run>>

\* killJobs() and the UPDATE before it: the rows C die in table t, their live
\* parents are told and unblocked; on_child_fail is not consulted.
Dead(x) == [Unlock(x, "dead") EXCEPT !.attempts_made = @ + 1]
\* Mutant: the parents are told and not unblocked.
KillWithoutUnblock(t, C, outcome) ==
  /\ row' = t
  /\ inbox' = Report(t, C, outcome)
KillJobs(t, C, outcome) ==
  /\ row' = Unblock(t, Parents(row, C))
  /\ inbox' = Report(t, C, outcome)

\* Active, and lock_until < now() - grace.
Stalled(j) == row[j].status = "active" /\ row[j].lock_until = "lapsed"
OutOfStalls(x) == x.stalled_counter + 1 >= x.opt.max_stalled
HandleStalled(skipped) ==
  LET C == {j \in Job \ skipped : Stalled(j)}
      D == {j \in C : OutOfStalls(row[j])}
      bump(x) == [x EXCEPT !.stalled_counter = @ + 1]
      t == [j \in Job |->
              IF j \in D THEN bump(Dead(row[j]))
              ELSE IF j \in C
                   THEN [bump(Unlock(row[j], "waiting")) EXCEPT !.started_at = "null"]
                   ELSE row[j]]
  IN  /\ C # {}
      /\ KillJobs(t, D, "dead")
      /\ UNCHANGED run

\* Active, timeout_at < now(), lock_until > now().
TimedOut(j) ==
  row[j].status = "active" /\ row[j].timeout_at = "past" /\ row[j].lock_until = "live"
HandleTimeouts(skipped) ==
  LET C == {j \in Job \ skipped : TimedOut(j)}
  IN  /\ C # {}
      /\ KillJobs([j \in Job |-> IF j \in C THEN Dead(row[j]) ELSE row[j]],
                  C, "timeout")
      /\ UNCHANGED run

\* Mutants: a row without a lock is overlooked; a row that ended is not.
OverdueIfLocked(j) ==
  /\ row[j].status = "active" /\ row[j].started_at = "old"
  /\ row[j].lock_until # "null"
OverdueAnyStatus(j) ==
  row[j].status \in Live \cup Terminal /\ row[j].started_at = "old"

\* Active and started too long ago, whatever its lock.
Overdue(j) == row[j].status = "active" /\ row[j].started_at = "old"
HandleWallClockTimeouts(skipped) ==
  LET C == {j \in Job \ skipped : Overdue(j)}
  IN  /\ C # {}
      /\ KillJobs([j \in Job |-> IF j \in C THEN Dead(row[j]) ELSE row[j]],
                  C, "timeout")
      /\ UNCHANGED run

\* The statement handleStalled() runs once its transaction has committed,
\* best-effort and on its own.
Stranded(p) == row[p].status = "waiting-children" /\ LiveChildren(row, p) = {}
\* Mutant: only the parents of dead-lettered children are looked for.
SweepAfterDeathsOnly ==
  LET P == {p \in Job : Stranded(p) /\ \E c \in Children(row, p) : row[c].status = "dead"}
  IN  /\ P # {}
      /\ row' = Unblock(row, P)
      /\ UNCHANGED <<inbox, run>>
StrandedParentSweep ==
  /\ \E p \in Job : Stranded(p)
  /\ row' = Unblock(row, Job)
  /\ UNCHANGED <<inbox, run>>

-----------------------------------------------------------------------------
(* Time passes.  Clocks no predicate reads in the row's status stand still. *)

LeaseAges(j) ==
  /\ row[j].status = "active" /\ row[j].lock_until \in {"live", "grace"}
  /\ row' = [row EXCEPT ![j].lock_until =
               IF @ = "live" THEN "grace" ELSE "lapsed"]
  /\ UNCHANGED <<inbox, run>>
DeadlinePasses(j) ==
  /\ row[j].status = "active" /\ row[j].timeout_at = "ahead"
  /\ row' = [row EXCEPT ![j].timeout_at = "past"]
  /\ UNCHANGED <<inbox, run>>
StartAges(j) ==
  /\ row[j].status \in Live /\ row[j].started_at = "recent"
  /\ row' = [row EXCEPT ![j].started_at = "old"]
  /\ UNCHANGED <<inbox, run>>

-----------------------------------------------------------------------------
OperatorCall ==
  \/ \E j \in Job : \E o \in Submissions[j], s \in {"waiting", "delayed"} :
       Add(j, o, s)
  \/ \E j \in Job : \/ CancelJob(j) \/ RetryJob(j) \/ PauseJob(j)
                     \/ ResumeJob(j) \/ RemoveJob(j)

RunStep(r) ==
  \/ \E j \in Job : Claim(r, j)
  \/ ReleaseClaim(r) \/ QuietSkipUnlock(r) \/ QuietSkipCancel(r)
  \/ QuietSkipFallback(r) \/ Launch(r)
  \/ RenewLock(r) \/ RenewalGivesUp(r) \/ TimeoutFires(r)
  \/ Complete(r) \/ CompleteThrows(r)
  \/ \E s \in {"delayed", "dead"} : Fail(r, s) \/ FailThrows(r, s)
  \/ ForceEvict(r) \/ ReleaseLeaseFullJob(r) \/ Abandon(r)

Sweep ==
  \/ \E S \in SUBSET Job : PromoteDelayed(S) \/ HandleWaitingTTL(S)
  \/ \E skipped \in SUBSET Job : \/ HandleStalled(skipped)
                                 \/ HandleTimeouts(skipped)
                                 \/ HandleWallClockTimeouts(skipped)
  \/ StrandedParentSweep

Tick == \E j \in Job : LeaseAges(j) \/ DeadlinePasses(j) \/ StartAges(j)

Overlap == \E a, b \in CancelCalls : CancelsOverlap(a, b)

Next == OperatorCall \/ (\E r \in Run : RunStep(r)) \/ Sweep \/ Tick \/ Overlap

Spec == Init /\ [][Next]_vars

\* Some worker keeps its maintenance interval going and no row stays locked by
\* others at every tick; clocks advance.  Nothing is assumed of the runs.
Fairness ==
  /\ \A j \in Job : WF_vars(LeaseAges(j)) /\ WF_vars(StartAges(j))
  /\ WF_vars(HandleStalled({})) /\ WF_vars(HandleWallClockTimeouts({}))
  /\ WF_vars(StrandedParentSweep)

FairSpec == Spec /\ Fairness

-----------------------------------------------------------------------------
(* Properties.                                                             *)

\* Types, and that a token in a row is NULL, spent, or the token of the run
\* that claimed this very row and is still there.
TypeOK ==
  /\ row \in [Job -> Row]
  /\ inbox \in [Job \X Job -> Seq(Outcomes)]
  /\ run \in [Run -> RunState]
  /\ \A r \in Run : run[r].phase = "idle" <=> run[r].job = NoJob
  /\ \A j \in Job, r \in Run : row[j].lock_token = r => run[r].job = j

\* A terminal status is final: whatever races with it (a late completeJob or
\* failJob, a renewal, a sweep, a pause, a release after the claim), only
\* retryJob, which starts a new incarnation, and deletion move the row on.
TerminalIsFinal ==
  [][\A j \in Job : row[j].status \in Terminal =>
       \/ row'[j].status \in {row[j].status, "deleted"}
       \/ row'[j].retries = row[j].retries + 1]_vars

\* r holds the row it claimed.
Holds(r) ==
  \E j \in Job : /\ run[r].job = j /\ row[j].status = "active"
                 /\ row[j].lock_token = r

\* A run that is no longer the holder of its row (reclaimed, paused, killed,
\* cancelled, or waiting for children under a token left behind) changes no row
\* and sends no message, whatever its handler still does.  The second step of a
\* quiet-hours skip acts by id and is the exception.
ZombiesWriteNothing ==
  [][\A r \in Run :
       /\ run[r].phase \notin {"idle", "skipping"} /\ ~Holds(r)
       /\ run'[r] # run[r]
       => /\ \A j \in Job : row[j].lock_token # r => row'[j] = row[j]
          /\ inbox' = inbox]_vars

\* chk_attempts_order: every path that spends an attempt is matched by a claim
\* that counted a start, across stalls, timeouts, releases and retries, so the
\* database never refuses one of these updates.
AttemptsOrder ==
  \A j \in Job :
    row[j].attempts_made + (IF row[j].status = "active" THEN 1 ELSE 0)
      <= row[j].attempts_started

\* max_attempts and max_stalled are limits in every incarnation, though failJob
\* decides on a snapshot taken at the claim and the sweeps spend attempts too.
BudgetsHold ==
  \A j \in Job :
    /\ row[j].attempts_made <= row[j].opt.max_attempts
    /\ row[j].status \in Live => row[j].attempts_made < row[j].opt.max_attempts
    /\ row[j].status \in Live /\ row[j].stalled_counter > 0 =>
         row[j].stalled_counter < row[j].opt.max_stalled

\* The wall clock measures one execution: a claim always starts it afresh, so
\* the wall-clock sweep cannot kill a run for time the row spent queued.
ClockStartsAtClaim ==
  [][\A j \in Job : row[j].status = "waiting" /\ row'[j].status = "active"
       => row'[j].started_at = "recent"]_vars

\* No claim is for ever: an active row leaves "active" even when its worker
\* crashed, its handler hangs under a lock that is renewed for ever, or a
\* quiet-hours skip died after it had cleared the lock.
EveryClaimEnds ==
  \A j \in Job : row[j].status = "active" ~> row[j].status # "active"

\* A parent does not run while a child is unfinished.
ChildrenResolvedFirst ==
  \A p \in Job : row[p].status \in {"waiting", "active", "delayed"}
                 => LiveChildren(row, p) = {}

\* A waiting-children parent has someone to wait for: whichever transaction
\* ends its last live child also releases it.  Three paths alone let a parent
\* down: two cancels that overlap, a skip that could not cancel, and a child
\* that waits itself and fails with a child of its own.
LetDown(p) ==
  \/ \E a, b \in CancelCalls :
       /\ CancelsOverlap(a, b)
       /\ p \in Parents(row, a.rows) \cap Parents(row, b.rows)
  \/ \E r \in Run : QuietSkipFallback(r) /\ row[run[r].job].parent_job_id = p
  \/ \E c \in Children(row, p) :
       row[c].status = "waiting-children" /\ row'[c].status = "failed"
LastChildReleases ==
  [][\A p \in Job : Stranded(p)' => Stranded(p) \/ LetDown(p)]_vars

\* A parent stranded by any path is released by the backstop sweep.
StrandedParentHealed == \A p \in Job : Stranded(p) ~> ~Stranded(p)

\* At most one child_done per incarnation of a child, none while it is live.
ReportedOnce ==
  \A p, c \in Job :
    Len(inbox[<<p, c>>]) + (IF row[c].status \in Live THEN 1 ELSE 0)
      <= 1 + row[c].retries

\* A live parent holds, for every terminal child, a child_done whose outcome is
\* the child's final status.
OutcomesOf(s) ==
  CASE s = "completed" -> {"complete"} [] s = "dead" -> {"dead", "timeout"}
    [] OTHER -> {s}
EveryTerminalChildReported ==
  \A p, c \in Job :
    /\ row[c].parent_job_id = p /\ row[c].status \in Terminal
    /\ row[p].status \in Live
    => /\ inbox[<<p, c>>] # <<>>
       /\ inbox[<<p, c>>][Len(inbox[<<p, c>>])] \in OutcomesOf(row[c].status)
=============================================================================
