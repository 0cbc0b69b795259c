# A verification model of gbrain's jobs, locks and sync

The repository holds gbrain, a knowledge base server with its own durable job
system ("Minions"), and a demonstration around it (`src/*.py`, `agent/`, `web/`).
The control logic worth a model is in gbrain, where several processes share
state that outlives them: jobs, leases, locks and bookmarks in PostgreSQL (or
PGLite) tables, and lock directories on disk. This project models that logic in
TLA+, checks it with TLC and proves theorems about it with TLAPS. Source paths
below are relative to `src/gbrain/src/core/minions/` unless they say otherwise.

## 1. Inventory

| Component | State | Operations | Talks to | Hard parts | What makes it correct |
|---|---|---|---|---|---|
| Minions queue (`queue.ts`, `../../schema.sql` 973-1055) | rows of `minion_jobs`: status, lock, attempts, parent; `minion_inbox` | add, claim, complete, fail, release, renew, cancel, retry, pause, resume, remove, sweeps | the database; called by workers, CLI, handlers | every caller is a different process; zombies; lost replies; parent accounting on six paths | fencing, budgets, final terminal states, no lost or stranded parent, one message per child |
| Worker (`worker.ts`) | in-flight jobs: lock token, timers, abort reason | claim loop, post-claim checks, launch, renewal, timeout, grace eviction, recording | queue, handlers | crash anywhere, handlers that ignore an abort | nothing recorded without the lock, every claim ends |
| Lock-renewal tick (`lock-renewal-tick.ts`) | last success, failures, call in flight | renew, verify before evict, reconnect, abort | queue | four clocks, calls that land late | a bound on the time a handler runs blind, and beside its successor |
| Admission (`admission.ts`) | waiting and pending counts, TTL notice | coalesce, cap, quota, TTL | queue | advisory locks of different keys | caps hold, no lost submission |
| Rate leases, cap controller, halt cooldown (`rate-leases.ts`, `lease-cap-controller.ts`, `llm-halt-cooldown.ts`) | live leases per key, cap | acquire, renew, release, prune, adapt | handlers | expiry against late release | live leases within the cap |
| Budget meters (`budget-meter.ts`, `budget-tracker.ts`) | reservations, spend | reserve, settle, sweep | handlers | late settle of an expired reservation | no overspend, no loss |
| Supervisor (`supervisor.ts`, `child-worker-supervisor.ts`) | restart count, drain state | spawn, classify exit, back off, stop | worker process | crash loops, signals | bounded restarts, drain ends |
| Process isolation (`child-job-runner.ts`, `run-child.ts`) | child process, kill sequence | spawn, re-check the claim, kill | worker | results against kills | no handler without a claim |
| Worker registry, audit files | heartbeat files, logs | write, read | diagnostics | - | no control decision rests on them |
| Backoff, stagger, quiet hours | none | pure functions | worker, queue | boundaries | bounds of the delay |
| Subagent handler (`handlers/subagent*.ts`) | messages, tool executions in two phases | persist, execute, resume | LLM, queue | crash between the phases | no tool call lost or blindly repeated |
| Aggregator and fan-out (`handlers/subagent-aggregator.ts`, `../../commands/agent.ts`) | children ids, unread messages | submit, read inbox, combine | queue | claimed before the children exist; messages read and then lost in a crash | one result per child |
| Private queues (`queue.ts` 784-1026, `../cycle/inline-drain.ts`) | owner, token, lease | submit, drain, renew, recover | queue | an owner that renews while it is recovered | no live queue is cancelled, no orphan remains |
| Database locks (`../db-lock.ts`, `../sync-lock.ts`, `../page-lock.ts`) | lock rows with TTL | acquire, refresh, take over, release | sync, cycle, backfill | slow holder against takeover | one holder, fenced release |
| PGLite lock (`../pglite-lock.ts`, `../pglite-engine.ts`, `../pglite-repair.ts`) | a directory and its owner file, the claim of a reaper, a marker of the last reap | acquire, reap, release, repair in place | every process of a local brain | concurrent reapers, files that cannot be read, deaths at any system call | one writer; no repair beside another writer; no dead lock stays |
| Sync (`../../commands/sync.ts`, `../../commands/import.ts`, `../op-checkpoint.ts`, `../import-checkpoint.ts`, `../sync-failure-ledger.ts`, `../sync-anchor.ts`, `../serve-sync-runner.ts`) | bookmark, pin and banked paths per range, completed paths of a full sync, failures | start, resume, import, bank, gate, advance, reconcile | git, database, database lock | killed anywhere and resumed while commits land; failing files | up to date means every file is as HEAD has it, or its failure is shown |
| Connections, retry (`../connection-manager.ts`, `../retry.ts`) | pools | connect, rebuild, retry | all | a retry of what was already done | only idempotent calls are repeated |
| Search, import, cycle, OAuth, UI, Python demo | data | data processing, I/O | - | little control state | not planned |

`PROJECT.json` lists the same components with their status, and under "hazards"
every place we found hard to test, with the property that covers it or the
module planned for it.

## 2. Plan

Done: `MinionQueue`; `LockRenewal`; `Lease`, the abstract lock, with `DbLock`,
which implements it; `SourceSync`, which is built on it; `PgliteLock`; and the
proofs of each (section 10). How they fit together:

    MinionQueue   jobs, runs, sweeps; no time      LockRenewal   the timed view of
                                                                 one of its claims
    Lease  <--implements--  DbLock
      ^
      +--- EXTENDS ---  SourceSync                 PgliteLock    on disk, by itself

`SourceSync` takes its lock from `Lease` and not from `DbLock`: what a sync may
rely on is the promise, and the promise is shown once (`ImplementsLease`, checked
and proved). `MinionQueue` lets a lease lapse and a renewal give up at any
moment; `LockRenewal` says when they can.

Left, in this order:

1. `ParentResolve`: the row locks of `completeJob`, `failJob`, the sweeps and
   `cancelJobs` one by one: the order in which they are taken, and the deadlocks
   PostgreSQL would have to break. What overlapping cancels do to the rows is in
   `MinionQueue` already.
2. `AgentFanout`: the aggregator, its reading of the inbox and its re-claim.
3. `RateLease` (with the budget meters), `Admission`, `PrivateQueue`.
4. `SubagentPersistence`: the two phases of a tool call.
5. `Supervisor`, process isolation, and `Backoff` over bounded inputs.

Theorems left: every safety property and action property of the passing runs is
proved. What remains is to weaken hypotheses: `ChildrenResolvedFirst` with pauses
that find no live child, and `EveryTerminalChildReported` with the releases, where
no parent fails with its child.

## 3. `MinionQueue`

### State

- `row[j]`: one record per possible row id: the columns any decision reads.
  "absent" and "deleted" stand for rows not inserted yet and gone. `opt` holds
  the columns `add()` sets and nobody changes. `retries` counts `retryJob`
  calls and is read by properties only.
- `inbox[<<p, c>>]`: the outcomes of the `child_done` messages about `c` in the
  inbox of `p`, oldest first.
- `run[r]`: one record per execution in progress, named by its lock token; it
  holds what `executeJob` and its timers keep in local variables: the snapshot
  of the attempts, the abort reason, how far the recording went.

### Actions and code

| Actions | Code |
|---|---|
| `Add` | `queue.ts` `add` 535-672: parent lock, depth and cap check, insert, parent flip |
| `CancelJob`, `HandleWaitingTTL`, `RetryJob`, `PauseJob`, `ResumeJob`, `RemoveJob` | methods of the same names (`RemoveJob` also stands for `prune`, row by row) |
| `Overlap` (`CancelsOverlap`) | two `cancelJobs` transactions for siblings, from an operator, the TTL sweep or a skip |
| `Claim` | `queue.ts` 1426-1470 with the claim loop of `worker.ts` 701-748 |
| `ReleaseClaim` | `releaseClaimForPause`, and "defer" of `handleQuietHoursDefer` |
| `QuietSkipUnlock`, `QuietSkipCancel`, `QuietSkipFallback` | "skip" of `handleQuietHoursDefer`: two separate database calls |
| `Launch`, `RenewLock`, `RenewalGivesUp`, `TimeoutFires`, `ForceEvict` | `launchJob` and its three timers |
| `Complete`, `CompleteThrows` | handler returned: `completeJob`, or `completeJob` that threw before or after its commit |
| `Fail`, `FailThrows` | the catch block of `executeJob`: `failJob`, once more after a connection error |
| `ReleaseLeaseFullJob` | rate lease full |
| `Abandon` | infrastructure abort, spawn failure, shutdown, crash of the process |
| `PromoteDelayed`, `HandleStalled`, `StrandedParentSweep`, `HandleTimeouts`, `HandleWallClockTimeouts` | the maintenance tick |
| `LeaseAges`, `DeadlinePasses`, `StartAges` | time, as the predicates of the sweeps see it |

### Abstractions

- *One transaction is one step*, except for `cancelJobs`. Every method of the
  queue is one transaction or one statement. All but `cancelJobs` lock the parent
  row before they end a child (`lockParentsOrdered`, `queue.ts:1603-1613`, and the
  same order in `completeJob` and `failJob`) and so behave as one step, also towards
  a cancel: its message to the parent needs a key share lock on the parent's row,
  which waits for theirs, and what it counts after that it sees as they left it.
- *Cancels overlap.* `cancelJobs` (`queue.ts:1027-1129`) locks the rows it ends
  and no parent. Under READ COMMITTED two of them for different children of a
  parent each count the other's child as live, and neither releases the parent.
  `CancelsOverlap` is both in one step: both subtrees end, all parents are told,
  and the parents they share are not looked at. Three at a time are not modelled:
  any one parent that three strand, two of them strand after the third. PGLite
  runs one transaction at a time, so there cancels do not overlap.
- *A claim before the cancel.* `rootStatuses` is checked where the CTE reads the
  roots; the UPDATE, when it had to wait for the row, admits any live status
  (`queue.ts:1047-1070`). So `HandleWaitingTTL` also takes a row that a run has
  claimed since (`ReadWaiting`); how long the UPDATE waited is left open.
- *Two calls are two steps.* The backstop sweep of `handleStalled` runs after its
  commit and is an action of its own. A quiet-hours skip is two calls.
- *Sweeps in any order.* `worker.ts` 404-471 runs them in order within one
  worker, but every worker has its own timer, so between workers no order
  holds, and the model assumes none. `SKIP LOCKED` is the set `skipped`.
- *Time.* `lock_until`, `timeout_at`, `started_at` are kept as what the
  predicates can tell of them. Clocks move independently, which allows more
  than real durations do; a duration is never part of a safety argument here.
- *Tokens.* A token is `workerId:Date.now()`. The model takes it to be fresh.
  Two claims of one worker within a millisecond share a token on different
  rows; every fence also names the row id, so it still tells them apart. When
  a run ends, the token it may have left in a row becomes `Stale`, which is what
  lets a small set of tokens stand for an unbounded number of runs.
- *Zombies.* Nothing takes a run away when its row is taken: it may call any
  recording method later. That is the point of the model.
- *In-process handlers.* With `jobIsolation = 'process'` the grace timer records
  nothing; that variant is not modelled.
- *Claim order* (priority, age, queue, name) is left open: any waiting row.
- *`executeJob` never writes "failed"*: it chooses dead or delayed. "failed" is
  reached through `fail_parent`.
- *Submission.* Idempotency, coalescing and admission are left out: they return
  an existing row instead of inserting. Per-submission depth limits
  (`max_spawn_depth`) are taken equal to the queue's.
- *Not modelled:* token roll-up, progress, attachments, user messages, replay
  (an `add` without a parent), and three public methods without callers
  (`resolveParent`, `failParent`, `removeChildDependency`).

Bounds: `Job` and `Run` (how many rows, and how many runs at one time),
`Submissions` (the options that `add` may get), `MaxRetries` (retries per row),
`StartCap` (`attempts_started` stops there; only `chk_attempts_order` reads it,
and stopping early can only make that check harder to satisfy), `Ops` (the
optional operations an instance exercises).

## 4. `LockRenewal`

One claim of one job: its handler, its row, the renewal timer and the tick.
`knobs` is what `resolveLockRenewalKnobs` makes of a lease and an environment,
clamps included; `left` is `lock_until` minus now; `since` is the time since the
last renewal that is *known* to have succeeded, which is later than the moment
it landed. `phase` is the call the tick awaits, `rest` the time to its timeout.

| Actions | Code |
|---|---|
| `Fire` | the `setInterval` callback of `launchJob`; skipped while a tick is in flight |
| `Renewed`, `Fenced`, `RenewFails`, `VerifyFails`, `Reconnected` | `runLockRenewalTick` between its awaits |
| `Execute`, `ExecuteLate`, `Vanish` | the UPDATE of `renewLock`, in time, after its timeout, never |
| `Reclaim`, `Revoke` | `handleStalled` and its grace; a pause, a cancel, another sweep |
| `End` | the handler returns and `executeJob` stops the timer |
| `Pass` | time; the event loop is late by at most `MaxLate` with a due callback |

A call may fail at once or at its timeout, and whether it failed says nothing of
whether the UPDATE landed. Network time is any time within the timeout. A handler
that was told to stop counts as stopped; that it may ignore its signal for
another 30 s, and for ever after the grace eviction, is in `MinionQueue`
(zombies). Audit and telemetry are left out.

`Roomy` leases are those in which a tick with two calls, each late, ends before
the next callback is due. It must end *strictly* before: with a callback due at
the very moment the tick ends, the callback may come first, finds the tick in
flight and is skipped, and TLC finds a lease lost over a single failure
(`MaxLate = 0`, an interval of exactly two calls).

## 5. `Lease` and `DbLock`

`Lease` is the promise: an owner keeps the lock as long as it lets itself be
heard; a quiet one can be dispossessed and is not told. `DbLock` is the row of
`gbrain_cycle_locks` and everyone who touches it, one SQL statement per action:
`Upsert`, `Inspect`, `TakeOver` (`tryAcquireDbLock`), `Refresh`, `Finish` (the
handle), `Observe` (`waitForDbLockTakeover`), `OpInspect`/`OpDelete`
(`--break-lock` in its forms, the reaper), `Crash`, `Terminate` (a signal, with
its cleanup), `Restart`, `Tick`.

A fence is the caller whose handle carries it, or `Stale`. The mapping to
`Lease`: the owner is the fence; it is quiet when it has been silent for longer
than anyone must wait before dispossessing it (`Silence`); at work are the callers
inside the protected work. Abstractions: a pid whose process is gone becomes
`GonePid`, which stands for all of them; clocks of clients are taken equal to the
database's; the reaper and the supervisor are run on one lock although they
serve different ones; a caller that never refreshes is an election
(`tryWithDbElection`). Pid reuse is an option (`"pidreuse"`) that no passing run
uses: with it the code's own checks (`HOLDER_TAKEOVER_GRACE_MS`) only make a
mistake unlikely.

## 6. `SourceSync`

A sync of one source: lock, read the bookmark, resume a pin or take HEAD, import
files, bank them, decide at the gate, advance the bookmark, clear the checkpoint.
A full sync (`--full`, or the first) walks the whole tree and reconciles. `Step`
collects what one sync does; `Crash` may strike between any two steps, `Push`
brings a commit during a run, `Rewind` rewrites the history, `Starve` loses the
lock.

Abstractions: the history is a line and an ancestor a smaller number; the working
tree is HEAD's tree; reading a file and its transaction are one step, so a file
is imported wholly or not at all; `auto_skipped` and `acknowledged` rows are both
"skipped"; the ledger row for HEAD itself is left out; a final flush that fails
is like a kill before it; loading a checkpoint never fails. Not modelled: renames
and their sentinel rows, uncommitted changes, scopes and excludes, the gate on
the chunker's version, the mass-delete valve, failed pulls, dry runs.

Exceptions are recorded in `mishaps` and each is documented in the code:
"clash" (a sync that lost its lock meets another; "last writer wins"), "rewound"
(the history was rewritten), "rough" (a full sync was cut short, which only
another full sync repairs).

`Faithful` and `BankedIsDone` assume `NoRevert`: no file returns to a content it
had. A run reads files at HEAD although its range ends at an older pin; a commit
that lands meanwhile and is reverted before the next sync leaves a page of the
reverted content, and the next diff, from pin to HEAD, does not show the file.
`sync.ts:3442-3444` calls reading newer content safe, and TLC refutes both
properties without the assumption.

## 7. `PgliteLock`

The lock directory of a data directory, its owner file, the claim under which a
dead lock is reaped and the marker a reap leaves. Every system call others can
see is a step (`Mkdir`, `ReadFile`, `Stat`, `Claim`, `Unlink`, `Rmdir`, ...);
making the claim and writing its metadata are one. `Operate` is the repair of the
write-ahead log in place, which `pglite-engine.ts` refuses when the process or a
recent marker says a lock was reaped from a holder about whom nothing was known.
`Past` is every process that died before the history begins: its lock, readable
or not, and its claim may be lying about.

The marker is as good as the code makes it: `recordReap` swallows a failed write
(`pglite-lock.ts:146-150`; `Record` may leave the marker as it is, or without),
and it counts for ten minutes or until somebody's clock steps back
(`pglite-repair.ts:49`, `671-676`; `Expire`, at any time). A claim counts for 30 s
(`pglite-lock.ts:362-365`), so `Break` may take it from a reaper that is alive.

Assumed: nobody alive takes 10 s between two system calls while the directory is
without a file (the guard of `Wait`). Not modelled: recycled pids and foreign
namespaces, the heartbeat (no decision reads it), the handle kept after a close
that timed out, `gbrain pglite-repair`.

The guarantees make four exceptions, each shown necessary by TLC. `SoleWriter`
holds unless one of the first two occurred, `OperatesAlone` unless one of the last
three did:

- "unknown holder": the file of a live holder cannot be read; the directory
  that `tryReapLockDir` looks at is not the one that was judged (also when the
  directory is gone and its age is therefore infinite, `pglite-lock.ts:567`); or
  an inode number came back;
- "claim broken": a reaper that lives loses its claim, because it held it for too
  long or because two others read the same dead claim and the second removes the
  claim the first has just made;
- "no record": the write of the marker failed, or the reaper died, or the next
  lock was made, before `recordReap`; for the last two it takes three processes;
- "outlived": the marker expired while what it stands for was not over
  (`Unsettled`): a process uses a lock that it did not make, the file names a
  process that did not make the lock, or a reaper takes one for the maker that is
  not. `Unsettled` looks at locks only, and leaving out any of its three parts lets
  TLC refute `OperatesAlone`.

What this says of the code: a holder whose lock file became unreadable, and who
goes on after it was robbed, is safe from a repair beside it for ten minutes. After
that, or when the marker could not be written, whoever finds the new lock in order
resets the log beside it. The quarantine delays that and does not exclude it,
while `pglite-repair.ts:46-48` speaks of a window that "clears". And the
comment at `../pglite-lock.ts:58-60`, that concurrent reapers cannot delete each
other's fresh locks, holds up to the first two. Beside that, `gbrain
pglite-repair` reads the marker before it takes the lock and asks its question
in between (`../../commands/pglite-repair.ts:188`, `:226`).

## 8. Runs

| Run | Instance | Shows |
|---|---|---|
| `lease` | `MCLease`, 1 row, 2 runs, 2 attempts, 2 stalls, 1 retry, all operations but skip and pause (section 9) | `AttemptsOrder`, `BudgetsHold`, `TerminalIsFinal`, `ZombiesWriteNothing`, `ClockStartsAtClaim` |
| `fanout` | `MCFanout`, a parent, two children, 2 runs; `continue` and `remove_dep`; cancels, overlapping ones too | `ChildrenResolvedFirst`, `LastChildReleases`, `EveryTerminalChildReported` |
| `family` | `MCPair`, a parent and a child, 2 runs, `fail_parent`; retry, cancel, pause, remove, lost replies | `TypeOK`, `ReportedOnce`, `TerminalIsFinal` |
| `chain` | `MCChain`, three generations, `fail_parent`, 1 run, skips, fair | `StrandedParentHealed`, `EveryClaimEnds`, `LastChildReleases` |
| `chain_reports` | the same without fairness | `EveryTerminalChildReported` fails |
| `lock_renewal` | `MCLockRenewal`, three leases: the default, the shortest roomy one, one whose environment is clamped throughout | `TypeOK`, `BlindBounded`, `TwoHandlersBounded`, `SpareSingleFailure` |
| `dblock` | `MCDbLock`, two callers of one process, a supervisor on another host, reaper and `--max-age`, fair | `Exclusive`, `OutwaitsTheDead`, `ImplementsLease`, `DeadHolderReplaced` |
| `break_lock` | the same with the safe `--break-lock` | `SafeBreakSpares` fails |
| `sync` | `MCSourceSync`, two callers, two files, three commits (a change, a removal, a file that breaks and is repaired), two faults, fair | `Faithful`, `BankedIsDone`, `BookmarkForward`, `Converges` |
| `full_import` | the same with one caller and one fault | `FullIsAuthoritative` fails |
| `pglite` | `MCPgliteLock`, three processes and `Past`, one death, two inodes | `TypeOK`, `SoleWriter`, `OperatesAlone` |
| `pglite_live` | two processes and `Past`, one death, fair | `DeadLockCleared` |

Why the bounds are enough. *Jobs*: fencing concerns the holder of a row and one
run that lost it: two runs; because tokens are recycled, any number of runs follow
one another. Two attempts and two stalls have a first, a last and a one-too-many.
Parent accounting asks whether a child is the last live one: two children, which
is also what two overlapping cancels need. A parent that is itself a child needs
three generations; only there does a parent fail with its child below another
parent, so `LastChildReleases` is checked in both. Rows that end by each of
the six paths, and a retry of each, occur in `lease` and `family`. *Renewal*: the
units are small, but the bounds are reached: `BlindBounded` with one less fails,
and `SpareSingleFailure` fails for a lease shorter by one; a lateness of one unit
(2.5 s) and one orphaned call suffice for that. *Locks*: a lost lock needs an old
holder, a new one and someone who judged the old row: three callers, two of which
share a pid. For `OutwaitsTheDead` the age of the row is counted further than the
wait is long (`HbCap` is 5, `MaxWait` 4), and TTL, grace and margin are such that
the wait without any one of the three is too short: each is a mutant, and TLC
refutes the property for each. `Grace` is below `TTL` as by default. *Sync*: a pin
between bookmark and HEAD needs three commits; two faults are a kill and a kill
of the resumption, or a kill and a failed write. *PGLite*: see section 7 for what
three processes show that two do not; the marker and the claim need one death.

`CHECK_DEADLOCK FALSE` is set where the bounded instance may really have nothing
left to do: rows that have all ended, a handler that ended, a lock whose callers
are dead, a source that is up to date. The two PGLite runs check deadlock.

### Fairness

- *Jobs* (`chain`): time goes on (`LeaseAges`, `StartAges`) and a maintenance tick
  that finds no row locked by others happens again and again (`HandleStalled({})`,
  `HandleWallClockTimeouts({})`, `StrandedParentSweep`, weak fairness each). The
  tick is a `setInterval` in every worker and survives errors. Nothing is assumed
  of handlers, renewals or claims: `EveryClaimEnds` holds although a handler may
  hang for ever with a renewed lock, or its worker may be gone.
- *Database locks* (`dblock`): a call that was started goes on; time passes
  (strong fairness, since a call in flight delays a tick); a process is restarted
  by its manager; the callers called punctual refresh; a supervisor comes back
  and does not die at the same statement each time (strong fairness of
  `StartTry` and `Upsert` for waiters). Nothing makes a holder finish: a
  lock changes hands in the end because its holder died, not because it was done.
- *Sync*: syncs are scheduled again and again and one that runs goes on. The
  periodic save of a full walk (`SaveWalk`), kills and pushes are not fair.
- *PGLite*: a live process goes on, commands are run again, time passes.
  Nothing makes a holder close the database.

## 9. Where code and documents disagree

Findings, each with a run:

1. `chain_reports`: when a child's failure fails its parent (`queue.ts:1858`),
   the grandparent is not told and not released; the documents promise a
   `child_done` for every terminal child. The backstop sweep releases the
   grandparent (run `chain`), but no message is ever sent.
2. `break_lock`: the safe `--break-lock` judges the row and deletes it in two
   statements, and the DELETE names only the pid. A starved holder that refreshes
   in between loses a lease in force; `../db-lock.ts:634` says there is no window.
3. `full_import`: a full sync resumes from a list of paths that says nothing of
   their content, skips files that changed since, and moves the bookmark to HEAD;
   `../../commands/sync.ts:3997` calls it authoritative for the whole tree.

Observations without a run of their own:

- *Release of a parent.* The two post-claim releases (`worker.ts:814`, `:857`)
  compare the token and not the status, and `add` leaves the token when it flips
  an active parent to `waiting-children`. So a parent that got a child right after
  its claim is put back into the queue although the child is live.
  `ChildrenResolvedFirst` fails in an instance with `"release"` among `Ops`, and
  `fanout` leaves it out.
- *Overlapping cancels.* Of two cancels of the last two children neither releases
  the parent (section 3), although `queue.ts:1075-1079` and `1111-1112` promise
  that the last one does. The messages are sent; the parent waits for the backstop
  sweep. `LastChildReleases` names this as one of its three exceptions, and TLC
  reaches the state in `fanout`.
- *TTL sweep.* `queue.ts:1030-1035` says that `rootStatuses` keeps the sweep from
  cancelling a job under a running handler. The check is in the CTE and not in the
  UPDATE, so a claim that commits while the UPDATE waits for the row is cancelled
  all the same. The run's writes are fenced, so its result is lost and nothing else.
- *Skip fallback.* The fallback of the quiet-hours skip sets `cancelled` and
  leaves the token of a run that has claimed the row meanwhile; that run's
  post-claim release then turns the cancelled row into a delayed one. For this
  reason `TerminalIsFinal` is checked in `lease` without the skip, and proved
  without the releases.
- *Pause.* `pauseJob` and `resumeJob` (`queue.ts:2177`) keep `started_at`, so
  the next execution is measured from the start of the first one, and paused time
  counts against the wall clock, although `docs/architecture/KEY_FILES.md:274` and
  `docs/designs/MINIONS_AGENT_ORCHESTRATION.md:53` (both under `src/gbrain/`)
  say otherwise.
  `ClockStartsAtClaim` is checked and proved without pauses for this reason.
- *Fan-out.* `../../commands/agent.ts:405` submits the aggregator runnable and
  before its children, while `handlers/subagent-aggregator.ts:4-10` says that it
  is claimed after they have ended.
- *Renewal.* `lock-renewal-tick.ts:131` expects the hard eviction to overshoot by
  about two calls and the lateness; it is one interval, three calls and four
  latenesses (`BlindBound`, which TLC reaches), since a check that just misses
  costs a reconnect and a whole interval. And the default lease of 30 s (interval
  15 s, calls of 10 s, grace 15 s) is not roomy: two intervals and a call are
  40 s of its 45, but a failed call and its reconnect do not fit an interval, so
  that the next callback is skipped and a single failure may cost the lease.

## 10. Proofs

Seven modules hold theorems. All are about every value of the constants that
satisfies the named assumptions of the module; further hypotheses are in the table.

| Theorem | States | If |
|---|---|---|
| `MinionQueueProofs` `Invariance` | `QueueInv` is invariant | |
| `TypeCorrect`, `AttemptsOrdered`, `BudgetsKept`, `ZombiesAreFenced` | `TypeOK`, `AttemptsOrder`, `BudgetsHold`, `ZombiesWriteNothing` | |
| `EndsAreFinal` | `TerminalIsFinal` | no post-claim releases |
| `MinionTreeProofs` `TreeInvariance` | `TreeInv` is invariant | |
| `ChildrenReportOnce` | `ReportedOnce` | |
| `ParentsAreReleased` | `LastChildReleases` | |
| `ParentsWait` | `ChildrenResolvedFirst` | `NobodyResumes` |
| `ParentsAreTold` | `EveryTerminalChildReported` | `AllTold` |
| `MinionClockProofs` `ClockStartsFresh` | `ClockStartsAtClaim` | no pauses |
| `LockRenewalProofs` `TypeCorrect`, `BlindIsBounded`, `TwoHandlersAreBounded` | `TypeOK`, `BlindBounded`, `TwoHandlersBounded` | |
| `SingleFailureSpared` | `SpareSingleFailure` | |
| `DbLockProofs` `LockInvariance` | `IInv` is invariant | no pid reuse, no pid-only deletes |
| `PunctualExclude` | `Exclusive` | the same, and `--max-age` not below the TTL |
| `LockImplementsLease` | `L!LeaseSpec`: the refinement | the same |
| `WaitCoversTheLease` | `OutwaitsTheDead` | |
| `SourceSyncProofs` `SyncInvariance` | `SyncInv` is invariant | |
| `SyncKeepsLease`, `SyncBookmark` | every sync step is a lease step; `BookmarkForward` | |
| `SyncBanked`, `SyncFaithful` | `BankedIsDone`, `Faithful` | (`NoRevert` is in the properties) |
| `PgliteLockProofs` `TypeCorrect`, `SoleWriterAlways`, `SurgeryIsAlone` | `TypeOK`, `SoleWriter`, `OperatesAlone` | |

### `MinionQueue`

`BudgetsHold` and `AttemptsOrder` are not inductive. `failJob` writes the status
that `executeJob` chose from a snapshot, so an invariant must say that as long
as a run holds its row, the snapshot is still right: nothing spends an attempt
of an active row without taking its lock. And a token in a row must belong to
a run that claimed that very row, or a zombie could match by accident. So

    QueueInv == Table(row) /\ InboxOK(inbox) /\ RunsOK /\ Held
                /\ SkippersHoldNothing /\ SnapshotsCurrent

`Table` has the type of every row, its attempt order and its budgets (for live
rows, and for any row a token is left on: the release writes such a row back to
`delayed` whatever its status is). `Held` and `SnapshotsCurrent` tie rows to runs.
`SkippersHoldNothing` covers the second half of the quiet-hours skip, which acts by row id without a token.

The proof goes action by action through three notions: a step that only
*writes* rows and leaves the runs alone, a step that *works* for one run, and an
*orderly* step, which changes no terminal row except by retry or deletion.
A lemma per action shows which it is, `StepInv` turns each into `QueueInv'`,
and `NextInv` collects them. `Claim` and `ReleaseClaim` have lemmas of their own:
the first creates a token, the second is the one step that is not orderly. The
temporal theorems then follow by PTL.

### Parents and children

    TreeInv == QueueInv /\ SkipsAllowed /\ Family(row, inbox, {})

`Family(t, ib, P)` is about a table `t`, messages `ib` and a set `P` of parents,
because a transaction goes through tables that nobody sees: it ends rows, tells
their parents, and only then looks at those parents, `P`, to release them. Its
parts: `Rooted` (a row keeps the options of its submission; its parent is there),
`Quota`, `WaitsBut` (who waits has a live child, except in `P`), `Resolved`, `Told`.
Between transactions a parent may be stranded, so in `TreeInv` `P` is everybody and
`WaitsBut` says nothing. `ParentsAreReleased` is about a step: it starts with `P` the
parents that are stranded already, follows the transaction through its tables, and
ends with those that the step lets down (`LetDown`) and no others.
There is one lemma per statement the transactions share (rows end and report,
parents are released, a parent fails, a row is deleted, a child is detached), and
every action is a chain of them.

`ReportedOnce` is not inductive: `releaseClaimForPause` compares the token and not
the status, so it can put an ended row back on the queue. `Quota` therefore counts a
row as able to end again while it is `Open`: live, or with a token on it. It is
proved for all operations, because every path that reports also clears the token;
the paths that end a row and leave its token (a failed parent, the fallback of
the skip) report nothing.

The hypotheses of the other two name the operations under which the code does
not keep the property; TLC finds a counterexample for each one left out:

- `NobodyResumes`: no release, pause or retry. Each makes a parent runnable
  without asking for its children, or a child live under a running parent.
- `AllTold`: only the children of roots have `fail_parent` (a parent that fails with
  its child tells no one, finding 1), no quiet-hours skip (its fallback ends a row
  and tells no one), no retry (a retried parent is live
  again, after a child ended while it was not), and no release: a parent that got
  children right after its claim and failed with one of them keeps its token, the
  other child ends without telling it, and the release puts it back on the queue.

### The clock of a claim

`ClockInv`: a waiting row has no `started_at`, and nothing is paused. Every path
back to the queue clears it: release of a parent, retry, promotion, stalls. A pause
does not (section 9).

### `LockRenewal`

The bounds are not inductive: where `since` may stand depends on the phase of the
tick. `ClockInv` bounds, for each phase, `since` plus the time to the next event
of that phase: a tick that did not evict leaves `since` below `evict`; the
reconnect adds a call, the wait an interval, renewal and verification a call each,
and each of the four waits may end late. For the second bound it ties the lease
to what the worker knows: the row was extended at most a call before the last
known success (`Extended`), and a reply still on its way is no older than its call
(`Answered`), which covers a success that is learnt after the row was lost.

For `SpareSingleFailure`, `RoomyInv` adds what holds in a roomy lease: no callback
is skipped, so the age of the call in flight is the age of the timer, within one
call (`Abreast`), and each failure costs the lease at most one interval and its
lateness (`Spent`). With less than two failures a sweep finds the lease in force.

### `DbLock`

`IInv`: a handle that matches the row belongs to a running call (`OwnerRuns`,
`CallsRun`), and whoever is about to delete by pid judged a pid that is gone, or
the row it judged (`JudgementsHold`, `OpCareful`). Without the last part a
takeover could delete its successor's row. Each action then maps to a step of
`Lease` or a stutter; a tick maps to `GoQuiet` when it passes `Silence`.

`WaitCoversTheLease` needs none of that, and holds with pid reuse and every operator
delete: no time passes between a refused attempt and the waiter's next look, so the
row it sees is no older than the larger of TTL and grace (`RefusedJustNow`). A
supervisor that gives up has waited for their sum and the margin, so the row was
refreshed at least `Spare` (the smaller of the two, plus the margin) after its wait
began: somebody was alive then. The look at the row may fail and then
decides nothing (`Observe`).

### `SourceSync`

    SyncInv == TypeOK /\ Rooted /\ Positions /\ Banking /\ Contents

`Rooted`: an incremental run has a bookmark to start from. `Positions`: bookmark,
pin and HEAD are in order and a run at work is alone, unless a mishap is on
record; this gives `BookmarkForward`. `Banking`: what is in the checkpoint, or
about to be, is fresh with respect to the pin; without the part about runs it
would not survive a flush. `Contents` is `Faithful` before it is complete: every
file is right, or shown, or in the range some run has still to do, or its
reconciliation is still to come. `NoRevert` enters through one lemma: a file that
changed between two commits still differs at HEAD.

### `PgliteLock`

    IInv == TypeOK /\ SuspicionsEnd /\ VictimsDead /\ OneReaper /\ HeldByOne /\ NobodyLost

Neither property is inductive, since both speak of processes that have the database
open, and what matters happens before: between a look at the directory and its
removal. `VictimsDead`: who was judged dead stays dead. `OneReaper`: as long as no
claim was broken, whoever is past the claim holds it. `HeldByOne` (without the
mishaps that `SoleWriter` excludes): who holds the lock made the directory that is
there and its file names him; no reaper of an unknown holder has this directory in
mind; what is being removed is nobody's.

`OperatesAlone` must survive "unknown holder", where a live holder has lost its lock,
so `NobodyLost` argues from the marker. As long as it is absent and no mishap but
"unknown holder" occurred, there is one holder, and the directory is his or was just
removed by a reaper who has yet to write the marker. While the marker is there it
says nothing; when it expires, it must hold again. That is `ExpireStep`: if
nothing was `Unsettled` then, every holder uses the directory he made, so there is
one, and whoever is named in the file, or about to be reaped for it, is its maker.

### Only model-checked

Liveness (`EveryClaimEnds`, `StrandedParentHealed`, `DeadHolderReplaced`,
`Converges`, `DeadLockCleared`): ENABLED and fairness are outside the prover. And the
three findings, which are counterexamples.

## 11. Not modelled

Row locks of the queue's transactions and their deadlocks, admission and
idempotency, private queues, rate leases and budgets, the supervisor and process
isolation, the subagent's persistence, page locks and the autopilot's lock file,
the embedding backfill: planned (section 2) or of the shape of something modelled.
The engines, migrations, gateway, search, import pipeline, CLI, server and
doctor, which make up most of the repository's lines, process data or do I/O: the
control state they have is the state the modules above already hold, and a model
of the rest would repeat the code without a property to check. OAuth, workspace
push, the maintenance cycle and the Python demonstration are listed in
`PROJECT.json` with the reason for each.

## 12. Running it

    tlc -workers 2 -config MCLease.cfg MCLease
    tlapm LockRenewalProofs.tla

Each mutant in `PROJECT.json` names an operator of its module (marked "Mutant"
there) that stands for a plausible bug; with it in place of the original, the
named run reports the property violated.
