------------------------- MODULE MinionClockProofs -------------------------
(***************************************************************************)
(* The wall clock of a claim in the Minions queue: started_at is empty in  *)
(* every waiting row, so that a claim always starts it afresh.  Proved for *)
(* any tree of submissions, where no row is paused: resumeJob puts a row   *)
(* back with the clock of its last execution.                              *)
(***************************************************************************)
EXTENDS MinionQueueProofs

Fresh(x) == /\ x.status # "paused"
            /\ x.status = "waiting" => x.started_at = "null"

\* A step that is no claim and no pause: no row starts, fresh rows stay fresh.
Calm(x, y) == /\ y.status = "active" => x.status = "active"
              /\ Fresh(x) => Fresh(y)
CalmTable(t, u) == \A j \in Job : Calm(t[j], u[j])

ClockInv == QueueInv /\ \A j \in Job : Fresh(row[j])

-----------------------------------------------------------------------------
(* The statements that the transactions share.                             *)

LEMMA CalmSelf == ASSUME NEW t PROVE CalmTable(t, t)
BY DEF CalmTable, Calm

LEMMA CalmThrough ==
  ASSUME NEW t, NEW u, NEW v, CalmTable(t, u), CalmTable(u, v)
  PROVE  CalmTable(t, v)
BY DEF CalmTable, Calm

LEMMA CalmOne ==
  ASSUME NEW t \in [Job -> Row], NEW j \in Job, NEW y, Calm(t[j], y),
         NEW u, u = [t EXCEPT ![j] = y]
  PROVE  CalmTable(t, u)
<1>1. \A i \in Job : u[i] = IF i = j THEN y ELSE t[i]
  OBVIOUS
<1> QED
  BY <1>1 DEF CalmTable, Calm

LEMMA CalmMany ==
  ASSUME NEW t, NEW C, NEW y, \A j \in Job : j \in C => Calm(t[j], y[j]),
         NEW u, u = [j \in Job |-> IF j \in C THEN y[j] ELSE t[j]]
  PROVE  CalmTable(t, u)
<1>1. \A j \in Job : u[j] = IF j \in C THEN y[j] ELSE t[j]
  OBVIOUS
<1> QED
  BY <1>1 DEF CalmTable, Calm

LEMMA CalmUnlock ==
  ASSUME NEW x \in Row, NEW s
  PROVE  /\ Unlock(x, s).status = s /\ Unlock(x, s).started_at = x.started_at
         /\ DOMAIN Unlock(x, s) = DOMAIN x
         /\ s \notin {"active", "waiting", "paused"} => Calm(x, Unlock(x, s))
         /\ s = x.status => Calm(x, Unlock(x, s))
<1>1. /\ Unlock(x, s).status = s /\ Unlock(x, s).started_at = x.started_at
      /\ DOMAIN Unlock(x, s) = DOMAIN x
  BY DEF Unlock, Row
<1> QED
  BY <1>1 DEF Calm, Fresh

\* A row that is put back on the queue with its clock emptied.
LEMMA CalmRequeued ==
  ASSUME NEW x \in Row, NEW s \in {"waiting", "delayed"},
         NEW y, y = [Unlock(x, s) EXCEPT !.started_at = "null"]
  PROVE  Calm(x, y)
<1>1. y.status = s /\ y.started_at = "null"
  BY CalmUnlock DEF Unlock, Row
<1> QED
  BY <1>1 DEF Calm, Fresh

LEMMA CalmDead ==
  ASSUME NEW x \in Row
  PROVE  /\ Dead(x).status = "dead" /\ DOMAIN Dead(x) = DOMAIN x
         /\ Calm(x, Dead(x))
<1>1. Dead(x).status = "dead" /\ DOMAIN Dead(x) = DOMAIN x
  BY DEF Dead, Unlock, Row
<1> QED
  BY <1>1 DEF Calm, Fresh

LEMMA UnblockCalm ==
  ASSUME NEW t \in [Job -> Row], NEW P
  PROVE  CalmTable(t, Unblock(t, P))
<1> SUFFICES ASSUME NEW j \in Job PROVE Calm(t[j], Unblock(t, P)[j])
  BY DEF CalmTable
<1> DEFINE w == [t[j] EXCEPT !.status = "waiting", !.started_at = "null"]
<1>1. w.status = "waiting" /\ w.started_at = "null"
  BY DEF Row
<1>2. Unblock(t, P)[j] \in {w, t[j]}
  BY DEF Unblock
<1> HIDE DEF w
<1> QED
  BY <1>1, <1>2 DEF Calm, Fresh

LEMMA DeleteCalm ==
  ASSUME NEW t \in [Job -> Row], NEW d
  PROVE  CalmTable(t, Delete(t, d))
<1> SUFFICES ASSUME NEW j \in Job PROVE Calm(t[j], Delete(t, d)[j])
  BY DEF CalmTable
<1> DEFINE gone == [NoRow("deleted") EXCEPT !.retries = t[d].retries]
           n == [t[j] EXCEPT !.parent_job_id = NoJob]
<1>1. /\ gone.status = "deleted" /\ n.status = t[j].status
      /\ n.started_at = t[j].started_at
  BY DEF NoRow, Row
<1>2. Delete(t, d)[j] \in {gone, n, t[j]}
  BY DEF Delete
<1> HIDE DEF gone, n
<1> QED
  BY <1>1, <1>2 DEF Calm, Fresh

LEMMA FailParentCalm ==
  ASSUME NEW t \in [Job -> Row], NEW p
  PROVE  CalmTable(t, FailParent(t, p))
<1> SUFFICES ASSUME NEW j \in Job PROVE Calm(t[j], FailParent(t, p)[j])
  BY DEF CalmTable
<1> DEFINE n == [t[j] EXCEPT !.status = "failed"]
<1>1. n.status = "failed"
  BY DEF Row
<1>2. FailParent(t, p)[j] \in {n, t[j]}
  BY DEF FailParent
<1> HIDE DEF n
<1> QED
  BY <1>1, <1>2 DEF Calm, Fresh

LEMMA RetireCalm ==
  ASSUME NEW t \in [Job -> Row], NEW r
  PROVE  CalmTable(t, Retire(t, r))
<1> SUFFICES ASSUME NEW j \in Job PROVE Calm(t[j], Retire(t, r)[j])
  BY DEF CalmTable
<1> DEFINE n == [t[j] EXCEPT !.lock_token = Stale]
<1>1. n.status = t[j].status /\ n.started_at = t[j].started_at
  BY DEF Row
<1>2. Retire(t, r)[j] \in {n, t[j]}
  BY DEF Retire
<1> HIDE DEF n
<1> QED
  BY <1>1, <1>2 DEF Calm, Fresh

LEMMA FinishCalm ==
  ASSUME NEW t \in [Job -> Row], NEW u, CalmTable(u, t), NEW r, Finish(r, t)
  PROVE  CalmTable(u, row')
BY RetireCalm, CalmThrough DEF Finish

LEMMA TableRows == ASSUME NEW t, Table(t) PROVE t \in [Job -> Row]
BY DEF Table

-----------------------------------------------------------------------------
(* The transactions that end or release a claim.                           *)

LEMMA CompletedCalm ==
  ASSUME Table(row), NEW j \in Job, row[j].status = "active"
  PROVE  CalmTable(row, CompletedRows(j))
<1> DEFINE t0 == [row EXCEPT ![j] = Unlock(row[j], "completed")]
           t == Unblock(t0, Parents(row, {j}))
<1>1. Table(t0) /\ CalmTable(row, t0)
  <2>1. RowInv(row[j]) /\ row[j].status \in Live /\ row \in [Job -> Row]
        /\ row[j] \in Row
    BY DEF Table, Live
  <2>2. Table(t0)
    BY <2>1, UnlockRow, UpdateTable DEF Spendable
  <2>3. Calm(row[j], Unlock(row[j], "completed"))
    BY <2>1, CalmUnlock
  <2> QED
    BY <2>1, <2>2, <2>3, CalmOne
<1>2. CompletedRows(j) = IF row[j].opt.remove_on_complete
                         THEN Delete(t, j) ELSE t
  BY DEF CompletedRows
<1> HIDE DEF t0
<1>3. Table(t) /\ CalmTable(row, t)
  BY <1>1, UnblockTable, UnblockCalm, CalmThrough, TableRows
<1> HIDE DEF t
<1>4. CalmTable(row, Delete(t, j))
  BY <1>3, DeleteCalm, CalmThrough, TableRows
<1> QED
  BY <1>2, <1>3, <1>4

LEMMA FailedCalm ==
  ASSUME Table(row), NEW j \in Job, row[j].status = "active",
         NEW s \in {"delayed", "dead"},
         s = "delayed" => row[j].attempts_made + 1 < row[j].opt.max_attempts
  PROVE  CalmTable(row, FailedRows(j, s))
<1> DEFINE p == row[j].parent_job_id
           policy == row[j].opt.on_child_fail
           t == [row EXCEPT ![j] = FailedRow(j, s)]
           cut == [t EXCEPT ![j].parent_job_id = NoJob]
           hooked == CASE policy = "fail_parent" -> FailParent(t, p)
                       [] policy = "remove_dep" -> Unblock(cut, {p})
                       [] OTHER -> Unblock(t, {p})
<1>1. Table(t) /\ CalmTable(row, t)
  <2>1. RowInv(row[j]) /\ row \in [Job -> Row] /\ row[j] \in Row
    BY DEF Table
  <2>2. Table(t)
    BY <2>1, FailedRowInv, UpdateTable
  <2>3. FailedRow(j, s).status = s
    BY <2>1 DEF FailedRow, Unlock, Row
  <2>4. Calm(row[j], FailedRow(j, s))
    BY <2>3 DEF Calm, Fresh
  <2> QED
    BY <2>1, <2>2, <2>4, CalmOne
<1>2. FailedRows(j, s) = IF s = "delayed" THEN t
                         ELSE IF row[j].opt.remove_on_fail
                              THEN Delete(hooked, j) ELSE hooked
  BY DEF FailedRows
<1> HIDE DEF t
<1>3. Table(cut) /\ CalmTable(row, cut)
  <2>1. Table(cut)
    BY <1>1, DetachTable
  <2>2. \A i \in Job : /\ cut[i].status = t[i].status
                       /\ cut[i].started_at = t[i].started_at
    BY <1>1 DEF Table, Row
  <2> HIDE DEF cut
  <2>3. CalmTable(t, cut)
    BY <2>2 DEF CalmTable, Calm, Fresh
  <2> QED
    BY <1>1, <2>1, <2>3, CalmThrough
<1> HIDE DEF cut
<1>4. /\ Table(FailParent(t, p)) /\ CalmTable(row, FailParent(t, p))
      /\ Table(Unblock(cut, {p})) /\ CalmTable(row, Unblock(cut, {p}))
      /\ Table(Unblock(t, {p})) /\ CalmTable(row, Unblock(t, {p}))
  <2>1. t \in [Job -> Row] /\ cut \in [Job -> Row]
    BY <1>1, <1>3, TableRows
  <2> QED
    BY <1>1, <1>3, <2>1, FailParentTable, UnblockTable, FailParentCalm,
       UnblockCalm, CalmThrough
<1>5. Table(hooked) /\ CalmTable(row, hooked)
  BY <1>4
<1> HIDE DEF hooked
<1>6. CalmTable(row, Delete(hooked, j))
  BY <1>5, DeleteCalm, CalmThrough, TableRows
<1> QED
  BY <1>1, <1>2, <1>5, <1>6

LEMMA RecordedCalm ==
  ASSUME QueueInv, NEW r \in Run, run[r].job \in Job
  PROVE  /\ CalmTable(row, RowsAfterComplete(r))
         /\ \A s \in {"delayed", "dead"} : (s = "delayed" => ~run[r].last) =>
              CalmTable(row, RowsAfterFail(r, s))
<1> DEFINE j == run[r].job
<1>1. Table(row) /\ CalmTable(row, row)
  BY CalmSelf DEF QueueInv
<1>2. CASE Fenced(r)
  <2>1. row[j].status = "active"
    BY <1>2 DEF Fenced
  <2>2. ASSUME NEW s \in {"delayed", "dead"}, s = "delayed" => ~run[r].last
        PROVE  CalmTable(row, FailedRows(j, s))
    <3>1. row[j].attempts_made \in Nat /\ row[j].opt.max_attempts \in Nat
      BY <1>1 DEF Table, Row, Options
    <3>2. s = "delayed" => row[j].attempts_made + 1 < row[j].opt.max_attempts
      BY <1>2, <2>2, <3>1 DEF QueueInv, SnapshotsCurrent
    <3> QED
      BY <1>1, <2>1, <3>2, FailedCalm
  <2> QED
    BY <1>1, <1>2, <2>1, <2>2, CompletedCalm
       DEF RowsAfterComplete, RowsAfterFail
<1>3. CASE ~Fenced(r)
  BY <1>1, <1>3 DEF RowsAfterComplete, RowsAfterFail
<1> QED
  BY <1>2, <1>3

LEMMA KilledCalm ==
  ASSUME NEW t, Table(t), CalmTable(row, t), NEW C, NEW o, KillJobs(t, C, o)
  PROVE  CalmTable(row, row')
<1>1. CalmTable(t, Unblock(t, Parents(row, C)))
  BY TableRows, UnblockCalm
<1>2. row' = Unblock(t, Parents(row, C))
  BY DEF KillJobs
<1> QED
  BY <1>1, <1>2, CalmThrough

LEMMA RowsCalm ==
  ASSUME QueueInv, NEW C, \A j \in Job : j \in C => row[j].status \in Live,
         NEW P, CancelRows(C, P)
  PROVE  CalmTable(row, row')
<1> DEFINE y == [j \in Job |-> Unlock(row[j], "cancelled")]
           t == CancelledTable(C)
<1>1. Table(t)
  BY CancelTable DEF QueueInv
<1>2. row' = Unblock(t, P)
  BY DEF CancelRows, CancelledTable
<1>3. t = [j \in Job |-> IF j \in C THEN y[j] ELSE row[j]]
  BY DEF CancelledTable
<1>4. \A j \in Job : Calm(row[j], y[j])
  BY CalmUnlock DEF QueueInv, Table
<1> HIDE DEF y, t
<1>5. CalmTable(row, t)
  BY <1>3, <1>4, CalmMany
<1>6. CalmTable(t, Unblock(t, P))
  BY <1>1, TableRows, UnblockCalm
<1> QED
  BY <1>1, <1>2, <1>5, <1>6, CalmThrough

LEMMA CancelCalm ==
  ASSUME QueueInv, NEW roots, CancelJobs(roots)
  PROVE  CalmTable(row, row')
<1> DEFINE C == CancelledRows(roots)
<1>1. \A j \in Job : j \in C => row[j].status \in Live
  BY DEF CancelledRows
<1>2. CancelRows(C, Parents(row, C))
  BY DEF CancelJobs
<1> HIDE DEF C
<1> QED
  BY <1>1, <1>2, RowsCalm

LEMMA OverlapCalm ==
  ASSUME QueueInv, Overlap
  PROVE  CalmTable(row, row')
<1>1. PICK a \in CancelCalls, b \in CancelCalls : CancelsOverlap(a, b)
  BY DEF Overlap
<1> DEFINE C == a.rows \cup b.rows
<1>2. \A j \in Job : j \in C => row[j].status \in Live
  BY CallShape
<1>3. PICK P : CancelRows(C, P)
  BY <1>1 DEF CancelsOverlap
<1> HIDE DEF C
<1> QED
  BY <1>2, <1>3, RowsCalm

LEMMA DeathsCalm ==
  ASSUME QueueInv, NEW C, \A j \in Job : j \in C => row[j].status = "active",
         KillJobs(DeadTable(C), C, "timeout")
  PROVE  CalmTable(row, row')
<1> DEFINE y == [j \in Job |-> Dead(row[j])]
           t == DeadTable(C)
<1>1. Table(t)
  BY DeathsTable DEF QueueInv
<1>2. t = [j \in Job |-> IF j \in C THEN y[j] ELSE row[j]]
  BY DEF DeadTable
<1>3. \A j \in Job : Calm(row[j], y[j])
  BY CalmDead DEF QueueInv, Table
<1>4. KillJobs(t, C, "timeout")
  OBVIOUS
<1> HIDE DEF y, t
<1>5. CalmTable(row, t)
  BY <1>2, <1>3, CalmMany
<1> QED
  BY <1>1, <1>4, <1>5, KilledCalm

LEMMA StallsCalm ==
  ASSUME QueueInv, NEW skipped, HandleStalled(skipped)
  PROVE  CalmTable(row, row')
<1> DEFINE C == {j \in Job \ skipped : Stalled(j)}
           D == {j \in C : OutOfStalls(row[j])}
           bump(x) == [x EXCEPT !.stalled_counter = x.stalled_counter + 1]
           requeued(x) ==
             [bump(Unlock(x, "waiting")) EXCEPT !.started_at = "null"]
           y == [j \in Job |-> IF j \in D THEN bump(Dead(row[j]))
                               ELSE requeued(row[j])]
           t == StalledTable(C, D)
<1>1. KillJobs(t, D, "dead")
  BY DEF HandleStalled, StalledTable
<1>2. /\ \A j \in Job : j \in C => row[j].status = "active"
      /\ \A j \in Job : j \in D <=> j \in C /\ OutOfStalls(row[j])
  BY DEF Stalled
<1> HIDE DEF C, D
<1>3. Table(t)
  BY <1>2, StallsTable DEF QueueInv
<1>4. t = [j \in Job |-> IF j \in C THEN y[j] ELSE row[j]]
  BY <1>2 DEF StalledTable
<1>5. ASSUME NEW x \in Row
      PROVE  Calm(x, bump(Dead(x))) /\ Calm(x, requeued(x))
  <2>1. /\ DOMAIN Dead(x) = DOMAIN x /\ Dead(x).status = "dead"
        /\ DOMAIN Unlock(x, "waiting") = DOMAIN x
        /\ Unlock(x, "waiting").status = "waiting"
    BY CalmDead, CalmUnlock
  <2>2. {"status", "started_at", "stalled_counter"} \subseteq DOMAIN x
    BY DEF Row
  <2>3. /\ bump(Dead(x)).status = "dead"
        /\ requeued(x).status = "waiting" /\ requeued(x).started_at = "null"
    BY <2>1, <2>2
  <2> QED
    BY <2>3 DEF Calm, Fresh
<1> HIDE DEF bump, requeued
<1>6. \A j \in Job : Calm(row[j], y[j])
  BY <1>5 DEF QueueInv, Table
<1> HIDE DEF y, t
<1>7. CalmTable(row, t)
  BY <1>4, <1>6, CalmMany
<1> QED
  BY <1>1, <1>3, <1>7, KilledCalm

-----------------------------------------------------------------------------
(* The actions.                                                            *)

LEMMA CallCalm ==
  ASSUME QueueInv, OperatorCall, "pause" \notin Ops
  PROVE  CalmTable(row, row')
<1>1. row \in [Job -> Row]
  BY DEF QueueInv, Table
<1>2. ASSUME NEW j \in Job, NEW o \in Submissions[j],
             NEW s \in {"waiting", "delayed"}, Add(j, o, s)
      PROVE  CalmTable(row, row')
  <2> DEFINE p == o.parent_job_id
             d == IF p = NoJob THEN 0 ELSE row[p].depth + 1
             y == [NoRow(s) EXCEPT !.parent_job_id = p, !.depth = d, !.opt = o]
             t == [row EXCEPT ![j] = y]
             w(x) == [x EXCEPT !.status = "waiting-children"]
  <2>1. /\ y.status = s /\ y.started_at = "null" /\ DOMAIN y = DOMAIN row[j]
    BY <1>1 DEF NoRow, Row
  <2>2. \A i \in Job : row'[i] \in {t[i], w(t[i])}
    BY <1>2 DEF Add
  <2> HIDE DEF y
  <2>3. \A i \in Job : t[i] = IF i = j THEN y ELSE row[i]
    BY <1>1
  <2>4. \A i \in Job : w(t[i]).status = "waiting-children"
    BY <1>1, <2>1, <2>3 DEF Row
  <2> HIDE DEF t, w
  <2>5. \A i \in Job : Calm(t[i], row'[i])
    BY <2>2, <2>4 DEF Calm, Fresh
  <2>6. \A i \in Job : Calm(row[i], t[i])
    BY <2>1, <2>3 DEF Calm, Fresh
  <2> QED
    BY <2>5, <2>6 DEF CalmTable, Calm
<1>3. ASSUME NEW j \in Job, CancelJob(j) PROVE CalmTable(row, row')
  BY <1>3, CancelCalm DEF CancelJob
<1>4. ASSUME NEW j \in Job, RetryJob(j) PROVE CalmTable(row, row')
  <2>1. row'[j].status = "waiting" /\ row'[j].started_at = "null"
    BY <1>1, <1>4 DEF RetryJob, Unlock, Row
  <2>2. \A i \in Job : i # j => row'[i] = row[i]
    BY <1>4, RetriedRow
  <2> QED
    BY <2>1, <2>2 DEF CalmTable, Calm, Fresh
<1>5. ASSUME NEW j \in Job, ResumeJob(j) PROVE CalmTable(row, row')
  <2>1. row' = [row EXCEPT ![j] = Unlock(row[j], "waiting")]
    BY <1>5 DEF ResumeJob
  <2>2. Calm(row[j], Unlock(row[j], "waiting"))
    BY <1>1, <1>5, CalmUnlock DEF ResumeJob, Calm, Fresh
  <2> QED
    BY <1>1, <2>1, <2>2, CalmOne
<1>6. ASSUME NEW j \in Job, RemoveJob(j) PROVE CalmTable(row, row')
  BY <1>1, <1>6, DeleteCalm DEF RemoveJob
<1>7. ASSUME NEW j \in Job PROVE ~PauseJob(j)
  BY DEF PauseJob
<1> QED
  BY <1>2, <1>3, <1>4, <1>5, <1>6, <1>7 DEF OperatorCall

LEMMA SweepCalm ==
  ASSUME ClockInv, Sweep \/ Tick
  PROVE  CalmTable(row, row')
<1>1. QueueInv /\ row \in [Job -> Row]
  BY DEF ClockInv, QueueInv, Table
<1>2. ASSUME NEW S, PromoteDelayed(S) PROVE CalmTable(row, row')
  <2> DEFINE y == [j \in Job |-> [Unlock(row[j], "waiting")
                                    EXCEPT !.started_at = "null"]]
  <2>1. row' = [j \in Job |-> IF j \in S THEN y[j] ELSE row[j]]
    BY <1>2 DEF PromoteDelayed
  <2>2. \A j \in Job : Calm(row[j], y[j])
    BY <1>1, CalmRequeued
  <2> HIDE DEF y
  <2> QED
    BY <2>1, <2>2, CalmMany
<1>3. ASSUME NEW S, HandleWaitingTTL(S) PROVE CalmTable(row, row')
  BY <1>1, <1>3, CancelCalm DEF HandleWaitingTTL
<1>4. ASSUME NEW skipped, HandleStalled(skipped) PROVE CalmTable(row, row')
  BY <1>1, <1>4, StallsCalm
<1>5. ASSUME NEW skipped, HandleTimeouts(skipped) PROVE CalmTable(row, row')
  BY <1>1, <1>5, DeathsCalm DEF HandleTimeouts, TimedOut, DeadTable
<1>6. ASSUME NEW skipped, HandleWallClockTimeouts(skipped)
      PROVE  CalmTable(row, row')
  BY <1>1, <1>6, DeathsCalm DEF HandleWallClockTimeouts, Overdue, DeadTable
<1>7. ASSUME StrandedParentSweep PROVE CalmTable(row, row')
  BY <1>1, <1>7, UnblockCalm DEF StrandedParentSweep
<1>8. ASSUME NEW j \in Job, LeaseAges(j) \/ DeadlinePasses(j)
      PROVE  CalmTable(row, row')
  <2>1. \A i \in Job : /\ row'[i].status = row[i].status
                       /\ row'[i].started_at = row[i].started_at
    BY <1>1, <1>8 DEF LeaseAges, DeadlinePasses, Row
  <2> QED
    BY <2>1 DEF CalmTable, Calm, Fresh
<1>9. ASSUME NEW j \in Job, StartAges(j) PROVE CalmTable(row, row')
  <2>1. row[j].status # "waiting"
    BY <1>9 DEF StartAges, ClockInv, Fresh
  <2>2. \A i \in Job : /\ row'[i].status = row[i].status
                       /\ i # j => row'[i].started_at = row[i].started_at
    BY <1>1, <1>9 DEF StartAges, Row
  <2> QED
    BY <2>1, <2>2 DEF CalmTable, Calm, Fresh
<1> QED
  BY <1>2, <1>3, <1>4, <1>5, <1>6, <1>7, <1>8, <1>9 DEF Sweep, Tick

LEMMA RunCalm ==
  ASSUME QueueInv, NEW r \in Run, RunStep(r), \A j \in Job : ~Claim(r, j)
  PROVE  CalmTable(row, row')
<1> DEFINE j == run[r].job
<1>1. /\ row \in [Job -> Row] /\ CalmTable(row, row)
      /\ run[r].phase # "idle" => j \in Job
  BY CalmSelf DEF QueueInv, Table, RunsOK, RunState
<1>2. CASE UNCHANGED row
  BY <1>1, <1>2
<1>3. CASE Finish(r, row)
  BY <1>1, <1>3, FinishCalm
<1>4. ASSUME j \in Job, NEW y \in Row, Calm(row[j], y),
             Finish(r, [row EXCEPT ![j] = y])
      PROVE  CalmTable(row, row')
  <2> DEFINE t == [row EXCEPT ![j] = y]
  <2>1. t \in [Job -> Row] /\ CalmTable(row, t)
    BY <1>1, <1>4, CalmOne
  <2>2. Finish(r, t)
    BY <1>4
  <2> HIDE DEF t
  <2> QED
    BY <2>1, <2>2, FinishCalm
<1>5. CASE ReleaseClaim(r)
  <2>1. j \in Job /\ row[j] \in Row
    BY <1>1, <1>5 DEF ReleaseClaim
  <2>2. /\ Unlock(row[j], "delayed") \in Row
        /\ Calm(row[j], Unlock(row[j], "delayed"))
    <3>1. Unlock(row[j], "delayed") \in Row
      BY <2>1 DEF Unlock, Row, Live
    <3> QED
      BY <2>1, <3>1, CalmUnlock
  <2> QED
    BY <1>3, <1>4, <1>5, <2>1, <2>2 DEF ReleaseClaim
<1>6. CASE QuietSkipUnlock(r)
  <2>1. j \in Job /\ row[j] \in Row
    BY <1>1, <1>6 DEF QuietSkipUnlock
  <2>2. Calm(row[j], Unlock(row[j], row[j].status))
    BY <2>1, CalmUnlock
  <2> QED
    BY <1>1, <1>2, <1>6, <2>1, <2>2, CalmOne DEF QuietSkipUnlock
<1>7. CASE QuietSkipCancel(r)
  BY <1>7, CancelCalm DEF QuietSkipCancel
<1>8. CASE QuietSkipFallback(r)
  <2>1. j \in Job /\ row[j] \in Row
    BY <1>1, <1>8 DEF QuietSkipFallback
  <2> DEFINE y == [row[j] EXCEPT !.status = "cancelled"]
  <2>2. y \in Row /\ y.status = "cancelled"
    BY <2>1 DEF Row, Terminal
  <2>3. Finish(r, row) \/ Finish(r, [row EXCEPT ![j] = y])
    BY <1>8 DEF QuietSkipFallback
  <2> HIDE DEF y
  <2>4. Calm(row[j], y)
    BY <2>2 DEF Calm, Fresh
  <2> QED
    BY <1>3, <1>4, <2>1, <2>2, <2>3, <2>4
<1>9. CASE Launch(r) \/ RenewalGivesUp(r) \/ TimeoutFires(r)
  BY <1>2, <1>9 DEF Launch, RenewalGivesUp, TimeoutFires
<1>10. CASE RenewLock(r)
  <2>1. CASE Fenced(r)
    <3>1. j \in Job /\ row[j] \in Row
      BY <1>1, <1>10 DEF RenewLock
    <3>2. \A i \in Job : /\ row'[i].status = row[i].status
                         /\ row'[i].started_at = row[i].started_at
      BY <1>1, <1>10, <2>1, <3>1 DEF RenewLock, Row
    <3> QED
      BY <3>2 DEF CalmTable, Calm, Fresh
  <2>2. CASE ~Fenced(r)
    BY <1>2, <1>10, <2>2 DEF RenewLock
  <2> QED
    BY <2>1, <2>2
<1>11. CASE Complete(r) \/ CompleteThrows(r)
  <2>1. /\ j \in Job
        /\ Table(RowsAfterComplete(r)) /\ CalmTable(row, RowsAfterComplete(r))
    BY <1>1, <1>11, RecordedComplete, RecordedCalm DEF Complete, CompleteThrows
  <2> QED
    BY <1>2, <1>11, <2>1, TableRows, FinishCalm DEF Complete, CompleteThrows
<1>12. CASE ForceEvict(r)
  BY <1>1, <1>2, <1>12, RecordedCalm DEF ForceEvict
<1>13. ASSUME NEW s \in {"delayed", "dead"}, Fail(r, s) \/ FailThrows(r, s)
       PROVE  CalmTable(row, row')
  <2>1. j \in Job /\ (s = "delayed" => ~run[r].last)
    BY <1>13, FailStatusSound DEF Fail, FailThrows
  <2>2. Table(RowsAfterFail(r, s)) /\ CalmTable(row, RowsAfterFail(r, s))
    BY <2>1, RecordedFail, RecordedCalm
  <2> QED
    BY <1>2, <1>13, <2>2, TableRows, FinishCalm DEF Fail, FailThrows
<1>14. CASE ReleaseLeaseFullJob(r)
  <2>1. j \in Job /\ row[j] \in Row
    BY <1>1, <1>14 DEF ReleaseLeaseFullJob
  <2> DEFINE z == Unlock(row[j], "delayed")
             y == [z EXCEPT !.started_at = "null"]
  <2>2. z \in Row /\ z.status = "delayed"
    BY <2>1 DEF Unlock, Row, Live
  <2>3. Finish(r, row) \/ Finish(r, [row EXCEPT ![j] = y])
    BY <1>14 DEF ReleaseLeaseFullJob
  <2> HIDE DEF z
  <2>4. y \in Row /\ y.status = "delayed"
    BY <2>2 DEF Row
  <2> HIDE DEF y
  <2>5. Calm(row[j], y)
    BY <2>4 DEF Calm, Fresh
  <2> QED
    BY <1>3, <1>4, <2>1, <2>3, <2>4, <2>5
<1>15. CASE Abandon(r)
  BY <1>3, <1>15 DEF Abandon
<1> QED
  BY <1>5, <1>6, <1>7, <1>8, <1>9, <1>10, <1>11, <1>12, <1>13, <1>14, <1>15
     DEF RunStep

\* A claim of a fresh row starts the clock.
LEMMA ClaimFresh ==
  ASSUME ClockInv, NEW r \in Run, NEW j \in Job, Claim(r, j)
  PROVE  /\ \A i \in Job : Fresh(row'[i])
         /\ row'[j].status = "active" /\ row'[j].started_at = "recent"
         /\ \A i \in Job : i # j => row'[i] = row[i]
<1>1. row \in [Job -> Row] /\ row[j].started_at = "null"
  BY DEF ClockInv, QueueInv, Table, Claim, Fresh
<1> DEFINE started == IF row[j].attempts_started < StartCap
                      THEN row[j].attempts_started + 1
                      ELSE row[j].attempts_started
           deadline == IF row[j].opt.timeout_ms THEN "ahead" ELSE "null"
           clock == IF row[j].started_at = "null" THEN "recent"
                    ELSE row[j].started_at
           y == [row[j] EXCEPT
                   !.status = "active", !.lock_token = r, !.lock_until = "live",
                   !.timeout_at = deadline, !.attempts_started = started,
                   !.started_at = clock]
<1>2. row' = [row EXCEPT ![j] = y]
  BY DEF Claim
<1>3. y.status = "active" /\ y.started_at = clock /\ clock = "recent"
  BY <1>1 DEF Row
<1> HIDE DEF y
<1>4. \A i \in Job : row'[i] = IF i = j THEN y ELSE row[i]
  BY <1>1, <1>2
<1> QED
  BY <1>3, <1>4 DEF ClockInv, Fresh

-----------------------------------------------------------------------------
(* The theorem.                                                            *)

LEMMA ClockStep ==
  ASSUME ClockInv, [Next]_vars, "pause" \notin Ops
  PROVE  /\ ClockInv'
         /\ \A j \in Job : row[j].status = "waiting" /\ row'[j].status = "active"
              => row'[j].started_at = "recent"
<1>1. QueueInv'
  BY NextInv DEF ClockInv
<1>2. ASSUME CalmTable(row, row')
      PROVE  /\ \A j \in Job : Fresh(row'[j])
             /\ \A j \in Job : row'[j].status = "active" =>
                                 row[j].status = "active"
  BY <1>2 DEF CalmTable, Calm, ClockInv
<1>3. CASE \E r \in Run, j \in Job : Claim(r, j)
  BY <1>1, <1>3, ClaimFresh DEF ClockInv
<1>4. CASE CalmTable(row, row')
  BY <1>1, <1>2, <1>4 DEF ClockInv
<1>5. CASE UNCHANGED vars
  BY <1>4, <1>5, CalmSelf DEF vars
<1>6. CASE Next
  BY <1>3, <1>4, <1>6, CallCalm, SweepCalm, RunCalm, OverlapCalm
     DEF Next, ClockInv
<1> QED
  BY <1>5, <1>6

\* A claim always starts the wall clock of its execution afresh, whatever ended
\* the last one: a stall, a failure, a release, a retry, the wait for children.
\* Only a paused row keeps its clock through the queue.
THEOREM ClockStartsFresh ==
  ASSUME "pause" \notin Ops
  PROVE  Spec => ClockStartsAtClaim
<1> DEFINE Started == \A j \in Job :
             row[j].status = "waiting" /\ row'[j].status = "active"
               => row'[j].started_at = "recent"
<1>1. Init => ClockInv
  BY InitInv DEF Init, ClockInv, Fresh, NoRow
<1>2. ClockInv /\ [Next]_vars => ClockInv' /\ [Started]_vars
  BY ClockStep
<1>3. ClockStartsAtClaim <=> [][Started]_vars
  BY DEF ClockStartsAtClaim
<1> HIDE DEF Started
<1> QED
  BY <1>1, <1>2, <1>3, PTL DEF Spec
=============================================================================
