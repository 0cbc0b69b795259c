------------------------- MODULE MinionQueueProofs -------------------------
(***************************************************************************)
(* Safety of the Minions queue, proved for any number of rows and runs,    *)
(* any tree of submissions and any budgets.                                *)
(***************************************************************************)
EXTENDS MinionQueue, TLAPS

\* A row that may still run: a live one, and one that ended under the token of a
\* run that is still there and may put it back.
Spendable(x) == x.status \in Live \/ x.lock_token \in Run

\* What holds of every single row, whatever the other rows are.
RowInv(x) ==
  /\ x \in Row
  /\ x.attempts_made + (IF x.status = "active" THEN 1 ELSE 0)
       <= x.attempts_started
  /\ x.attempts_made <= x.opt.max_attempts
  /\ Spendable(x) => x.attempts_made < x.opt.max_attempts
  /\ Spendable(x) /\ x.stalled_counter > 0 =>
       x.stalled_counter < x.opt.max_stalled
  /\ x.status \in Live \cup Terminal => x.opt.max_attempts <= StartCap
  /\ x.lock_token \in Run => x.status \in Live \cup Terminal

\* Row y comes out of row x in a step that is no claim and no retry: a token is
\* kept or dropped, an active row was active with the same attempts, and a row
\* that ended stays as it ended or is deleted.
KeepsToken(x, y) ==
  y.lock_token \in Run =>
    /\ y.lock_token = x.lock_token
    /\ y.status = "active" =>
         /\ x.status = "active" /\ y.attempts_made = x.attempts_made
         /\ y.opt = x.opt
KeepsEnd(x, y) ==
  /\ x.status \in Terminal => y.status \in {x.status, "deleted"}
  /\ x.status = "deleted" => y.status = "deleted"

\* The same of a whole table.
Table(t) == t \in [Job -> Row] /\ \A j \in Job : RowInv(t[j])
KeepsTokens(t, u) == \A j \in Job : KeepsToken(t[j], u[j])
KeepsEnds(t, u) == \A j \in Job : KeepsEnd(t[j], u[j])
Keeps(t, u) == KeepsTokens(t, u) /\ KeepsEnds(t, u)

LEMMA UnlockRow ==
  ASSUME NEW x, RowInv(x), Spendable(x),
         NEW s \in {"waiting", "delayed", "paused", "cancelled", "completed",
                    x.status}
  PROVE  /\ RowInv(Unlock(x, s)) /\ KeepsToken(x, Unlock(x, s))
         /\ x.status \in Live \/ s = x.status => KeepsEnd(x, Unlock(x, s))
         /\ Unlock(x, s).lock_token = NoRun
<1> DEFINE y == Unlock(x, s)
<1>1. /\ y.status = s /\ y.lock_token = NoRun
      /\ y.attempts_made = x.attempts_made
      /\ y.attempts_started = x.attempts_started
      /\ y.stalled_counter = x.stalled_counter /\ y.opt = x.opt
  BY DEF Spendable, RowInv, Row, Unlock
<1>2. s \in Terminal \cup Live \cup {"absent", "deleted"}
  BY DEF RowInv, Row, Live, Terminal
<1>3. y \in Row
  BY <1>2 DEF Spendable, RowInv, Row, Unlock
<1> HIDE DEF y
<1>4. RowInv(y)
  BY <1>1, <1>2, <1>3, IdsAssumption DEF Spendable, RowInv, Row, Live, Terminal
<1>5. KeepsToken(x, y)
  BY <1>1, IdsAssumption DEF KeepsToken
<1>6. x.status \in Live \/ s = x.status => KeepsEnd(x, y)
  BY <1>1 DEF KeepsEnd, Live, Terminal
<1> QED
  BY <1>1, <1>4, <1>5, <1>6 DEF y

LEMMA DeadRow ==
  ASSUME NEW x, RowInv(x), x.status = "active"
  PROVE  /\ RowInv(Dead(x))
         /\ KeepsToken(x, Dead(x)) /\ KeepsEnd(x, Dead(x))
         /\ Dead(x).lock_token = NoRun
<1> DEFINE y == Dead(x)
<1>1. /\ y.status = "dead" /\ y.lock_token = NoRun
      /\ y.attempts_made = x.attempts_made + 1
      /\ y.attempts_started = x.attempts_started
      /\ y.stalled_counter = x.stalled_counter /\ y.opt = x.opt
  BY DEF Spendable, RowInv, Row, Unlock, Dead
<1>2. y \in Row
  <2> DEFINE z == Unlock(x, "dead")
  <2>1. z \in Row
    BY DEF Spendable, RowInv, Row, Unlock, Terminal
  <2>2. y = [z EXCEPT !.attempts_made = z.attempts_made + 1]
    BY DEF Dead
  <2> HIDE DEF z, y
  <2>3. z.attempts_made + 1 \in Nat
    BY <2>1 DEF Row
  <2> QED
    BY <2>1, <2>2, <2>3 DEF Row
<1>3. x.opt.max_attempts \in Nat
  BY DEF Spendable, RowInv, Row, Options
<1> HIDE DEF y
<1>4. RowInv(y)
  BY <1>1, <1>2, <1>3, IdsAssumption DEF Spendable, RowInv, Row, Live, Terminal
<1>5. KeepsToken(x, y) /\ KeepsEnd(x, y)
  BY <1>1, IdsAssumption DEF KeepsToken, KeepsEnd, Live, Terminal
<1> QED
  BY <1>1, <1>4, <1>5 DEF y

LEMMA UnblockTable ==
  ASSUME NEW t, Table(t), NEW P
  PROVE  Table(Unblock(t, P)) /\ Keeps(t, Unblock(t, P))
<1> DEFINE w(x) == [x EXCEPT !.status = "waiting", !.started_at = "null"]
           u == Unblock(t, P)
<1>1. ASSUME NEW x, RowInv(x), x.status = "waiting-children"
      PROVE  RowInv(w(x)) /\ KeepsToken(x, w(x)) /\ KeepsEnd(x, w(x))
  <2>1. /\ w(x).status = "waiting" /\ w(x).lock_token = x.lock_token
        /\ w(x).attempts_made = x.attempts_made
        /\ w(x).attempts_started = x.attempts_started
        /\ w(x).stalled_counter = x.stalled_counter /\ w(x).opt = x.opt
    BY <1>1 DEF Spendable, RowInv, Row
  <2>2. w(x) \in Row
    BY <1>1 DEF Spendable, RowInv, Row, Live
  <2> HIDE DEF w
  <2>3. RowInv(w(x))
    BY <1>1, <2>1, <2>2 DEF Spendable, RowInv, Row, Live, Terminal
  <2> QED
    BY <1>1, <2>1, <2>3 DEF KeepsToken, KeepsEnd, Live, Terminal
<1>2. ASSUME NEW x PROVE KeepsToken(x, x) /\ KeepsEnd(x, x)
  BY DEF KeepsToken, KeepsEnd
<1>3. u = [j \in Job |->
             IF j \in P /\ t[j].status = "waiting-children"
                /\ LiveChildren(t, j) = {} THEN w(t[j]) ELSE t[j]]
  BY DEF Unblock
<1> HIDE DEF w, u
<1>4. ASSUME NEW j \in Job
      PROVE  RowInv(u[j]) /\ KeepsToken(t[j], u[j]) /\ KeepsEnd(t[j], u[j])
  <2>1. RowInv(t[j])
    BY DEF Table
  <2>2. u[j] = t[j] \/ (t[j].status = "waiting-children" /\ u[j] = w(t[j]))
    BY <1>3
  <2> QED
    BY <2>1, <2>2, <1>1, <1>2
<1>5. u \in [Job -> Row]
  BY <1>3, <1>4 DEF Spendable, RowInv
<1> QED
  BY <1>4, <1>5 DEF Table, Keeps, KeepsTokens, KeepsEnds, u

LEMMA KeepsSelf ==
  ASSUME NEW x PROVE KeepsToken(x, x) /\ KeepsEnd(x, x)
BY DEF KeepsToken, KeepsEnd

LEMMA KeepsTransitive ==
  ASSUME NEW t, NEW u, NEW v, Keeps(t, u), Keeps(u, v)
  PROVE  Keeps(t, v)
<1> SUFFICES ASSUME NEW j \in Job
             PROVE  KeepsToken(t[j], v[j]) /\ KeepsEnd(t[j], v[j])
  BY DEF Keeps, KeepsTokens, KeepsEnds
<1>1. KeepsToken(t[j], u[j]) /\ KeepsToken(u[j], v[j])
  BY DEF Keeps, KeepsTokens
<1>2. KeepsEnd(t[j], u[j]) /\ KeepsEnd(u[j], v[j])
  BY DEF Keeps, KeepsEnds
<1> QED
  BY <1>1, <1>2 DEF KeepsToken, KeepsEnd, Terminal

\* A table is changed row by row.
LEMMA NewTable ==
  ASSUME NEW t, NEW u, DOMAIN u = Job, u = [j \in Job |-> u[j]],
         \A j \in Job :
           RowInv(u[j]) /\ KeepsToken(t[j], u[j]) /\ KeepsEnd(t[j], u[j])
  PROVE  Table(u) /\ Keeps(t, u)
BY DEF Spendable, Table, Keeps, KeepsTokens, KeepsEnds, RowInv

LEMMA UpdateTable ==
  ASSUME NEW t, Table(t), NEW j \in Job, NEW y, RowInv(y),
         KeepsToken(t[j], y), KeepsEnd(t[j], y)
  PROVE  Table([t EXCEPT ![j] = y]) /\ Keeps(t, [t EXCEPT ![j] = y])
<1> DEFINE u == [t EXCEPT ![j] = y]
<1>1. u = [i \in Job |-> IF i = j THEN y ELSE t[i]]
  BY DEF Table
<1> HIDE DEF u
<1>2. ASSUME NEW i \in Job
      PROVE  RowInv(u[i]) /\ KeepsToken(t[i], u[i]) /\ KeepsEnd(t[i], u[i])
  <2>1. u[i] = IF i = j THEN y ELSE t[i]
    BY <1>1
  <2>2. RowInv(t[i])
    BY DEF Table
  <2> QED
    BY <2>1, <2>2, KeepsSelf
<1>3. u = [i \in Job |-> u[i]] /\ DOMAIN u = Job
  BY <1>1
<1>4. Table(u) /\ Keeps(t, u)
  BY <1>2, <1>3, NewTable
<1> QED
  BY <1>4 DEF u

LEMMA DeletedRow ==
  ASSUME NEW x, RowInv(x), NEW n \in Nat,
         NEW y, y = [NoRow("deleted") EXCEPT !.retries = n]
  PROVE  RowInv(y) /\ KeepsToken(x, y) /\ KeepsEnd(x, y)
<1>1. /\ y.status = "deleted" /\ y.lock_token = NoRun /\ y.attempts_made = 0
      /\ y.attempts_started = 0 /\ y.stalled_counter = 0
      /\ y.opt = DefaultOptions
  BY DEF NoRow
<1>2. DefaultOptions \in Options /\ DefaultOptions.max_attempts = 3
  BY DEF DefaultOptions, Options, Policies
<1>3. y \in Row
  BY <1>2 DEF NoRow, Row
<1>4. RowInv(y)
  BY <1>1, <1>2, <1>3, IdsAssumption DEF Spendable, RowInv, Live, Terminal
<1> QED
  BY <1>1, <1>4, IdsAssumption DEF KeepsToken, KeepsEnd

LEMMA DeleteTable ==
  ASSUME NEW t, Table(t), NEW d \in Job
  PROVE  Table(Delete(t, d)) /\ Keeps(t, Delete(t, d))
<1> DEFINE n(x) == [x EXCEPT !.parent_job_id = NoJob]
           gone == [NoRow("deleted") EXCEPT !.retries = t[d].retries]
           u == Delete(t, d)
<1>1. ASSUME NEW x, RowInv(x)
      PROVE  RowInv(n(x)) /\ KeepsToken(x, n(x)) /\ KeepsEnd(x, n(x))
  <2>1. /\ n(x).status = x.status /\ n(x).lock_token = x.lock_token
        /\ n(x).attempts_made = x.attempts_made
        /\ n(x).attempts_started = x.attempts_started
        /\ n(x).stalled_counter = x.stalled_counter /\ n(x).opt = x.opt
    BY <1>1 DEF Spendable, RowInv, Row
  <2>2. n(x) \in Row
    BY <1>1 DEF Spendable, RowInv, Row
  <2> HIDE DEF n
  <2>3. RowInv(n(x))
    BY <1>1, <2>1, <2>2 DEF Spendable, RowInv
  <2> QED
    BY <2>1, <2>3 DEF KeepsToken, KeepsEnd
<1>2. t[d].retries \in Nat
  BY DEF Spendable, Table, RowInv, Row
<1>3. u = [i \in Job |-> IF i = d THEN gone
                         ELSE IF t[i].parent_job_id = d THEN n(t[i]) ELSE t[i]]
  BY DEF Delete
<1> HIDE DEF n, u
<1>4. ASSUME NEW i \in Job
      PROVE  RowInv(u[i]) /\ KeepsToken(t[i], u[i]) /\ KeepsEnd(t[i], u[i])
  <2>1. RowInv(t[i])
    BY DEF Table
  <2>2. RowInv(gone) /\ KeepsToken(t[i], gone) /\ KeepsEnd(t[i], gone)
    BY <1>2, <2>1, DeletedRow
  <2>3. u[i] = gone \/ u[i] = n(t[i]) \/ u[i] = t[i]
    BY <1>3
  <2> QED
    BY <2>1, <2>2, <2>3, <1>1, KeepsSelf
<1>5. u = [i \in Job |-> u[i]] /\ DOMAIN u = Job
  BY <1>3
<1>6. Table(u) /\ Keeps(t, u)
  BY <1>4, <1>5, NewTable
<1> QED
  BY <1>6 DEF u

\* A run retires: no row carries its token any more.
LEMMA RetireTable ==
  ASSUME NEW t, Table(t), NEW r \in Run
  PROVE  /\ Table(Retire(t, r)) /\ Keeps(t, Retire(t, r))
         /\ \A j \in Job : Retire(t, r)[j].lock_token # r
<1> DEFINE n(x) == [x EXCEPT !.lock_token = Stale]
           u == Retire(t, r)
<1>1. ASSUME NEW x, RowInv(x)
      PROVE  /\ RowInv(n(x)) /\ KeepsToken(x, n(x)) /\ KeepsEnd(x, n(x))
             /\ n(x).lock_token = Stale
  <2>1. /\ n(x).status = x.status /\ n(x).lock_token = Stale
        /\ n(x).attempts_made = x.attempts_made
        /\ n(x).attempts_started = x.attempts_started
        /\ n(x).stalled_counter = x.stalled_counter /\ n(x).opt = x.opt
    BY <1>1 DEF Spendable, RowInv, Row
  <2>2. n(x) \in Row
    BY <1>1 DEF Spendable, RowInv, Row
  <2> HIDE DEF n
  <2>3. RowInv(n(x))
    BY <1>1, <2>1, <2>2, IdsAssumption DEF Spendable, RowInv
  <2> QED
    BY <2>1, <2>3, IdsAssumption DEF KeepsToken, KeepsEnd
<1>2. u = [j \in Job |-> IF t[j].lock_token = r THEN n(t[j]) ELSE t[j]]
  BY DEF Retire
<1> HIDE DEF n, u
<1>3. ASSUME NEW i \in Job
      PROVE  /\ RowInv(u[i]) /\ KeepsToken(t[i], u[i]) /\ KeepsEnd(t[i], u[i])
             /\ u[i].lock_token # r
  <2>1. RowInv(t[i])
    BY DEF Table
  <2>2. CASE t[i].lock_token = r
    <3>1. u[i] = n(t[i])
      BY <1>2, <2>2
    <3> QED
      BY <2>1, <3>1, <1>1, IdsAssumption
  <2>3. CASE t[i].lock_token # r
    <3>1. u[i] = t[i]
      BY <1>2, <2>3
    <3> QED
      BY <2>1, <2>3, <3>1, KeepsSelf
  <2> QED
    BY <2>2, <2>3
<1>4. u = [i \in Job |-> u[i]] /\ DOMAIN u = Job
  BY <1>2
<1>5. Table(u) /\ Keeps(t, u)
  BY <1>3, <1>4, NewTable
<1> QED
  BY <1>3, <1>5 DEF u

LEMMA FailParentTable ==
  ASSUME NEW t, Table(t), NEW p
  PROVE  Table(FailParent(t, p)) /\ Keeps(t, FailParent(t, p))
<1> DEFINE n(x) == [x EXCEPT !.status = "failed"]
           u == FailParent(t, p)
<1>1. ASSUME NEW x, RowInv(x), x.status = "waiting-children"
      PROVE  RowInv(n(x)) /\ KeepsToken(x, n(x)) /\ KeepsEnd(x, n(x))
  <2>1. /\ n(x).status = "failed" /\ n(x).lock_token = x.lock_token
        /\ n(x).attempts_made = x.attempts_made
        /\ n(x).attempts_started = x.attempts_started
        /\ n(x).stalled_counter = x.stalled_counter /\ n(x).opt = x.opt
    BY <1>1 DEF Spendable, RowInv, Row
  <2>2. n(x) \in Row
    BY <1>1 DEF Spendable, RowInv, Row, Terminal
  <2> HIDE DEF n
  <2>3. RowInv(n(x))
    BY <1>1, <2>1, <2>2 DEF Spendable, RowInv, Row, Live, Terminal
  <2> QED
    BY <1>1, <2>1, <2>3 DEF KeepsToken, KeepsEnd, Live, Terminal
<1>2. u = [j \in Job |-> IF j = p /\ t[j].status = "waiting-children"
                         THEN n(t[j]) ELSE t[j]]
  BY DEF FailParent
<1> HIDE DEF n, u
<1>3. ASSUME NEW i \in Job
      PROVE  RowInv(u[i]) /\ KeepsToken(t[i], u[i]) /\ KeepsEnd(t[i], u[i])
  <2>1. RowInv(t[i])
    BY DEF Table
  <2>2. u[i] = t[i] \/ (t[i].status = "waiting-children" /\ u[i] = n(t[i]))
    BY <1>2
  <2> QED
    BY <2>1, <2>2, <1>1, KeepsSelf
<1>4. u = [i \in Job |-> u[i]] /\ DOMAIN u = Job
  BY <1>2
<1>5. Table(u) /\ Keeps(t, u)
  BY <1>3, <1>4, NewTable
<1> QED
  BY <1>5 DEF u

-----------------------------------------------------------------------------
(* The transactions that end or release a claim.                           *)

LEMMA CompletedTable ==
  ASSUME Table(row), NEW j \in Job, row[j].status = "active"
  PROVE  Table(CompletedRows(j)) /\ Keeps(row, CompletedRows(j))
<1> DEFINE t0 == [row EXCEPT ![j] = Unlock(row[j], "completed")]
           t == Unblock(t0, Parents(row, {j}))
<1>1. Table(t0) /\ Keeps(row, t0)
  <2>1. RowInv(row[j]) /\ row[j].status \in Live
    BY DEF Table, Live
  <2> QED
    BY <2>1, UnlockRow, UpdateTable DEF Spendable
<1> HIDE DEF t0
<1>2. Table(t) /\ Keeps(t0, t)
  BY <1>1, UnblockTable
<1> HIDE DEF t
<1>3. Keeps(row, t)
  BY <1>1, <1>2, KeepsTransitive
<1>4. Table(Delete(t, j)) /\ Keeps(row, Delete(t, j))
  BY <1>2, <1>3, DeleteTable, KeepsTransitive
<1>5. CompletedRows(j) = IF row[j].opt.remove_on_complete THEN Delete(t, j) ELSE t
  BY DEF CompletedRows, t, t0
<1> QED
  BY <1>2, <1>3, <1>4, <1>5

LEMMA FailedRowInv ==
  ASSUME NEW j \in Job, RowInv(row[j]), row[j].status = "active",
         NEW s \in {"delayed", "dead"},
         s = "delayed" => row[j].attempts_made + 1 < row[j].opt.max_attempts
  PROVE  /\ RowInv(FailedRow(j, s))
         /\ KeepsToken(row[j], FailedRow(j, s)) /\ KeepsEnd(row[j], FailedRow(j, s))
<1> DEFINE x == row[j]
           z == Unlock(x, s)
           y == FailedRow(j, s)
<1>1. /\ z.status = s /\ z.lock_token = NoRun
      /\ z.attempts_made = x.attempts_made
      /\ z.attempts_started = x.attempts_started
      /\ z.stalled_counter = x.stalled_counter /\ z.opt = x.opt
  BY DEF Spendable, RowInv, Row, Unlock
<1>2. z \in Row
  BY DEF Spendable, RowInv, Row, Unlock, Live, Terminal
<1>3. y = [z EXCEPT !.attempts_made = z.attempts_made + 1,
                    !.started_at = IF s = "delayed" THEN "null" ELSE z.started_at]
  BY DEF FailedRow
<1>4. x \in Row /\ x.opt.max_attempts \in Nat /\ x.attempts_made \in Nat
  BY DEF Spendable, RowInv, Row, Options
<1> HIDE DEF z, y
<1>5. /\ y.status = s /\ y.lock_token = NoRun
      /\ y.attempts_made = x.attempts_made + 1
      /\ y.attempts_started = x.attempts_started
      /\ y.stalled_counter = x.stalled_counter /\ y.opt = x.opt
  BY <1>1, <1>2, <1>3 DEF Row
<1>6. y \in Row
  <2> DEFINE c == IF s = "delayed" THEN "null" ELSE z.started_at
  <2>1. z.attempts_made + 1 \in Nat /\ c \in {"null", "recent", "old"}
    BY <1>2 DEF Row
  <2>2. y = [z EXCEPT !.attempts_made = z.attempts_made + 1, !.started_at = c]
    BY <1>3
  <2> HIDE DEF c
  <2> QED
    BY <1>2, <2>1, <2>2 DEF Row
<1>7. RowInv(x) /\ x.status = "active"
  OBVIOUS
<1> HIDE DEF x
<1>8. RowInv(y)
  BY <1>4, <1>5, <1>6, <1>7, IdsAssumption DEF Spendable, RowInv, Row, Live, Terminal, x
<1>9. KeepsToken(x, y) /\ KeepsEnd(x, y)
  BY <1>5, <1>7, IdsAssumption DEF KeepsToken, KeepsEnd, Live, Terminal
<1> QED
  BY <1>8, <1>9 DEF x, y

LEMMA DetachTable ==
  ASSUME NEW t, Table(t), NEW j \in Job,
         NEW u, u = [t EXCEPT ![j].parent_job_id = NoJob]
  PROVE  Table(u) /\ Keeps(t, u)
<1> DEFINE y == [t[j] EXCEPT !.parent_job_id = NoJob]
<1>1. RowInv(t[j])
  BY DEF Table
<1>2. /\ y.status = t[j].status /\ y.lock_token = t[j].lock_token
      /\ y.attempts_made = t[j].attempts_made
      /\ y.attempts_started = t[j].attempts_started
      /\ y.stalled_counter = t[j].stalled_counter /\ y.opt = t[j].opt
  BY <1>1 DEF RowInv, Row
<1>3. y \in Row
  BY <1>1 DEF RowInv, Row
<1>4. u = [t EXCEPT ![j] = y]
  BY DEF Table
<1> HIDE DEF y
<1>5. RowInv(y)
  BY <1>1, <1>2, <1>3 DEF Spendable, RowInv
<1>6. KeepsToken(t[j], y) /\ KeepsEnd(t[j], y)
  BY <1>2 DEF KeepsToken, KeepsEnd
<1>7. Table([t EXCEPT ![j] = y]) /\ Keeps(t, [t EXCEPT ![j] = y])
  BY <1>5, <1>6, UpdateTable
<1> QED
  BY <1>4, <1>7

LEMMA FailedTable ==
  ASSUME Table(row), NEW j \in Job, row[j].status = "active",
         NEW s \in {"delayed", "dead"},
         s = "delayed" => row[j].attempts_made + 1 < row[j].opt.max_attempts
  PROVE  Table(FailedRows(j, s)) /\ Keeps(row, FailedRows(j, s))
<1> DEFINE p == row[j].parent_job_id
           t == [row EXCEPT ![j] = FailedRow(j, s)]
           cut == [t EXCEPT ![j].parent_job_id = NoJob]
           hooked == CASE row[j].opt.on_child_fail = "fail_parent" -> FailParent(t, p)
                       [] row[j].opt.on_child_fail = "remove_dep" -> Unblock(cut, {p})
                       [] OTHER -> Unblock(t, {p})
<1>1. Table(t) /\ Keeps(row, t)
  <2>1. RowInv(row[j])
    BY DEF Table
  <2> QED
    BY <2>1, FailedRowInv, UpdateTable
<1> HIDE DEF t
<1>2. Table(cut) /\ Keeps(row, cut)
  BY <1>1, DetachTable, KeepsTransitive
<1> HIDE DEF cut
<1>3. /\ Table(FailParent(t, p)) /\ Keeps(row, FailParent(t, p))
      /\ Table(Unblock(cut, {p})) /\ Keeps(row, Unblock(cut, {p}))
      /\ Table(Unblock(t, {p})) /\ Keeps(row, Unblock(t, {p}))
  BY <1>1, <1>2, FailParentTable, UnblockTable, KeepsTransitive
<1>4. Table(hooked) /\ Keeps(row, hooked)
  BY <1>3
<1>5. FailedRows(j, s) = IF s = "delayed" THEN t
                         ELSE IF row[j].opt.remove_on_fail
                              THEN Delete(hooked, j) ELSE hooked
  BY DEF FailedRows, t, cut
<1> HIDE DEF hooked
<1>6. Table(Delete(hooked, j)) /\ Keeps(row, Delete(hooked, j))
  BY <1>4, DeleteTable, KeepsTransitive
<1> QED
  BY <1>1, <1>4, <1>5, <1>6

-----------------------------------------------------------------------------
(* The inductive invariant.                                                *)

InboxOK(ib) == ib \in [Job \X Job -> Seq(Outcomes)]
RunsOK ==
  /\ run \in [Run -> RunState]
  /\ \A r \in Run : run[r].phase = "idle" <=> run[r].job = NoJob
  /\ \A r \in Run : run[r].phase = "refail" /\ run[r].to = "delayed" => ~run[r].last
Held == \A j \in Job, r \in Run : row[j].lock_token = r => run[r].job = j

\* A quiet-hours skip has given its row up before it cancels it.
SkippersHoldNothing ==
  \A r \in Run : run[r].phase = "skipping" =>
    \A j \in Job : row[j].lock_token # r

\* While a run holds its row, the snapshot it took at the claim is current.
SnapshotsCurrent ==
  \A r \in Run : run[r].job \in Job /\ Fenced(r) =>
    (run[r].last <=> row[run[r].job].attempts_made + 1
                       >= row[run[r].job].opt.max_attempts)

QueueInv ==
  /\ Table(row) /\ InboxOK(inbox) /\ RunsOK
  /\ Held /\ SkippersHoldNothing /\ SnapshotsCurrent

LEMMA ReportTyped ==
  ASSUME InboxOK(inbox), NEW t, NEW C, NEW o \in Outcomes
  PROVE  InboxOK(Report(t, C, o))
BY DEF InboxOK, Report

LEMMA PurgeTyped ==
  ASSUME NEW ib, InboxOK(ib), NEW j PROVE InboxOK(PurgeInbox(ib, j))
BY DEF InboxOK, PurgeInbox

\* A step that is no claim preserves the invariant when each row keeps or drops
\* its token and each run either keeps its job and snapshot or ends with no row
\* carrying its token.
Continues(r) ==
  /\ run'[r].job = run[r].job /\ run'[r].last = run[r].last
  /\ run'[r].phase = "idle" <=> run[r].phase = "idle"
  /\ run'[r].phase = "refail" /\ run'[r].to = "delayed" => ~run[r].last
  /\ run'[r].phase = "skipping" =>
       run[r].phase = "skipping" \/ \A j \in Job : row'[j].lock_token # r
Ends(r) ==
  run'[r] = IdleRun /\ \A j \in Job : row'[j].lock_token # r

LEMMA StepInv ==
  ASSUME QueueInv, Table(row'), KeepsTokens(row, row'), InboxOK(inbox'),
         run' \in [Run -> RunState], \A r \in Run : Continues(r) \/ Ends(r)
  PROVE  QueueInv'
<1>1. RunsOK'
  BY IdsAssumption DEF QueueInv, RunsOK, Continues, Ends, IdleRun
<1>2. Held'
  <2> SUFFICES ASSUME NEW j \in Job, NEW r \in Run, row'[j].lock_token = r
               PROVE  run'[r].job = j
    BY DEF Held
  <2>1. row[j].lock_token = r
    BY DEF KeepsTokens, KeepsToken
  <2> QED
    BY <2>1 DEF QueueInv, Held, Continues, Ends
<1>3. SnapshotsCurrent'
  <2> SUFFICES ASSUME NEW r \in Run, run'[r].job \in Job,
                      row'[run'[r].job].status = "active",
                      row'[run'[r].job].lock_token = r
               PROVE  run'[r].last <=> row'[run'[r].job].attempts_made + 1
                                         >= row'[run'[r].job].opt.max_attempts
    BY DEF SnapshotsCurrent, Fenced
  <2> DEFINE j == run[r].job
  <2>1. Continues(r)
    BY DEF Ends
  <2>2. run'[r].job = j /\ run'[r].last = run[r].last /\ j \in Job
    BY <2>1 DEF Continues
  <2>3. /\ row[j].lock_token = r /\ row[j].status = "active"
        /\ row'[j].attempts_made = row[j].attempts_made
        /\ row'[j].opt = row[j].opt
    BY <2>2 DEF KeepsTokens, KeepsToken
  <2> QED
    BY <2>2, <2>3 DEF QueueInv, SnapshotsCurrent, Fenced
<1>4. SkippersHoldNothing'
  <2> SUFFICES ASSUME NEW r \in Run, run'[r].phase = "skipping",
                      NEW j \in Job, row'[j].lock_token = r
               PROVE  FALSE
    BY DEF SkippersHoldNothing
  <2>1. row[j].lock_token = r
    BY DEF KeepsTokens, KeepsToken
  <2> QED
    BY <2>1 DEF QueueInv, SkippersHoldNothing, Continues, Ends
<1> QED
  BY <1>1, <1>2, <1>3, <1>4 DEF QueueInv, Table, InboxOK

LEMMA SameBudget ==
  ASSUME NEW x, RowInv(x), NEW y \in Row,
         y.status = x.status, y.lock_token = x.lock_token,
         y.attempts_made = x.attempts_made,
         y.attempts_started = x.attempts_started,
         y.stalled_counter = x.stalled_counter, y.opt = x.opt
  PROVE  RowInv(y) /\ KeepsToken(x, y) /\ KeepsEnd(x, y)
BY DEF Spendable, RowInv, KeepsToken, KeepsEnd

-----------------------------------------------------------------------------
(* Every action but Claim is orderly.                                      *)

Orderly ==
  /\ Table(row') /\ KeepsTokens(row, row') /\ InboxOK(inbox')
  /\ run' \in [Run -> RunState]
  /\ \A r \in Run : Continues(r) \/ Ends(r)

LEMMA RunsStandStill ==
  ASSUME QueueInv, run' = run
  PROVE  run' \in [Run -> RunState] /\ \A r \in Run : Continues(r)
BY DEF QueueInv, RunsOK, Continues

LEMMA RunMoves ==
  ASSUME QueueInv, NEW r \in Run, NEW x \in RunState,
         run' = [run EXCEPT ![r] = x],
         x.job = run[r].job, x.last = run[r].last,
         x.phase = "idle" <=> run[r].phase = "idle",
         x.phase = "refail" /\ x.to = "delayed" => ~run[r].last,
         x.phase = "skipping" => \A j \in Job : row'[j].lock_token # r
  PROVE  run' \in [Run -> RunState] /\ \A q \in Run : Continues(q)
<1>1. run' \in [Run -> RunState]
  BY DEF QueueInv, RunsOK
<1>2. ASSUME NEW q \in Run PROVE Continues(q)
  <2>1. CASE q = r
    <3>1. run'[q] = x
      BY <2>1 DEF QueueInv, RunsOK
    <3> QED
      BY <2>1, <3>1 DEF Continues
  <2>2. CASE q # r
    <3>1. run'[q] = run[q]
      BY <2>2 DEF QueueInv, RunsOK
    <3> QED
      BY <3>1 DEF QueueInv, RunsOK, Continues
  <2> QED
    BY <2>1, <2>2
<1> QED
  BY <1>1, <1>2

LEMMA RunFinishes ==
  ASSUME QueueInv, NEW r \in Run, NEW t, Table(t), KeepsTokens(row, t),
         InboxOK(inbox'), Finish(r, t)
  PROVE  Orderly /\ KeepsTokens(t, row') /\ KeepsEnds(t, row')
<1>1. /\ Table(row') /\ Keeps(t, row')
      /\ \A j \in Job : row'[j].lock_token # r
  BY RetireTable DEF Finish
<1>2. KeepsTokens(row, row')
  BY <1>1 DEF Keeps, KeepsTokens, KeepsToken
<1>3. IdleRun \in RunState
  BY DEF IdleRun, RunState
<1>4. run' = [run EXCEPT ![r] = IdleRun] /\ run \in [Run -> RunState]
  BY DEF Finish, QueueInv, RunsOK
<1>5. ASSUME NEW q \in Run PROVE Continues(q) \/ Ends(q)
  <2>1. CASE q = r
    BY <2>1, <1>1, <1>4 DEF Ends
  <2>2. CASE q # r
    <3>1. run'[q] = run[q]
      BY <2>2, <1>4
    <3> QED
      BY <3>1 DEF QueueInv, RunsOK, Continues
  <2> QED
    BY <2>1, <2>2
<1>6. run' \in [Run -> RunState]
  BY <1>3, <1>4
<1> QED
  BY <1>1, <1>2, <1>5, <1>6 DEF Orderly, Keeps

\* A step that leaves the rows and the messages alone.
LEMMA NothingWritten ==
  ASSUME QueueInv, UNCHANGED <<row, inbox>>
  PROVE  /\ Table(row') /\ Keeps(row, row') /\ InboxOK(inbox')
<1>1. Keeps(row, row)
  BY KeepsSelf DEF Keeps, KeepsTokens, KeepsEnds
<1> QED
  BY <1>1 DEF QueueInv

\* What an action that is no retry and no release does to the database.
Writes == Table(row') /\ Keeps(row, row') /\ InboxOK(inbox')

LEMMA WritesOneRow ==
  ASSUME QueueInv, NEW j \in Job, NEW y, RowInv(y),
         KeepsToken(row[j], y), KeepsEnd(row[j], y),
         row' = [row EXCEPT ![j] = y], UNCHANGED inbox
  PROVE  Writes
<1>1. Table(row') /\ Keeps(row, row')
  BY UpdateTable DEF QueueInv
<1> QED
  BY <1>1 DEF Writes, QueueInv

LEMMA WritesEnded ==
  ASSUME QueueInv, NEW t, Table(t), Keeps(row, t), NEW C, NEW P,
         NEW o \in Outcomes,
         row' = Unblock(t, P), inbox' = Report(t, C, o)
  PROVE  Writes
<1>1. Table(row') /\ Keeps(row, row')
  BY UnblockTable, KeepsTransitive
<1>2. InboxOK(inbox')
  BY ReportTyped DEF QueueInv
<1> QED
  BY <1>1, <1>2 DEF Writes

LEMMA WritesKilled ==
  ASSUME QueueInv, NEW t, Table(t), Keeps(row, t), NEW C,
         NEW o \in Outcomes, KillJobs(t, C, o)
  PROVE  Writes
BY WritesEnded DEF KillJobs

\* Rows of a set C change to y(row), the others stay.
LEMMA ManyRows ==
  ASSUME Table(row), NEW C, NEW y,
         \A j \in Job : j \in C =>
           RowInv(y[j]) /\ KeepsToken(row[j], y[j]) /\ KeepsEnd(row[j], y[j]),
         NEW t, t = [j \in Job |-> IF j \in C THEN y[j] ELSE row[j]]
  PROVE  Table(t) /\ Keeps(row, t)
<1>1. ASSUME NEW j \in Job
      PROVE  RowInv(t[j]) /\ KeepsToken(row[j], t[j]) /\ KeepsEnd(row[j], t[j])
  BY KeepsSelf DEF Table
<1>2. t = [j \in Job |-> t[j]] /\ DOMAIN t = Job
  OBVIOUS
<1> QED
  BY <1>1, <1>2, NewTable

\* The rows C as the transactions that end many rows leave them.
CancelledTable(C) ==
  [j \in Job |-> IF j \in C THEN Unlock(row[j], "cancelled") ELSE row[j]]
DeadTable(C) == [j \in Job |-> IF j \in C THEN Dead(row[j]) ELSE row[j]]

LEMMA CancelTable ==
  ASSUME Table(row), NEW C, \A j \in Job : j \in C => row[j].status \in Live
  PROVE  Table(CancelledTable(C)) /\ Keeps(row, CancelledTable(C))
<1> DEFINE y == [j \in Job |-> Unlock(row[j], "cancelled")]
           t == CancelledTable(C)
<1>1. ASSUME NEW j \in Job, j \in C
      PROVE  RowInv(y[j]) /\ KeepsToken(row[j], y[j]) /\ KeepsEnd(row[j], y[j])
  <2>1. RowInv(row[j]) /\ row[j].status \in Live
    BY <1>1 DEF Table
  <2> QED
    BY <2>1, UnlockRow DEF Spendable
<1>2. t = [j \in Job |-> IF j \in C THEN y[j] ELSE row[j]]
  BY DEF CancelledTable
<1> HIDE DEF y, t
<1>3. Table(t) /\ Keeps(row, t)
  BY <1>1, <1>2, ManyRows
<1> QED
  BY <1>3 DEF t

LEMMA WritesRows ==
  ASSUME QueueInv, NEW C, \A j \in Job : j \in C => row[j].status \in Live,
         NEW P, CancelRows(C, P)
  PROVE  Writes
<1>1. Table(CancelledTable(C)) /\ Keeps(row, CancelledTable(C))
  BY CancelTable DEF QueueInv
<1>2. /\ row' = Unblock(CancelledTable(C), P)
      /\ inbox' = Report(CancelledTable(C), C, "cancelled")
  BY DEF CancelRows, CancelledTable
<1> QED
  BY <1>1, <1>2, WritesEnded DEF Outcomes

LEMMA WritesCancel ==
  ASSUME QueueInv, NEW roots, CancelJobs(roots)
  PROVE  Writes
<1> DEFINE C == CancelledRows(roots)
<1>1. \A j \in Job : j \in C => row[j].status \in Live
  BY DEF CancelledRows
<1>2. CancelRows(C, Parents(row, C))
  BY DEF CancelJobs
<1> HIDE DEF C
<1> QED
  BY <1>1, <1>2, WritesRows

\* A live row is put back with a fresh clock.
LEMMA RequeuedRow ==
  ASSUME NEW x, RowInv(x), x.status \in Live, NEW s \in {"waiting", "delayed"},
         NEW y, y = [Unlock(x, s) EXCEPT !.started_at = "null"]
  PROVE  RowInv(y) /\ KeepsToken(x, y) /\ KeepsEnd(x, y)
<1> DEFINE z == Unlock(x, s)
<1>1. RowInv(z) /\ KeepsToken(x, z) /\ KeepsEnd(x, z)
  BY UnlockRow DEF Spendable
<1>2. y = [z EXCEPT !.started_at = "null"]
  OBVIOUS
<1> HIDE DEF z
<1>3. y \in Row
  BY <1>1, <1>2 DEF RowInv, Row
<1>4. /\ y.status = z.status /\ y.lock_token = z.lock_token
      /\ y.attempts_made = z.attempts_made
      /\ y.attempts_started = z.attempts_started
      /\ y.stalled_counter = z.stalled_counter /\ y.opt = z.opt
  BY <1>1, <1>2 DEF RowInv, Row
<1>5. RowInv(y)
  BY <1>1, <1>3, <1>4, SameBudget
<1> QED
  BY <1>1, <1>4, <1>5 DEF KeepsToken, KeepsEnd

LEMMA WritesPromote ==
  ASSUME QueueInv, NEW S, PromoteDelayed(S)
  PROVE  Writes
<1> DEFINE y == [j \in Job |-> [Unlock(row[j], "waiting") EXCEPT !.started_at = "null"]]
<1>1. Table(row)
  BY DEF QueueInv
<1>2. ASSUME NEW j \in Job, j \in S
      PROVE  RowInv(y[j]) /\ KeepsToken(row[j], y[j]) /\ KeepsEnd(row[j], y[j])
  <2>1. RowInv(row[j]) /\ row[j].status \in Live
    BY <1>1, <1>2 DEF Table, PromoteDelayed, Live
  <2>2. y[j] = [Unlock(row[j], "waiting") EXCEPT !.started_at = "null"]
    OBVIOUS
  <2> HIDE DEF y
  <2> QED
    BY <2>1, <2>2, RequeuedRow
<1>3. row' = [j \in Job |-> IF j \in S THEN y[j] ELSE row[j]]
  BY DEF PromoteDelayed
<1> HIDE DEF y
<1>4. Table(row') /\ Keeps(row, row')
  BY <1>1, <1>2, <1>3, ManyRows
<1> QED
  BY <1>4 DEF Writes, QueueInv, PromoteDelayed

LEMMA DeathsTable ==
  ASSUME Table(row), NEW C, \A j \in Job : j \in C => row[j].status = "active"
  PROVE  Table(DeadTable(C)) /\ Keeps(row, DeadTable(C))
<1> DEFINE y == [j \in Job |-> Dead(row[j])]
           t == DeadTable(C)
<1>1. ASSUME NEW j \in Job, j \in C
      PROVE  RowInv(y[j]) /\ KeepsToken(row[j], y[j]) /\ KeepsEnd(row[j], y[j])
  <2>1. RowInv(row[j]) /\ row[j].status = "active"
    BY <1>1 DEF Table
  <2> QED
    BY <2>1, DeadRow
<1>2. t = [j \in Job |-> IF j \in C THEN y[j] ELSE row[j]]
  BY DEF DeadTable
<1> HIDE DEF y, t
<1>3. Table(t) /\ Keeps(row, t)
  BY <1>1, <1>2, ManyRows
<1> QED
  BY <1>3 DEF t

LEMMA WritesDead ==
  ASSUME QueueInv, NEW C, \A j \in Job : j \in C => row[j].status = "active",
         KillJobs(DeadTable(C), C, "timeout")
  PROVE  Writes
BY DeathsTable, WritesKilled DEF QueueInv, Outcomes

LEMMA WritesTimeouts ==
  ASSUME QueueInv, NEW skipped,
         HandleTimeouts(skipped) \/ HandleWallClockTimeouts(skipped)
  PROVE  Writes
<1>1. CASE HandleTimeouts(skipped)
  BY <1>1, WritesDead DEF HandleTimeouts, TimedOut, DeadTable
<1>2. CASE HandleWallClockTimeouts(skipped)
  BY <1>2, WritesDead DEF HandleWallClockTimeouts, Overdue, DeadTable
<1> QED
  BY <1>1, <1>2

\* A stalled row goes back to the queue with one more stall, or dies of it.
LEMMA StalledRow ==
  ASSUME NEW x, RowInv(x), x.status = "active",
         NEW z, RowInv(z), KeepsToken(x, z), KeepsEnd(x, z),
         z.lock_token = NoRun, z.stalled_counter = x.stalled_counter,
         z.opt = x.opt,
         z.status = "dead" \/ ~OutOfStalls(x),
         NEW y \in Row,
         y.status = z.status, y.lock_token = z.lock_token,
         y.attempts_made = z.attempts_made,
         y.attempts_started = z.attempts_started,
         y.stalled_counter = z.stalled_counter + 1, y.opt = z.opt
  PROVE  RowInv(y) /\ KeepsToken(x, y) /\ KeepsEnd(x, y)
<1>1. /\ x.stalled_counter \in Nat /\ x.opt.max_stalled \in Nat
  BY DEF Spendable, RowInv, Row, Options
<1>2. y.status \in Live => y.stalled_counter < y.opt.max_stalled
  BY <1>1 DEF OutOfStalls, Live
<1>3. RowInv(y)
  BY <1>2, IdsAssumption DEF Spendable, RowInv
<1> QED
  BY <1>3, IdsAssumption DEF KeepsToken, KeepsEnd

\* The stalled rows C: those in D die, the others are queued again.
StalledTable(C, D) ==
  LET bump(x) == [x EXCEPT !.stalled_counter = @ + 1]
  IN  [j \in Job |->
         IF j \in D THEN bump(Dead(row[j]))
         ELSE IF j \in C
              THEN [bump(Unlock(row[j], "waiting")) EXCEPT !.started_at = "null"]
              ELSE row[j]]

LEMMA StallsTable ==
  ASSUME Table(row), NEW C, \A j \in Job : j \in C => row[j].status = "active",
         NEW D, \A j \in Job : j \in D <=> j \in C /\ OutOfStalls(row[j])
  PROVE  Table(StalledTable(C, D)) /\ Keeps(row, StalledTable(C, D))
<1> DEFINE dying(x) == [Dead(x) EXCEPT !.stalled_counter =
                          Dead(x).stalled_counter + 1]
           bumped(x) == [Unlock(x, "waiting") EXCEPT !.stalled_counter =
                          Unlock(x, "waiting").stalled_counter + 1]
           requeued(x) == [bumped(x) EXCEPT !.started_at = "null"]
           y == [j \in Job |-> IF j \in D THEN dying(row[j])
                               ELSE requeued(row[j])]
           t == [j \in Job |-> IF j \in C THEN y[j] ELSE row[j]]
<1>2. ASSUME NEW x, RowInv(x), x.status = "active"
      PROVE  /\ OutOfStalls(x) =>
                  /\ RowInv(dying(x)) /\ KeepsToken(x, dying(x))
                  /\ KeepsEnd(x, dying(x))
             /\ ~OutOfStalls(x) =>
                  /\ RowInv(requeued(x)) /\ KeepsToken(x, requeued(x))
                  /\ KeepsEnd(x, requeued(x))
  <2> DEFINE d == Dead(x)
             w == Unlock(x, "waiting")
  <2>1. /\ RowInv(d) /\ KeepsToken(x, d) /\ KeepsEnd(x, d)
        /\ d.lock_token = NoRun
    BY <1>2, DeadRow
  <2>2. /\ d.status = "dead" /\ d.stalled_counter = x.stalled_counter
        /\ d.opt = x.opt
    BY <1>2 DEF Spendable, RowInv, Row, Unlock, Dead
  <2>3. /\ RowInv(w) /\ KeepsToken(x, w) /\ KeepsEnd(x, w)
        /\ w.lock_token = NoRun
    BY <1>2, UnlockRow DEF Live, Spendable
  <2>4. w.stalled_counter = x.stalled_counter /\ w.opt = x.opt
    BY <1>2 DEF Spendable, RowInv, Row, Unlock
  <2>5. /\ dying(x) = [d EXCEPT !.stalled_counter = d.stalled_counter + 1]
        /\ bumped(x) = [w EXCEPT !.stalled_counter = w.stalled_counter + 1]
    OBVIOUS
  <2> HIDE DEF d, w, dying, bumped
  <2>6. d.stalled_counter + 1 \in Nat /\ w.stalled_counter + 1 \in Nat
    BY <2>1, <2>3 DEF Spendable, RowInv, Row
  <2>7. /\ dying(x) \in Row /\ dying(x).status = d.status
        /\ dying(x).lock_token = d.lock_token
        /\ dying(x).attempts_made = d.attempts_made
        /\ dying(x).attempts_started = d.attempts_started
        /\ dying(x).stalled_counter = d.stalled_counter + 1
        /\ dying(x).opt = d.opt
    BY <2>1, <2>5, <2>6 DEF Spendable, RowInv, Row
  <2>8. /\ bumped(x) \in Row /\ bumped(x).status = w.status
        /\ bumped(x).lock_token = w.lock_token
        /\ bumped(x).attempts_made = w.attempts_made
        /\ bumped(x).attempts_started = w.attempts_started
        /\ bumped(x).stalled_counter = w.stalled_counter + 1
        /\ bumped(x).opt = w.opt
    BY <2>3, <2>5, <2>6 DEF Spendable, RowInv, Row
  <2>9. /\ requeued(x) \in Row /\ requeued(x).status = w.status
        /\ requeued(x).lock_token = w.lock_token
        /\ requeued(x).attempts_made = w.attempts_made
        /\ requeued(x).attempts_started = w.attempts_started
        /\ requeued(x).stalled_counter = w.stalled_counter + 1
        /\ requeued(x).opt = w.opt
    BY <2>8 DEF Row
  <2> HIDE DEF requeued
  <2>10. ASSUME OutOfStalls(x)
         PROVE  /\ RowInv(dying(x)) /\ KeepsToken(x, dying(x))
                /\ KeepsEnd(x, dying(x))
    BY <1>2, <2>1, <2>2, <2>7, StalledRow
  <2>11. ASSUME ~OutOfStalls(x)
         PROVE  /\ RowInv(requeued(x)) /\ KeepsToken(x, requeued(x))
                /\ KeepsEnd(x, requeued(x))
    BY <1>2, <2>3, <2>4, <2>9, <2>11, StalledRow
  <2> QED
    BY <2>10, <2>11
<1> HIDE DEF dying, requeued
<1>3. ASSUME NEW j \in Job, j \in C
      PROVE  RowInv(y[j]) /\ KeepsToken(row[j], y[j]) /\ KeepsEnd(row[j], y[j])
  <2>1. RowInv(row[j]) /\ row[j].status = "active"
    BY <1>3 DEF Table
  <2>2. j \in D <=> OutOfStalls(row[j])
    BY <1>3
  <2> QED
    BY <2>1, <2>2, <1>2
<1>4. StalledTable(C, D) = t
  <2>1. \A j \in Job : j \in D => j \in C
    OBVIOUS
  <2> QED
    BY <2>1 DEF StalledTable, dying, requeued
<1> HIDE DEF y
<1>5. Table(t) /\ Keeps(row, t)
  BY <1>3, ManyRows
<1> HIDE DEF t
<1> QED
  BY <1>4, <1>5

LEMMA WritesStalled ==
  ASSUME QueueInv, NEW skipped, HandleStalled(skipped)
  PROVE  Writes
<1> DEFINE C == {j \in Job \ skipped : Stalled(j)}
           D == {j \in C : OutOfStalls(row[j])}
<1>1. KillJobs(StalledTable(C, D), D, "dead")
  BY DEF HandleStalled, StalledTable
<1>2. Table(StalledTable(C, D)) /\ Keeps(row, StalledTable(C, D))
  BY StallsTable DEF QueueInv, Stalled
<1> HIDE DEF C, D
<1> QED
  BY <1>1, <1>2, WritesKilled DEF Outcomes

LEMMA WritesSweep ==
  ASSUME QueueInv, StrandedParentSweep
  PROVE  Writes
BY UnblockTable DEF StrandedParentSweep, Writes, QueueInv

LEMMA WritesClock ==
  ASSUME QueueInv, NEW j \in Job,
         LeaseAges(j) \/ DeadlinePasses(j) \/ StartAges(j)
  PROVE  Writes
<1>1. RowInv(row[j]) /\ row \in [Job -> Row]
  BY DEF QueueInv, Table
<1>2. PICK y \in Row :
        /\ row' = [row EXCEPT ![j] = y]
        /\ y.status = row[j].status /\ y.lock_token = row[j].lock_token
        /\ y.attempts_made = row[j].attempts_made
        /\ y.attempts_started = row[j].attempts_started
        /\ y.stalled_counter = row[j].stalled_counter /\ y.opt = row[j].opt
  <2>1. CASE LeaseAges(j)
    <3> DEFINE y == [row[j] EXCEPT !.lock_until =
                       IF row[j].lock_until = "live" THEN "grace" ELSE "lapsed"]
    <3>1. row' = [row EXCEPT ![j] = y]
      BY <2>1, <1>1 DEF LeaseAges
    <3>2. y \in Row
      BY <1>1 DEF Row
    <3>3. /\ y.status = row[j].status /\ y.lock_token = row[j].lock_token
          /\ y.attempts_made = row[j].attempts_made
          /\ y.attempts_started = row[j].attempts_started
          /\ y.stalled_counter = row[j].stalled_counter /\ y.opt = row[j].opt
      BY <1>1 DEF Row
    <3> HIDE DEF y
    <3> QED
      BY <3>1, <3>2, <3>3
  <2>2. CASE DeadlinePasses(j)
    <3> DEFINE y == [row[j] EXCEPT !.timeout_at = "past"]
    <3>1. row' = [row EXCEPT ![j] = y]
      BY <2>2, <1>1 DEF DeadlinePasses
    <3>2. y \in Row
      BY <1>1 DEF Row
    <3> QED
      BY <1>1, <3>1, <3>2 DEF Row
  <2>3. CASE StartAges(j)
    <3> DEFINE y == [row[j] EXCEPT !.started_at = "old"]
    <3>1. row' = [row EXCEPT ![j] = y]
      BY <2>3, <1>1 DEF StartAges
    <3>2. y \in Row
      BY <1>1 DEF Row
    <3> QED
      BY <1>1, <3>1, <3>2 DEF Row
  <2> QED
    BY <2>1, <2>2, <2>3
<1>3. RowInv(y) /\ KeepsToken(row[j], y) /\ KeepsEnd(row[j], y)
  BY <1>1, <1>2, SameBudget
<1>4. UNCHANGED inbox
  BY DEF LeaseAges, DeadlinePasses, StartAges
<1> QED
  BY <1>2, <1>3, <1>4, WritesOneRow

LEMMA WritesPauseResume ==
  ASSUME QueueInv, NEW j \in Job, PauseJob(j) \/ ResumeJob(j)
  PROVE  Writes
<1>1. RowInv(row[j]) /\ row[j].status \in Live
  BY DEF QueueInv, Table, PauseJob, ResumeJob, Live
<1>2. PICK s \in {"paused", "waiting"} :
        row' = [row EXCEPT ![j] = Unlock(row[j], s)] /\ UNCHANGED inbox
  BY DEF PauseJob, ResumeJob
<1>3. /\ RowInv(Unlock(row[j], s)) /\ KeepsToken(row[j], Unlock(row[j], s))
      /\ KeepsEnd(row[j], Unlock(row[j], s))
  BY <1>1, UnlockRow DEF Spendable
<1> QED
  BY <1>2, <1>3, WritesOneRow

LEMMA WritesRemove ==
  ASSUME QueueInv, NEW j \in Job, RemoveJob(j)
  PROVE  Writes
BY DeleteTable, PurgeTyped DEF RemoveJob, QueueInv, Writes

\* A retry starts a new incarnation with an untouched budget.
LEMMA RetriedRow ==
  ASSUME QueueInv, NEW j \in Job, RetryJob(j)
  PROVE  /\ Table(row') /\ KeepsTokens(row, row') /\ InboxOK(inbox')
         /\ row'[j].retries = row[j].retries + 1
         /\ \A i \in Job : i # j => row'[i] = row[i]
<1> DEFINE x == row[j]
           z == Unlock(x, "waiting")
           y == [z EXCEPT !.started_at = "null", !.attempts_made = 0,
                          !.attempts_started = 0, !.stalled_counter = 0,
                          !.retries = z.retries + 1]
<1>1. RowInv(x) /\ row \in [Job -> Row] /\ x.status \in {"failed", "dead"}
  BY DEF QueueInv, Table, RetryJob
<1>2. row' = [row EXCEPT ![j] = y]
  BY DEF RetryJob
<1>3. z \in Row /\ z.retries = x.retries /\ z.opt = x.opt
      /\ z.lock_token = NoRun /\ z.status = "waiting"
  BY <1>1 DEF Spendable, RowInv, Row, Unlock, Live
<1> HIDE DEF z
<1>4. z.retries + 1 \in Nat /\ x.opt.max_attempts \in Nat \ {0}
  BY <1>1, <1>3 DEF Spendable, Row, Options, RowInv
<1>5. /\ y \in Row /\ y.status = "waiting" /\ y.lock_token = NoRun
      /\ y.attempts_made = 0 /\ y.attempts_started = 0
      /\ y.stalled_counter = 0 /\ y.opt = x.opt /\ y.retries = x.retries + 1
  BY <1>3, <1>4 DEF Row
<1> HIDE DEF y
<1>6. RowInv(y)
  BY <1>1, <1>4, <1>5 DEF Spendable, RowInv, Live, Terminal
<1>7. KeepsToken(x, y)
  BY <1>5, IdsAssumption DEF KeepsToken
<1>8. \A i \in Job : row'[i] = IF i = j THEN y ELSE row[i]
  BY <1>1, <1>2
<1>9. Table(row')
  BY <1>1, <1>2, <1>5, <1>6, <1>8 DEF Table, QueueInv
<1>10. KeepsTokens(row, row')
  BY <1>7, <1>8, KeepsSelf DEF KeepsTokens
<1> QED
  BY <1>5, <1>8, <1>9, <1>10 DEF RetryJob, QueueInv

LEMMA DefaultOptionsTyped == DefaultOptions \in Options
BY DEF DefaultOptions, Options, Policies

LEMMA WritesAdd ==
  ASSUME QueueInv, NEW j \in Job, NEW o \in Submissions[j],
         NEW s \in {"waiting", "delayed"}, Add(j, o, s)
  PROVE  Writes
<1> DEFINE p == o.parent_job_id
           d == IF p = NoJob THEN 0 ELSE row[p].depth + 1
           y == [NoRow(s) EXCEPT !.parent_job_id = p, !.depth = d, !.opt = o]
           t == [row EXCEPT ![j] = y]
           w(x) == [x EXCEPT !.status = "waiting-children"]
<1>1. /\ o \in Options /\ o.max_attempts <= StartCap
      /\ o.max_attempts \in Nat \ {0} /\ p \in Job \cup {NoJob}
  BY SubmissionsAssumption DEF Options
<1>2. Table(row) /\ row[j].status = "absent"
  BY DEF QueueInv, Add
<1>3. d \in Nat
  <2>1. p # NoJob => row[p].depth \in Nat
    BY <1>1, <1>2 DEF Table, Row
  <2> QED
    BY <2>1
<1>4. /\ y.status = s /\ y.lock_token = NoRun /\ y.attempts_made = 0
      /\ y.attempts_started = 0 /\ y.stalled_counter = 0 /\ y.opt = o
  BY DEF NoRow
<1>5. y \in Row
  <2>1. NoRow(s) \in Row
    BY DefaultOptionsTyped DEF NoRow, Row, Live
  <2> HIDE DEF d
  <2> QED
    BY <2>1, <1>1, <1>3 DEF Row
<1> HIDE DEF y, d
<1>6. RowInv(y)
  BY <1>1, <1>4, <1>5 DEF Spendable, RowInv, Live, Terminal
<1>7. KeepsToken(row[j], y) /\ KeepsEnd(row[j], y)
  BY <1>2, <1>4, IdsAssumption DEF KeepsToken, KeepsEnd, Terminal
<1>8. Table(t) /\ Keeps(row, t)
  BY <1>2, <1>6, <1>7, UpdateTable
<1>9. row' = [i \in Job |->
                IF i = p /\ t[i].status \in {"waiting", "active", "delayed"}
                THEN w(t[i]) ELSE t[i]]
  BY DEF Add, y, d
<1> HIDE DEF t, p
<1>10. ASSUME NEW x, RowInv(x), x.status \in {"waiting", "active", "delayed"}
       PROVE  RowInv(w(x)) /\ KeepsToken(x, w(x)) /\ KeepsEnd(x, w(x))
  <2>1. /\ w(x).status = "waiting-children" /\ w(x).lock_token = x.lock_token
        /\ w(x).attempts_made = x.attempts_made
        /\ w(x).attempts_started = x.attempts_started
        /\ w(x).stalled_counter = x.stalled_counter /\ w(x).opt = x.opt
    BY <1>10 DEF Spendable, RowInv, Row
  <2>2. w(x) \in Row
    BY <1>10 DEF Spendable, RowInv, Row, Live
  <2> HIDE DEF w
  <2>3. RowInv(w(x))
    BY <1>10, <2>1, <2>2 DEF Spendable, RowInv, Row, Live, Terminal
  <2> QED
    BY <1>10, <2>1, <2>3 DEF KeepsToken, KeepsEnd, Live, Terminal
<1> HIDE DEF w
<1>11. ASSUME NEW i \in Job
       PROVE  RowInv(row'[i]) /\ KeepsToken(t[i], row'[i]) /\ KeepsEnd(t[i], row'[i])
  <2>1. RowInv(t[i])
    BY <1>8 DEF Table
  <2>2. \/ row'[i] = t[i]
        \/ t[i].status \in {"waiting", "active", "delayed"} /\ row'[i] = w(t[i])
    BY <1>9
  <2> QED
    BY <2>1, <2>2, <1>10, KeepsSelf
<1>12. row' = [i \in Job |-> row'[i]] /\ DOMAIN row' = Job
  BY <1>9
<1>13. Table(row') /\ Keeps(t, row')
  BY <1>11, <1>12, NewTable
<1>14. Keeps(row, row')
  BY <1>8, <1>13, KeepsTransitive
<1> QED
  BY <1>13, <1>14 DEF Writes, Add, QueueInv

-----------------------------------------------------------------------------
(* The steps of a run.                                                     *)

\* Only the row a run claimed can carry its token.
LEMMA OwnRow ==
  ASSUME QueueInv, NEW r \in Run, NEW j \in Job, row[j].lock_token = r
  PROVE  run[r].job = j /\ Spendable(row[j]) /\ run[r].phase # "skipping"
BY IdsAssumption DEF QueueInv, Held, SkippersHoldNothing, Spendable

LEMMA RecordedComplete ==
  ASSUME QueueInv, NEW r \in Run, run[r].job \in Job
  PROVE  /\ Table(RowsAfterComplete(r)) /\ Keeps(row, RowsAfterComplete(r))
         /\ InboxOK(InboxAfterComplete(r))
<1> DEFINE j == run[r].job
<1>1. Table(row) /\ InboxOK(inbox) /\ Keeps(row, row)
  BY KeepsSelf DEF QueueInv, Keeps, KeepsTokens, KeepsEnds
<1>2. CASE Fenced(r)
  <2>1. Table(CompletedRows(j)) /\ Keeps(row, CompletedRows(j))
    BY <1>1, <1>2, CompletedTable DEF Fenced
  <2>2. InboxOK(CompletedInbox(j))
    BY <1>1, ReportTyped, PurgeTyped DEF CompletedInbox, Outcomes
  <2> QED
    BY <1>2, <2>1, <2>2 DEF RowsAfterComplete, InboxAfterComplete
<1>3. CASE ~Fenced(r)
  BY <1>1, <1>3 DEF RowsAfterComplete, InboxAfterComplete
<1> QED
  BY <1>2, <1>3

LEMMA RecordedFail ==
  ASSUME QueueInv, NEW r \in Run, run[r].job \in Job,
         NEW s \in {"delayed", "dead"}, s = "delayed" => ~run[r].last
  PROVE  /\ Table(RowsAfterFail(r, s)) /\ Keeps(row, RowsAfterFail(r, s))
         /\ InboxOK(InboxAfterFail(r, s))
<1> DEFINE j == run[r].job
<1>1. Table(row) /\ InboxOK(inbox) /\ Keeps(row, row)
  BY KeepsSelf DEF QueueInv, Keeps, KeepsTokens, KeepsEnds
<1>2. CASE Fenced(r)
  <2>1. row[j].attempts_made \in Nat /\ row[j].opt.max_attempts \in Nat
    BY <1>1 DEF Table, Row, Options
  <2>2. s = "delayed" => row[j].attempts_made + 1 < row[j].opt.max_attempts
    BY <1>2, <2>1 DEF QueueInv, SnapshotsCurrent
  <2>3. Table(FailedRows(j, s)) /\ Keeps(row, FailedRows(j, s))
    BY <1>1, <1>2, <2>2, FailedTable DEF Fenced
  <2>4. InboxOK(FailedInbox(j, s))
    BY <1>1, ReportTyped, PurgeTyped DEF FailedInbox, Outcomes
  <2> QED
    BY <1>2, <2>3, <2>4 DEF RowsAfterFail, InboxAfterFail
<1>3. CASE ~Fenced(r)
  BY <1>1, <1>3 DEF RowsAfterFail, InboxAfterFail
<1> QED
  BY <1>2, <1>3

\* The status failJob is called with keeps a row in its budget.
LEMMA FailStatusSound ==
  ASSUME QueueInv, NEW r \in Run, MayFail(r), NEW s \in FailStatus(r)
  PROVE  run[r].job \in Job /\ (s = "delayed" => ~run[r].last)
<1>1. run[r].phase # "idle" /\ run[r].job \in Job \cup {NoJob}
  BY DEF QueueInv, RunsOK, RunState, MayFail
<1>2. run[r].job \in Job
  BY <1>1 DEF QueueInv, RunsOK
<1>3. s = "delayed" => ~run[r].last
  <2>1. CASE run[r].phase = "refail"
    BY <2>1 DEF FailStatus, QueueInv, RunsOK
  <2>2. CASE run[r].phase # "refail"
    BY <2>2 DEF FailStatus
  <2> QED
    BY <2>1, <2>2
<1> QED
  BY <1>2, <1>3

\* What a step of a run does, releases apart.
Works == Orderly /\ KeepsEnds(row, row')

LEMMA WorksByMoving ==
  ASSUME QueueInv, Writes, NEW r \in Run, NEW x \in RunState,
         run' = [run EXCEPT ![r] = x],
         x.job = run[r].job, x.last = run[r].last,
         x.phase = "idle" <=> run[r].phase = "idle",
         x.phase = "refail" /\ x.to = "delayed" => ~run[r].last,
         x.phase = "skipping" => \A j \in Job : row'[j].lock_token # r
  PROVE  Works
BY RunMoves DEF Works, Orderly, Writes, Keeps

LEMMA WorksByFinishing ==
  ASSUME QueueInv, NEW r \in Run, NEW t, Table(t), Keeps(row, t),
         InboxOK(inbox'), Finish(r, t)
  PROVE  Works
<1>1. Orderly /\ Keeps(t, row')
  BY RunFinishes DEF Keeps
<1>2. Keeps(row, row')
  BY <1>1, KeepsTransitive
<1> QED
  BY <1>1, <1>2 DEF Works, Keeps

LEMMA WorksByWriting ==
  ASSUME QueueInv, Writes, UNCHANGED run
  PROVE  Works
BY RunsStandStill DEF Works, Orderly, Writes, Keeps

LEMMA RecordingWorks ==
  ASSUME QueueInv, NEW r \in Run,
         \/ Complete(r) \/ CompleteThrows(r) \/ ForceEvict(r)
         \/ \E s \in {"delayed", "dead"} : Fail(r, s) \/ FailThrows(r, s)
  PROVE  Works
<1>1. run \in [Run -> RunState] /\ run[r] \in RunState
  BY DEF QueueInv, RunsOK
<1>2. ASSUME run[r].phase # "idle" PROVE run[r].job \in Job
  BY <1>1, <1>2 DEF QueueInv, RunsOK, RunState
<1>3. ASSUME UNCHANGED <<row, inbox>> PROVE Writes
  BY <1>3, NothingWritten DEF Writes
<1>4. CASE Complete(r)
  BY <1>2, <1>4, RecordedComplete, WorksByFinishing DEF Complete
<1>5. CASE CompleteThrows(r)
  <2> DEFINE x == [run[r] EXCEPT !.phase = "failing"]
  <2>1. /\ run' = [run EXCEPT ![r] = x] /\ x \in RunState
        /\ x.job = run[r].job /\ x.last = run[r].last /\ x.phase = "failing"
    BY <1>1, <1>5 DEF CompleteThrows, RunState
  <2>2. Writes
    BY <1>2, <1>3, <1>5, RecordedComplete DEF CompleteThrows, Writes
  <2>3. run[r].phase # "idle"
    BY <1>5 DEF CompleteThrows
  <2> HIDE DEF x
  <2> QED
    BY <2>1, <2>2, <2>3, WorksByMoving
<1>6. CASE ForceEvict(r)
  <2> DEFINE x == [run[r] EXCEPT !.phase = "evicted"]
  <2>1. /\ run' = [run EXCEPT ![r] = x] /\ x \in RunState
        /\ x.job = run[r].job /\ x.last = run[r].last /\ x.phase = "evicted"
    BY <1>1, <1>6 DEF ForceEvict, RunState
  <2>2. Writes
    BY <1>2, <1>3, <1>6, RecordedFail DEF ForceEvict, Writes
  <2>3. run[r].phase # "idle"
    BY <1>6 DEF ForceEvict
  <2> HIDE DEF x
  <2> QED
    BY <2>1, <2>2, <2>3, WorksByMoving
<1>7. ASSUME NEW s \in {"delayed", "dead"}, Fail(r, s)
      PROVE  Works
  <2>1. run[r].job \in Job /\ (s = "delayed" => ~run[r].last)
    BY <1>7, FailStatusSound DEF Fail
  <2> QED
    BY <1>7, <2>1, RecordedFail, WorksByFinishing DEF Fail
<1>8. ASSUME NEW s \in {"delayed", "dead"}, FailThrows(r, s)
      PROVE  Works
  <2> DEFINE x == [run[r] EXCEPT !.phase = "refail", !.to = s]
  <2>1. run[r].job \in Job /\ (s = "delayed" => ~run[r].last)
    BY <1>8, FailStatusSound DEF FailThrows
  <2>2. /\ run' = [run EXCEPT ![r] = x] /\ x \in RunState
        /\ x.job = run[r].job /\ x.last = run[r].last /\ x.phase = "refail"
        /\ x.to = s
    BY <1>1, <1>8 DEF FailThrows, RunState
  <2>3. Writes
    BY <1>3, <1>8, <2>1, RecordedFail DEF FailThrows, Writes
  <2>4. run[r].phase # "idle"
    BY <1>8 DEF FailThrows, MayFail
  <2> HIDE DEF x
  <2> QED
    BY <2>1, <2>2, <2>3, <2>4, WorksByMoving
<1> QED
  BY <1>4, <1>5, <1>6, <1>7, <1>8

LEMMA LeavingWorks ==
  ASSUME QueueInv, NEW r \in Run, ReleaseLeaseFullJob(r) \/ Abandon(r)
  PROVE  Works
<1> DEFINE j == run[r].job
<1>1. Table(row) /\ Keeps(row, row) /\ InboxOK(inbox)
  BY KeepsSelf DEF QueueInv, Keeps, KeepsTokens, KeepsEnds
<1>2. CASE Abandon(r)
  BY <1>1, <1>2, WorksByFinishing DEF Abandon
<1>3. CASE ReleaseLeaseFullJob(r) /\ ~Fenced(r)
  BY <1>1, <1>3, WorksByFinishing DEF ReleaseLeaseFullJob
<1>4. CASE ReleaseLeaseFullJob(r) /\ Fenced(r)
  <2> DEFINE y == [Unlock(row[j], "delayed") EXCEPT !.started_at = "null"]
             t == [row EXCEPT ![j] = y]
  <2>1. j \in Job
    BY <1>4 DEF ReleaseLeaseFullJob, QueueInv, RunsOK, RunState
  <2>2. RowInv(row[j]) /\ row[j].status \in Live
    BY <1>1, <1>4, <2>1 DEF Table, Fenced, Live
  <2>3. RowInv(y) /\ KeepsToken(row[j], y) /\ KeepsEnd(row[j], y)
    BY <2>2, RequeuedRow
  <2>4. Finish(r, t) /\ inbox' = inbox
    BY <1>4 DEF ReleaseLeaseFullJob
  <2> HIDE DEF y
  <2>5. Table(t) /\ Keeps(row, t)
    BY <1>1, <2>1, <2>3, UpdateTable
  <2> HIDE DEF t
  <2> QED
    BY <1>1, <2>4, <2>5, WorksByFinishing
<1> QED
  BY <1>2, <1>3, <1>4

LEMMA RunningWorks ==
  ASSUME QueueInv, NEW r \in Run,
         Launch(r) \/ RenewLock(r) \/ RenewalGivesUp(r) \/ TimeoutFires(r)
  PROVE  Works
<1>1. run \in [Run -> RunState] /\ run[r] \in RunState
  BY DEF QueueInv, RunsOK
<1>2. CASE UNCHANGED <<row, inbox>>
  <2>1. PICK x \in RunState :
          /\ run' = [run EXCEPT ![r] = x]
          /\ x.job = run[r].job /\ x.last = run[r].last
          /\ x.phase = "running" /\ run[r].phase # "idle"
    <3>1. CASE Launch(r)
      <4> DEFINE x == [run[r] EXCEPT !.phase = "running"]
      <4>1. run' = [run EXCEPT ![r] = x] /\ x \in RunState
        BY <1>1, <3>1 DEF Launch, RunState
      <4> QED
        BY <1>1, <3>1, <4>1 DEF Launch, RunState
    <3>2. CASE RenewLock(r) \/ RenewalGivesUp(r) \/ TimeoutFires(r)
      <4>1. PICK a \in {"none", "infra", "timeout"} :
              run' = [run EXCEPT ![r] = [run[r] EXCEPT !.abort = a]]
        <5>1. CASE RenewLock(r) /\ Fenced(r)
          <6>1. run[r].abort \in {"none", "infra", "timeout"}
            BY <1>1 DEF RunState
          <6>2. run' = [run EXCEPT ![r] = [run[r] EXCEPT !.abort = run[r].abort]]
            BY <1>1, <5>1 DEF RenewLock, RunState
          <6> QED
            BY <6>1, <6>2
        <5>2. CASE RenewLock(r) /\ ~Fenced(r)
          <6>1. run[r].abort \in {"none", "infra", "timeout"}
            BY <1>1 DEF RunState
          <6> DEFINE a == IF run[r].abort = "none" THEN "infra" ELSE run[r].abort
          <6>2. run' = [run EXCEPT ![r] = [run[r] EXCEPT !.abort = a]]
            BY <5>2 DEF RenewLock
          <6> QED
            BY <6>1, <6>2
        <5>3. CASE RenewalGivesUp(r)
          BY <5>3 DEF RenewalGivesUp
        <5>4. CASE TimeoutFires(r)
          BY <5>4 DEF TimeoutFires
        <5> QED
          BY <3>2, <5>1, <5>2, <5>3, <5>4
      <4>2. run[r].phase = "running"
        BY <3>2 DEF RenewLock, RenewalGivesUp, TimeoutFires
      <4> DEFINE x == [run[r] EXCEPT !.abort = a]
      <4>3. /\ x \in RunState /\ x.job = run[r].job /\ x.last = run[r].last
            /\ x.phase = "running"
        BY <1>1, <4>2 DEF RunState
      <4> QED
        BY <4>1, <4>2, <4>3
    <3> QED
      BY <3>1, <3>2
  <2>2. Writes
    BY <1>2, NothingWritten DEF Writes
  <2> QED
    BY <2>1, <2>2, WorksByMoving
<1>3. CASE RenewLock(r) /\ Fenced(r)
  <2> DEFINE j == run[r].job
             y == [row[j] EXCEPT !.lock_until = "live"]
  <2>1. j \in Job /\ RowInv(row[j])
    BY <1>3 DEF RenewLock, QueueInv, RunsOK, RunState, Table
  <2>2. row' = [row EXCEPT ![j] = y]
    BY <1>3 DEF RenewLock
  <2>3. /\ y \in Row /\ y.status = row[j].status
        /\ y.lock_token = row[j].lock_token
        /\ y.attempts_made = row[j].attempts_made
        /\ y.attempts_started = row[j].attempts_started
        /\ y.stalled_counter = row[j].stalled_counter /\ y.opt = row[j].opt
    BY <2>1 DEF RowInv, Row
  <2> HIDE DEF y
  <2>4. RowInv(y) /\ KeepsToken(row[j], y) /\ KeepsEnd(row[j], y)
    BY <2>1, <2>3, SameBudget
  <2> HIDE DEF j
  <2>5. Writes
    BY <1>3, <2>1, <2>2, <2>4, WritesOneRow DEF RenewLock
  <2> QED
    BY <1>3, <2>5, WorksByWriting DEF RenewLock
<1>4. Launch(r) \/ RenewalGivesUp(r) \/ TimeoutFires(r)
        \/ (RenewLock(r) /\ ~Fenced(r)) => UNCHANGED <<row, inbox>>
  BY DEF Launch, RenewalGivesUp, TimeoutFires, RenewLock
<1> QED
  BY <1>2, <1>3, <1>4

LEMMA SkippingWorks ==
  ASSUME QueueInv, NEW r \in Run,
         QuietSkipUnlock(r) \/ QuietSkipCancel(r) \/ QuietSkipFallback(r)
  PROVE  Works
<1> DEFINE j == run[r].job
<1>1. /\ Table(row) /\ Keeps(row, row) /\ InboxOK(inbox)
      /\ run \in [Run -> RunState] /\ run[r] \in RunState
  BY KeepsSelf DEF QueueInv, RunsOK, Keeps, KeepsTokens, KeepsEnds
<1>2. j \in Job
  BY <1>1 DEF QueueInv, RunsOK, RunState, QuietSkipUnlock, QuietSkipCancel,
              QuietSkipFallback
<1>3. CASE QuietSkipUnlock(r)
  <2> DEFINE x == [run[r] EXCEPT !.phase = "skipping"]
             y == Unlock(row[j], row[j].status)
  <2>1. /\ run' = [run EXCEPT ![r] = x] /\ x \in RunState
        /\ x.job = run[r].job /\ x.last = run[r].last /\ x.phase = "skipping"
    BY <1>1, <1>3 DEF QuietSkipUnlock, RunState
  <2>2. Writes /\ \A i \in Job : row'[i].lock_token # r
    <3>1. CASE row[j].lock_token = r
      <4>1. RowInv(row[j]) /\ Spendable(row[j])
        BY <1>1, <1>2, <3>1 DEF Table, Spendable
      <4>2. /\ RowInv(y) /\ KeepsToken(row[j], y) /\ KeepsEnd(row[j], y)
            /\ y.lock_token = NoRun
        BY <4>1, UnlockRow
      <4>3. row' = [row EXCEPT ![j] = y] /\ UNCHANGED inbox
        BY <1>3, <3>1 DEF QuietSkipUnlock
      <4> HIDE DEF y
      <4>4. Writes
        BY <1>2, <4>2, <4>3, WritesOneRow
      <4>5. ASSUME NEW i \in Job PROVE row'[i].lock_token # r
        <5>1. CASE i = j
          BY <1>1, <1>2, <4>2, <4>3, <5>1, IdsAssumption DEF Table
        <5>2. CASE i # j
          BY <1>1, <4>3, <5>2, OwnRow DEF Table
        <5> QED
          BY <5>1, <5>2
      <4> QED
        BY <4>4, <4>5
    <3>2. CASE row[j].lock_token # r
      <4>1. UNCHANGED <<row, inbox>>
        BY <1>3, <3>2 DEF QuietSkipUnlock
      <4> QED
        BY <3>2, <4>1, NothingWritten, OwnRow DEF Writes
    <3> QED
      BY <3>1, <3>2
  <2>3. run[r].phase # "idle"
    BY <1>3 DEF QuietSkipUnlock
  <2> HIDE DEF x
  <2> QED
    BY <2>1, <2>2, <2>3, WorksByMoving
<1>4. CASE QuietSkipCancel(r)
  <2>1. Writes
    BY <1>4, WritesCancel DEF QuietSkipCancel
  <2>2. \A i \in Job : row'[i].lock_token # r
    <3>1. \A i \in Job : row[i].lock_token # r
      BY <1>4 DEF QuietSkipCancel, QueueInv, SkippersHoldNothing
    <3> QED
      BY <2>1, <3>1 DEF Writes, Keeps, KeepsTokens, KeepsToken
  <2>3. run' = [run EXCEPT ![r] = IdleRun] /\ IdleRun \in RunState
    BY <1>4 DEF QuietSkipCancel, IdleRun, RunState
  <2>4. ASSUME NEW q \in Run PROVE Continues(q) \/ Ends(q)
    <3>1. CASE q = r
      BY <3>1, <2>2, <2>3, <1>1 DEF Ends
    <3>2. CASE q # r
      <4>1. run'[q] = run[q]
        BY <3>2, <2>3, <1>1
      <4> QED
        BY <4>1 DEF QueueInv, RunsOK, Continues
    <3> QED
      BY <3>1, <3>2
  <2>5. run' \in [Run -> RunState]
    BY <2>3, <1>1
  <2> QED
    BY <2>1, <2>4, <2>5 DEF Works, Orderly, Writes, Keeps
<1>5. CASE QuietSkipFallback(r) /\ row[j].status \notin Live
  BY <1>1, <1>5, WorksByFinishing DEF QuietSkipFallback
<1>6. CASE QuietSkipFallback(r) /\ row[j].status \in Live
  <2> DEFINE x == row[j]
             y == [x EXCEPT !.status = "cancelled"]
             t == [row EXCEPT ![j] = y]
  <2>1. Finish(r, t) /\ inbox' = inbox
    BY <1>6 DEF QuietSkipFallback
  <2>2. RowInv(x) /\ x.status \in Live
    BY <1>1, <1>2, <1>6 DEF Table
  <2>3. /\ y \in Row /\ y.status = "cancelled"
        /\ y.lock_token = x.lock_token /\ y.attempts_made = x.attempts_made
        /\ y.attempts_started = x.attempts_started
        /\ y.stalled_counter = x.stalled_counter /\ y.opt = x.opt
    BY <2>2 DEF RowInv, Row, Terminal
  <2> HIDE DEF y, x
  <2>4. RowInv(y)
    BY <2>2, <2>3 DEF RowInv, Spendable, Row, Live, Terminal
  <2>5. KeepsToken(x, y) /\ KeepsEnd(x, y)
    BY <2>2, <2>3 DEF KeepsToken, KeepsEnd, Live, Terminal
  <2>6. Table(t) /\ Keeps(row, t)
    BY <1>1, <1>2, <2>4, <2>5, UpdateTable DEF x
  <2> HIDE DEF t
  <2> QED
    BY <1>1, <2>1, <2>6, WorksByFinishing
<1> QED
  BY <1>3, <1>4, <1>5, <1>6

\* A release after the claim is fenced by the token alone: it may put back a
\* row that ended, but its budget is unspent.
LEMMA ReleaseOrderly ==
  ASSUME QueueInv, NEW r \in Run, ReleaseClaim(r)
  PROVE  Orderly
<1> DEFINE j == run[r].job
           y == Unlock(row[j], "delayed")
           t == [row EXCEPT ![j] = y]
<1>1. /\ Table(row) /\ KeepsTokens(row, row) /\ InboxOK(inbox')
  BY KeepsSelf DEF QueueInv, KeepsTokens, ReleaseClaim
<1>2. j \in Job
  BY DEF QueueInv, RunsOK, RunState, ReleaseClaim
<1>3. CASE row[j].lock_token # r
  BY <1>1, <1>3, RunFinishes DEF ReleaseClaim
<1>4. CASE row[j].lock_token = r
  <2>1. RowInv(row[j]) /\ Spendable(row[j]) /\ row \in [Job -> Row]
    BY <1>1, <1>2, <1>4 DEF Table, Spendable
  <2>2. RowInv(y) /\ KeepsToken(row[j], y)
    BY <2>1, UnlockRow
  <2>3. Finish(r, t)
    BY <1>4 DEF ReleaseClaim
  <2> HIDE DEF y
  <2>4. \A i \in Job : t[i] = IF i = j THEN y ELSE row[i]
    BY <2>1
  <2>5. t \in [Job -> Row]
    BY <2>1, <2>2 DEF RowInv
  <2> HIDE DEF t
  <2>6. Table(t) /\ KeepsTokens(row, t)
    BY <1>1, <2>2, <2>4, <2>5, KeepsSelf DEF Table, KeepsTokens
  <2> QED
    BY <1>1, <2>3, <2>6, RunFinishes
<1> QED
  BY <1>3, <1>4

\* A claim mints a token no row carries and takes a snapshot that is current.
LEMMA ClaimInv ==
  ASSUME QueueInv, NEW r \in Run, NEW j \in Job, Claim(r, j)
  PROVE  QueueInv' /\ KeepsEnds(row, row')
<1> DEFINE x == row[j]
           started == IF x.attempts_started < StartCap
                      THEN x.attempts_started + 1 ELSE x.attempts_started
           deadline == IF x.opt.timeout_ms THEN "ahead" ELSE "null"
           clock == IF x.started_at = "null" THEN "recent" ELSE x.started_at
           y == [x EXCEPT
                   !.status = "active", !.lock_token = r, !.lock_until = "live",
                   !.timeout_at = deadline, !.attempts_started = started,
                   !.started_at = clock]
           z == [phase |-> "claimed", job |-> j, last |-> Snapshot(j).last,
                 timed |-> Snapshot(j).timed, abort |-> "none", to |-> "none"]
<1>1. /\ Table(row) /\ InboxOK(inbox) /\ run \in [Run -> RunState]
      /\ row \in [Job -> Row] /\ RowInv(x) /\ x.status = "waiting"
      /\ run[r].phase = "idle"
  BY DEF QueueInv, RunsOK, Table, Claim
<1>2. /\ row' = [row EXCEPT ![j] = y]
      /\ run' = [run EXCEPT ![r] = z]
      /\ inbox' = inbox
  BY DEF Claim
<1>3. /\ x.attempts_made \in Nat /\ x.attempts_started \in Nat
      /\ x.opt.max_attempts \in Nat /\ x.opt.timeout_ms \in BOOLEAN
  BY <1>1 DEF Row, Options
<1>4. started \in Nat /\ x.attempts_made + 1 <= started
  BY <1>1, <1>3, BoundsAssumption DEF RowInv, Spendable, Live, Terminal
<1>5. /\ y \in Row /\ y.status = "active" /\ y.lock_token = r
      /\ y.attempts_made = x.attempts_made /\ y.attempts_started = started
      /\ y.stalled_counter = x.stalled_counter /\ y.opt = x.opt
  <2>1. /\ x \in Row /\ started \in Nat /\ "active" \in Live
        /\ deadline \in {"null", "ahead", "past"}
        /\ clock \in {"null", "recent", "old"}
    BY <1>1, <1>4 DEF Live, Row
  <2> HIDE DEF started, deadline, clock, x
  <2>2. y \in Row
    BY <2>1 DEF Row
  <2> QED
    BY <2>1, <2>2 DEF Row
<1>6. /\ z \in RunState /\ z.job = j /\ z.phase = "claimed"
      /\ z.last <=> x.attempts_made + 1 >= x.opt.max_attempts
  <2> DEFINE l == x.attempts_made + 1 >= x.opt.max_attempts
             m == x.opt.timeout_ms
  <2>1. Snapshot(j).timed = m /\ Snapshot(j).last = l
    BY DEF Snapshot
  <2>2. l \in BOOLEAN /\ m \in BOOLEAN
    BY <1>3
  <2>3. z = [phase |-> "claimed", job |-> j, last |-> l, timed |-> m,
             abort |-> "none", to |-> "none"]
    BY <2>1
  <2> HIDE DEF l, m, z
  <2>4. z \in RunState
    BY <2>2, <2>3 DEF RunState
  <2> QED
    BY <2>3, <2>4 DEF l
<1>7. \A i \in Job : row[i].lock_token # r
  BY <1>1, IdsAssumption DEF QueueInv, Held, RunsOK
<1>8. \A i \in Job : row'[i] = IF i = j THEN y ELSE row[i]
  BY <1>1, <1>2
<1>9. \A q \in Run : run'[q] = IF q = r THEN z ELSE run[q]
  BY <1>1, <1>2
<1> HIDE DEF y, z, started, deadline, clock
<1>10. RowInv(y)
  BY <1>1, <1>4, <1>5 DEF RowInv, Spendable, Live, Terminal
<1>11. Table(row')
  BY <1>1, <1>2, <1>5, <1>8, <1>10 DEF Table
<1>12. KeepsEnds(row, row')
  BY <1>1, <1>8, KeepsSelf DEF KeepsEnds, KeepsEnd, Terminal
<1>13. RunsOK'
  BY <1>1, <1>2, <1>6, <1>9, IdsAssumption DEF QueueInv, RunsOK
<1>14. Held'
  <2> SUFFICES ASSUME NEW i \in Job, NEW q \in Run, row'[i].lock_token = q
               PROVE  run'[q].job = i
    BY DEF Held
  <2>1. CASE i = j
    BY <1>5, <1>6, <1>8, <1>9, <2>1
  <2>2. CASE i # j
    BY <1>7, <1>8, <1>9, <2>2 DEF QueueInv, Held
  <2> QED
    BY <2>1, <2>2
<1>15. SkippersHoldNothing'
  <2> SUFFICES ASSUME NEW q \in Run, run'[q].phase = "skipping",
                      NEW i \in Job, row'[i].lock_token = q
               PROVE  FALSE
    BY DEF SkippersHoldNothing
  <2>1. q # r /\ run[q].phase = "skipping"
    BY <1>6, <1>9
  <2>2. row[i].lock_token = q
    BY <1>5, <1>8, <2>1
  <2> QED
    BY <2>1, <2>2 DEF QueueInv, SkippersHoldNothing
<1>16. SnapshotsCurrent'
  <2> SUFFICES ASSUME NEW q \in Run, run'[q].job \in Job,
                      row'[run'[q].job].status = "active",
                      row'[run'[q].job].lock_token = q
               PROVE  run'[q].last <=> row'[run'[q].job].attempts_made + 1
                                         >= row'[run'[q].job].opt.max_attempts
    BY DEF SnapshotsCurrent, Fenced
  <2>1. CASE q = r
    <3>1. run'[q] = z /\ row'[z.job] = y
      BY <1>6, <1>8, <1>9, <2>1
    <3> QED
      BY <1>5, <1>6, <3>1
  <2>2. CASE q # r
    <3>1. run'[q] = run[q] /\ run[q].job # j
      BY <1>5, <1>8, <1>9, <2>2
    <3>2. row'[run[q].job] = row[run[q].job]
      BY <1>8, <3>1
    <3> QED
      BY <3>1, <3>2 DEF QueueInv, SnapshotsCurrent, Fenced
  <2> QED
    BY <2>1, <2>2
<1> QED
  BY <1>1, <1>2, <1>11, <1>12, <1>13, <1>14, <1>15, <1>16 DEF QueueInv, InboxOK

-----------------------------------------------------------------------------
(* The theorems.                                                           *)

LEMMA RunStepSafe ==
  ASSUME QueueInv, NEW r \in Run, RunStep(r)
  PROVE  QueueInv' /\ (KeepsEnds(row, row') \/ ReleaseClaim(r))
<1>1. ASSUME Works PROVE QueueInv' /\ KeepsEnds(row, row')
  BY <1>1, StepInv DEF Works, Orderly
<1>2. CASE \E j \in Job : Claim(r, j)
  BY <1>2, ClaimInv
<1>3. CASE ReleaseClaim(r)
  BY <1>3, ReleaseOrderly, StepInv DEF Orderly
<1>4. CASE QuietSkipUnlock(r) \/ QuietSkipCancel(r) \/ QuietSkipFallback(r)
  BY <1>1, <1>4, SkippingWorks
<1>5. CASE Launch(r) \/ RenewLock(r) \/ RenewalGivesUp(r) \/ TimeoutFires(r)
  BY <1>1, <1>5, RunningWorks
<1>6. CASE \/ Complete(r) \/ CompleteThrows(r) \/ ForceEvict(r)
           \/ \E s \in {"delayed", "dead"} : Fail(r, s) \/ FailThrows(r, s)
  BY <1>1, <1>6, RecordingWorks
<1>7. CASE ReleaseLeaseFullJob(r) \/ Abandon(r)
  BY <1>1, <1>7, LeavingWorks
<1> QED
  BY <1>2, <1>3, <1>4, <1>5, <1>6, <1>7 DEF RunStep

\* A cancel ends live rows, and is called by no run or by one that skips.
LEMMA CallShape ==
  ASSUME NEW c \in CancelCalls
  PROVE  /\ \A j \in Job : j \in c.rows => row[j].status \in Live
         /\ \/ c.by = NoRun
            \/ c.by \in Run /\ run[c.by].phase = "skipping"
<1>1. ASSUME NEW roots, NEW r, c = CancelCall(roots, r)
      PROVE  /\ \A j \in Job : j \in c.rows => row[j].status \in Live
             /\ c.by = r
  BY <1>1 DEF CancelCall, CancelledRows
<1>2. CASE \E j : c = CancelCall({j}, NoRun)
  BY <1>1, <1>2
<1>3. CASE \E S : c = CancelCall(S, NoRun)
  BY <1>1, <1>3
<1>4. CASE \E r \in Run : /\ run[r].phase = "skipping"
                         /\ c = CancelCall({run[r].job}, r)
  BY <1>1, <1>4
<1> QED
  BY <1>2, <1>3, <1>4 DEF CancelCalls

\* Two cancels at once end live rows and the skips that called them.
LEMMA OverlapWorks ==
  ASSUME QueueInv, NEW a \in CancelCalls, NEW b \in CancelCalls,
         CancelsOverlap(a, b)
  PROVE  Works
<1> DEFINE over == {a.by, b.by}
           C == a.rows \cup b.rows
<1>1. /\ \A j \in Job : j \in C => row[j].status \in Live
      /\ \A q \in Run : q \in over => run[q].phase = "skipping"
  BY CallShape, IdsAssumption
<1>2. Writes
  <2>1. PICK P : CancelRows(C, P)
    BY DEF CancelsOverlap
  <2> HIDE DEF C
  <2> QED
    BY <1>1, <2>1, WritesRows
<1>3. /\ run' = [r \in Run |-> IF r \in over THEN IdleRun ELSE run[r]]
      /\ IdleRun \in RunState /\ run \in [Run -> RunState]
  BY DEF CancelsOverlap, IdleRun, RunState, QueueInv, RunsOK
<1>4. ASSUME NEW q \in Run PROVE Continues(q) \/ Ends(q)
  <2>1. CASE q \in over
    <3>1. run[q].phase = "skipping" /\ run'[q] = IdleRun
      BY <1>1, <1>3, <2>1
    <3>2. \A i \in Job : row[i].lock_token # q
      BY <3>1 DEF QueueInv, SkippersHoldNothing
    <3>3. \A i \in Job : row'[i].lock_token # q
      BY <1>2, <3>2 DEF Writes, Keeps, KeepsTokens, KeepsToken
    <3> QED
      BY <3>1, <3>3 DEF Ends
  <2>2. CASE q \notin over
    <3>1. run'[q] = run[q]
      BY <1>3, <2>2
    <3> QED
      BY <3>1 DEF QueueInv, RunsOK, Continues
  <2> QED
    BY <2>1, <2>2
<1>5. run' \in [Run -> RunState]
  BY <1>3
<1> QED
  BY <1>2, <1>4, <1>5 DEF Works, Orderly, Writes, Keeps

LEMMA OverlapSafe ==
  ASSUME QueueInv, Overlap
  PROVE  QueueInv' /\ KeepsEnds(row, row')
BY OverlapWorks, StepInv DEF Overlap, Works, Orderly

LEMMA CallSafe ==
  ASSUME QueueInv, OperatorCall
  PROVE  /\ QueueInv'
         /\ KeepsEnds(row, row') \/ \E j \in Job : RetryJob(j)
<1>1. ASSUME Writes, UNCHANGED run PROVE QueueInv' /\ KeepsEnds(row, row')
  BY <1>1, WorksByWriting, StepInv DEF Works, Orderly
<1>2. ASSUME NEW j \in Job, NEW o \in Submissions[j],
             NEW s \in {"waiting", "delayed"}, Add(j, o, s)
      PROVE  QueueInv' /\ KeepsEnds(row, row')
  BY <1>1, <1>2, WritesAdd DEF Add
<1>3. ASSUME NEW j \in Job, CancelJob(j)
      PROVE  QueueInv' /\ KeepsEnds(row, row')
  BY <1>1, <1>3, WritesCancel DEF CancelJob
<1>4. ASSUME NEW j \in Job, RetryJob(j) PROVE QueueInv'
  <2>1. UNCHANGED run
    BY <1>4 DEF RetryJob
  <2> QED
    BY <1>4, <2>1, RetriedRow, RunsStandStill, StepInv
<1>5. ASSUME NEW j \in Job, PauseJob(j) \/ ResumeJob(j)
      PROVE  QueueInv' /\ KeepsEnds(row, row')
  BY <1>1, <1>5, WritesPauseResume DEF PauseJob, ResumeJob
<1>6. ASSUME NEW j \in Job, RemoveJob(j)
      PROVE  QueueInv' /\ KeepsEnds(row, row')
  BY <1>1, <1>6, WritesRemove DEF RemoveJob
<1> QED
  BY <1>2, <1>3, <1>4, <1>5, <1>6 DEF OperatorCall

LEMMA SweepSafe ==
  ASSUME QueueInv, Sweep \/ Tick
  PROVE  QueueInv' /\ KeepsEnds(row, row')
<1>1. ASSUME Writes, UNCHANGED run PROVE QueueInv' /\ KeepsEnds(row, row')
  BY <1>1, WorksByWriting, StepInv DEF Works, Orderly
<1>2. CASE \E S \in SUBSET Job : PromoteDelayed(S)
  BY <1>1, <1>2, WritesPromote DEF PromoteDelayed
<1>3. CASE \E S \in SUBSET Job : HandleWaitingTTL(S)
  BY <1>1, <1>3, WritesCancel DEF HandleWaitingTTL
<1>4. CASE \E skipped \in SUBSET Job : HandleStalled(skipped)
  BY <1>1, <1>4, WritesStalled DEF HandleStalled
<1>5. CASE \E skipped \in SUBSET Job :
             HandleTimeouts(skipped) \/ HandleWallClockTimeouts(skipped)
  BY <1>1, <1>5, WritesTimeouts DEF HandleTimeouts, HandleWallClockTimeouts
<1>6. CASE StrandedParentSweep
  BY <1>1, <1>6, WritesSweep DEF StrandedParentSweep
<1>7. CASE Tick
  BY <1>1, <1>7, WritesClock DEF Tick, LeaseAges, DeadlinePasses, StartAges
<1> QED
  BY <1>2, <1>3, <1>4, <1>5, <1>6, <1>7 DEF Sweep

LEMMA InitInv == Init => QueueInv
<1> SUFFICES ASSUME Init PROVE QueueInv
  OBVIOUS
<1>1. RowInv(NoRow("absent"))
  BY DefaultOptionsTyped, IdsAssumption
     DEF RowInv, Spendable, NoRow, Row, DefaultOptions, Live, Terminal
<1>2. Table(row)
  BY <1>1 DEF Init, Table, RowInv
<1>3. InboxOK(inbox)
  BY DEF Init, InboxOK
<1>4. RunsOK
  BY IdsAssumption DEF Init, RunsOK, RunState, IdleRun
<1>5. Held /\ SkippersHoldNothing
  BY IdsAssumption DEF Init, Held, SkippersHoldNothing, NoRow
<1>6. SnapshotsCurrent
  BY IdsAssumption DEF Init, SnapshotsCurrent, IdleRun
<1> QED
  BY <1>2, <1>3, <1>4, <1>5, <1>6 DEF QueueInv

LEMMA NextInv ==
  ASSUME QueueInv, [Next]_vars
  PROVE  QueueInv'
<1>1. CASE Next
  BY <1>1, CallSafe, RunStepSafe, SweepSafe, OverlapSafe DEF Next
<1>2. CASE UNCHANGED vars
  BY <1>2 DEF vars, QueueInv, Table, InboxOK, RunsOK, Held,
              SkippersHoldNothing, SnapshotsCurrent, Fenced
<1> QED
  BY <1>1, <1>2

\* The inductive invariant of the queue: every row keeps its budget and its
\* order of attempts, a token in a row is that of the run that claimed it, and
\* the snapshot a run decides on is current for as long as its fence holds.
THEOREM Invariance == Spec => []QueueInv
BY InitInv, NextInv, PTL DEF Spec

\* Types hold, and a token is only ever in the row its run claimed: claim(),
\* the fences of every write and the retirement of spent tokens fit together.
THEOREM TypeCorrect == Spec => []TypeOK
<1>1. QueueInv => TypeOK
  BY DEF QueueInv, TypeOK, Table, InboxOK, RunsOK, Held
<1> QED
  BY <1>1, Invariance, PTL

\* chk_attempts_order of schema.sql is never violated, whatever the budgets:
\* no update of the queue can be refused by the database for it.
THEOREM AttemptsOrdered == Spec => []AttemptsOrder
<1>1. QueueInv => AttemptsOrder
  BY DEF QueueInv, AttemptsOrder, Table, RowInv
<1> QED
  BY <1>1, Invariance, PTL

\* max_attempts and max_stalled are limits, although failJob's caller decides
\* on a snapshot and the sweeps spend attempts behind its back.
THEOREM BudgetsKept == Spec => []BudgetsHold
<1>1. QueueInv => BudgetsHold
  BY DEF QueueInv, BudgetsHold, Table, RowInv, Spendable
<1> QED
  BY <1>1, Invariance, PTL

\* Where no worker releases a claim it has just made, a row that ended stays
\* ended until an operator retries or removes it.
THEOREM EndsAreFinal ==
  ASSUME "release" \notin Ops
  PROVE  Spec => TerminalIsFinal
<1> DEFINE Final == \A j \in Job : row[j].status \in Terminal =>
                      \/ row'[j].status \in {row[j].status, "deleted"}
                      \/ row'[j].retries = row[j].retries + 1
<1>1. ASSUME QueueInv, [Next]_vars PROVE [Final]_vars
  <2>1. ASSUME KeepsEnds(row, row') PROVE Final
    BY <2>1 DEF KeepsEnds, KeepsEnd
  <2>2. ASSUME NEW j \in Job, RetryJob(j) PROVE Final
    BY <1>1, <2>2, RetriedRow
  <2>3. ASSUME NEW r \in Run PROVE ~ReleaseClaim(r)
    BY DEF ReleaseClaim
  <2>4. CASE Next
    BY <1>1, <2>1, <2>2, <2>3, <2>4, CallSafe, RunStepSafe, SweepSafe, OverlapSafe
       DEF Next
  <2>5. CASE UNCHANGED vars
    BY <2>5
  <2> QED
    BY <1>1, <2>4, <2>5
<1>2. TerminalIsFinal <=> [][Final]_vars
  BY DEF TerminalIsFinal
<1> HIDE DEF Final
<1> QED
  BY <1>1, <1>2, Invariance, PTL DEF Spec

\* What a run that lost its row leaves alone.
Untouched(r) ==
  /\ \A j \in Job : row[j].lock_token # r => row'[j] = row[j]
  /\ inbox' = inbox

\* The row of a run changes in no other way than by a release of its token.
LEMMA OnlyOwnToken ==
  ASSUME QueueInv, NEW r \in Run, NEW t,
         \/ t = row
         \/ row[run[r].job].lock_token = r /\ \E y : t = [row EXCEPT ![run[r].job] = y],
         Finish(r, t)
  PROVE  \A j \in Job : row[j].lock_token # r => row'[j] = row[j]
<1> SUFFICES ASSUME NEW j \in Job, row[j].lock_token # r
             PROVE  row'[j] = row[j]
  OBVIOUS
<1>1. t[j] = row[j]
  BY DEF QueueInv, Table
<1>2. row' = [i \in Job |-> IF t[i].lock_token = r
                            THEN [t[i] EXCEPT !.lock_token = Stale] ELSE t[i]]
  BY DEF Finish, Retire
<1> QED
  BY <1>1, <1>2

LEMMA ZombieStep ==
  ASSUME QueueInv, NEW r \in Run, RunStep(r),
         run[r].phase \notin {"idle", "skipping"}, ~Fenced(r)
  PROVE  Untouched(r)
<1>1. CASE Launch(r) \/ RenewalGivesUp(r) \/ TimeoutFires(r)
  BY <1>1 DEF Launch, RenewalGivesUp, TimeoutFires, Untouched
<1>2. CASE RenewLock(r)
  BY <1>2 DEF RenewLock, Untouched
<1>3. CASE Abandon(r)
  BY <1>3, OnlyOwnToken DEF Abandon, Untouched
<1>4. CASE ReleaseLeaseFullJob(r)
  BY <1>4, OnlyOwnToken DEF ReleaseLeaseFullJob, Untouched
<1>5. CASE Complete(r)
  <2>1. Finish(r, row) /\ inbox' = inbox
    BY <1>5 DEF Complete, RowsAfterComplete, InboxAfterComplete
  <2> QED
    BY <2>1, OnlyOwnToken DEF Untouched
<1>6. CASE CompleteThrows(r)
  BY <1>6 DEF CompleteThrows, RowsAfterComplete, InboxAfterComplete, Untouched
<1>7. CASE \E s \in {"delayed", "dead"} : Fail(r, s)
  <2>1. Finish(r, row) /\ inbox' = inbox
    BY <1>7 DEF Fail, RowsAfterFail, InboxAfterFail
  <2> QED
    BY <2>1, OnlyOwnToken DEF Untouched
<1>8. CASE \E s \in {"delayed", "dead"} : FailThrows(r, s)
  BY <1>8 DEF FailThrows, RowsAfterFail, InboxAfterFail, Untouched
<1>9. CASE ForceEvict(r)
  BY <1>9 DEF ForceEvict, RowsAfterFail, InboxAfterFail, Untouched
<1>10. CASE ReleaseClaim(r)
  <2> DEFINE j == run[r].job
             t == IF row[j].lock_token = r
                  THEN [row EXCEPT ![j] = Unlock(row[j], "delayed")] ELSE row
  <2>1. Finish(r, t) /\ inbox' = inbox
    BY <1>10 DEF ReleaseClaim
  <2>2. \/ t = row
        \/ row[j].lock_token = r /\ \E y : t = [row EXCEPT ![j] = y]
    OBVIOUS
  <2> HIDE DEF t
  <2> QED
    BY <2>1, <2>2, OnlyOwnToken DEF Untouched
<1>11. CASE QuietSkipUnlock(r)
  <2>1. \/ row' = row
        \/ /\ row[run[r].job].lock_token = r
           /\ row' = [row EXCEPT ![run[r].job] =
                        Unlock(row[run[r].job], row[run[r].job].status)]
    BY <1>11 DEF QuietSkipUnlock
  <2>2. inbox' = inbox
    BY <1>11 DEF QuietSkipUnlock
  <2> QED
    BY <2>1, <2>2 DEF QueueInv, Table, Untouched
<1>12. ~(\E j \in Job : Claim(r, j)) /\ ~QuietSkipCancel(r) /\ ~QuietSkipFallback(r)
  BY DEF Claim, QuietSkipCancel, QuietSkipFallback
<1> QED
  BY <1>1, <1>2, <1>3, <1>4, <1>5, <1>6, <1>7, <1>8, <1>9, <1>10, <1>11, <1>12
     DEF RunStep

LEMMA OthersStandStill ==
  ASSUME QueueInv, NEW r \in Run, NEW q \in Run, q # r, RunStep(q)
  PROVE  run'[r] = run[r]
<1>1. run' = run \/ \E x : run' = [run EXCEPT ![q] = x]
  BY DEF RunStep, Claim, ReleaseClaim, QuietSkipUnlock, QuietSkipCancel,
         QuietSkipFallback, Launch, RenewLock, RenewalGivesUp, TimeoutFires,
         Complete, CompleteThrows, Fail, FailThrows, ForceEvict,
         ReleaseLeaseFullJob, Abandon, Finish
<1> QED
  BY <1>1 DEF QueueInv, RunsOK

LEMMA OverlapSkips ==
  ASSUME NEW a \in CancelCalls, NEW b \in CancelCalls, CancelsOverlap(a, b),
         NEW r \in Run, run'[r] # run[r]
  PROVE  run[r].phase = "skipping"
<1>1. r \in {a.by, b.by}
  BY DEF CancelsOverlap
<1> QED
  BY <1>1, CallShape, IdsAssumption

\* A run that lost its row changes no other row and sends no message: every
\* write of completeJob, failJob, releaseLeaseFullJob and renewLock is fenced,
\* and so is what they do to the parent.
THEOREM ZombiesAreFenced == Spec => ZombiesWriteNothing
<1> DEFINE Z == \A r \in Run :
                  /\ run[r].phase \notin {"idle", "skipping"} /\ ~Holds(r)
                  /\ run'[r] # run[r]
                  => /\ \A j \in Job : row[j].lock_token # r => row'[j] = row[j]
                     /\ inbox' = inbox
<1>1. ASSUME QueueInv, [Next]_vars PROVE [Z]_vars
  <2> SUFFICES ASSUME NEW r \in Run,
                      run[r].phase \notin {"idle", "skipping"}, ~Holds(r),
                      run'[r] # run[r]
               PROVE  Untouched(r)
    BY DEF Untouched
  <2>1. ASSUME OperatorCall \/ Sweep \/ Tick PROVE run' = run
    BY <2>1 DEF OperatorCall, Add, CancelJob, RetryJob, PauseJob, ResumeJob,
         RemoveJob, Sweep, PromoteDelayed, HandleWaitingTTL, HandleStalled,
         HandleTimeouts, HandleWallClockTimeouts, StrandedParentSweep, Tick,
         LeaseAges, DeadlinePasses, StartAges
  <2>2. run' # run /\ ~Overlap
    BY OverlapSkips DEF Overlap
  <2>3. PICK q \in Run : RunStep(q)
    BY <1>1, <2>1, <2>2 DEF Next, vars
  <2>4. q = r
    BY <1>1, <2>3, OthersStandStill
  <2>5. ~Fenced(r)
    BY <1>1 DEF QueueInv, RunsOK, RunState, Fenced, Holds
  <2> QED
    BY <1>1, <2>3, <2>4, <2>5, ZombieStep
<1>2. ZombiesWriteNothing <=> [][Z]_vars
  BY DEF ZombiesWriteNothing
<1> HIDE DEF Z
<1> QED
  BY <1>1, <1>2, Invariance, PTL DEF Spec
=============================================================================
