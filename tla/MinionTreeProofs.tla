-------------------------- MODULE MinionTreeProofs --------------------------
(***************************************************************************)
(* Parents and children of the Minions queue: that a parent waits for its  *)
(* children, is released by the last of them (and by which paths it is     *)
(* not), and is told how each of them ended, once.  Proved for any tree of *)
(* submissions and any number of runs.                                     *)
(***************************************************************************)
EXTENDS MinionQueueProofs

Runnable == {"waiting", "active", "delayed"}

\* Under the policy fail_parent a parent ends without a word to its own parent.
\* It has none when only the children of roots are submitted with that policy.
OnlyRootsFail ==
  \A j \in Job : \A o \in Submissions[j] :
    o.on_child_fail = "fail_parent" /\ o.parent_job_id # NoJob =>
      \A q \in Submissions[o.parent_job_id] : q.parent_job_id = NoJob

\* What the last two properties are proved under.
NobodyResumes == Ops \cap {"release", "pause", "retry"} = {}
AllTold == Ops \cap {"release", "retry", "skip"} = {} /\ OnlyRootsFail

\* A row has the options it was submitted with, and a parent that is there.
Rooted(t) ==
  \A j \in Job :
    /\ t[j].parent_job_id \in Job =>
         t[t[j].parent_job_id].status \in Live \cup Terminal
    /\ t[j].status \in Live \cup Terminal =>
         /\ t[j].opt \in Submissions[j]
         /\ t[j].parent_job_id \in {t[j].opt.parent_job_id, NoJob}
    /\ t[j].status \notin Live \cup Terminal => t[j].parent_job_id = NoJob

\* A row that may yet end: it is live, or a run holds its token.
Open(x) == x.status \in Live \/ x.lock_token # NoRun

\* A child has told less than it has incarnations, as long as it may yet end.
Quota(t, ib) ==
  \A p, c \in Job :
    /\ Len(ib[<<p, c>>]) <= 1 + t[c].retries
    /\ Open(t[c]) => Len(ib[<<p, c>>]) <= t[c].retries
    /\ t[c].status = "absent" => Len(ib[<<p, c>>]) = 0

\* Whoever waits has a child to wait for, but for the parents in P: those that
\* were let down before, and those the transaction under way will look at.
WaitsBut(t, P) ==
  \A p \in Job \ P : t[p].status = "waiting-children" => LiveChildren(t, p) # {}

Resolved(t) ==
  \A p \in Job :
    /\ t[p].status \in Runnable => LiveChildren(t, p) = {}
    /\ t[p].status # "paused"

Told(t, ib) ==
  \A p, c \in Job :
    /\ t[c].parent_job_id = p /\ t[c].status \in Terminal /\ t[p].status \in Live
    => /\ ib[<<p, c>>] # <<>>
       /\ ib[<<p, c>>][Len(ib[<<p, c>>])] \in OutcomesOf(t[c].status)

\* The tables t and messages ib that a transaction goes through.
Family(t, ib, P) ==
  /\ Table(t) /\ InboxOK(ib) /\ Rooted(t) /\ Quota(t, ib)
  /\ WaitsBut(t, P)
  /\ NobodyResumes => Resolved(t)
  /\ AllTold => Told(t, ib)

\* Only where a skip is tried does a run get between its two steps.
SkipsAllowed == \A r \in Run : run[r].phase = "skipping" => "skip" \in Ops

TreeInv == QueueInv /\ SkipsAllowed /\ Family(row, inbox, Job)

-----------------------------------------------------------------------------
(* What the statements that the transactions share do to a family.         *)

\* Status a becomes b and neither ends nor starts to wait; that a paused row
\* takes part is left open where rows can be paused.
Stays(a, b) ==
  \/ a = b
  \/ /\ {a, b} \subseteq Live \ {"waiting-children"}
     /\ NobodyResumes => {a, b} \subseteq Runnable

\* The live rows of C end in u, the others stay as they are.
Settles(t, u, C) ==
  \A j \in Job :
    /\ u[j].parent_job_id = t[j].parent_job_id /\ u[j].opt = t[j].opt
    /\ u[j].retries = t[j].retries
    /\ j \in C => /\ t[j].status \in Live /\ u[j].status \in Terminal
                  /\ u[j].lock_token = NoRun
    /\ j \notin C => /\ Stays(t[j].status, u[j].status)
                     /\ Open(u[j]) => Open(t[j])

LEMMA FamilyTypes ==
  ASSUME NEW t, NEW ib, NEW P, Family(t, ib, P)
  PROVE  /\ t \in [Job -> Row]
         /\ \A p, c \in Job : ib[<<p, c>>] \in Seq(Outcomes)
BY DEF Family, Table, InboxOK

LEMMA FamilyWeakens ==
  ASSUME NEW t, NEW ib, NEW P, Family(t, ib, P), NEW Q,
         \A p \in Job : p \in P => p \in Q
  PROVE  Family(t, ib, Q)
BY DEF Family, WaitsBut

LEMMA SettledRooted ==
  ASSUME NEW t, NEW u, NEW C, Rooted(t), Settles(t, u, C)
  PROVE  Rooted(u)
<1>1. \A j \in Job : t[j].status \in Live \cup Terminal
                     <=> u[j].status \in Live \cup Terminal
  BY DEF Settles, Stays
<1>2. \A j \in Job : /\ u[j].parent_job_id = t[j].parent_job_id
                     /\ u[j].opt = t[j].opt
  BY DEF Settles
<1> QED
  BY <1>1, <1>2 DEF Rooted

\* A step in which nobody ends.
LEMMA ShapeFamily ==
  ASSUME NEW t, NEW ib, NEW P, Family(t, ib, P),
         NEW u, Table(u), Settles(t, u, {})
  PROVE  Family(u, ib, P)
<1>1. Rooted(u)
  BY SettledRooted DEF Family
<1>2. ASSUME NEW j \in Job
      PROVE  /\ t[j].status \in Live <=> u[j].status \in Live
             /\ u[j].status \notin Live => u[j].status = t[j].status
             /\ u[j].status = "waiting-children" => t[j].status = u[j].status
             /\ u[j].status = "absent" => t[j].status = "absent"
             /\ u[j].parent_job_id = t[j].parent_job_id
             /\ u[j].retries = t[j].retries
             /\ Open(u[j]) => Open(t[j])
             /\ NobodyResumes =>
                  /\ u[j].status \in Runnable => t[j].status \in Runnable
                  /\ u[j].status = "paused" => t[j].status = "paused"
  BY DEF Settles, Stays, Live, Runnable
<1>3. \A p \in Job : LiveChildren(u, p) = LiveChildren(t, p)
  BY <1>2 DEF LiveChildren, Children
<1>4. Quota(u, ib)
  BY <1>2 DEF Family, Quota
<1>5. WaitsBut(u, P)
  BY <1>2, <1>3 DEF Family, WaitsBut
<1>6. NobodyResumes => Resolved(u)
  BY <1>2, <1>3 DEF Family, Resolved
<1>7. AllTold => Told(u, ib)
  <2> SUFFICES ASSUME AllTold PROVE Told(u, ib)
    OBVIOUS
  <2>1. Told(t, ib)
    BY DEF Family
  <2>2. \A j \in Job : u[j].status \in Terminal => u[j].status = t[j].status
    BY <1>2 DEF Live, Terminal
  <2> QED
    BY <2>1, <2>2, <1>2 DEF Told
<1> QED
  BY <1>1, <1>4, <1>5, <1>6, <1>7 DEF Family

\* The live rows of C end and tell their parents, whom the transaction has yet
\* to look at.
LEMMA SettledFamily ==
  ASSUME NEW S, Family(row, inbox, S), NEW C, NEW u, Table(u), Settles(row, u, C),
         NEW o \in Outcomes,
         \A c \in Job : c \in C => o \in OutcomesOf(u[c].status)
  PROVE  Family(u, Report(u, C, o), S \cup Parents(row, C \cap Job))
<1> DEFINE ib == Report(u, C, o)
<1>1. Rooted(u)
  BY SettledRooted DEF Family
<1>2. InboxOK(ib)
  BY ReportTyped DEF Family
<1>3. ASSUME NEW j \in Job
      PROVE  /\ u[j].status \in Live <=> row[j].status \in Live /\ j \notin C
             /\ u[j].status \in Terminal =>
                  j \in C \/ u[j].status = row[j].status
             /\ u[j].status = "waiting-children" =>
                  row[j].status = u[j].status
             /\ u[j].status = "absent" => row[j].status = "absent" /\ j \notin C
             /\ u[j].parent_job_id = row[j].parent_job_id
             /\ u[j].retries = row[j].retries
             /\ Open(u[j]) => Open(row[j]) /\ j \notin C
             /\ NobodyResumes =>
                  /\ u[j].status \in Runnable => row[j].status \in Runnable
                  /\ u[j].status = "paused" => row[j].status = "paused"
  BY DEF Settles, Stays, Open, Live, Runnable, Terminal
<1>4. \A c \in Job : c \in C => Open(row[c])
  BY DEF Settles, Open
<1>5. ASSUME NEW p \in Job, NEW c \in Job
      PROVE  ib[<<p, c>>] = IF /\ c \in C /\ row[c].parent_job_id = p
                           /\ u[p].status \in Live
                        THEN Append(inbox[<<p, c>>], o) ELSE inbox[<<p, c>>]
  BY DEF Report
<1>6. ASSUME NEW p \in Job, NEW c \in Job
      PROVE  inbox[<<p, c>>] \in Seq(Outcomes) /\ row[c].retries \in Nat
  BY FamilyTypes DEF Row
<1> HIDE DEF ib
<1>7. Quota(u, ib)
  <2> SUFFICES ASSUME NEW p \in Job, NEW c \in Job
               PROVE  /\ Len(ib[<<p, c>>]) <= 1 + u[c].retries
                      /\ Open(u[c]) => Len(ib[<<p, c>>]) <= u[c].retries
                      /\ u[c].status = "absent" => Len(ib[<<p, c>>]) = 0
    BY DEF Quota
  <2>1. /\ Len(inbox[<<p, c>>]) <= 1 + row[c].retries
        /\ Open(row[c]) => Len(inbox[<<p, c>>]) <= row[c].retries
        /\ row[c].status = "absent" => Len(inbox[<<p, c>>]) = 0
    BY DEF Family, Quota
  <2>2. CASE c \in C
    <3>1. Len(Append(inbox[<<p, c>>], o)) = Len(inbox[<<p, c>>]) + 1
      BY <1>6
    <3>2. Len(inbox[<<p, c>>]) \in Nat /\ Len(ib[<<p, c>>]) \in Nat
      BY <1>2, <1>6 DEF InboxOK
    <3>3. Len(ib[<<p, c>>]) <= Len(inbox[<<p, c>>]) + 1
      <4>1. \/ ib[<<p, c>>] = inbox[<<p, c>>]
            \/ ib[<<p, c>>] = Append(inbox[<<p, c>>], o)
        BY <1>5
      <4>2. CASE ib[<<p, c>>] = inbox[<<p, c>>]
        BY <3>2, <4>2
      <4>3. CASE ib[<<p, c>>] = Append(inbox[<<p, c>>], o)
        <5>1. Len(ib[<<p, c>>]) = Len(inbox[<<p, c>>]) + 1
          BY <3>1, <4>3
        <5> QED
          BY <3>2, <5>1
      <4> QED
        BY <4>1, <4>2, <4>3
    <3>4. Len(inbox[<<p, c>>]) <= row[c].retries
      BY <1>4, <2>1, <2>2
    <3>5. /\ ~Open(u[c]) /\ u[c].status # "absent"
          /\ u[c].retries = row[c].retries
      BY <1>3, <2>2
    <3> QED
      BY <1>6, <3>2, <3>3, <3>4, <3>5
  <2>3. CASE c \notin C
    <3>1. ib[<<p, c>>] = inbox[<<p, c>>]
      BY <1>5, <2>3
    <3> QED
      BY <1>3, <1>6, <2>1, <2>3, <3>1
  <2> QED
    BY <2>2, <2>3
<1>8. WaitsBut(u, S \cup Parents(row, C \cap Job))
  <2> SUFFICES ASSUME NEW p \in Job, p \notin S,
                      p \notin Parents(row, C \cap Job),
                      u[p].status = "waiting-children"
               PROVE  LiveChildren(u, p) # {}
    BY DEF WaitsBut
  <2>1. PICK c \in Job : row[c].parent_job_id = p /\ row[c].status \in Live
    BY <1>3 DEF Family, WaitsBut, LiveChildren, Children
  <2>2. c \notin C
    BY <2>1 DEF Parents
  <2> QED
    BY <1>3, <2>1, <2>2 DEF LiveChildren, Children
<1>9. NobodyResumes => Resolved(u)
  BY <1>3 DEF Family, Resolved, LiveChildren, Children
<1>10. AllTold => Told(u, ib)
  <2> SUFFICES ASSUME AllTold, NEW p \in Job, NEW c \in Job,
                      u[c].parent_job_id = p, u[c].status \in Terminal,
                      u[p].status \in Live
               PROVE  /\ ib[<<p, c>>] # <<>>
                      /\ ib[<<p, c>>][Len(ib[<<p, c>>])] \in OutcomesOf(u[c].status)
    BY DEF Told
  <2>1. CASE c \in C
    <3>1. ib[<<p, c>>] = Append(inbox[<<p, c>>], o)
      BY <1>3, <1>5, <2>1
    <3> DEFINE s == inbox[<<p, c>>]
    <3>2. s \in Seq(Outcomes)
      BY <1>6
    <3> HIDE DEF s
    <3>3. Append(s, o) # <<>> /\ Append(s, o)[Len(Append(s, o))] = o
      BY <3>2
    <3> QED
      BY <2>1, <3>1, <3>3 DEF s
  <2>2. CASE c \notin C
    <3>1. ib[<<p, c>>] = inbox[<<p, c>>]
      BY <1>5, <2>2
    <3>2. /\ row[c].parent_job_id = p /\ row[c].status = u[c].status
          /\ row[p].status \in Live
      BY <1>3, <2>2
    <3> QED
      BY <3>1, <3>2 DEF Family, Told
  <2> QED
    BY <2>1, <2>2
<1> QED
  BY <1>1, <1>2, <1>7, <1>8, <1>9, <1>10 DEF Family, ib

\* The parents that waited for nobody are put back to work.
LEMMA UnblockFamily ==
  ASSUME NEW t, NEW ib, NEW Q, Family(t, ib, Q), NEW P, NEW S,
         \A p \in Job : p \in Q => p \in P \/ p \in S
  PROVE  Family(Unblock(t, P), ib, S)
<1> DEFINE u == Unblock(t, P)
           freed(p) == /\ p \in P /\ t[p].status = "waiting-children"
                       /\ LiveChildren(t, p) = {}
<1>1. Table(u)
  BY UnblockTable DEF Family
<1>2. ASSUME NEW j \in Job
      PROVE  /\ u[j].parent_job_id = t[j].parent_job_id /\ u[j].opt = t[j].opt
             /\ u[j].retries = t[j].retries
             /\ u[j].lock_token = t[j].lock_token
             /\ freed(j) => u[j].status = "waiting"
             /\ ~freed(j) => u[j].status = t[j].status
  <2>1. t[j] \in Row
    BY FamilyTypes
  <2>2. u[j] = IF freed(j)
               THEN [t[j] EXCEPT !.status = "waiting", !.started_at = "null"]
               ELSE t[j]
    BY DEF Unblock
  <2> QED
    BY <2>1, <2>2 DEF Row
<1> HIDE DEF u
<1>3. ASSUME NEW j \in Job
      PROVE  /\ u[j].status \in Live <=> t[j].status \in Live
             /\ u[j].status \in Terminal \/ t[j].status \in Terminal
                  => u[j].status = t[j].status
             /\ u[j].status = "absent" => t[j].status = "absent"
             /\ Open(u[j]) <=> Open(t[j])
  BY <1>2 DEF Live, Terminal, Open
<1>4. \A p \in Job : LiveChildren(u, p) = LiveChildren(t, p)
  BY <1>2, <1>3 DEF LiveChildren, Children
<1>5. Rooted(u)
  BY <1>2, <1>3 DEF Family, Rooted
<1>6. Quota(u, ib)
  BY <1>2, <1>3 DEF Family, Quota
<1>7. WaitsBut(u, S)
  <2> SUFFICES ASSUME NEW p \in Job, p \notin S,
                      u[p].status = "waiting-children"
               PROVE  LiveChildren(t, p) # {}
    BY <1>4 DEF WaitsBut
  <2>1. ~freed(p) /\ t[p].status = "waiting-children"
    BY <1>2
  <2> QED
    BY <2>1 DEF Family, WaitsBut
<1>8. NobodyResumes => Resolved(u)
  <2> SUFFICES ASSUME NobodyResumes, NEW p \in Job
               PROVE  /\ u[p].status \in Runnable => LiveChildren(t, p) = {}
                      /\ u[p].status # "paused"
    BY <1>4 DEF Resolved
  <2>1. /\ t[p].status \in Runnable => LiveChildren(t, p) = {}
        /\ t[p].status # "paused"
    BY DEF Family, Resolved
  <2> QED
    BY <1>2, <2>1
<1>9. AllTold => Told(u, ib)
  BY <1>2, <1>3 DEF Family, Told
<1> QED
  BY <1>1, <1>5, <1>6, <1>7, <1>8, <1>9 DEF Family, u

\* The parents of the rows that fail while they wait themselves.
Bereft(t, u) ==
  {q \in Job : \E c \in Children(t, q) :
     t[c].status = "waiting-children" /\ u[c].status = "failed"}

\* A parent that fails with its child may leave its own parent behind.
LEMMA FailParentFamily ==
  ASSUME NEW t, NEW ib, NEW Q, Family(t, ib, Q), NEW p, NEW S,
         \A q \in Job : q \in Q => q = p \/ q \in S,
         AllTold =>
           (p \in Job /\ t[p].status \in Live => t[p].parent_job_id = NoJob)
  PROVE  Family(FailParent(t, p), ib, S \cup Bereft(t, FailParent(t, p)))
<1> DEFINE u == FailParent(t, p)
           fails(q) == q = p /\ t[q].status = "waiting-children"
<1>1. Table(u)
  BY FailParentTable DEF Family
<1>2. ASSUME NEW j \in Job
      PROVE  /\ u[j].parent_job_id = t[j].parent_job_id /\ u[j].opt = t[j].opt
             /\ u[j].retries = t[j].retries
             /\ u[j].lock_token = t[j].lock_token
             /\ fails(j) => u[j].status = "failed"
             /\ ~fails(j) => u[j].status = t[j].status
  <2>1. t[j] \in Row
    BY FamilyTypes
  <2>2. u[j] = IF fails(j) THEN [t[j] EXCEPT !.status = "failed"] ELSE t[j]
    BY DEF FailParent
  <2> QED
    BY <2>1, <2>2 DEF Row
<1> HIDE DEF u
<1>3. ASSUME NEW j \in Job
      PROVE  /\ u[j].status \in Live => t[j].status = u[j].status
             /\ u[j].status \in Live \cup Terminal
                  <=> t[j].status \in Live \cup Terminal
             /\ u[j].status = "absent" => t[j].status = "absent"
             /\ Open(u[j]) => Open(t[j])
  BY <1>2 DEF Live, Terminal, Open
<1>4. \A q \in Job : LiveChildren(u, q) \subseteq LiveChildren(t, q)
  BY <1>2, <1>3 DEF LiveChildren, Children
<1>5. Rooted(u)
  BY <1>2, <1>3 DEF Family, Rooted
<1>6. Quota(u, ib)
  <2> SUFFICES ASSUME NEW q \in Job, NEW c \in Job
               PROVE  /\ Len(ib[<<q, c>>]) <= 1 + u[c].retries
                      /\ Open(u[c]) => Len(ib[<<q, c>>]) <= u[c].retries
                      /\ u[c].status = "absent" => Len(ib[<<q, c>>]) = 0
    BY DEF Quota
  <2>1. /\ Len(ib[<<q, c>>]) \in Nat /\ t[c].retries \in Nat
    BY FamilyTypes DEF Row
  <2>2. /\ Len(ib[<<q, c>>]) <= 1 + t[c].retries
        /\ Open(t[c]) => Len(ib[<<q, c>>]) <= t[c].retries
        /\ t[c].status = "absent" => Len(ib[<<q, c>>]) = 0
    BY DEF Family, Quota
  <2>3. /\ Open(u[c]) => Open(t[c])
        /\ u[c].status = "absent" => t[c].status = "absent"
        /\ u[c].retries = t[c].retries
    BY <1>2, <1>3
  <2>4. CASE Open(u[c])
    BY <2>1, <2>2, <2>3, <2>4
  <2>5. CASE ~Open(u[c])
    BY <2>1, <2>2, <2>3, <2>5
  <2> QED
    BY <2>4, <2>5
<1>7. WaitsBut(u, S \cup Bereft(t, u))
  <2> SUFFICES ASSUME NEW q \in Job, q \notin S, q \notin Bereft(t, u),
                      u[q].status = "waiting-children"
               PROVE  LiveChildren(u, q) # {}
    BY DEF WaitsBut
  <2>1. q # p /\ t[q].status = "waiting-children"
    BY <1>2
  <2>2. PICK c \in Job : t[c].parent_job_id = q /\ t[c].status \in Live
    BY <2>1 DEF Family, WaitsBut, LiveChildren, Children
  <2>3. ~fails(c)
    BY <1>2, <2>2 DEF Bereft, Children
  <2> QED
    BY <1>2, <2>2, <2>3 DEF LiveChildren, Children
<1>8. NobodyResumes => Resolved(u)
  <2> SUFFICES ASSUME NobodyResumes, NEW q \in Job
               PROVE  /\ u[q].status \in Runnable => LiveChildren(u, q) = {}
                      /\ u[q].status # "paused"
    BY DEF Resolved
  <2>1. /\ t[q].status \in Runnable => LiveChildren(t, q) = {}
        /\ t[q].status # "paused"
    BY DEF Family, Resolved
  <2> QED
    BY <1>2, <1>4, <2>1 DEF Runnable
<1>9. AllTold => Told(u, ib)
  <2> SUFFICES ASSUME AllTold, NEW q \in Job, NEW c \in Job,
                      u[c].parent_job_id = q, u[c].status \in Terminal,
                      u[q].status \in Live
               PROVE  /\ ib[<<q, c>>] # <<>>
                      /\ ib[<<q, c>>][Len(ib[<<q, c>>])]
                           \in OutcomesOf(u[c].status)
    BY DEF Told
  <2>1. ~fails(c)
    BY <1>2, IdsAssumption DEF Live
  <2> QED
    BY <1>2, <1>3, <2>1 DEF Family, Told
<1> QED
  BY <1>1, <1>5, <1>6, <1>7, <1>8, <1>9 DEF Family, u

\* A row that ended is deleted: no one waits for it, and its children and the
\* messages to it are nobody's.
LEMMA DeleteFamily ==
  ASSUME NEW t, NEW ib, NEW P, Family(t, ib, P), NEW d \in Job,
         t[d].status \in Terminal
  PROVE  Family(Delete(t, d), PurgeInbox(ib, d), P)
<1> DEFINE u == Delete(t, d)
           jb == PurgeInbox(ib, d)
<1>1. Table(u) /\ InboxOK(jb)
  BY DeleteTable, PurgeTyped DEF Family
<1>2. ASSUME NEW j \in Job
      PROVE  /\ u[j].retries = t[j].retries
             /\ j = d => /\ u[j].status = "deleted" /\ u[j].lock_token = NoRun
                         /\ u[j].parent_job_id = NoJob
             /\ j # d => /\ u[j].status = t[j].status /\ u[j].opt = t[j].opt
                         /\ u[j].lock_token = t[j].lock_token
                         /\ u[j].parent_job_id =
                              IF t[j].parent_job_id = d THEN NoJob
                              ELSE t[j].parent_job_id
  <2>1. t[j] \in Row
    BY FamilyTypes
  <2>2. u[j] = IF j = d
               THEN [NoRow("deleted") EXCEPT !.retries = t[d].retries]
               ELSE IF t[j].parent_job_id = d
                    THEN [t[j] EXCEPT !.parent_job_id = NoJob] ELSE t[j]
    BY DEF Delete
  <2> QED
    BY <2>1, <2>2 DEF Row, NoRow
<1>3. ASSUME NEW p \in Job, NEW c \in Job
      PROVE  jb[<<p, c>>] = IF p = d THEN <<>> ELSE ib[<<p, c>>]
  BY DEF PurgeInbox
<1> HIDE DEF u, jb
<1>4. \A p \in Job : LiveChildren(u, p) =
                       IF p = d THEN {} ELSE LiveChildren(t, p)
  BY <1>2, IdsAssumption DEF LiveChildren, Children, Live, Terminal
<1>5. Rooted(u)
  BY <1>2, IdsAssumption DEF Family, Rooted, Live, Terminal
<1>6. Quota(u, jb)
  <2> SUFFICES ASSUME NEW p \in Job, NEW c \in Job
               PROVE  /\ Len(jb[<<p, c>>]) <= 1 + u[c].retries
                      /\ Open(u[c]) => Len(jb[<<p, c>>]) <= u[c].retries
                      /\ u[c].status = "absent" => Len(jb[<<p, c>>]) = 0
    BY DEF Quota
  <2>1. Len(ib[<<p, c>>]) \in Nat /\ t[c].retries \in Nat
    BY FamilyTypes DEF Row
  <2>2. /\ Len(ib[<<p, c>>]) <= 1 + t[c].retries
        /\ Open(t[c]) => Len(ib[<<p, c>>]) <= t[c].retries
        /\ t[c].status = "absent" => Len(ib[<<p, c>>]) = 0
    BY DEF Family, Quota
  <2>3. Len(jb[<<p, c>>]) \in Nat /\ Len(jb[<<p, c>>]) <= Len(ib[<<p, c>>])
    BY <1>3, <2>1
  <2>4. /\ Open(u[c]) => Open(t[c])
        /\ u[c].status = "absent" => t[c].status = "absent"
        /\ u[c].retries = t[c].retries
    BY <1>2 DEF Live, Open
  <2>5. CASE Open(u[c])
    BY <2>1, <2>2, <2>3, <2>4, <2>5
  <2>6. CASE ~Open(u[c])
    BY <2>1, <2>2, <2>3, <2>4, <2>6
  <2> QED
    BY <2>5, <2>6
<1>7. WaitsBut(u, P)
  BY <1>2, <1>4 DEF Family, WaitsBut
<1>8. NobodyResumes => Resolved(u)
  BY <1>2, <1>4 DEF Family, Resolved, Runnable
<1>9. AllTold => Told(u, jb)
  <2> SUFFICES ASSUME AllTold, NEW p \in Job, NEW c \in Job,
                      u[c].parent_job_id = p, u[c].status \in Terminal,
                      u[p].status \in Live
               PROVE  /\ jb[<<p, c>>] # <<>>
                      /\ jb[<<p, c>>][Len(jb[<<p, c>>])]
                           \in OutcomesOf(u[c].status)
    BY DEF Told
  <2>1. p # d /\ c # d
    BY <1>2 DEF Live, Terminal
  <2>2. t[c].parent_job_id = p /\ t[c].status = u[c].status
        /\ t[p].status \in Live
    BY <1>2, <2>1, IdsAssumption
  <2>3. jb[<<p, c>>] = ib[<<p, c>>]
    BY <1>3, <2>1
  <2> QED
    BY <2>2, <2>3 DEF Family, Told
<1> QED
  BY <1>1, <1>5, <1>6, <1>7, <1>8, <1>9 DEF Family, u, jb

\* A child that ended is taken from its parent (the policy remove_dep).
LEMMA DetachFamily ==
  ASSUME NEW t, NEW ib, NEW P, Family(t, ib, P), NEW d \in Job,
         t[d].status \in Terminal,
         NEW u, Table(u), u = [t EXCEPT ![d].parent_job_id = NoJob]
  PROVE  Family(u, ib, P)
<1>1. ASSUME NEW j \in Job
      PROVE  /\ u[j].status = t[j].status /\ u[j].opt = t[j].opt
             /\ u[j].retries = t[j].retries
             /\ u[j].lock_token = t[j].lock_token
             /\ u[j].parent_job_id =
                  IF j = d THEN NoJob ELSE t[j].parent_job_id
  BY FamilyTypes DEF Row
<1>2. \A p \in Job : LiveChildren(u, p) = LiveChildren(t, p)
  BY <1>1, IdsAssumption DEF LiveChildren, Children, Live, Terminal
<1>3. Rooted(u)
  BY <1>1, IdsAssumption DEF Family, Rooted
<1>4. Quota(u, ib)
  <2>1. \A j \in Job : /\ Open(u[j]) <=> Open(t[j])
                       /\ u[j].status = t[j].status
                       /\ u[j].retries = t[j].retries
    BY <1>1 DEF Open
  <2> QED
    BY <2>1 DEF Family, Quota
<1>5. WaitsBut(u, P)
  BY <1>1, <1>2 DEF Family, WaitsBut
<1>6. NobodyResumes => Resolved(u)
  BY <1>1, <1>2 DEF Family, Resolved
<1>7. AllTold => Told(u, ib)
  BY <1>1, IdsAssumption DEF Family, Told
<1> QED
  BY <1>3, <1>4, <1>5, <1>6, <1>7 DEF Family

-----------------------------------------------------------------------------
(* The transactions that end rows.                                         *)

\* The columns of x that no transaction but a deletion or a retry changes.
Kin(x, y) ==
  /\ y.parent_job_id = x.parent_job_id /\ y.opt = x.opt
  /\ y.retries = x.retries

LEMMA UnlockShape ==
  ASSUME NEW x \in Row, NEW s
  PROVE  /\ Unlock(x, s).status = s /\ Kin(x, Unlock(x, s))
         /\ Unlock(x, s).lock_token = NoRun
         /\ Unlock(x, s).attempts_made = x.attempts_made
         /\ Unlock(x, s).stalled_counter = x.stalled_counter
         /\ DOMAIN Unlock(x, s) = DOMAIN x
BY DEF Unlock, Kin, Row

LEMMA DeadShape ==
  ASSUME NEW x \in Row
  PROVE  /\ Dead(x).status = "dead" /\ Kin(x, Dead(x))
         /\ Dead(x).lock_token = NoRun
         /\ DOMAIN Dead(x) = DOMAIN x
BY DEF Dead, Unlock, Kin, Row

\* One row changes.
LEMMA OneSettles ==
  ASSUME NEW t \in [Job -> Row], NEW j \in Job, NEW y, Kin(t[j], y),
         NEW u, u = [t EXCEPT ![j] = y]
  PROVE  /\ Stays(t[j].status, y.status) /\ (Open(y) => Open(t[j]))
              => Settles(t, u, {})
         /\ /\ t[j].status \in Live /\ y.status \in Terminal
            /\ y.lock_token = NoRun
            => Settles(t, u, {j})
BY DEF Settles, Stays, Kin

\* The rows C of the table change, as y says.
LEMMA ManySettle ==
  ASSUME NEW C, NEW y, NEW D,
         \A j \in Job : j \in D => j \in C,
         \A j \in Job : j \in C =>
           /\ Kin(row[j], y[j])
           /\ j \in D => /\ row[j].status \in Live /\ y[j].status \in Terminal
                         /\ y[j].lock_token = NoRun
           /\ j \notin D => /\ Stays(row[j].status, y[j].status)
                            /\ Open(y[j]) => Open(row[j]),
         NEW t, t = [j \in Job |-> IF j \in C THEN y[j] ELSE row[j]]
  PROVE  Settles(row, t, D)
BY DEF Settles, Stays, Kin

LEMMA KilledFamily ==
  ASSUME NEW S, Family(row, inbox, S), NEW t, Table(t), NEW C, Settles(row, t, C),
         NEW o \in Outcomes,
         \A c \in Job : c \in C => o \in OutcomesOf(t[c].status),
         KillJobs(t, C, o)
  PROVE  Family(row', inbox', S)
<1>1. Family(t, Report(t, C, o), S \cup Parents(row, C \cap Job))
  BY SettledFamily
<1>2. Family(Unblock(t, Parents(row, C)), Report(t, C, o), S)
  <2>1. Parents(row, C \cap Job) \subseteq Parents(row, C)
    BY DEF Parents
  <2> QED
    BY <1>1, <2>1, UnblockFamily
<1> QED
  BY <1>2 DEF KillJobs

\* A cancel that leaves some parents of the rows it ends unlooked at.
LEMMA RowsFamily ==
  ASSUME NEW S, Family(row, inbox, S),
         NEW C, \A j \in Job : j \in C => row[j].status \in Live,
         NEW P, CancelRows(C, P)
  PROVE  Family(row', inbox', S \cup (Parents(row, C) \ P))
<1> DEFINE y == [j \in Job |-> Unlock(row[j], "cancelled")]
           t == CancelledTable(C)
           missed == S \cup (Parents(row, C) \ P)
<1>1. row' = Unblock(t, P) /\ inbox' = Report(t, C, "cancelled")
  BY DEF CancelRows, CancelledTable
<1>2. Table(t)
  BY CancelTable DEF Family
<1>3. t = [j \in Job |-> IF j \in C THEN y[j] ELSE row[j]]
  BY DEF CancelledTable
<1>4. \A j \in Job : /\ Kin(row[j], y[j]) /\ y[j].status = "cancelled"
                     /\ y[j].lock_token = NoRun
  BY FamilyTypes, UnlockShape
<1> HIDE DEF y, t
<1>5. Settles(row, t, C)
  BY <1>3, <1>4, ManySettle DEF Terminal
<1>6. \A c \in Job : c \in C => "cancelled" \in OutcomesOf(t[c].status)
  BY <1>3, <1>4 DEF OutcomesOf
<1>7. Family(t, Report(t, C, "cancelled"), S \cup Parents(row, C \cap Job))
  BY <1>2, <1>5, <1>6, SettledFamily DEF Outcomes
<1>8. \A p \in Job : p \in S \cup Parents(row, C \cap Job)
                     => p \in P \/ p \in missed
  BY DEF Parents
<1> HIDE DEF missed
<1>9. Family(Unblock(t, P), Report(t, C, "cancelled"), missed)
  BY <1>7, <1>8, UnblockFamily
<1> QED
  BY <1>1, <1>9 DEF missed

LEMMA CancelFamily ==
  ASSUME NEW S, Family(row, inbox, S), NEW roots, CancelJobs(roots)
  PROVE  Family(row', inbox', S)
<1> DEFINE C == CancelledRows(roots)
<1>1. \A j \in Job : j \in C => row[j].status \in Live
  BY DEF CancelledRows
<1>2. CancelRows(C, Parents(row, C))
  BY DEF CancelJobs
<1> HIDE DEF C
<1>3. Family(row', inbox', S \cup (Parents(row, C) \ Parents(row, C)))
  BY <1>1, <1>2, RowsFamily
<1>4. S \cup (Parents(row, C) \ Parents(row, C)) = S
  OBVIOUS
<1> QED
  BY <1>3, <1>4

LEMMA OverlapFamily ==
  ASSUME NEW S, Family(row, inbox, S), NEW a \in CancelCalls,
         NEW b \in CancelCalls, CancelsOverlap(a, b)
  PROVE  Family(row', inbox', S \cup (Parents(row, a.rows) \cap Parents(row, b.rows)))
<1> DEFINE C == a.rows \cup b.rows
           shared == Parents(row, a.rows) \cap Parents(row, b.rows)
<1>1. \A j \in Job : j \in C => row[j].status \in Live
  BY CallShape
<1>2. CancelRows(C, Parents(row, C) \ shared)
  BY DEF CancelsOverlap
<1>3. shared \subseteq Parents(row, C)
  BY DEF Parents
<1> HIDE DEF C, shared
<1>4. Parents(row, C) \ (Parents(row, C) \ shared) = shared
  BY <1>3
<1>5. Family(row', inbox',
             S \cup (Parents(row, C) \ (Parents(row, C) \ shared)))
  BY <1>1, <1>2, RowsFamily
<1> QED
  BY <1>4, <1>5 DEF shared

LEMMA DeathsFamily ==
  ASSUME NEW S, Family(row, inbox, S), NEW C,
         \A j \in Job : j \in C => row[j].status = "active",
         KillJobs(DeadTable(C), C, "timeout")
  PROVE  Family(row', inbox', S)
<1> DEFINE y == [j \in Job |-> Dead(row[j])]
           t == DeadTable(C)
<1>1. Table(t)
  BY DeathsTable DEF Family
<1>2. t = [j \in Job |-> IF j \in C THEN y[j] ELSE row[j]]
  BY DEF DeadTable
<1>3. \A j \in Job : /\ Kin(row[j], y[j]) /\ y[j].status = "dead"
                     /\ y[j].lock_token = NoRun
  BY FamilyTypes, DeadShape
<1>4. KillJobs(t, C, "timeout")
  OBVIOUS
<1> HIDE DEF y, t
<1>5. Settles(row, t, C)
  BY <1>2, <1>3, ManySettle DEF Live, Terminal
<1>6. \A c \in Job : c \in C => "timeout" \in OutcomesOf(t[c].status)
  BY <1>2, <1>3 DEF OutcomesOf
<1> QED
  BY <1>1, <1>4, <1>5, <1>6, KilledFamily DEF Outcomes

\* Of the stalled rows some die and the others are queued again.
LEMMA StallsFamily ==
  ASSUME NEW S, Family(row, inbox, S), NEW skipped, HandleStalled(skipped)
  PROVE  Family(row', inbox', S)
<1> DEFINE C == {j \in Job \ skipped : Stalled(j)}
           D == {j \in C : OutOfStalls(row[j])}
           bump(x) == [x EXCEPT !.stalled_counter = x.stalled_counter + 1]
           requeued(x) ==
             [bump(Unlock(x, "waiting")) EXCEPT !.started_at = "null"]
           y == [j \in Job |-> IF j \in D THEN bump(Dead(row[j]))
                               ELSE requeued(row[j])]
           t == StalledTable(C, D)
<1>1. KillJobs(t, D, "dead")
  BY DEF HandleStalled, StalledTable
<1>2. /\ \A j \in Job : j \in C => row[j].status = "active"
      /\ \A j \in Job : j \in D <=> j \in C /\ OutOfStalls(row[j])
  BY DEF Stalled
<1> HIDE DEF C, D
<1>3. Table(t)
  BY <1>2, StallsTable DEF Family
<1>4. t = [j \in Job |-> IF j \in C THEN y[j] ELSE row[j]]
  BY <1>2 DEF StalledTable
<1>5. ASSUME NEW x \in Row
      PROVE  /\ Kin(x, bump(Dead(x))) /\ bump(Dead(x)).status = "dead"
             /\ bump(Dead(x)).lock_token = NoRun
             /\ Kin(x, requeued(x)) /\ requeued(x).status = "waiting"
  <2>1. DOMAIN x = DOMAIN Dead(x) /\ DOMAIN x = DOMAIN Unlock(x, "waiting")
    BY UnlockShape, DeadShape
  <2>2. /\ Dead(x).status = "dead" /\ Kin(x, Dead(x))
        /\ Dead(x).lock_token = NoRun
        /\ Unlock(x, "waiting").status = "waiting"
        /\ Kin(x, Unlock(x, "waiting"))
    BY UnlockShape, DeadShape
  <2>3. {"status", "lock_token", "parent_job_id", "opt", "retries"} \subseteq DOMAIN x
    BY DEF Row
  <2> QED
    BY <2>1, <2>2, <2>3 DEF Kin
<1> HIDE DEF bump, requeued
<1>6. \A j \in Job : j \in C =>
        /\ Kin(row[j], y[j])
        /\ j \in D => y[j].status = "dead" /\ y[j].lock_token = NoRun
        /\ j \notin D => y[j].status = "waiting"
  BY <1>5, FamilyTypes
<1> HIDE DEF y, t
<1>7. Settles(row, t, D)
  <2>1. /\ "active" \in Live \ {"waiting-children"} /\ "active" \in Runnable
        /\ "waiting" \in Live \ {"waiting-children"} /\ "waiting" \in Runnable
        /\ "dead" \in Terminal
    BY DEF Live, Terminal, Runnable
  <2>2. \A j \in Job : j \in C =>
          /\ Kin(row[j], y[j])
          /\ j \in D => /\ row[j].status \in Live /\ y[j].status \in Terminal
                        /\ y[j].lock_token = NoRun
          /\ j \notin D => /\ Stays(row[j].status, y[j].status)
                           /\ Open(y[j]) => Open(row[j])
    BY <1>2, <1>6, <2>1 DEF Stays, Open
  <2> QED
    BY <1>2, <1>4, <2>2, ManySettle
<1>8. \A c \in Job : c \in D => "dead" \in OutcomesOf(t[c].status)
  BY <1>2, <1>4, <1>6 DEF OutcomesOf
<1> QED
  BY <1>1, <1>3, <1>7, <1>8, KilledFamily DEF Outcomes

LEMMA CompletedFamily ==
  ASSUME NEW S, Family(row, inbox, S), NEW j \in Job, row[j].status = "active"
  PROVE  Family(CompletedRows(j), CompletedInbox(j), S)
<1> DEFINE t0 == [row EXCEPT ![j] = Unlock(row[j], "completed")]
           t == Unblock(t0, Parents(row, {j}))
           ib == Report(t0, {j}, "complete")
<1>1. Table(t0) /\ row \in [Job -> Row] /\ row[j] \in Row
  <2>1. RowInv(row[j]) /\ row[j].status \in Live
    BY DEF Family, Table, Live
  <2> QED
    BY <2>1, UnlockRow, UpdateTable, FamilyTypes DEF Spendable, Family
<1>2. t0[j].status = "completed" /\ Settles(row, t0, {j})
  <2>1. /\ Unlock(row[j], "completed").status = "completed"
        /\ Kin(row[j], Unlock(row[j], "completed"))
        /\ Unlock(row[j], "completed").lock_token = NoRun
    BY <1>1, UnlockShape
  <2> QED
    BY <1>1, <2>1, OneSettles DEF Live, Terminal
<1> HIDE DEF t0
<1>3. Family(t, ib, S)
  <2>1. \A c \in Job : c \in {j} => "complete" \in OutcomesOf(t0[c].status)
    BY <1>2 DEF OutcomesOf
  <2>2. Family(t0, ib, S \cup Parents(row, {j} \cap Job))
    BY <1>1, <1>2, <2>1, SettledFamily DEF Outcomes
  <2>3. {j} \cap Job = {j}
    OBVIOUS
  <2> QED
    BY <2>2, <2>3, UnblockFamily
<1>4. t[j].status = "completed"
  BY <1>2 DEF Unblock
<1>5. Family(Delete(t, j), PurgeInbox(ib, j), S)
  BY <1>3, <1>4, DeleteFamily DEF Terminal
<1> QED
  BY <1>3, <1>5 DEF CompletedRows, CompletedInbox, t0

\* The parent that fails with its child is a root.
LEMMA RootsFail ==
  ASSUME OnlyRootsFail, NEW t, t \in [Job -> Row], Rooted(t),
         NEW j \in Job, t[j].status \in Live \cup Terminal,
         t[j].opt.on_child_fail = "fail_parent",
         NEW p \in Job, t[j].parent_job_id = p, t[p].status \in Live
  PROVE  t[p].parent_job_id = NoJob
<1>1. /\ t[j].opt \in Submissions[j] /\ t[j].opt.parent_job_id = p
  BY IdsAssumption DEF Rooted
<1>2. \A q \in Submissions[p] : q.parent_job_id = NoJob
  BY <1>1, IdsAssumption DEF OnlyRootsFail
<1>3. /\ t[p].opt \in Submissions[p]
      /\ t[p].parent_job_id \in {t[p].opt.parent_job_id, NoJob}
  BY DEF Rooted
<1> QED
  BY <1>2, <1>3

LEMMA FailedShape ==
  ASSUME NEW j \in Job, row[j] \in Row, NEW s
  PROVE  /\ FailedRow(j, s).status = s /\ Kin(row[j], FailedRow(j, s))
         /\ FailedRow(j, s).lock_token = NoRun
         /\ DOMAIN FailedRow(j, s) = DOMAIN row[j]
BY DEF FailedRow, Unlock, Kin, Row

LEMMA FailedFamily ==
  ASSUME NEW S, Family(row, inbox, S), NEW j \in Job, row[j].status = "active",
         NEW s \in {"delayed", "dead"},
         s = "delayed" => row[j].attempts_made + 1 < row[j].opt.max_attempts
  PROVE  Family(FailedRows(j, s), FailedInbox(j, s),
                S \cup Bereft(row, FailedRows(j, s)))
<1> DEFINE p == row[j].parent_job_id
           policy == row[j].opt.on_child_fail
           t == [row EXCEPT ![j] = FailedRow(j, s)]
           cut == [t EXCEPT ![j].parent_job_id = NoJob]
           hooked == CASE policy = "fail_parent" -> FailParent(t, p)
                       [] policy = "remove_dep" -> Unblock(cut, {p})
                       [] OTHER -> Unblock(t, {p})
           ib == Report(t, {j}, s)
<1>1. /\ Table(t) /\ row \in [Job -> Row] /\ row[j] \in Row
      /\ Table(row) /\ Rooted(row)
  <2>1. RowInv(row[j])
    BY DEF Family, Table
  <2> QED
    BY <2>1, FailedRowInv, UpdateTable, FamilyTypes DEF Family
<1>2. /\ FailedRow(j, s).status = s /\ Kin(row[j], FailedRow(j, s))
      /\ FailedRow(j, s).lock_token = NoRun
      /\ t[j] = FailedRow(j, s) /\ \A i \in Job : i # j => t[i] = row[i]
  BY <1>1, FailedShape
<1>3. CASE s = "delayed"
  <2>1. Settles(row, t, {})
    <3>1. /\ Stays(row[j].status, FailedRow(j, s).status)
          /\ Open(row[j])
      BY <1>2, <1>3 DEF Stays, Open, Live, Runnable
    <3> QED
      BY <1>1, <1>2, <3>1, OneSettles
  <2> HIDE DEF t
  <2>2. Family(t, inbox, S)
    BY <1>1, <2>1, ShapeFamily
  <2>3. Family(t, inbox, S \cup Bereft(row, t))
    BY <2>2, FamilyWeakens
  <2> QED
    BY <1>3, <2>3 DEF FailedRows, FailedInbox, t
<1>4. CASE s = "dead"
  <2>1. Settles(row, t, {j})
    BY <1>1, <1>2, <1>4, OneSettles DEF Live, Terminal
  <2>2. Table(cut)
    BY <1>1, DetachTable
  <2>3. cut = [t EXCEPT ![j].parent_job_id = NoJob]
    OBVIOUS
  <2>4. \A i \in Job : cut[i].status = t[i].status
    BY <1>1 DEF Table, Row
  <2>14. \A u : Bereft(t, u) \subseteq Bereft(row, u)
    <3>1. \A i \in Job : t[i].status = "waiting-children" =>
            i # j /\ t[i] = row[i]
      BY <1>2, <1>4
    <3> QED
      BY <3>1 DEF Bereft, Children
  <2> HIDE DEF t, cut
  <2>5. Family(t, ib, S \cup {p})
    <3>1. \A c \in Job : c \in {j} => s \in OutcomesOf(t[c].status)
      BY <1>2, <1>4 DEF OutcomesOf
    <3>2. Family(t, ib, S \cup Parents(row, {j} \cap Job))
      BY <1>1, <1>4, <2>1, <3>1, SettledFamily DEF Outcomes
    <3>3. Parents(row, {j} \cap Job) = {p}
      BY DEF Parents
    <3> QED
      BY <3>2, <3>3
  <2>6. t[j].status \in Terminal
    BY <1>2, <1>4 DEF Terminal
  <2>7. Family(cut, ib, S \cup {p})
    BY <2>2, <2>3, <2>5, <2>6, DetachFamily
  <2>8. ASSUME policy = "fail_parent"
        PROVE  Family(FailParent(t, p), ib, S \cup Bereft(t, FailParent(t, p)))
    <3>1. ASSUME AllTold, p \in Job, t[p].status \in Live
          PROVE  t[p].parent_job_id = NoJob
      <4>1. p # j
        BY <2>6, <3>1 DEF Live, Terminal
      <4>2. t[p] = row[p]
        BY <1>2, <3>1, <4>1
      <4>3. OnlyRootsFail
        BY <3>1 DEF AllTold
      <4>4. row[j].status \in Live \cup Terminal
        BY DEF Live
      <4> QED
        BY <1>1, <2>8, <3>1, <4>2, <4>3, <4>4, RootsFail
    <3> QED
      BY <2>5, <3>1, FailParentFamily
  <2>9. Family(Unblock(cut, {p}), ib, S) /\ Family(Unblock(t, {p}), ib, S)
    BY <2>5, <2>7, UnblockFamily
  <2>10. Family(hooked, ib, S \cup Bereft(row, hooked))
    <3>1. CASE policy = "fail_parent"
      <4>1. hooked = FailParent(t, p)
        BY <3>1
      <4> QED
        BY <2>8, <2>14, <3>1, <4>1, FamilyWeakens
    <3>2. CASE policy # "fail_parent"
      <4>1. Family(hooked, ib, S)
        BY <2>9, <3>2
      <4> QED
        BY <4>1, FamilyWeakens
    <3> QED
      BY <3>1, <3>2
  <2>11. hooked[j].status \in Terminal
    <3>1. /\ FailParent(t, p)[j].status \in Terminal
          /\ Unblock(cut, {p})[j].status \in Terminal
          /\ Unblock(t, {p})[j].status \in Terminal
      BY <2>4, <2>6 DEF FailParent, Unblock, Terminal
    <3> QED
      BY <3>1
  <2>12. /\ FailedRows(j, s) = IF row[j].opt.remove_on_fail
                               THEN Delete(hooked, j) ELSE hooked
         /\ FailedInbox(j, s) = IF row[j].opt.remove_on_fail
                                THEN PurgeInbox(ib, j) ELSE ib
    BY <1>4 DEF FailedRows, FailedInbox, t, cut
  <2> HIDE DEF hooked, ib
  <2>13. Family(Delete(hooked, j), PurgeInbox(ib, j),
                S \cup Bereft(row, Delete(hooked, j)))
    <3>1. \A c \in Job : /\ row[c].status = "waiting-children"
                          /\ hooked[c].status = "failed"
                          => Delete(hooked, j)[c].status = "failed"
      <4> SUFFICES ASSUME NEW c \in Job, c # j, hooked[c].status = "failed"
                   PROVE  Delete(hooked, j)[c].status = "failed"
        OBVIOUS
      <4>1. hooked[c] \in Row
        BY <2>10, FamilyTypes
      <4> QED
        BY <4>1 DEF Delete, Row
    <3>2. Bereft(row, hooked) \subseteq Bereft(row, Delete(hooked, j))
      BY <3>1 DEF Bereft, Children
    <3>3. Family(Delete(hooked, j), PurgeInbox(ib, j),
                 S \cup Bereft(row, hooked))
      BY <2>10, <2>11, DeleteFamily
    <3> QED
      BY <3>2, <3>3, FamilyWeakens
  <2> QED
    BY <2>10, <2>12, <2>13
<1> QED
  BY <1>3, <1>4

-----------------------------------------------------------------------------
(* The actions.  That the tables they leave are tables is known from the    *)
(* invariant of the queue.                                                 *)

Before(S) == QueueInv /\ Family(row, inbox, S) /\ SkipsAllowed
After == Table(row') /\ InboxOK(inbox')

LEMMA Quiet ==
  ASSUME NEW S, Before(S), After, UNCHANGED inbox, Settles(row, row', {})
  PROVE  Family(row', inbox', S)
BY ShapeFamily DEF Before, After

LEMMA SettlesSelf == ASSUME NEW t PROVE Settles(t, t, {})
BY DEF Settles, Stays

LEMMA FinishSettles ==
  ASSUME NEW r \in Run, NEW t \in [Job -> Row], Finish(r, t), NEW u, Settles(u, t, {})
  PROVE  Settles(u, row', {})
<1>1. \A j \in Job : /\ Kin(t[j], row'[j]) /\ row'[j].status = t[j].status
                     /\ Open(row'[j]) => Open(t[j])
  BY IdsAssumption DEF Finish, Retire, Kin, Row, Open
<1> QED
  BY <1>1 DEF Settles, Stays, Kin

LEMMA FinishFamily ==
  ASSUME After, NEW r \in Run, NEW t, NEW P, Family(t, inbox', P), Finish(r, t)
  PROVE  Family(row', inbox', P)
<1>1. Settles(t, row', {})
  BY FamilyTypes, SettlesSelf, FinishSettles
<1> QED
  BY <1>1, ShapeFamily DEF After

\* One row is given new columns y and stays what it is for its family.
LEMMA OneQuiet ==
  ASSUME NEW S, Before(S), After, UNCHANGED inbox, NEW j \in Job, NEW y,
         Kin(row[j], y), Stays(row[j].status, y.status),
         Open(y) => Open(row[j]),
         row' = [row EXCEPT ![j] = y]
  PROVE  Family(row', inbox', S)
<1>1. Settles(row, row', {})
  BY FamilyTypes, OneSettles DEF Before
<1> QED
  BY <1>1, Quiet

LEMMA ClocksFamily ==
  ASSUME NEW S, Before(S), After, NEW j \in Job,
         LeaseAges(j) \/ DeadlinePasses(j) \/ StartAges(j)
  PROVE  Family(row', inbox', S)
<1>1. row \in [Job -> Row] /\ row[j] \in Row
  BY FamilyTypes DEF Before
<1>2. PICK y : /\ row' = [row EXCEPT ![j] = y] /\ Kin(row[j], y)
               /\ y.status = row[j].status /\ y.lock_token = row[j].lock_token
  <2>1. CASE LeaseAges(j)
    <3> DEFINE y == [row[j] EXCEPT !.lock_until =
                       IF row[j].lock_until = "live" THEN "grace" ELSE "lapsed"]
    <3>1. row' = [row EXCEPT ![j] = y]
      BY <2>1, <1>1 DEF LeaseAges
    <3>2. /\ Kin(row[j], y) /\ y.status = row[j].status
          /\ y.lock_token = row[j].lock_token
      BY <1>1 DEF Kin, Row
    <3> QED
      BY <3>1, <3>2
  <2>2. CASE DeadlinePasses(j)
    <3> DEFINE y == [row[j] EXCEPT !.timeout_at = "past"]
    <3>1. row' = [row EXCEPT ![j] = y]
      BY <2>2, <1>1 DEF DeadlinePasses
    <3>2. /\ Kin(row[j], y) /\ y.status = row[j].status
          /\ y.lock_token = row[j].lock_token
      BY <1>1 DEF Kin, Row
    <3> QED
      BY <3>1, <3>2
  <2>3. CASE StartAges(j)
    <3> DEFINE y == [row[j] EXCEPT !.started_at = "old"]
    <3>1. row' = [row EXCEPT ![j] = y]
      BY <2>3, <1>1 DEF StartAges
    <3>2. /\ Kin(row[j], y) /\ y.status = row[j].status
          /\ y.lock_token = row[j].lock_token
      BY <1>1 DEF Kin, Row
    <3> QED
      BY <3>1, <3>2
  <2> QED
    BY <2>1, <2>2, <2>3
<1>3. UNCHANGED inbox
  BY DEF LeaseAges, DeadlinePasses, StartAges
<1> QED
  BY <1>2, <1>3, OneQuiet DEF Stays, Open

LEMMA PauseResumeFamily ==
  ASSUME NEW S, Before(S), After, NEW j \in Job, PauseJob(j) \/ ResumeJob(j)
  PROVE  Family(row', inbox', S)
<1>1. row[j] \in Row
  BY FamilyTypes DEF Before
<1>2. PICK s \in {"paused", "waiting"} :
        /\ row' = [row EXCEPT ![j] = Unlock(row[j], s)] /\ UNCHANGED inbox
        /\ Stays(row[j].status, s) /\ Open(row[j])
  <2>1. CASE PauseJob(j)
    <3>1. ~NobodyResumes
      BY <2>1 DEF PauseJob, NobodyResumes
    <3> QED
      BY <2>1, <3>1 DEF PauseJob, Stays, Open, Live
  <2>2. CASE ResumeJob(j)
    <3>1. ~NobodyResumes
      BY <2>2 DEF ResumeJob, Before, Family, Resolved
    <3> QED
      BY <2>2, <3>1 DEF ResumeJob, Stays, Open, Live
  <2> QED
    BY <2>1, <2>2
<1>3. /\ Kin(row[j], Unlock(row[j], s))
      /\ Stays(row[j].status, Unlock(row[j], s).status)
  BY <1>1, <1>2, UnlockShape
<1> QED
  BY <1>2, <1>3, OneQuiet

LEMMA PromoteFamily ==
  ASSUME NEW S, Before(S), After, NEW D, PromoteDelayed(D)
  PROVE  Family(row', inbox', S)
<1> DEFINE n(x) == [Unlock(x, "waiting") EXCEPT !.started_at = "null"]
           y == [j \in Job |-> n(row[j])]
<1>1. ASSUME NEW x \in Row PROVE Kin(x, n(x)) /\ n(x).status = "waiting"
  BY DEF Unlock, Kin, Row
<1>2. row' = [j \in Job |-> IF j \in D THEN y[j] ELSE row[j]]
  BY DEF PromoteDelayed
<1> HIDE DEF n
<1>3. \A j \in Job : j \in D =>
        /\ Kin(row[j], y[j]) /\ Stays(row[j].status, y[j].status)
        /\ Open(row[j])
  BY <1>1, FamilyTypes
     DEF Before, PromoteDelayed, Stays, Open, Live, Runnable
<1> HIDE DEF y
<1>4. Settles(row, row', {})
  BY <1>2, <1>3, ManySettle
<1> QED
  BY <1>4, Quiet DEF PromoteDelayed

LEMMA ClaimFamily ==
  ASSUME NEW S, Before(S), After, NEW r \in Run, NEW j \in Job, Claim(r, j)
  PROVE  Family(row', inbox', S)
<1>1. row[j] \in Row
  BY FamilyTypes DEF Before
<1>2. PICK y : /\ row' = [row EXCEPT ![j] = y]
               /\ Kin(row[j], y) /\ y.status = "active"
  <2> DEFINE y == [row[j] EXCEPT
          !.status = "active", !.lock_token = r, !.lock_until = "live",
          !.timeout_at = IF row[j].opt.timeout_ms THEN "ahead" ELSE "null",
          !.attempts_started = IF @ < StartCap THEN @ + 1 ELSE @,
          !.started_at = IF @ = "null" THEN "recent" ELSE @]
  <2>1. row' = [row EXCEPT ![j] = y]
    BY DEF Claim
  <2>2. Kin(row[j], y) /\ y.status = "active"
    BY <1>1 DEF Kin, Row
  <2> HIDE DEF y
  <2> QED
    BY <2>1, <2>2
<1>3. row[j].status = "waiting" /\ UNCHANGED inbox
  BY DEF Claim
<1> QED
  BY <1>2, <1>3, OneQuiet DEF Stays, Open, Live, Runnable

LEMMA RenewFamily ==
  ASSUME NEW S, Before(S), After, NEW r \in Run,
         Launch(r) \/ RenewLock(r) \/ RenewalGivesUp(r) \/ TimeoutFires(r)
  PROVE  Family(row', inbox', S)
<1>1. CASE UNCHANGED row
  BY <1>1, SettlesSelf, Quiet
     DEF Launch, RenewLock, RenewalGivesUp, TimeoutFires
<1>2. CASE RenewLock(r) /\ Fenced(r)
  <2> DEFINE j == run[r].job
             y == [row[j] EXCEPT !.lock_until = "live"]
  <2>1. j \in Job
    BY <1>2 DEF Before, RenewLock, QueueInv, RunsOK, RunState
  <2>2. row[j] \in Row
    BY <2>1, FamilyTypes DEF Before
  <2>3. row' = [row EXCEPT ![j] = y] /\ UNCHANGED inbox
    BY <1>2 DEF RenewLock
  <2>4. /\ Kin(row[j], y) /\ y.status = row[j].status
        /\ y.lock_token = row[j].lock_token
    BY <2>2 DEF Kin, Row
  <2> HIDE DEF y
  <2> QED
    BY <2>1, <2>3, <2>4, OneQuiet DEF Stays, Open
<1> QED
  BY <1>1, <1>2 DEF Launch, RenewLock, RenewalGivesUp, TimeoutFires

LEMMA LeavingFamily ==
  ASSUME NEW S, Before(S), After, NEW r \in Run, ReleaseLeaseFullJob(r) \/ Abandon(r)
  PROVE  Family(row', inbox', S)
<1> DEFINE j == run[r].job
<1>1. row \in [Job -> Row] /\ UNCHANGED inbox
  BY FamilyTypes DEF Before, ReleaseLeaseFullJob, Abandon
<1>2. CASE Finish(r, row)
  BY <1>1, <1>2, SettlesSelf, FinishSettles, Quiet
<1>3. CASE ReleaseLeaseFullJob(r) /\ Fenced(r)
  <2> DEFINE y == [Unlock(row[j], "delayed") EXCEPT !.started_at = "null"]
             t == [row EXCEPT ![j] = y]
  <2>1. j \in Job /\ row[j].status = "active"
    BY <1>3 DEF ReleaseLeaseFullJob, Fenced, Before, QueueInv, RunsOK, RunState
  <2>2. y \in Row /\ Kin(row[j], y) /\ y.status = "delayed"
    <3> DEFINE z == Unlock(row[j], "delayed")
    <3>1. z \in Row /\ Kin(row[j], z) /\ z.status = "delayed"
      <4>1. row[j] \in Row
        BY <1>1, <2>1
      <4>2. z \in Row
        BY <4>1 DEF Unlock, Row, Live
      <4> QED
        BY <4>1, <4>2, UnlockShape
    <3> HIDE DEF z
    <3>2. /\ [z EXCEPT !.started_at = "null"] \in Row
          /\ Kin(z, [z EXCEPT !.started_at = "null"])
          /\ [z EXCEPT !.started_at = "null"].status = z.status
      BY <3>1 DEF Kin, Row
    <3> QED
      BY <3>1, <3>2 DEF Kin, z
  <2>3. Finish(r, t)
    BY <1>3 DEF ReleaseLeaseFullJob
  <2> HIDE DEF y
  <2>4. t \in [Job -> Row]
    BY <1>1, <2>1, <2>2
  <2>5. Settles(row, t, {})
    <3>1. Stays(row[j].status, y.status) /\ Open(row[j])
      BY <2>1, <2>2 DEF Stays, Open, Live, Runnable
    <3> QED
      BY <1>1, <2>1, <2>2, <3>1, OneSettles
  <2> HIDE DEF t
  <2> QED
    BY <1>1, <2>3, <2>4, <2>5, FinishSettles, Quiet
<1> QED
  BY <1>2, <1>3 DEF ReleaseLeaseFullJob, Abandon

\* A run that works has a row, and may only fail it within its budget.
LEMMA RecordedCompleteFamily ==
  ASSUME NEW S, Before(S), NEW r \in Run, run[r].phase # "idle"
  PROVE  Family(RowsAfterComplete(r), InboxAfterComplete(r), S)
<1>1. run[r].job \in Job
  BY DEF Before, QueueInv, RunsOK, RunState
<1> QED
  BY <1>1, CompletedFamily
     DEF Before, Fenced, RowsAfterComplete, InboxAfterComplete

LEMMA RecordedFailFamily ==
  ASSUME NEW S, Before(S), NEW r \in Run, run[r].job \in Job,
         NEW s \in {"delayed", "dead"}, s = "delayed" => ~run[r].last
  PROVE  Family(RowsAfterFail(r, s), InboxAfterFail(r, s),
                S \cup Bereft(row, RowsAfterFail(r, s)))
<1> DEFINE j == run[r].job
<1>1. CASE Fenced(r)
  <2>1. row[j].attempts_made \in Nat /\ row[j].opt.max_attempts \in Nat
    BY FamilyTypes DEF Before, Row, Options
  <2>2. s = "delayed" => row[j].attempts_made + 1 < row[j].opt.max_attempts
    BY <1>1, <2>1 DEF Before, QueueInv, SnapshotsCurrent
  <2>3. row[j].status = "active"
    BY <1>1 DEF Fenced
  <2>4. Family(FailedRows(j, s), FailedInbox(j, s),
               S \cup Bereft(row, FailedRows(j, s)))
    BY <2>2, <2>3, FailedFamily DEF Before
  <2> QED
    BY <1>1, <2>4 DEF RowsAfterFail, InboxAfterFail
<1>2. CASE ~Fenced(r)
  BY <1>2, FamilyWeakens DEF Before, RowsAfterFail, InboxAfterFail
<1> QED
  BY <1>1, <1>2

LEMMA RecordingFamily ==
  ASSUME NEW S, Before(S), After, NEW r \in Run,
         \/ Complete(r) \/ CompleteThrows(r) \/ ForceEvict(r)
         \/ \E s \in {"delayed", "dead"} : Fail(r, s) \/ FailThrows(r, s)
  PROVE  Family(row', inbox', S \cup Bereft(row, row'))
<1>1. Family(row, inbox, S)
  BY DEF Before
<1>2. ASSUME Family(row', inbox', S)
      PROVE  Family(row', inbox', S \cup Bereft(row, row'))
  BY <1>2, FamilyWeakens
<1>3. CASE UNCHANGED <<row, inbox>>
  BY <1>1, <1>2, <1>3
<1>4. CASE Complete(r)
  BY <1>2, <1>4, RecordedCompleteFamily, FinishFamily DEF Complete
<1>5. CASE CompleteThrows(r)
  BY <1>2, <1>3, <1>5, RecordedCompleteFamily DEF CompleteThrows
<1>6. CASE ForceEvict(r)
  <2>1. run[r].job \in Job
    BY <1>6 DEF ForceEvict, Before, QueueInv, RunsOK, RunState
  <2>2. Family(RowsAfterFail(r, "dead"), InboxAfterFail(r, "dead"),
               S \cup Bereft(row, RowsAfterFail(r, "dead")))
    BY <2>1, RecordedFailFamily
  <2> QED
    BY <1>3, <1>6, <2>2 DEF ForceEvict
<1>7. ASSUME NEW s \in {"delayed", "dead"}, Fail(r, s)
      PROVE  Family(row', inbox', S \cup Bereft(row, row'))
  <2> DEFINE t == RowsAfterFail(r, s)
  <2>1. run[r].job \in Job /\ (s = "delayed" => ~run[r].last)
    BY <1>7, FailStatusSound DEF Fail, Before
  <2>2. Family(t, inbox', S \cup Bereft(row, t)) /\ Finish(r, t)
    BY <1>7, <2>1, RecordedFailFamily DEF Fail
  <2> HIDE DEF t
  <2>3. Family(row', inbox', S \cup Bereft(row, t))
    BY <2>2, FinishFamily
  <2>4. \A i \in Job : row'[i].status = t[i].status
    BY <2>2, FamilyTypes DEF Finish, Retire, Row
  <2>5. Bereft(row, t) \subseteq Bereft(row, row')
    BY <2>4 DEF Bereft, Children
  <2> QED
    BY <2>3, <2>5, FamilyWeakens
<1>8. ASSUME NEW s \in {"delayed", "dead"}, FailThrows(r, s)
      PROVE  Family(row', inbox', S \cup Bereft(row, row'))
  <2>1. run[r].job \in Job /\ (s = "delayed" => ~run[r].last)
    BY <1>8, FailStatusSound DEF FailThrows, Before
  <2>2. Family(RowsAfterFail(r, s), InboxAfterFail(r, s),
               S \cup Bereft(row, RowsAfterFail(r, s)))
    BY <2>1, RecordedFailFamily
  <2> QED
    BY <1>3, <1>8, <2>2 DEF FailThrows
<1> QED
  BY <1>4, <1>5, <1>6, <1>7, <1>8

\* The second step of a skip that cannot cancel ends the row and tells no one:
\* the parent is neither told nor released.
LEMMA SkippingFamily ==
  ASSUME NEW S, Before(S), After, NEW r \in Run,
         QuietSkipUnlock(r) \/ QuietSkipCancel(r) \/ QuietSkipFallback(r)
  PROVE  \/ Family(row', inbox', S)
         \/ /\ QuietSkipFallback(r)
            /\ Family(row', inbox', S \cup {row[run[r].job].parent_job_id})
<1> DEFINE j == run[r].job
           p0 == row[j].parent_job_id
<1>1. /\ Family(row, inbox, S) /\ row \in [Job -> Row] /\ j \in Job
      /\ row[j] \in Row
  BY FamilyTypes DEF Before, QueueInv, RunsOK, RunState, QuietSkipUnlock,
                     QuietSkipCancel, QuietSkipFallback
<1>2. CASE QuietSkipUnlock(r)
  <2>1. CASE row[j].lock_token = r
    <3>1. /\ row' = [row EXCEPT ![j] = Unlock(row[j], row[j].status)]
          /\ UNCHANGED inbox
      BY <1>2, <2>1 DEF QuietSkipUnlock
    <3>2. /\ Kin(row[j], Unlock(row[j], row[j].status))
          /\ Stays(row[j].status, Unlock(row[j], row[j].status).status)
          /\ Open(Unlock(row[j], row[j].status)) => Open(row[j])
      BY <1>1, UnlockShape DEF Stays, Open
    <3> QED
      BY <1>1, <3>1, <3>2, OneQuiet
  <2>2. CASE row[j].lock_token # r
    BY <1>1, <1>2, <2>2 DEF QuietSkipUnlock
  <2> QED
    BY <2>1, <2>2
<1>3. CASE QuietSkipCancel(r)
  BY <1>1, <1>3, CancelFamily DEF QuietSkipCancel
<1>4. CASE QuietSkipFallback(r) /\ row[j].status \notin Live
  BY <1>1, <1>4, FinishFamily DEF QuietSkipFallback
<1>5. CASE QuietSkipFallback(r) /\ row[j].status \in Live
  <2> DEFINE y == [row[j] EXCEPT !.status = "cancelled"]
             t == [row EXCEPT ![j] = y]
  <2>1. ~AllTold
    BY <1>5 DEF QuietSkipFallback, Before, SkipsAllowed, AllTold
  <2>2. Kin(row[j], y) /\ y.status = "cancelled"
    BY <1>1 DEF Kin, Row
  <2>3. row' = Retire(t, r) /\ inbox' = inbox
    BY <1>1, <1>5 DEF QuietSkipFallback, Finish
  <2>4. t \in [Job -> Row]
    <3>1. y \in Row
      BY <1>1 DEF Row, Terminal
    <3> HIDE DEF y
    <3> QED
      BY <1>1, <3>1
  <2>5. \A i \in Job : t[i] = IF i = j THEN y ELSE row[i]
    BY <1>1
  <2> HIDE DEF y, t
  <2>6. \A i \in Job : /\ Kin(t[i], row'[i]) /\ row'[i].status = t[i].status
                       /\ row'[i].lock_token # NoRun => t[i].lock_token # NoRun
    BY <2>3, <2>4, IdsAssumption DEF Retire, Kin, Row
  <2>7. ASSUME NEW i \in Job
        PROVE  /\ Kin(row[i], row'[i])
               /\ i # j /\ row'[i].lock_token # NoRun
                    => row[i].lock_token # NoRun
               /\ row'[i].status = IF i = j THEN "cancelled"
                                   ELSE row[i].status
    BY <2>2, <2>5, <2>6 DEF Kin
  <2>8. \A p \in Job : LiveChildren(row', p) \subseteq LiveChildren(row, p)
    BY <1>5, <2>7 DEF LiveChildren, Children, Kin
  <2>9. Rooted(row')
    BY <1>1, <1>5, <2>7 DEF Family, Rooted, Kin, Terminal
  <2>10. Quota(row', inbox')
    <3>1. \A i \in Job : /\ Open(row'[i]) => Open(row[i])
                         /\ row'[i].status = "absent" => row[i].status = "absent"
                         /\ row'[i].retries = row[i].retries
      BY <1>5, <2>7 DEF Kin, Open
    <3> QED
      BY <1>1, <2>3, <3>1 DEF Family, Quota
  <2>11. NobodyResumes => Resolved(row')
    BY <1>1, <2>7, <2>8 DEF Family, Resolved, Runnable
  <2>12. WaitsBut(row', S \cup {p0})
    <3> SUFFICES ASSUME NEW p \in Job, p \notin S, p # p0,
                        row'[p].status = "waiting-children"
                 PROVE  LiveChildren(row', p) # {}
      BY DEF WaitsBut
    <3>1. row[p].status = "waiting-children"
      BY <2>7
    <3>2. PICK c \in Job : row[c].parent_job_id = p /\ row[c].status \in Live
      BY <1>1, <3>1 DEF Family, WaitsBut, LiveChildren, Children
    <3> QED
      BY <2>7, <3>2 DEF LiveChildren, Children, Kin
  <2>13. Family(row', inbox', S \cup {p0})
    BY <2>1, <2>9, <2>10, <2>11, <2>12 DEF After, Family
  <2> QED
    BY <1>5, <2>13
<1> QED
  BY <1>2, <1>3, <1>4, <1>5

\* A row that is put back on the queue, whatever it was.
LEMMA RevivedFamily ==
  ASSUME NEW S, Before(S), After, ~NobodyResumes, ~AllTold, NEW j \in Job,
         \A i \in Job :
           /\ row'[i].parent_job_id = row[i].parent_job_id
           /\ row'[i].opt = row[i].opt
           /\ i # j => /\ row'[i].status = row[i].status
                       /\ row'[i].retries = row[i].retries
                       /\ Open(row'[i]) => Open(row[i]),
         row[j].status \in Live \cup Terminal, row'[j].status \in Runnable,
         \/ row'[j].retries = row[j].retries + 1
         \/ row'[j].retries = row[j].retries /\ Open(row[j]),
         UNCHANGED inbox
  PROVE  Family(row', inbox', S)
<1>1. Family(row, inbox, S) /\ row[j].retries \in Nat
  BY FamilyTypes DEF Before, Row
<1>2. ASSUME NEW i \in Job
      PROVE  /\ row[i].status \in Live => row'[i].status \in Live
             /\ row'[i].status = "waiting-children" => i # j
  BY DEF Live, Runnable
<1>3. Rooted(row')
  BY <1>1 DEF Family, Rooted, Live, Runnable
<1>4. Quota(row', inbox')
  <2> SUFFICES ASSUME NEW p \in Job, NEW c \in Job
               PROVE  /\ Len(inbox[<<p, c>>]) <= 1 + row'[c].retries
                      /\ Open(row'[c]) =>
                           Len(inbox[<<p, c>>]) <= row'[c].retries
                      /\ row'[c].status = "absent" =>
                           Len(inbox[<<p, c>>]) = 0
    BY DEF Quota
  <2>1. /\ Len(inbox[<<p, c>>]) <= 1 + row[c].retries
        /\ Open(row[c]) => Len(inbox[<<p, c>>]) <= row[c].retries
        /\ row[c].status = "absent" => Len(inbox[<<p, c>>]) = 0
    BY <1>1 DEF Family, Quota
  <2>2. Len(inbox[<<p, c>>]) \in Nat
    BY <1>1, FamilyTypes
  <2>3. CASE c = j
    <3>1. /\ row[c].retries \in Nat
          /\ \/ row'[c].retries = row[c].retries + 1
             \/ row'[c].retries = row[c].retries /\ Open(row[c])
      BY <1>1, <2>3
    <3>2. row'[c].status # "absent"
      BY <2>3 DEF Runnable
    <3>3. Len(inbox[<<p, c>>]) <= row'[c].retries
      BY <2>1, <2>2, <3>1
    <3>4. row'[c].retries \in Nat
      BY <3>1
    <3> QED
      BY <2>2, <3>2, <3>3, <3>4
  <2>4. CASE c # j
    BY <2>1, <2>4
  <2> QED
    BY <2>3, <2>4
<1>5. WaitsBut(row', S)
  <2> SUFFICES ASSUME NEW p \in Job, p \notin S,
                      row'[p].status = "waiting-children"
               PROVE  LiveChildren(row', p) # {}
    BY DEF WaitsBut
  <2>1. row[p].status = "waiting-children"
    BY <1>2
  <2>2. LiveChildren(row, p) # {}
    BY <1>1, <2>1 DEF Family, WaitsBut
  <2>3. LiveChildren(row, p) \subseteq LiveChildren(row', p)
    BY <1>2 DEF LiveChildren, Children
  <2> QED
    BY <2>2, <2>3
<1> QED
  BY <1>3, <1>4, <1>5 DEF Family, After

LEMMA RetryFamily ==
  ASSUME NEW S, Before(S), After, NEW j \in Job, RetryJob(j)
  PROVE  Family(row', inbox', S)
<1>1. row \in [Job -> Row] /\ row[j] \in Row
  BY FamilyTypes DEF Before
<1>2. ~NobodyResumes /\ ~AllTold /\ UNCHANGED inbox
  BY DEF RetryJob, NobodyResumes, AllTold
<1>3. /\ row'[j].parent_job_id = row[j].parent_job_id
      /\ row'[j].opt = row[j].opt /\ row'[j].status = "waiting"
      /\ row'[j].retries = row[j].retries + 1
  BY <1>1 DEF RetryJob, Unlock, Row
<1>4. \A i \in Job : i # j => row'[i] = row[i]
  BY <1>1 DEF RetryJob
<1>5. row[j].status \in Live \cup Terminal /\ "waiting" \in Runnable
  BY DEF RetryJob, Terminal, Runnable
<1> QED
  BY <1>2, <1>3, <1>4, <1>5, RevivedFamily

LEMMA ReleaseFamily ==
  ASSUME NEW S, Before(S), After, NEW r \in Run, ReleaseClaim(r)
  PROVE  Family(row', inbox', S)
<1> DEFINE j == run[r].job
           y == Unlock(row[j], "delayed")
           t == [row EXCEPT ![j] = y]
<1>1. /\ Family(row, inbox, S) /\ row \in [Job -> Row]
      /\ j \in Job /\ row[j] \in Row
  BY FamilyTypes DEF Before, QueueInv, RunsOK, RunState, ReleaseClaim
<1>2. CASE row[j].lock_token # r
  BY <1>1, <1>2, FinishFamily DEF ReleaseClaim
<1>3. CASE row[j].lock_token = r
  <2>1. ~NobodyResumes /\ ~AllTold /\ UNCHANGED inbox
    BY DEF ReleaseClaim, NobodyResumes, AllTold
  <2>2. row' = Retire(t, r)
    BY <1>3 DEF ReleaseClaim, Finish
  <2>3. y \in Row /\ Kin(row[j], y) /\ y.status = "delayed"
    <3>1. y \in Row
      BY <1>1 DEF Unlock, Row, Live
    <3> QED
      BY <1>1, <3>1, UnlockShape
  <2> HIDE DEF y
  <2>4. t \in [Job -> Row] /\ \A i \in Job : t[i] = IF i = j THEN y ELSE row[i]
    BY <1>1, <2>3
  <2> HIDE DEF t
  <2>5. \A i \in Job : /\ Kin(t[i], row'[i]) /\ row'[i].status = t[i].status
                       /\ Open(row'[i]) => Open(t[i])
    BY <2>2, <2>4, IdsAssumption DEF Retire, Kin, Row, Open
  <2>6. row[j].status \in Live \cup Terminal /\ Open(row[j])
    BY <1>1, <1>3, IdsAssumption DEF Family, Table, RowInv, Open
  <2>7. \A i \in Job : /\ row'[i].parent_job_id = row[i].parent_job_id
                       /\ row'[i].opt = row[i].opt
                       /\ row'[i].retries = row[i].retries
                       /\ i # j => (Open(row'[i]) => Open(row[i]))
                       /\ row'[i].status = IF i = j THEN "delayed"
                                           ELSE row[i].status
    BY <2>3, <2>4, <2>5 DEF Kin
  <2> QED
    BY <1>1, <2>1, <2>6, <2>7, RevivedFamily DEF Runnable
<1> QED
  BY <1>2, <1>3

\* A new child makes its parent wait; no one is the child of an absent row.
LEMMA AddFamily ==
  ASSUME NEW S, Before(S), After, NEW j \in Job, NEW o \in Submissions[j],
         NEW s \in {"waiting", "delayed"}, Add(j, o, s)
  PROVE  Family(row', inbox', S)
<1> DEFINE p == o.parent_job_id
           d == IF p = NoJob THEN 0 ELSE row[p].depth + 1
           y == [NoRow(s) EXCEPT !.parent_job_id = p, !.depth = d, !.opt = o]
           t == [row EXCEPT ![j] = y]
           w(x) == [x EXCEPT !.status = "waiting-children"]
<1>1. /\ Family(row, inbox, S) /\ Rooted(row) /\ row \in [Job -> Row]
      /\ UNCHANGED inbox
  BY FamilyTypes DEF Before, Family, Add
<1>2. /\ row[j].status = "absent" /\ p \in Job \cup {NoJob}
      /\ p # NoJob => row[p].status \in Live \cup Terminal
  BY SubmissionsAssumption DEF Add, Options
<1>3. p # j
  BY <1>2, IdsAssumption DEF Live, Terminal
<1>4. /\ y.status = s /\ y.parent_job_id = p /\ y.opt = o /\ y.retries = 0
      /\ DOMAIN y = DOMAIN row[j]
  BY <1>1 DEF NoRow, Row
<1>5. row' = [i \in Job |-> IF i = p /\ t[i].status \in Runnable
                            THEN w(t[i]) ELSE t[i]]
  BY DEF Add, Runnable
<1> HIDE DEF y, d
<1>6. \A i \in Job : t[i] = IF i = j THEN y ELSE row[i]
  BY <1>1
<1> HIDE DEF t
<1>7. ASSUME NEW i \in Job, i # j
      PROVE  /\ Kin(row[i], row'[i])
             /\ row'[i].lock_token = row[i].lock_token
             /\ row'[i].status = IF i = p /\ row[i].status \in Runnable
                                 THEN "waiting-children" ELSE row[i].status
  <2>1. row[i] \in Row /\ t[i] = row[i]
    BY <1>1, <1>6, <1>7
  <2> QED
    BY <1>5, <2>1 DEF Kin, Row
<1>8. row'[j] = y
  BY <1>3, <1>5, <1>6
<1> HIDE DEF p, w
<1>9. ASSUME NEW i \in Job, i # j
      PROVE  /\ row'[i].status \in Live <=> row[i].status \in Live
             /\ row'[i].status \in Terminal \/ row[i].status \in Terminal
                  => row'[i].status = row[i].status
             /\ row'[i].status = "absent" => row[i].status = "absent"
             /\ row'[i].parent_job_id = row[i].parent_job_id
             /\ row'[i].opt = row[i].opt /\ row'[i].retries = row[i].retries
             /\ Open(row'[i]) => Open(row[i])
  BY <1>7, <1>9 DEF Kin, Live, Terminal, Runnable, Open
<1>10. \A i \in Job : row[i].parent_job_id # j
  BY <1>1, <1>2 DEF Rooted, Live, Terminal
<1>11. /\ row'[j].status = s /\ row'[j].status \in Live
       /\ row'[j].status \notin Terminal /\ row'[j].status # "absent"
       /\ row'[j].parent_job_id = p /\ row'[j].opt = o /\ row'[j].retries = 0
  BY <1>4, <1>8 DEF Live, Terminal
<1>12. Rooted(row')
  <2> SUFFICES ASSUME NEW i \in Job
               PROVE  /\ row'[i].parent_job_id \in Job =>
                           row'[row'[i].parent_job_id].status
                             \in Live \cup Terminal
                      /\ row'[i].status \in Live \cup Terminal =>
                           /\ row'[i].opt \in Submissions[i]
                           /\ row'[i].parent_job_id
                                \in {row'[i].opt.parent_job_id, NoJob}
                      /\ row'[i].status \notin Live \cup Terminal =>
                           row'[i].parent_job_id = NoJob
    BY DEF Rooted
  <2>1. CASE i = j
    BY <1>2, <1>3, <1>9, <1>11, <2>1, IdsAssumption DEF p
  <2>2. CASE i # j
    BY <1>1, <1>9, <1>10, <2>2 DEF Rooted
  <2> QED
    BY <2>1, <2>2
<1>13. Quota(row', inbox')
  <2> SUFFICES ASSUME NEW q \in Job, NEW c \in Job
               PROVE  /\ Len(inbox[<<q, c>>]) <= 1 + row'[c].retries
                      /\ Open(row'[c]) =>
                           Len(inbox[<<q, c>>]) <= row'[c].retries
                      /\ row'[c].status = "absent" =>
                           Len(inbox[<<q, c>>]) = 0
    BY <1>1 DEF Quota
  <2>1. /\ Len(inbox[<<q, c>>]) <= 1 + row[c].retries
        /\ Open(row[c]) => Len(inbox[<<q, c>>]) <= row[c].retries
        /\ row[c].status = "absent" => Len(inbox[<<q, c>>]) = 0
    BY <1>1 DEF Family, Quota
  <2>2. CASE c = j
    BY <1>2, <1>11, <2>1, <2>2
  <2>3. CASE c # j
    BY <1>9, <2>1, <2>3
  <2> QED
    BY <2>2, <2>3
<1>14. \A q \in Job : LiveChildren(row', q) =
                        LiveChildren(row, q) \cup (IF q = p THEN {j} ELSE {})
  BY <1>2, <1>9, <1>11 DEF LiveChildren, Children, Live
<1>15. WaitsBut(row', S)
  <2> SUFFICES ASSUME NEW q \in Job, q \notin S,
                      row'[q].status = "waiting-children"
               PROVE  LiveChildren(row', q) # {}
    BY DEF WaitsBut
  <2>1. CASE q = p
    BY <1>14, <2>1
  <2>2. CASE q # p
    <3>1. row[q].status = "waiting-children"
      BY <1>7, <1>11, <2>2
    <3> QED
      BY <1>1, <1>14, <3>1 DEF Family, WaitsBut
  <2> QED
    BY <2>1, <2>2
<1>16. NobodyResumes => Resolved(row')
  <2> SUFFICES ASSUME NobodyResumes, NEW q \in Job
               PROVE  /\ row'[q].status \in Runnable =>
                           LiveChildren(row', q) = {}
                      /\ row'[q].status # "paused"
    BY DEF Resolved
  <2>1. CASE q = j
    <3>1. LiveChildren(row, j) = {}
      BY <1>10 DEF LiveChildren, Children
    <3> QED
      BY <1>3, <1>11, <1>14, <2>1, <3>1
  <2>2. CASE q # j
    BY <1>1, <1>7, <1>14, <2>2 DEF Family, Resolved, Runnable
  <2> QED
    BY <2>1, <2>2
<1>17. AllTold => Told(row', inbox')
  <2> SUFFICES ASSUME AllTold, NEW q \in Job, NEW c \in Job,
                      row'[c].parent_job_id = q, row'[c].status \in Terminal,
                      row'[q].status \in Live
               PROVE  /\ inbox[<<q, c>>] # <<>>
                      /\ inbox[<<q, c>>][Len(inbox[<<q, c>>])]
                           \in OutcomesOf(row'[c].status)
    BY <1>1 DEF Told
  <2>1. c # j /\ q # j
    BY <1>9, <1>10, <1>11
  <2> QED
    BY <1>1, <1>9, <2>1 DEF Family, Told
<1> QED
  BY <1>12, <1>13, <1>15, <1>16, <1>17 DEF After, Family

-----------------------------------------------------------------------------
(* The theorems.                                                           *)

LEMMA SkipsStep ==
  ASSUME QueueInv, SkipsAllowed, [Next]_vars
  PROVE  SkipsAllowed'
<1>1. run \in [Run -> RunState]
  BY DEF QueueInv, RunsOK
<1>2. CASE UNCHANGED run
  BY <1>2 DEF SkipsAllowed
<1>3. ASSUME NEW r \in Run, NEW x, run' = [run EXCEPT ![r] = x],
             x.phase # "skipping" \/ "skip" \in Ops
      PROVE  SkipsAllowed'
  BY <1>1, <1>3 DEF SkipsAllowed
<1>4. ASSUME NEW r \in Run, RunStep(r) PROVE SkipsAllowed'
  <2>1. CASE \E j \in Job : Claim(r, j)
    BY <2>1, <1>3 DEF Claim
  <2>2. ASSUME run' = [run EXCEPT ![r] = IdleRun] PROVE SkipsAllowed'
    BY <2>2, <1>3 DEF IdleRun
  <2>3. ASSUME NEW f \in {"skipping", "running", "evicted", "failing",
                          "refail"},
               f = "skipping" => "skip" \in Ops,
               run' = [run EXCEPT ![r].phase = f]
        PROVE  SkipsAllowed'
    BY <1>1, <2>3 DEF SkipsAllowed, RunState
  <2>4. CASE QuietSkipUnlock(r)
    BY <2>3, <2>4 DEF QuietSkipUnlock
  <2>5. CASE \/ ReleaseClaim(r) \/ QuietSkipCancel(r) \/ QuietSkipFallback(r)
             \/ Complete(r) \/ ReleaseLeaseFullJob(r) \/ Abandon(r)
             \/ \E s \in {"delayed", "dead"} : Fail(r, s)
    BY <2>2, <2>5 DEF ReleaseClaim, QuietSkipCancel, QuietSkipFallback,
                      Complete, ReleaseLeaseFullJob, Abandon, Fail, Finish
  <2>6. CASE Launch(r) \/ CompleteThrows(r) \/ ForceEvict(r)
    BY <2>3, <2>6 DEF Launch, CompleteThrows, ForceEvict
  <2>7. CASE RenewLock(r) \/ RenewalGivesUp(r) \/ TimeoutFires(r)
    <3>1. \A q \in Run : run'[q].phase = run[q].phase
      BY <1>1, <2>7 DEF RenewLock, RenewalGivesUp, TimeoutFires, RunState
    <3> QED
      BY <3>1 DEF SkipsAllowed
  <2>8. CASE \E s \in {"delayed", "dead"} : FailThrows(r, s)
    <3>1. \A q \in Run : \/ run'[q].phase = "refail"
                         \/ run'[q].phase = run[q].phase
      BY <1>1, <2>8 DEF FailThrows, RunState
    <3> QED
      BY <3>1 DEF SkipsAllowed
  <2> QED
    BY <1>4, <2>1, <2>4, <2>5, <2>6, <2>7, <2>8 DEF RunStep
<1>5. ASSUME Overlap PROVE SkipsAllowed'
  <2>1. PICK D : run' = [r \in Run |-> IF r \in D THEN IdleRun ELSE run[r]]
    BY <1>5 DEF Overlap, CancelsOverlap
  <2> QED
    BY <2>1 DEF SkipsAllowed, IdleRun
<1>6. CASE OperatorCall \/ Sweep \/ Tick \/ UNCHANGED vars
  BY <1>2, <1>6
     DEF OperatorCall, Add, CancelJob, RetryJob, PauseJob, ResumeJob,
         RemoveJob, Sweep, PromoteDelayed, HandleWaitingTTL, HandleStalled,
         HandleTimeouts, HandleWallClockTimeouts, StrandedParentSweep,
         Tick, LeaseAges, DeadlinePasses, StartAges, vars
<1> QED
  BY <1>4, <1>5, <1>6 DEF Next

LEMMA CallFamily ==
  ASSUME NEW S, Before(S), After, OperatorCall
  PROVE  Family(row', inbox', S)
<1>1. Family(row, inbox, S)
  BY DEF Before
<1>2. ASSUME NEW j \in Job, CancelJob(j) PROVE Family(row', inbox', S)
  BY <1>1, <1>2, CancelFamily DEF CancelJob
<1>3. ASSUME NEW j \in Job, RemoveJob(j) PROVE Family(row', inbox', S)
  BY <1>1, <1>3, DeleteFamily DEF RemoveJob
<1>4. ASSUME NEW j \in Job, RetryJob(j) PROVE Family(row', inbox', S)
  BY <1>4, RetryFamily
<1>5. ASSUME NEW j \in Job, PauseJob(j) \/ ResumeJob(j)
      PROVE  Family(row', inbox', S)
  BY <1>5, PauseResumeFamily
<1>6. ASSUME NEW j \in Job, NEW o \in Submissions[j],
             NEW s \in {"waiting", "delayed"}, Add(j, o, s)
      PROVE  Family(row', inbox', S)
  BY <1>6, AddFamily
<1> QED
  BY <1>2, <1>3, <1>4, <1>5, <1>6 DEF OperatorCall

\* The parents that a step lets down.
Deserted == {p \in Job : LetDown(p)}

LEMMA RunFamily ==
  ASSUME NEW S, Before(S), After, NEW r \in Run, RunStep(r)
  PROVE  Family(row', inbox', S \cup Deserted)
<1>1. ASSUME Family(row', inbox', S)
      PROVE  Family(row', inbox', S \cup Deserted)
  BY <1>1, FamilyWeakens
<1>2. CASE \E j \in Job : Claim(r, j)
  BY <1>1, <1>2, ClaimFamily
<1>3. CASE ReleaseClaim(r)
  BY <1>1, <1>3, ReleaseFamily
<1>4. CASE QuietSkipUnlock(r) \/ QuietSkipCancel(r) \/ QuietSkipFallback(r)
  <2> DEFINE p == row[run[r].job].parent_job_id
  <2>1. ASSUME QuietSkipFallback(r), Family(row', inbox', S \cup {p})
        PROVE  Family(row', inbox', S \cup Deserted)
    <3>1. p \in Job => p \in Deserted
      BY <2>1 DEF Deserted, LetDown
    <3> HIDE DEF p
    <3> QED
      BY <2>1, <3>1, FamilyWeakens
  <2> QED
    BY <1>1, <1>4, <2>1, SkippingFamily
<1>5. CASE Launch(r) \/ RenewLock(r) \/ RenewalGivesUp(r) \/ TimeoutFires(r)
  BY <1>1, <1>5, RenewFamily
<1>6. CASE \/ Complete(r) \/ CompleteThrows(r) \/ ForceEvict(r)
           \/ \E s \in {"delayed", "dead"} : Fail(r, s) \/ FailThrows(r, s)
  <2>1. Family(row', inbox', S \cup Bereft(row, row'))
    BY <1>6, RecordingFamily
  <2>2. Bereft(row, row') \subseteq Deserted
    BY DEF Bereft, Deserted, LetDown
  <2> QED
    BY <2>1, <2>2, FamilyWeakens
<1>7. CASE ReleaseLeaseFullJob(r) \/ Abandon(r)
  BY <1>1, <1>7, LeavingFamily
<1> QED
  BY <1>2, <1>3, <1>4, <1>5, <1>6, <1>7 DEF RunStep

LEMMA SweepFamily ==
  ASSUME NEW S, Before(S), After, Sweep \/ Tick
  PROVE  Family(row', inbox', S)
<1>1. Family(row, inbox, S)
  BY DEF Before
<1>2. ASSUME NEW D, PromoteDelayed(D) PROVE Family(row', inbox', S)
  BY <1>2, PromoteFamily
<1>3. ASSUME NEW D, HandleWaitingTTL(D) PROVE Family(row', inbox', S)
  BY <1>1, <1>3, CancelFamily DEF HandleWaitingTTL
<1>4. ASSUME NEW skipped, HandleStalled(skipped)
      PROVE  Family(row', inbox', S)
  BY <1>1, <1>4, StallsFamily
<1>5. ASSUME NEW skipped, HandleTimeouts(skipped)
      PROVE  Family(row', inbox', S)
  BY <1>1, <1>5, DeathsFamily DEF HandleTimeouts, TimedOut, DeadTable
<1>6. ASSUME NEW skipped, HandleWallClockTimeouts(skipped)
      PROVE  Family(row', inbox', S)
  BY <1>1, <1>6, DeathsFamily DEF HandleWallClockTimeouts, Overdue, DeadTable
<1>7. ASSUME StrandedParentSweep PROVE Family(row', inbox', S)
  BY <1>1, <1>7, UnblockFamily DEF StrandedParentSweep
<1>8. ASSUME Tick PROVE Family(row', inbox', S)
  BY <1>8, ClocksFamily DEF Tick
<1> QED
  BY <1>2, <1>3, <1>4, <1>5, <1>6, <1>7, <1>8 DEF Sweep

LEMMA InitTree == Init => TreeInv
<1> SUFFICES ASSUME Init PROVE TreeInv
  OBVIOUS
<1>1. QueueInv
  BY InitInv
<1>2. SkipsAllowed
  BY DEF Init, SkipsAllowed, IdleRun
<1>3. \A j \in Job : /\ row[j].status = "absent" /\ row[j].retries = 0
                     /\ row[j].parent_job_id = NoJob
  BY DEF Init, NoRow
<1>4. \A p, c \in Job : inbox[<<p, c>>] = <<>>
  BY DEF Init
<1>5. Rooted(row)
  BY <1>3, IdsAssumption DEF Rooted, Live, Terminal
<1>6. Quota(row, inbox)
  <2> SUFFICES ASSUME NEW p \in Job, NEW c \in Job
               PROVE  /\ Len(inbox[<<p, c>>]) <= 1 + row[c].retries
                      /\ Open(row[c]) =>
                           Len(inbox[<<p, c>>]) <= row[c].retries
                      /\ row[c].status = "absent" =>
                           Len(inbox[<<p, c>>]) = 0
    BY DEF Quota
  <2>1. Len(<<>>) = 0
    OBVIOUS
  <2>2. inbox[<<p, c>>] = <<>> /\ row[c].retries = 0
    BY <1>3, <1>4
  <2> QED
    BY <2>1, <2>2
<1>7. WaitsBut(row, Job) /\ Resolved(row) /\ Told(row, inbox)
  BY <1>3 DEF WaitsBut, Resolved, Told, Runnable, Terminal
<1> QED
  BY <1>1, <1>2, <1>5, <1>6, <1>7 DEF TreeInv, Family, QueueInv

LEMMA NextFamily ==
  ASSUME NEW S, Before(S), After, Next
  PROVE  Family(row', inbox', S \cup Deserted)
<1>1. ASSUME Family(row', inbox', S)
      PROVE  Family(row', inbox', S \cup Deserted)
  BY <1>1, FamilyWeakens
<1>2. CASE Overlap
  <2>1. PICK a \in CancelCalls, b \in CancelCalls : CancelsOverlap(a, b)
    BY <1>2 DEF Overlap
  <2> DEFINE shared == Parents(row, a.rows) \cap Parents(row, b.rows)
  <2>2. Family(row', inbox', S \cup shared)
    BY <2>1, OverlapFamily DEF Before
  <2>3. \A p \in Job : p \in shared => p \in Deserted
    BY <2>1 DEF Deserted, LetDown
  <2> HIDE DEF shared
  <2> QED
    BY <2>2, <2>3, FamilyWeakens
<1> QED
  BY <1>1, <1>2, CallFamily, RunFamily, SweepFamily DEF Next

LEMMA NextTree ==
  ASSUME TreeInv, [Next]_vars
  PROVE  /\ TreeInv'
         /\ \A p \in Job : Stranded(p)' => Stranded(p) \/ LetDown(p)
<1> DEFINE S == {p \in Job : Stranded(p)}
<1>1. Before(S)
  BY DEF TreeInv, Before, Family, WaitsBut, Stranded
<1>2. QueueInv'
  BY NextInv DEF TreeInv
<1>3. After
  BY <1>2 DEF QueueInv, After, Table, InboxOK
<1>4. SkipsAllowed'
  BY SkipsStep DEF TreeInv
<1>5. Family(row', inbox', S \cup Deserted)
  <2>1. CASE Next
    BY <1>1, <1>3, <2>1, NextFamily
  <2>2. CASE UNCHANGED vars
    <3>1. Family(row', inbox', S)
      BY <1>1, <2>2 DEF Before, vars
    <3> QED
      BY <3>1, FamilyWeakens
  <2> QED
    BY <2>1, <2>2
<1>6. ASSUME NEW p \in Job, Stranded(p)' PROVE p \in S \/ p \in Deserted
  <2>1. row'[p].status = "waiting-children" /\ LiveChildren(row', p) = {}
    BY <1>6 DEF Stranded, LiveChildren, Children
  <2> QED
    BY <1>5, <2>1 DEF Family, WaitsBut
<1> HIDE DEF S
<1>7. Family(row', inbox', Job)
  BY <1>5, FamilyWeakens
<1>8. Family(row, inbox, Job)' <=> Family(row', inbox', Job)
  BY DEF Family, Table, InboxOK, Rooted, Quota, Open, WaitsBut, Resolved, Told,
         LiveChildren, Children
<1> QED
  BY <1>2, <1>4, <1>6, <1>7, <1>8 DEF TreeInv, S, Deserted

\* The inductive invariant of the queue and of the families in it.
THEOREM TreeInvariance == Spec => []TreeInv
BY InitTree, NextTree, PTL DEF Spec

\* No incarnation of a child reports twice and none reports before it has
\* ended, whatever races to end it: completions and failures committed with the
\* reply lost, sweeps, cancels, skips, retries, removals, and the release by
\* token alone, which can only revive a row that ended without a word.
THEOREM ChildrenReportOnce == Spec => []ReportedOnce
<1>1. ASSUME TreeInv PROVE ReportedOnce
  <2> SUFFICES ASSUME NEW p \in Job, NEW c \in Job
               PROVE  Len(inbox[<<p, c>>])
                        + (IF row[c].status \in Live THEN 1 ELSE 0)
                          <= 1 + row[c].retries
    BY DEF ReportedOnce
  <2>1. /\ Len(inbox[<<p, c>>]) <= 1 + row[c].retries
        /\ row[c].status \in Live => Len(inbox[<<p, c>>]) <= row[c].retries
    BY <1>1 DEF TreeInv, Family, Quota, Open
  <2>2. Len(inbox[<<p, c>>]) \in Nat /\ row[c].retries \in Nat
    BY <1>1, FamilyTypes DEF TreeInv, Row
  <2>3. CASE row[c].status \in Live
    BY <2>1, <2>2, <2>3
  <2>4. CASE row[c].status \notin Live
    BY <2>1, <2>2, <2>4
  <2> QED
    BY <2>3, <2>4
<1> QED
  BY <1>1, TreeInvariance, PTL

\* Whichever transaction ends the last live child of a waiting parent releases
\* the parent in the same commit, whatever the tree and whatever races with it.
\* A parent that waits for no one was let down by two cancels that overlapped,
\* by a skip that fell back on a bare UPDATE, or by fail_parent one level below.
THEOREM ParentsAreReleased == Spec => LastChildReleases
<1> DEFINE Released == \A p \in Job : Stranded(p)' => Stranded(p) \/ LetDown(p)
<1>1. TreeInv /\ [Next]_vars => TreeInv' /\ [Released]_vars
  BY NextTree
<1>2. LastChildReleases <=> [][Released]_vars
  BY DEF LastChildReleases
<1> HIDE DEF Released
<1> QED
  BY <1>1, <1>2, InitTree, PTL DEF Spec

\* A parent is on the queue or running only while no child of it is unfinished,
\* where no row is paused, retried or released after its claim.
THEOREM ParentsWait ==
  ASSUME NobodyResumes
  PROVE  Spec => []ChildrenResolvedFirst
<1>1. TreeInv => ChildrenResolvedFirst
  BY DEF TreeInv, Family, Resolved, ChildrenResolvedFirst, Runnable
<1> QED
  BY <1>1, TreeInvariance, PTL

\* A live parent has been told, of every child that ended, the outcome the
\* child has: no path that ends a child forgets the message or misstates it.
THEOREM ParentsAreTold ==
  ASSUME AllTold
  PROVE  Spec => []EveryTerminalChildReported
<1>1. TreeInv => EveryTerminalChildReported
  BY DEF TreeInv, Family, Told, EveryTerminalChildReported
<1> QED
  BY <1>1, TreeInvariance, PTL
=============================================================================
