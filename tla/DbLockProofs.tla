---------------------------- MODULE DbLockProofs ----------------------------
(***************************************************************************)
(* That a database lock implements Lease, and that callers which refresh   *)
(* in time exclude each other, for any number of callers, processes and    *)
(* hosts and any settings of the clocks.                                   *)
(***************************************************************************)
EXTENDS DbLock, TLAPS

Dead(p) == p \notin Running

\* The row that a handle matches is the row of a running call.
OwnerRuns ==
  lock.fence \in Caller =>
    /\ call[lock.fence].pc = "work"
    /\ lock.pid = ProcOf[lock.fence]
    /\ alive[lock.pid]

\* Only running processes are inside a call.
CallsRun == \A c \in Caller : call[c].pc # "idle" => alive[ProcOf[c]]

\* A judgement passed on a dead pid stays true until it is acted on: pids are
\* not used again.
JudgementsHold ==
  /\ \A c \in Caller : call[c].pc = "delete" => Dead(call[c].seen)
  /\ op.how = "reap" => Dead(op.seen)

\* What a judgement may be.
Careful == Ops \subseteq {"maxage", "reap"}
OpCareful == op.how = "none" \/ op.how \in Ops

IInv == TypeOK /\ OwnerRuns /\ CallsRun /\ JudgementsHold /\ OpCareful

\* A punctual caller at work owns a row whose lease has not lapsed.
PunctualOwn ==
  \A c \in Punctual : call[c].pc = "work" => lock.fence = c /\ lock.hb <= TTL

-----------------------------------------------------------------------------
(* Types *)

LEMMA InitTypes == Init => TypeOK
BY CallersAssumption
   DEF Init, TypeOK, NoRow, Row, Idle, CallState, NoOp, OpState

LEMMA IdleType == Idle \in CallState
BY CallersAssumption DEF Idle, CallState

\* One caller moves on to the state y.
LEMMA MoveTypes ==
  ASSUME TypeOK, NEW c \in Caller, NEW y \in CallState,
         call' = [call EXCEPT ![c] = y]
  PROVE  call' \in [Caller -> CallState]
BY DEF TypeOK

LEMMA NoticedTypes == TypeOK => Noticed(call) \in [Caller -> CallState]
<1> SUFFICES ASSUME TypeOK, NEW c \in Caller
             PROVE  Noticed(call)[c] \in CallState
  BY DEF Noticed
<1>1. call[c] \in CallState
  BY DEF TypeOK
<1>2. [call[c] EXCEPT !.base = "moved"] \in CallState
  BY <1>1 DEF CallState
<1>. QED  BY <1>1, <1>2 DEF Noticed

\* Whoever grabs the lock writes a well-formed row.
LEMMA GrabTypes ==
  ASSUME TypeOK, NEW c \in Caller, Grab(c), UNCHANGED alive
  PROVE  TypeOK'
<1>1. lock' \in Row
  BY CallersAssumption DEF Grab, Row, HostOfCall
<1>2. call' \in [Caller -> CallState]
  <2>1. [Idle EXCEPT !.pc = "work", !.beating = TRUE] \in CallState
    BY IdleType DEF CallState
  <2>2. Noticed(call) \in [Caller -> CallState]
    BY NoticedTypes
  <2>. QED  BY <2>1, <2>2 DEF Grab
<1>3. op' \in OpState
  BY DEF TypeOK, Grab, OpState
<1>. QED  BY <1>1, <1>2, <1>3 DEF TypeOK

LEMMA RefuseTypes ==
  ASSUME TypeOK, NEW c \in Caller, Refuse(c)
  PROVE  call' \in [Caller -> CallState]
<1>1. call[c] \in CallState
  BY DEF TypeOK
<1>2. [call[c] EXCEPT !.pc = "observe", !.seen = GonePid] \in CallState
  BY <1>1 DEF CallState
<1>. QED  BY <1>2, IdleType, MoveTypes DEF Refuse

LEMMA OrphanTypes ==
  ASSUME TypeOK, NEW C \in SUBSET Caller
  PROVE  Orphaned(C) \in Row \cup {NoRow}
BY CallersAssumption DEF TypeOK, Orphaned, Row, NoRow

\* A waiter's look at the row, readable or not, ends the wait or puts it to sleep.
LEMMA ObserveWaits ==
  ASSUME TypeOK, NEW c \in Caller, Observe(c)
  PROVE  \E y \in CallState :
           /\ y.pc \in {"idle", "asleep"}
           /\ call' = [call EXCEPT ![c] = y]
           /\ UNCHANGED <<lock, alive, op>>
<1>1. PICK seen \in {TRUE, FALSE} :
        LET row == seen /\ Held
        IN  call' = [call EXCEPT ![c] =
              IF (row /\ call[c].base = "moved") \/ call[c].waited >= MaxWait
                THEN Idle
                ELSE [call[c] EXCEPT
                        !.pc = "asleep",
                        !.base = IF row /\ @ = "none" THEN "same" ELSE @]]
  BY DEF Observe
<1> DEFINE b == IF seen /\ Held /\ call[c].base = "none" THEN "same"
                                                         ELSE call[c].base
           y == [call[c] EXCEPT !.pc = "asleep", !.base = b]
<1>2. call[c] \in CallState /\ b \in {"none", "same", "moved"}
  BY DEF TypeOK, CallState
<1>3. \/ call' = [call EXCEPT ![c] = Idle]
      \/ call' = [call EXCEPT ![c] = y]
  BY <1>1
<1> HIDE DEF b
<1>4. y \in CallState /\ y.pc = "asleep"
  BY <1>2 DEF CallState
<1>5. Idle \in CallState /\ Idle.pc = "idle"
  BY IdleType DEF Idle
<1> HIDE DEF y
<1>. QED  BY <1>3, <1>4, <1>5 DEF Observe

LEMMA CallTypes ==
  ASSUME TypeOK, NEW c \in Caller, Step(c)
  PROVE  TypeOK'
<1>1. CASE StartTry(c)
  BY <1>1 DEF StartTry, TypeOK, CallState
<1>2. CASE Upsert(c)
  <2>1. CASE Takeable /\ Grab(c)
    BY <1>2, <2>1, GrabTypes DEF Upsert
  <2>2. CASE ~Takeable /\ call[c].pc = "try"
    BY <1>2, <2>2 DEF Upsert, TypeOK, CallState
  <2>3. CASE ~Takeable /\ call[c].pc # "try"
    BY <1>2, <2>3, RefuseTypes DEF Upsert, TypeOK
  <2>. QED  BY <1>2, <2>1, <2>2, <2>3 DEF Upsert
<1>3. CASE Inspect(c)
  <2>1. CASE Held /\ ~Expired /\ DeadLocally(HostOfCall(c))
    <3>1. lock \in Row
      BY <2>1 DEF TypeOK, Held
    <3>. QED  BY <1>3, <2>1, <3>1 DEF Inspect, TypeOK, CallState, Row
  <2>2. CASE ~(Held /\ ~Expired /\ DeadLocally(HostOfCall(c)))
    BY <1>3, <2>2, RefuseTypes DEF Inspect, TypeOK
  <2>. QED  BY <2>1, <2>2
<1>4. CASE TakeOver(c)
  <2>1. CASE Held /\ lock.pid = call[c].seen
    <3>1. [call[c] EXCEPT !.pc = "retry", !.seen = GonePid] \in CallState
      BY DEF TypeOK, CallState
    <3>2. call' = [call EXCEPT
                     ![c] = [call[c] EXCEPT !.pc = "retry", !.seen = GonePid]]
      BY <1>4, <2>1 DEF TakeOver, TypeOK
    <3>. QED  BY <1>4, <2>1, <3>1, <3>2, MoveTypes DEF TakeOver, TypeOK
  <2>2. CASE ~(Held /\ lock.pid = call[c].seen)
    BY <1>4, <2>2, RefuseTypes DEF TakeOver, TypeOK
  <2>. QED  BY <2>1, <2>2
<1>5. CASE Refresh(c)
  <2>1. CASE Fenced(c)
    <3>1. lock' \in Row
      BY <1>5, <2>1 DEF Refresh, Fenced, Held, TypeOK, Row
    <3>2. call' \in [Caller -> CallState]
      BY <1>5, <2>1, NoticedTypes DEF Refresh
    <3>. QED  BY <1>5, <3>1, <3>2 DEF Refresh, TypeOK
  <2>2. CASE ~Fenced(c)
    <3>1. [call[c] EXCEPT !.beating = FALSE] \in CallState
      BY DEF TypeOK, CallState
    <3>2. call' = [call EXCEPT ![c] = [call[c] EXCEPT !.beating = FALSE]]
      BY <1>5, <2>2 DEF Refresh, TypeOK
    <3>. QED  BY <1>5, <2>2, <3>1, <3>2, MoveTypes DEF Refresh, TypeOK
  <2>. QED  BY <2>1, <2>2
<1>6. CASE Finish(c)
  <2>1. lock' \in Row \cup {NoRow}
    BY <1>6, OrphanTypes DEF Finish, TypeOK
  <2>2. call' \in [Caller -> CallState]
    BY <1>6, IdleType, MoveTypes DEF Finish
  <2>. QED  BY <1>6, <2>1, <2>2 DEF Finish, TypeOK
<1>7. CASE StartWait(c)
  <2>1. call' \in [Caller -> CallState]
    <3>1. PICK b \in {"same", "none"} :
            call' = [call EXCEPT ![c] =
                 [Idle EXCEPT !.pc = "try", !.waiting = TRUE, !.base = b]]
      BY <1>7 DEF StartWait
    <3>2. [Idle EXCEPT !.pc = "try", !.waiting = TRUE, !.base = b]
            \in CallState
      BY IdleType DEF CallState
    <3>. QED  BY <3>1, <3>2, MoveTypes
  <2>. QED  BY <1>7, <2>1 DEF StartWait, TypeOK
<1>8. CASE Observe(c)
  <2>1. PICK y \in CallState : /\ y.pc \in {"idle", "asleep"}
                               /\ call' = [call EXCEPT ![c] = y]
                               /\ UNCHANGED <<lock, alive, op>>
    BY <1>8, ObserveWaits
  <2>. QED  BY <2>1 DEF TypeOK
<1>. QED  BY <1>1, <1>2, <1>3, <1>4, <1>5, <1>6, <1>7, <1>8 DEF Step

LEMMA OtherTypes ==
  ASSUME TypeOK,
         \/ \E how \in Ops \cap {"safe", "force", "maxage", "reap"}, h \in Host :
              OpInspect(how, h)
         \/ OpDelete
         \/ \E p \in Process : Crash(p) \/ Terminate(p) \/ Restart(p)
         \/ Tick
  PROVE  TypeOK'
<1>1. ASSUME NEW how \in {"safe", "force", "maxage", "reap"}, NEW h \in Host,
             OpInspect(how, h)
      PROVE  TypeOK'
  <2>1. lock \in Row
    BY <1>1 DEF OpInspect, Held, TypeOK
  <2>. QED  BY <1>1, <2>1 DEF OpInspect, TypeOK, Row, OpState
<1>2. CASE OpDelete
  BY <1>2, CallersAssumption DEF OpDelete, TypeOK, NoOp, OpState
<1>3. ASSUME NEW p \in Process, Crash(p) \/ Terminate(p)
      PROVE  TypeOK'
  <2>1. CallsOf(p) \in SUBSET Caller
    BY DEF CallsOf
  <2>2. lock' \in Row \cup {NoRow}
    BY <1>3, <2>1, OrphanTypes DEF Crash, Terminate, TypeOK
  <2>3. call' \in [Caller -> CallState]
    BY <1>3, IdleType DEF Crash, Terminate, Gone, TypeOK
  <2>. QED  BY <1>3, <2>2, <2>3 DEF Crash, Terminate, TypeOK
<1>4. ASSUME NEW p \in Process, Restart(p)
      PROVE  TypeOK'
  <2>1. CASE UNCHANGED <<lock, op, call>>
    BY <1>4, <2>1 DEF Restart, TypeOK
  <2>2. CASE /\ lock' = [lock EXCEPT !.pid = Repid(p, lock.pid)]
             /\ op' = [op EXCEPT !.seen = Repid(p, op.seen)]
             /\ call' = [c \in Caller |->
                           [call[c] EXCEPT !.seen = Repid(p, call[c].seen)]]
    <3>1. lock' \in Row \cup {NoRow}
      <4>1. CASE lock \in Row
        <5>1. Repid(p, lock.pid) \in Process \cup {GonePid}
          BY <4>1 DEF Row, Repid
        <5>. QED  BY <2>2, <4>1, <5>1 DEF Row
      <4>2. CASE lock = NoRow
        BY <2>2, <4>2, CallersAssumption DEF Repid, NoRow
      <4>. QED  BY <4>1, <4>2 DEF TypeOK
    <3>2. op' \in OpState
      BY <2>2 DEF TypeOK, Repid, OpState
    <3>3. call' \in [Caller -> CallState]
      <4> SUFFICES ASSUME NEW c \in Caller  PROVE call'[c] \in CallState
        BY <2>2
      <4>1. call[c] \in CallState
        BY DEF TypeOK
      <4>2. Repid(p, call[c].seen) \in Process \cup {GonePid}
        BY <4>1 DEF CallState, Repid
      <4>. QED  BY <2>2, <4>1, <4>2 DEF CallState
    <3>. QED  BY <1>4, <3>1, <3>2, <3>3 DEF Restart, TypeOK
  <2>. QED  BY <1>4, <2>1, <2>2 DEF Restart
<1>5. CASE Tick
  <2>1. lock' \in Row \cup {NoRow}
    <3>1. CASE Held
      <4> DEFINE h == IF lock.hb < HbCap THEN lock.hb + 1 ELSE lock.hb
                 a == IF lock.age < ReuseGrace THEN lock.age + 1 ELSE lock.age
      <4>1. lock \in Row
        BY <3>1 DEF Held, TypeOK
      <4>2. h \in Nat /\ a \in Nat
        BY <4>1 DEF Row
      <4>3. lock' = [lock EXCEPT !.hb = h, !.age = a]
        BY <1>5, <3>1 DEF Tick
      <4> HIDE DEF h, a
      <4>. QED  BY <4>1, <4>2, <4>3 DEF Row
    <3>2. CASE ~Held
      BY <1>5, <3>2 DEF Tick, TypeOK
    <3>. QED  BY <3>1, <3>2
  <2>2. call' \in [Caller -> CallState]
    <3>1. ASSUME NEW s \in CallState  PROVE Woken(s) \in CallState
      <4> DEFINE w == IF s.waited < MaxWait THEN s.waited + 1 ELSE s.waited
                 q == IF s.pc = "asleep" THEN "try" ELSE s.pc
      <4>1. w \in Nat /\ q \in {"idle", "try", "inspect", "delete", "retry",
                                "observe", "asleep", "work"}
        BY DEF CallState
      <4>2. Woken(s) = IF s.waiting THEN [s EXCEPT !.waited = w, !.pc = q]
                                    ELSE s
        BY DEF Woken
      <4> HIDE DEF w, q
      <4>. QED  BY <4>1, <4>2 DEF CallState
    <3>. QED  BY <1>5, <3>1 DEF Tick, TypeOK
  <2>. QED  BY <1>5, <2>1, <2>2 DEF Tick, TypeOK
<1>. QED  BY <1>1, <1>2, <1>3, <1>4, <1>5

\* The row, the processes, the calls and the operator keep their types.
THEOREM LockTypes == Spec => []TypeOK
<1>1. TypeOK /\ [Next]_vars => TypeOK'
  <2> SUFFICES ASSUME TypeOK, [Next]_vars  PROVE TypeOK'
    OBVIOUS
  <2>1. CASE UNCHANGED vars
    BY <2>1 DEF vars, TypeOK
  <2>2. CASE \E c \in Caller : Step(c)
    BY <2>2, CallTypes
  <2>. QED  BY <2>1, <2>2, OtherTypes DEF Next
<1>. QED  BY <1>1, InitTypes, PTL DEF Spec

-----------------------------------------------------------------------------
(* The inductive invariant *)

LEMMA NoticedKeeps ==
  ASSUME TypeOK, NEW d \in Caller
  PROVE  /\ Noticed(call)[d].pc = call[d].pc
         /\ Noticed(call)[d].seen = call[d].seen
         /\ Noticed(call)[d].beating = call[d].beating
<1>1. call[d] \in CallState
  BY DEF TypeOK
<1>. QED  BY <1>1 DEF Noticed, CallState

LEMMA WokenKeeps ==
  ASSUME NEW s \in CallState
  PROVE  /\ Woken(s).seen = s.seen
         /\ Woken(s).pc = s.pc \/ (s.pc = "asleep" /\ Woken(s).pc = "try")
BY DEF Woken, CallState

\* A caller off work moves on, staying off work and alive.
LEMMA MoveKeeps ==
  ASSUME IInv, NEW c \in Caller, NEW y \in CallState,
         call' = [call EXCEPT ![c] = y],
         lock' = lock \/ lock' = NoRow, UNCHANGED <<alive, op>>,
         y.pc # "work", call[c].pc # "work",
         y.pc # "idle" => alive[ProcOf[c]],
         y.pc = "delete" => Dead(y.seen)
  PROVE  IInv'
<1>1. TypeOK'
  BY MoveTypes DEF IInv, TypeOK
<1>2. OwnerRuns'
  BY CallersAssumption DEF IInv, OwnerRuns, TypeOK, NoRow
<1>3. CallsRun'
  BY DEF IInv, CallsRun, TypeOK
<1>4. JudgementsHold'
  BY DEF IInv, JudgementsHold, TypeOK, Dead, Running
<1>5. OpCareful'
  BY DEF IInv, OpCareful
<1>. QED  BY <1>1, <1>2, <1>3, <1>4, <1>5 DEF IInv

LEMMA RefuseKeeps ==
  ASSUME IInv, NEW c \in Caller, Refuse(c), UNCHANGED <<lock, alive, op>>,
         call[c].pc \notin {"work", "idle"}
  PROVE  IInv'
<1> DEFINE y == [call[c] EXCEPT !.pc = "observe", !.seen = GonePid]
<1>1. y \in CallState /\ y.pc = "observe" /\ Idle.pc = "idle"
  BY DEF IInv, TypeOK, CallState, Idle
<1>2. alive[ProcOf[c]]
  BY DEF IInv, CallsRun
<1>3. CASE call[c].waiting
  <2>1. call' = [call EXCEPT ![c] = y]
    BY <1>3 DEF Refuse
  <2>. HIDE DEF y
  <2>. QED  BY <1>1, <1>2, <2>1, MoveKeeps
<1>4. CASE ~call[c].waiting
  <2>1. call' = [call EXCEPT ![c] = Idle]
    BY <1>4 DEF Refuse
  <2>. HIDE DEF y
  <2>. QED  BY <1>1, <2>1, IdleType, MoveKeeps
<1>. QED  BY <1>3, <1>4

LEMMA GrabKeeps ==
  ASSUME IInv, NEW c \in Caller, Grab(c), UNCHANGED alive,
         call[c].pc \in {"try", "retry"}
  PROVE  IInv'
<1> DEFINE y == [Idle EXCEPT !.pc = "work", !.beating = TRUE]
<1>1. TypeOK'
  BY GrabTypes DEF IInv
<1>2. /\ lock'.fence = c /\ lock'.pid = ProcOf[c]
      /\ call'[c] = y /\ y.pc = "work"
      /\ \A d \in Caller \ {c} : call'[d] = Noticed(call)[d]
      /\ op'.how = op.how /\ op'.seen = op.seen
  <2>1. Noticed(call) \in [Caller -> CallState] /\ op \in OpState
    BY NoticedTypes DEF IInv, TypeOK
  <2>. QED  BY <2>1 DEF Grab, OpState, Idle
<1>3. \A d \in Caller \ {c} : call'[d].pc = call[d].pc
                              /\ call'[d].seen = call[d].seen
  BY <1>2, NoticedKeeps DEF IInv
<1>4. alive[ProcOf[c]]
  BY DEF IInv, CallsRun
<1>. HIDE DEF y
<1>5. OwnerRuns'
  BY <1>2, <1>4 DEF OwnerRuns
<1>6. CallsRun'
  BY <1>2, <1>3, <1>4 DEF CallsRun, IInv
<1>7. JudgementsHold'
  BY <1>2, <1>3 DEF JudgementsHold, IInv, Dead, Running
<1>8. OpCareful'
  BY <1>2 DEF OpCareful, IInv
<1>. QED  BY <1>1, <1>5, <1>6, <1>7, <1>8 DEF IInv

LEMMA CallKeeps ==
  ASSUME IInv, NEW c \in Caller, Step(c)
  PROVE  IInv'
<1>0. call[c] \in CallState /\ call \in [Caller -> CallState]
  BY DEF IInv, TypeOK
<1>. USE <1>0
<1>1. CASE StartTry(c)
  <2> DEFINE y == [call[c] EXCEPT !.pc = "try"]
  <2>1. y \in CallState /\ y.pc = "try" /\ call' = [call EXCEPT ![c] = y]
    BY <1>1 DEF StartTry, CallState
  <2>. HIDE DEF y
  <2>. QED  BY <1>1, <2>1, MoveKeeps DEF StartTry
<1>2. CASE Upsert(c)
  <2>1. CASE Takeable /\ Grab(c)
    BY <1>2, <2>1, GrabKeeps DEF Upsert
  <2>2. CASE ~Takeable /\ call[c].pc = "try"
    <3> DEFINE y == [call[c] EXCEPT !.pc = "inspect"]
    <3>1. y \in CallState /\ y.pc = "inspect" /\ call' = [call EXCEPT ![c] = y]
      BY <1>2, <2>2 DEF Upsert, CallState
    <3>. HIDE DEF y
    <3>. QED  BY <1>2, <2>2, <3>1, MoveKeeps DEF Upsert, IInv, CallsRun
  <2>3. CASE ~Takeable /\ call[c].pc # "try"
    BY <1>2, <2>3, RefuseKeeps DEF Upsert
  <2>. QED  BY <1>2, <2>1, <2>2, <2>3 DEF Upsert
<1>3. CASE Inspect(c)
  <2>1. CASE Held /\ ~Expired /\ DeadLocally(HostOfCall(c))
    <3> DEFINE y == [call[c] EXCEPT !.pc = "delete", !.seen = lock.pid]
    <3>1. lock \in Row
      BY <2>1 DEF IInv, TypeOK, Held
    <3>2. y \in CallState /\ y.pc = "delete" /\ y.seen = lock.pid
      BY <3>1 DEF CallState, Row
    <3>3. call' = [call EXCEPT ![c] = y]
      BY <1>3, <2>1 DEF Inspect
    <3>4. Dead(lock.pid) /\ alive[ProcOf[c]]
      BY <1>3, <2>1 DEF DeadLocally, Dead, Inspect, IInv, CallsRun
    <3>. HIDE DEF y
    <3>. QED  BY <1>3, <3>2, <3>3, <3>4, MoveKeeps DEF Inspect
  <2>2. CASE ~(Held /\ ~Expired /\ DeadLocally(HostOfCall(c)))
    BY <1>3, <2>2, RefuseKeeps DEF Inspect
  <2>. QED  BY <2>1, <2>2
<1>4. CASE TakeOver(c)
  <2>1. CASE Held /\ lock.pid = call[c].seen
    <3> DEFINE y == [call[c] EXCEPT !.pc = "retry", !.seen = GonePid]
    <3>1. y \in CallState /\ y.pc = "retry" /\ call' = [call EXCEPT ![c] = y]
      BY <1>4, <2>1 DEF TakeOver, CallState
    <3>. HIDE DEF y
    <3>. QED  BY <1>4, <2>1, <3>1, MoveKeeps DEF TakeOver, IInv, CallsRun
  <2>2. CASE ~(Held /\ lock.pid = call[c].seen)
    BY <1>4, <2>2, RefuseKeeps DEF TakeOver
  <2>. QED  BY <2>1, <2>2
<1>5. CASE Refresh(c)
  <2>1. TypeOK'
    BY <1>5, CallTypes DEF IInv, Step
  <2>2. \A d \in Caller : call'[d].pc = call[d].pc
                         /\ call'[d].seen = call[d].seen
    BY <1>5, NoticedKeeps DEF Refresh, CallState, IInv
  <2>3. lock'.fence = lock.fence /\ lock'.pid = lock.pid
    BY <1>5 DEF Refresh, Fenced, Held, IInv, TypeOK, Row
  <2>. QED  BY <1>5, <2>1, <2>2, <2>3
            DEF Refresh, IInv, OwnerRuns, CallsRun, JudgementsHold, OpCareful,
                Dead, Running
<1>6. CASE Finish(c)
  <2>1. TypeOK'
    BY <1>6, CallTypes DEF IInv, Step
  <2>2. call'[c].pc = "idle" /\ \A d \in Caller \ {c} : call'[d] = call[d]
    BY <1>6 DEF Finish, Idle
  <2>3. \/ lock' = lock /\ lock.fence # c
        \/ lock'.fence \notin Caller
    BY <1>6, CallersAssumption
       DEF Finish, Orphaned, Fenced, Held, NoRow, IInv, TypeOK, Row
  <2>4. OwnerRuns'
    BY <1>6, <2>2, <2>3 DEF Finish, IInv, OwnerRuns
  <2>. QED  BY <1>6, <2>1, <2>2, <2>4
            DEF Finish, IInv, CallsRun, JudgementsHold, OpCareful, Dead, Running
<1>7. CASE StartWait(c)
  <2>1. PICK b \in {"same", "none"} :
          call' = [call EXCEPT ![c] =
               [Idle EXCEPT !.pc = "try", !.waiting = TRUE, !.base = b]]
    BY <1>7 DEF StartWait
  <2> DEFINE y == [Idle EXCEPT !.pc = "try", !.waiting = TRUE, !.base = b]
  <2>2. y \in CallState /\ y.pc = "try"
    BY IdleType DEF CallState
  <2>. HIDE DEF y
  <2>. QED  BY <1>7, <2>1, <2>2, MoveKeeps DEF StartWait, y
<1>8. CASE Observe(c)
  <2>1. PICK y \in CallState : /\ y.pc \in {"idle", "asleep"}
                               /\ call' = [call EXCEPT ![c] = y]
                               /\ UNCHANGED <<lock, alive, op>>
    BY <1>8, ObserveWaits DEF IInv
  <2>2. alive[ProcOf[c]] /\ call[c].pc = "observe"
    BY <1>8 DEF Observe, IInv, CallsRun
  <2>. QED  BY <2>1, <2>2, MoveKeeps
<1>. QED  BY <1>1, <1>2, <1>3, <1>4, <1>5, <1>6, <1>7, <1>8 DEF Step

\* The calls of a process that goes.
LEMMA ExitKeeps ==
  ASSUME IInv, TypeOK', NEW p \in Process, alive[p],
         alive' = [alive EXCEPT ![p] = FALSE], call' = Gone(call, p),
         lock' = NoRow \/ lock' = Orphaned(CallsOf(p)),
         lock.fence \notin CallsOf(p) => lock' = lock,
         UNCHANGED op
  PROVE  IInv'
<1>1. \A d \in Caller :
        call'[d] = IF ProcOf[d] = p THEN Idle ELSE call[d]
  BY DEF Gone
<1>2. Idle.pc = "idle"
  BY DEF Idle
<1>3. lock'.fence \in Caller => lock' = lock /\ lock.fence \notin CallsOf(p)
  BY CallersAssumption DEF Orphaned, NoRow, IInv, TypeOK, Row, CallsOf
<1>4. OwnerRuns'
  BY <1>1, <1>3 DEF IInv, OwnerRuns, CallsOf, TypeOK
<1>5. CallsRun'
  BY <1>1, <1>2, CallersAssumption DEF IInv, CallsRun, TypeOK
<1>6. JudgementsHold'
  BY <1>1, <1>2 DEF IInv, JudgementsHold, TypeOK, Dead, Running
<1>. QED  BY <1>4, <1>5, <1>6 DEF IInv, OpCareful

LEMMA OtherKeeps ==
  ASSUME IInv, Careful,
         \/ \E how \in Ops \cap {"safe", "force", "maxage", "reap"}, h \in Host :
              OpInspect(how, h)
         \/ OpDelete
         \/ \E p \in Process : Crash(p) \/ Terminate(p) \/ Restart(p)
         \/ Tick
  PROVE  IInv'
<1>0. TypeOK' /\ TypeOK
  BY OtherTypes DEF IInv
<1>1. ASSUME NEW how \in Ops, NEW h \in Host, OpInspect(how, h)
      PROVE  IInv'
  <2>1. op'.how = how /\ op'.seen = lock.pid
    BY <1>1 DEF OpInspect
  <2>2. how = "reap" => Dead(lock.pid)
    BY <1>1 DEF OpInspect, Judged, DeadLocally, Dead
  <2>. QED  BY <1>0, <1>1, <2>1, <2>2
            DEF OpInspect, IInv, OwnerRuns, CallsRun, JudgementsHold, OpCareful,
                Dead, Running
<1>2. CASE OpDelete
  <2>1. op'.how = "none" /\ (lock' = lock \/ lock'.fence = Nobody)
    BY <1>2 DEF OpDelete, NoOp, NoRow
  <2>2. UNCHANGED <<alive, call>>
    BY <1>2 DEF OpDelete
  <2>. QED  BY <1>0, <2>1, <2>2, CallersAssumption
            DEF IInv, OwnerRuns, CallsRun, JudgementsHold, OpCareful, Dead,
                Running
<1>3. ASSUME NEW p \in Process, Crash(p)
      PROVE  IInv'
  BY <1>0, <1>3, ExitKeeps DEF Crash, Orphaned
<1>4. ASSUME NEW p \in Process, Terminate(p)
      PROVE  IInv'
  <2>1. /\ lock' = NoRow \/ lock' = Orphaned(CallsOf(p))
        /\ lock.fence \notin CallsOf(p) => lock' = lock
    BY <1>4 DEF Terminate, Orphaned
  <2>. QED  BY <1>0, <1>4, <2>1, ExitKeeps DEF Terminate
<1>5. ASSUME NEW p \in Process, Restart(p)
      PROVE  IInv'
  <2>1. /\ ~alive[p] /\ alive' = [alive EXCEPT ![p] = TRUE]
        /\ lock' = [lock EXCEPT !.pid = Repid(p, lock.pid)]
        /\ op' = [op EXCEPT !.seen = Repid(p, op.seen)]
        /\ call' = [c \in Caller |->
                      [call[c] EXCEPT !.seen = Repid(p, call[c].seen)]]
    BY <1>5 DEF Restart, Careful
  <2>2. lock'.fence = lock.fence /\ lock'.pid = Repid(p, lock.pid)
    BY <1>0, <2>1 DEF TypeOK, Row, NoRow
  <2>3. op'.how = op.how /\ op'.seen = Repid(p, op.seen)
    BY <1>0, <2>1 DEF TypeOK, OpState
  <2>4. \A c \in Caller : call'[c].pc = call[c].pc
                         /\ call'[c].seen = Repid(p, call[c].seen)
    BY <1>0, <2>1 DEF TypeOK, CallState
  <2>5. alive \in [Process -> BOOLEAN] /\ GonePid \notin Process
    BY <1>0, CallersAssumption DEF TypeOK
  <2>6. \A q : Dead(q) => Dead(Repid(p, q))'
    BY <2>1, <2>5 DEF Dead, Running, Repid
  <2>7. OwnerRuns'
    BY <2>1, <2>2, <2>4, <2>5, CallersAssumption DEF IInv, OwnerRuns, Repid
  <2>8. CallsRun'
    BY <2>1, <2>4, <2>5, CallersAssumption DEF IInv, CallsRun
  <2>9. JudgementsHold'
    BY <2>3, <2>4, <2>6 DEF IInv, JudgementsHold, Dead, Repid
  <2>. QED  BY <1>0, <2>3, <2>7, <2>8, <2>9 DEF IInv, OpCareful
<1>6. CASE Tick
  <2>1. lock'.fence = lock.fence /\ lock'.pid = lock.pid
    BY <1>0, <1>6 DEF Tick, Held, TypeOK, Row
  <2>2. \A c \in Caller :
          /\ call'[c].seen = call[c].seen
          /\ \/ call'[c].pc = call[c].pc
             \/ call[c].pc = "asleep" /\ call'[c].pc = "try"
    BY <1>0, <1>6, WokenKeeps DEF Tick, TypeOK
  <2>. QED  BY <1>0, <1>6, <2>1, <2>2
            DEF Tick, IInv, OwnerRuns, CallsRun, JudgementsHold, OpCareful,
                Dead, Running
<1>. QED  BY <1>1, <1>2, <1>3, <1>4, <1>5, <1>6

\* When only careful operators are about, a handle that matches the row belongs
\* to a running call, and no judgement outlives the death it was passed on.
THEOREM LockInvariance ==
  ASSUME Careful PROVE Spec => []IInv
<1>1. Init => IInv
  <2> SUFFICES ASSUME Init  PROVE IInv
    OBVIOUS
  <2>1. TypeOK
    BY InitTypes
  <2>2. lock.fence \notin Caller /\ op.how = "none"
        /\ \A c \in Caller : call[c].pc = "idle"
    BY CallersAssumption DEF Init, NoRow, NoOp, Idle
  <2>. QED  BY <2>1, <2>2
            DEF IInv, OwnerRuns, CallsRun, JudgementsHold, OpCareful
<1>2. IInv /\ [Next]_vars => IInv'
  <2> SUFFICES ASSUME IInv, [Next]_vars  PROVE IInv'
    OBVIOUS
  <2>1. CASE UNCHANGED vars
    BY <2>1 DEF vars, IInv, TypeOK, OwnerRuns, CallsRun, JudgementsHold,
                OpCareful, Dead, Running
  <2>2. CASE \E c \in Caller : Step(c)
    BY <2>2, CallKeeps
  <2>. QED  BY <2>1, <2>2, OtherKeeps DEF Next
<1>. QED  BY <1>1, <1>2, PTL DEF Spec

-----------------------------------------------------------------------------
(* Mutual exclusion *)

\* --max-age, where it is used, is no shorter than the lease.
PatientBreaks == "maxage" \in Ops => MaxAge >= TTL

\* The row of a running caller is not the one a judgement on a dead pid was
\* passed on.
LEMMA DeadOwnNothing ==
  ASSUME IInv, Dead(lock.pid)
  PROVE  lock.fence \notin Caller
BY CallersAssumption DEF IInv, OwnerRuns, Dead, Running

LEMMA PunctualInit == Init => PunctualOwn
BY CallersAssumption DEF Init, PunctualOwn, Idle

LEMMA PunctualCalls ==
  ASSUME IInv, PunctualOwn, NEW c \in Caller, Step(c)
  PROVE  PunctualOwn'
<1> SUFFICES ASSUME NEW d \in Punctual, call'[d].pc = "work"
             PROVE  lock'.fence = d /\ lock'.hb <= TTL
  BY DEF PunctualOwn
<1>0. /\ d \in Caller /\ d # Nobody /\ call \in [Caller -> CallState]
      /\ lock \in Row \cup {NoRow} /\ NoRow.fence = Nobody /\ TTL \in Nat
  BY CallersAssumption, ClocksAssumption DEF IInv, TypeOK, NoRow
<1>. USE <1>0
<1>1. Idle.pc = "idle"
  BY DEF Idle
<1>2. CASE Refuse(c) /\ UNCHANGED lock
  <2>1. call[d].pc = "work"
    BY <1>1, <1>2 DEF Refuse, CallState
  <2>. QED  BY <1>2, <2>1 DEF PunctualOwn
<1>3. CASE StartTry(c)
  BY <1>3 DEF StartTry, PunctualOwn, CallState
<1>4. CASE Upsert(c)
  <2>1. CASE Takeable /\ Grab(c)
    <3>1. lock'.fence = c /\ lock'.hb = 0
      BY <2>1 DEF Grab
    <3>2. d # c => call[d].pc = "work"
      BY <2>1, NoticedKeeps, NoticedTypes DEF Grab, IInv
    <3>3. call[d].pc = "work" => Held /\ lock.hb <= TTL
      BY DEF PunctualOwn, Held
    <3>4. Held => lock.hb > TTL /\ lock.hb \in Nat
      BY <2>1 DEF Takeable, Expired, Held, Row
    <3>. QED  BY <3>1, <3>2, <3>3, <3>4
  <2>2. CASE call' = [call EXCEPT ![c].pc = "inspect"] /\ UNCHANGED lock
    BY <2>2 DEF PunctualOwn, CallState
  <2>. QED  BY <1>2, <1>4, <2>1, <2>2 DEF Upsert
<1>5. CASE Inspect(c)
  BY <1>2, <1>5 DEF Inspect, PunctualOwn, CallState
<1>6. CASE TakeOver(c)
  <2>1. CASE Held /\ lock.pid = call[c].seen
    <3>1. lock.fence \notin Caller
      BY <1>6, <2>1, DeadOwnNothing DEF TakeOver, IInv, JudgementsHold
    <3>2. call[d].pc = "work"
      BY <1>6, <2>1 DEF TakeOver, CallState
    <3>. QED  BY <3>1, <3>2 DEF PunctualOwn
  <2>. QED  BY <1>2, <1>6, <2>1 DEF TakeOver
<1>7. CASE Refresh(c)
  <2>1. call[d].pc = "work"
    BY <1>7, NoticedKeeps DEF Refresh, CallState, IInv
  <2>. QED  BY <1>7, <2>1 DEF Refresh, PunctualOwn, Fenced, Held, Row
<1>8. CASE Finish(c)
  BY <1>1, <1>8 DEF Finish, PunctualOwn, Fenced, Orphaned
<1>9. CASE StartWait(c)
  <2>1. PICK b \in {"same", "none"} :
          call' = [call EXCEPT ![c] =
               [Idle EXCEPT !.pc = "try", !.waiting = TRUE, !.base = b]]
    BY <1>9 DEF StartWait
  <2>2. [Idle EXCEPT !.pc = "try", !.waiting = TRUE, !.base = b].pc = "try"
    BY DEF Idle
  <2>. QED  BY <1>9, <2>1, <2>2 DEF StartWait, PunctualOwn
<1>10. CASE Observe(c)
  <2>1. PICK y \in CallState : /\ y.pc \in {"idle", "asleep"}
                               /\ call' = [call EXCEPT ![c] = y]
                               /\ UNCHANGED <<lock, alive, op>>
    BY <1>10, ObserveWaits DEF IInv
  <2>. QED  BY <1>1, <1>10, <2>1 DEF Observe, PunctualOwn
<1>. QED
  BY <1>3, <1>4, <1>5, <1>6, <1>7, <1>8, <1>9, <1>10 DEF Step

LEMMA PunctualOthers ==
  ASSUME IInv, PunctualOwn, Careful, PatientBreaks,
         \/ \E how \in Ops \cap {"safe", "force", "maxage", "reap"}, h \in Host :
              OpInspect(how, h)
         \/ OpDelete
         \/ \E p \in Process : Crash(p) \/ Terminate(p) \/ Restart(p)
         \/ Tick
  PROVE  PunctualOwn'
<1> SUFFICES ASSUME NEW d \in Punctual, call'[d].pc = "work"
             PROVE  lock'.fence = d /\ lock'.hb <= TTL
  BY DEF PunctualOwn
<1>0. /\ d \in Caller /\ d # Nobody /\ call \in [Caller -> CallState]
      /\ lock \in Row \cup {NoRow} /\ NoRow.fence = Nobody
      /\ TTL \in Nat /\ MaxAge \in Nat
  BY CallersAssumption, ClocksAssumption DEF IInv, TypeOK, NoRow
<1>. USE <1>0
<1>1. Idle.pc = "idle"
  BY DEF Idle
<1>2. ASSUME NEW how \in Ops, NEW h \in Host, OpInspect(how, h)
      PROVE  lock'.fence = d /\ lock'.hb <= TTL
  BY <1>2 DEF OpInspect, PunctualOwn
<1>3. CASE OpDelete
  <2>1. call[d].pc = "work"
    BY <1>3 DEF OpDelete
  <2>2. lock.fence = d /\ lock.hb <= TTL /\ lock \in Row
    BY <2>1 DEF PunctualOwn
  <2>3. op.how = "maxage" \/ op.how = "reap"
    BY <1>3 DEF OpDelete, IInv, OpCareful, Careful
  <2>4. ~Matched
    BY <2>2, <2>3, DeadOwnNothing
       DEF Matched, IInv, JudgementsHold, PatientBreaks, OpCareful, Row
  <2>. QED  BY <1>3, <2>2, <2>4 DEF OpDelete
<1>4. ASSUME NEW p \in Process, Crash(p) \/ Terminate(p)
      PROVE  lock'.fence = d /\ lock'.hb <= TTL
  <2>1. d \notin CallsOf(p) /\ call[d].pc = "work"
    BY <1>1, <1>4 DEF Crash, Terminate, Gone, CallsOf
  <2>. QED  BY <1>4, <2>1 DEF Crash, Terminate, Orphaned, PunctualOwn
<1>5. ASSUME NEW p \in Process, Restart(p)
      PROVE  lock'.fence = d /\ lock'.hb <= TTL
  <2>1. call[d].pc = "work"
    BY <1>5 DEF Restart, CallState
  <2>. QED  BY <1>5, <2>1 DEF Restart, PunctualOwn, Row
<1>6. CASE Tick
  <2>1. call[d].pc = "work"
    BY <1>6, WokenKeeps DEF Tick
  <2>2. lock.fence = d /\ lock \in Row
    BY <2>1 DEF PunctualOwn
  <2>3. lock.hb < TTL
    BY <1>6, <2>2 DEF Tick, InTime, Fenced, Held
  <2>. QED  BY <1>6, <2>2, <2>3 DEF Tick, Held, Row
<1>. QED  BY <1>2, <1>3, <1>4, <1>5, <1>6

\* Callers that refresh in time are never inside the protected work together,
\* whatever other callers starve, crash or are dispossessed meanwhile.
THEOREM PunctualExclude ==
  ASSUME Careful, PatientBreaks PROVE Spec => []Exclusive
<1>1. IInv /\ PunctualOwn /\ [Next]_vars => PunctualOwn'
  <2> SUFFICES ASSUME IInv, PunctualOwn, [Next]_vars  PROVE PunctualOwn'
    OBVIOUS
  <2>1. CASE UNCHANGED vars
    BY <2>1 DEF vars, PunctualOwn
  <2>2. CASE \E c \in Caller : Step(c)
    BY <2>2, PunctualCalls
  <2>. QED  BY <2>1, <2>2, PunctualOthers DEF Next
<1>2. PunctualOwn => Exclusive
  BY DEF PunctualOwn, Exclusive, AtWork
<1>. QED  BY <1>1, <1>2, PunctualInit, LockInvariance, PTL DEF Spec

-----------------------------------------------------------------------------
(* The lock implements Lease *)

LEMMA SilenceType ==
  /\ Silence \in Nat
  /\ Silence <= Larger(TTL, Grace)
  /\ "maxage" \in Ops => Silence <= MaxAge
BY ClocksAssumption DEF Silence, Larger

\* A step that keeps the owner, its silence and the callers at work is a stutter
\* of the lease.
LEMMA SameLease ==
  ASSUME lock'.fence = lock.fence, lock'.hb = lock.hb, AtWork' = AtWork
  PROVE  UNCHANGED L!leaseVars
BY DEF L!leaseVars, Owner, Quiet

\* So is one by which a row without owner goes.
LEMMA NoOwnerNoLease ==
  ASSUME lock.fence \notin Caller, lock'.fence \notin Caller, AtWork' = AtWork
  PROVE  UNCHANGED L!leaseVars
BY DEF L!leaseVars, Owner, Quiet

\* The callers C stop working; their row goes with them or is orphaned.
LEMMA LeaveLease ==
  ASSUME IInv, NEW C \in SUBSET Caller,
         AtWork' = AtWork \ C,
         lock.fence \notin C => lock' = lock,
         lock.fence \in C => lock'.fence \notin Caller
  PROVE  [L!LeaseNext]_(L!leaseVars)
<1> DEFINE D == C \cap AtWork
<1>1. lock.fence \in C => lock.fence \in D
  BY DEF IInv, OwnerRuns, AtWork
<1>2. CASE D = {}
  <2>1. lock' = lock /\ AtWork' = AtWork
    BY <1>1, <1>2 DEF AtWork
  <2>. QED  BY <2>1, SameLease
<1>3. CASE D # {}
  <2>1. AtWork' = AtWork \ D /\ D \in SUBSET Caller /\ D \subseteq AtWork
    BY DEF AtWork
  <2>2. Owner' = IF Owner \in D THEN Nobody ELSE Owner
    BY <1>1, CallersAssumption DEF Owner
  <2>3. Quiet' = IF Owner \in D THEN FALSE ELSE Quiet
    BY <1>1, <2>2, CallersAssumption DEF Quiet, Owner
  <2>4. L!Leave(D)
    BY <1>3, <2>1, <2>2, <2>3 DEF L!Leave
  <2>. QED  BY <2>1, <2>4 DEF L!LeaseNext
<1>. QED  BY <1>2, <1>3

LEMMA GrabLease ==
  ASSUME IInv, NEW c \in Caller, Takeable, Grab(c), call[c].pc # "work"
  PROVE  L!Take(c)
<1>1. lock'.fence = c /\ lock'.hb = 0
  BY DEF Grab
<1>2. Owner' = c /\ Quiet' = FALSE
  BY <1>1, SilenceType DEF Owner, Quiet
<1>3. AtWork' = AtWork \cup {c}
  <2>1. call'[c].pc = "work"
    BY NoticedTypes DEF Grab, IInv, Idle
  <2>2. \A d \in Caller \ {c} : call'[d].pc = call[d].pc
    BY NoticedTypes, NoticedKeeps DEF Grab, IInv
  <2>. QED  BY <2>1, <2>2 DEF AtWork
<1>4. Owner = Nobody \/ Quiet
  <2> SUFFICES ASSUME lock.fence \in Caller  PROVE lock.hb > Silence
    BY CallersAssumption DEF Owner, Quiet
  <2>1. Held /\ lock \in Row
    BY CallersAssumption DEF Held, NoRow, IInv, TypeOK
  <2>2. lock.hb > TTL /\ lock.hb > Grace /\ lock.hb \in Nat
    BY <2>1 DEF Takeable, Expired, Row
  <2>. QED  BY <2>2, SilenceType, ClocksAssumption DEF Larger
<1>. QED  BY <1>2, <1>3, <1>4 DEF L!Take, AtWork

LEMMA CallLease ==
  ASSUME IInv, NEW c \in Caller, Step(c)
  PROVE  [L!LeaseNext]_(L!leaseVars)
<1>0. /\ call \in [Caller -> CallState] /\ Idle.pc = "idle"
      /\ lock \in Row \cup {NoRow} /\ NoRow.fence \notin Caller
  BY CallersAssumption DEF IInv, TypeOK, Idle, NoRow
<1>. USE <1>0
<1>1. ASSUME UNCHANGED lock, call[c].pc # "work", call'[c].pc # "work",
             \A d \in Caller \ {c} : call'[d] = call[d]
      PROVE  UNCHANGED L!leaseVars
  BY <1>1, SameLease DEF AtWork
<1>2. CASE Refuse(c) /\ UNCHANGED lock /\ call[c].pc # "work"
  <2>1. call'[c].pc # "work" /\ \A d \in Caller \ {c} : call'[d] = call[d]
    BY <1>2 DEF Refuse, CallState
  <2>. QED  BY <1>1, <1>2, <2>1
<1>3. CASE StartTry(c)
  <2>1. call'[c].pc = "try" /\ \A d \in Caller \ {c} : call'[d] = call[d]
    BY <1>3 DEF StartTry, CallState
  <2>. QED  BY <1>1, <1>3, <2>1 DEF StartTry
<1>4. CASE Upsert(c)
  <2>1. CASE Takeable /\ Grab(c)
    BY <1>4, <2>1, GrabLease DEF Upsert, L!LeaseNext
  <2>2. CASE call' = [call EXCEPT ![c].pc = "inspect"] /\ UNCHANGED lock
    <3>1. call'[c].pc = "inspect" /\ \A d \in Caller \ {c} : call'[d] = call[d]
      BY <2>2 DEF CallState
    <3>. QED  BY <1>1, <1>4, <2>2, <3>1 DEF Upsert
  <2>. QED  BY <1>2, <1>4, <2>1, <2>2 DEF Upsert
<1>5. CASE Inspect(c)
  <2>1. CASE Held /\ ~Expired /\ DeadLocally(HostOfCall(c))
    <3>1. call'[c].pc = "delete" /\ \A d \in Caller \ {c} : call'[d] = call[d]
      BY <1>5, <2>1 DEF Inspect, CallState
    <3>. QED  BY <1>1, <1>5, <3>1 DEF Inspect
  <2>. QED  BY <1>2, <1>5, <2>1 DEF Inspect
<1>6. CASE TakeOver(c)
  <2>1. CASE Held /\ lock.pid = call[c].seen
    <3>1. lock.fence \notin Caller /\ lock'.fence \notin Caller
      BY <1>6, <2>1, DeadOwnNothing DEF TakeOver, IInv, JudgementsHold
    <3>2. call'[c].pc = "retry" /\ \A d \in Caller \ {c} : call'[d] = call[d]
      BY <1>6, <2>1 DEF TakeOver, CallState
    <3>3. AtWork' = AtWork
      BY <1>6, <3>2 DEF TakeOver, AtWork
    <3>. QED  BY <3>1, <3>3, NoOwnerNoLease
  <2>. QED  BY <1>2, <1>6, <2>1 DEF TakeOver
<1>7. CASE Refresh(c)
  <2>1. AtWork' = AtWork
    <3>1. \A d \in Caller : call'[d].pc = call[d].pc
      BY <1>7, NoticedKeeps DEF Refresh, CallState, IInv
    <3>. QED  BY <3>1 DEF AtWork
  <2>2. CASE Fenced(c)
    <3>1. lock'.fence = c /\ lock.fence = c /\ lock'.hb = 0
      BY <1>7, <2>2 DEF Refresh, Fenced, Held, Row
    <3>2. L!Renew
      BY <2>1, <3>1, SilenceType, CallersAssumption DEF L!Renew, Owner, Quiet
    <3>. QED  BY <3>2 DEF L!LeaseNext
  <2>3. CASE ~Fenced(c)
    BY <1>7, <2>1, <2>3, SameLease DEF Refresh
  <2>. QED  BY <2>2, <2>3
<1>8. CASE Finish(c)
  <2>1. AtWork' = AtWork \ {c}
    BY <1>8 DEF Finish, AtWork
  <2>2. lock.fence # c => lock' = lock
    BY <1>8 DEF Finish, Fenced, Orphaned
  <2>3. lock.fence = c => lock'.fence \notin Caller
    <3> SUFFICES ASSUME lock.fence = c  PROVE lock'.fence \notin Caller
      OBVIOUS
    <3>1. lock \in Row
      BY CallersAssumption DEF NoRow
    <3>2. Orphaned({c}).fence = Stale
      BY <3>1 DEF Orphaned, Row
    <3>3. lock' = NoRow \/ lock' = lock \/ lock' = Orphaned({c})
      BY <1>8 DEF Finish
    <3>4. lock' # lock
      BY <1>8, <3>1, <3>2, CallersAssumption DEF Finish, Fenced, Held
    <3>5. Stale \notin Caller
      BY CallersAssumption
    <3>6. CASE lock' = NoRow
      BY <3>6
    <3>7. CASE lock' = Orphaned({c})
      BY <3>2, <3>5, <3>7
    <3>. QED  BY <3>3, <3>4, <3>6, <3>7
  <2>4. {c} \in SUBSET Caller /\ (lock.fence \in {c} <=> lock.fence = c)
    OBVIOUS
  <2>5. /\ lock.fence \notin {c} => lock' = lock
        /\ lock.fence \in {c} => lock'.fence \notin Caller
    BY <2>2, <2>3, <2>4
  <2> HIDE <1>0
  <2>. QED  BY <2>1, <2>4, <2>5, LeaveLease
<1>9. CASE StartWait(c)
  <2>1. PICK b \in {"same", "none"} :
          call' = [call EXCEPT ![c] =
               [Idle EXCEPT !.pc = "try", !.waiting = TRUE, !.base = b]]
    BY <1>9 DEF StartWait
  <2>2. call'[c].pc = "try" /\ \A d \in Caller \ {c} : call'[d] = call[d]
    BY <2>1 DEF Idle
  <2>. QED  BY <1>1, <1>9, <2>2 DEF StartWait
<1>10. CASE Observe(c)
  <2>1. PICK y \in CallState : /\ y.pc \in {"idle", "asleep"}
                               /\ call' = [call EXCEPT ![c] = y]
                               /\ UNCHANGED <<lock, alive, op>>
    BY <1>10, ObserveWaits DEF IInv
  <2>2. call'[c].pc # "work" /\ \A d \in Caller \ {c} : call'[d] = call[d]
    BY <2>1
  <2>. QED  BY <1>1, <1>10, <2>1, <2>2 DEF Observe
<1>. QED
  BY <1>3, <1>4, <1>5, <1>6, <1>7, <1>8, <1>9, <1>10 DEF Step

LEMMA OtherLease ==
  ASSUME IInv, Careful,
         \/ \E how \in Ops \cap {"safe", "force", "maxage", "reap"}, h \in Host :
              OpInspect(how, h)
         \/ OpDelete
         \/ \E p \in Process : Crash(p) \/ Terminate(p) \/ Restart(p)
         \/ Tick
  PROVE  [L!LeaseNext]_(L!leaseVars)
<1>0. /\ call \in [Caller -> CallState] /\ Idle.pc = "idle"
      /\ lock \in Row \cup {NoRow} /\ NoRow.fence \notin Caller
  BY CallersAssumption DEF IInv, TypeOK, Idle, NoRow
<1>. USE <1>0
<1>1. ASSUME NEW how \in Ops, NEW h \in Host, OpInspect(how, h)
      PROVE  UNCHANGED L!leaseVars
  BY <1>1, SameLease DEF OpInspect, AtWork
<1>2. CASE OpDelete
  <2>1. AtWork' = AtWork
    BY <1>2 DEF OpDelete, AtWork
  <2>2. CASE ~Matched
    BY <1>2, <2>1, <2>2, SameLease DEF OpDelete
  <2>3. CASE Matched
    <3>1. lock' = NoRow /\ (op.how = "maxage" \/ op.how = "reap")
      BY <1>2, <2>3 DEF OpDelete, IInv, OpCareful, Careful
    <3>2. CASE lock.fence \notin Caller
      BY <2>1, <3>1, <3>2, NoOwnerNoLease
    <3>3. CASE lock.fence \in Caller
      <4>1. op.how = "maxage" /\ "maxage" \in Ops
        BY <2>3, <3>1, <3>3, DeadOwnNothing
           DEF Matched, IInv, JudgementsHold, OpCareful
      <4>2. lock.hb > Silence
        BY <2>3, <4>1, SilenceType, ClocksAssumption DEF Matched, Held, Row
      <4>3. L!Revoke
        BY <2>1, <3>1, <3>3, <4>2, CallersAssumption
           DEF L!Revoke, Owner, Quiet
      <4>. QED  BY <4>3 DEF L!LeaseNext
    <3>. QED  BY <3>2, <3>3
  <2>. QED  BY <2>2, <2>3
<1>3. ASSUME NEW p \in Process, Crash(p) \/ Terminate(p)
      PROVE  [L!LeaseNext]_(L!leaseVars)
  <2>1. CallsOf(p) \in SUBSET Caller
    BY DEF CallsOf
  <2>2. AtWork' = AtWork \ CallsOf(p)
    BY <1>3 DEF Crash, Terminate, Gone, AtWork, CallsOf
  <2>3. lock.fence \notin CallsOf(p) => lock' = lock
    BY <1>3 DEF Crash, Terminate, Orphaned
  <2>4. lock.fence \in CallsOf(p) => lock'.fence \notin Caller
    BY <1>3, <2>1, CallersAssumption DEF Crash, Terminate, Orphaned, Row
  <2>. QED  BY <2>1, <2>2, <2>3, <2>4, LeaveLease
<1>4. ASSUME NEW p \in Process, Restart(p)
      PROVE  UNCHANGED L!leaseVars
  <2>1. \A d \in Caller : call'[d].pc = call[d].pc
    BY <1>4 DEF Restart, CallState
  <2>2. lock'.fence = lock.fence /\ lock'.hb = lock.hb
    BY <1>4 DEF Restart, Row, NoRow
  <2>. QED  BY <2>1, <2>2, SameLease DEF AtWork
<1>5. CASE Tick
  <2>1. AtWork' = AtWork
    BY <1>5, WokenKeeps DEF Tick, AtWork
  <2>2. lock'.fence = lock.fence /\ Owner' = Owner
    BY <1>5 DEF Tick, Held, Row, Owner
  <2>3. CASE Quiet' = Quiet
    BY <2>1, <2>2, <2>3 DEF L!leaseVars
  <2>4. CASE Quiet' # Quiet
    <3>1. Owner # Nobody /\ Held
      BY <2>2, <2>4, CallersAssumption DEF Quiet, Owner, Held, NoRow
    <3>2. lock'.hb >= lock.hb /\ lock.hb \in Nat /\ lock'.hb \in Nat
      BY <1>5, <3>1 DEF Tick, Held, Row
    <3>3. Quiet' = TRUE
      BY <2>2, <2>4, <3>1, <3>2, SilenceType DEF Quiet
    <3>4. L!GoQuiet
      BY <2>1, <2>2, <3>1, <3>3 DEF L!GoQuiet
    <3>. QED  BY <3>4 DEF L!LeaseNext
  <2>. QED  BY <2>3, <2>4
<1>. QED  BY <1>1, <1>2, <1>3, <1>4, <1>5

\* The rows, fences, takeovers and reapers keep the promise of Lease: whoever is
\* at work and lets itself be heard keeps the lock until it leaves.
THEOREM LockImplementsLease ==
  ASSUME Careful PROVE Spec => ImplementsLease
<1>1. Init => L!LeaseInit
  BY CallersAssumption
     DEF Init, L!LeaseInit, Owner, Quiet, AtWork, NoRow, Idle
<1>2. IInv /\ [Next]_vars => [L!LeaseNext]_(L!leaseVars)
  <2> SUFFICES ASSUME IInv, [Next]_vars  PROVE [L!LeaseNext]_(L!leaseVars)
    OBVIOUS
  <2>1. CASE UNCHANGED vars
    BY <2>1, SameLease DEF vars, AtWork
  <2>2. CASE \E c \in Caller : Step(c)
    BY <2>2, CallLease
  <2>. QED  BY <2>1, <2>2, OtherLease DEF Next
<1>. QED
  BY <1>1, <1>2, LockInvariance, PTL DEF Spec, ImplementsLease, L!LeaseSpec
-----------------------------------------------------------------------------
(* The wait for a takeover *)

\* A waiter that does not starve polls once a tick: between a refused try and
\* the look at the row no time passes, and the row can only have been renewed.
Lapse == Larger(TTL, Grace)
Looking == {"inspect", "delete", "retry", "observe"}
RefusedJustNow ==
  \A c \in Punctual :
    /\ call[c].pc = "observe" => call[c].waiting
    /\ call[c].waiting /\ call[c].pc \in Looking /\ Held => lock.hb <= Lapse

\* Time aside, the row is kept, replaced by one just refreshed, or goes.
NoOlder == Held' => lock'.hb = 0 \/ (Held /\ lock'.hb = lock.hb)

\* A caller goes on looking, or stops.
LooksOn(s, t) ==
  \/ t.pc = s.pc /\ t.waiting = s.waiting
  \/ t.pc \notin Looking
  \/ s.pc \in Looking /\ t.pc \in Looking /\ t.waiting = s.waiting
     /\ (t.pc = "observe" => t.waiting)

\* A row that is not up for takeover was refreshed within the lease or the grace.
LEMMA RefusedIsFresh ==
  ASSUME TypeOK, ~Takeable
  PROVE  Held /\ lock.hb <= Lapse
BY ClocksAssumption DEF TypeOK, Takeable, Held, Expired, Lapse, Larger, Row

LEMMA LookOnKeeps ==
  ASSUME TypeOK, RefusedJustNow, NoOlder,
         \A d \in Caller : LooksOn(call[d], call'[d])
  PROVE  RefusedJustNow'
<1>1. Lapse \in Nat
  BY ClocksAssumption DEF Lapse, Larger
<1> SUFFICES ASSUME NEW d \in Punctual
             PROVE  /\ call'[d].pc = "observe" => call'[d].waiting
                    /\ call'[d].waiting /\ call'[d].pc \in Looking /\ Held'
                         => lock'.hb <= Lapse
  BY DEF RefusedJustNow, Lapse, Larger
<1>2. LooksOn(call[d], call'[d])
  BY CallersAssumption
<1>3. Held /\ lock.hb <= Lapse /\ Held' => lock'.hb <= Lapse
  BY <1>1 DEF NoOlder
<1>4. Held' => Held \/ lock'.hb = 0
  BY DEF NoOlder
<1>. QED  BY <1>1, <1>2, <1>3, <1>4 DEF LooksOn, Looking, RefusedJustNow

\* Somebody else's row is noticed by whoever waits, who looks on.
LEMMA NoticedLooksOn ==
  ASSUME TypeOK, NEW d \in Caller
  PROVE  LooksOn(call[d], Noticed(call)[d])
<1>1. call[d] \in CallState
  BY DEF TypeOK
<1>. QED  BY <1>1 DEF Noticed, CallState, LooksOn

LEMMA OrphanIsNoOlder ==
  ASSUME TypeOK, NEW C \in SUBSET Caller,
         lock' = Orphaned(C) \/ lock' = lock \/ lock' = NoRow
  PROVE  NoOlder
<1>1. CASE lock.fence \in C
  <2>1. lock \in Row /\ Held
    BY <1>1, CallersAssumption DEF TypeOK, NoRow, Held
  <2>2. Orphaned(C).hb = lock.hb
    BY <1>1, <2>1 DEF Orphaned, Row
  <2>. QED  BY <2>1, <2>2 DEF NoOlder, Held
<1>2. CASE lock.fence \notin C
  BY <1>2 DEF Orphaned, NoOlder, Held
<1>. QED  BY <1>1, <1>2

LEMMA RefuseLooksOn ==
  ASSUME TypeOK, NEW c \in Caller, Refuse(c), call[c].pc \in Looking,
         NEW d \in Caller
  PROVE  LooksOn(call[d], call'[d])
<1>1. call[d] \in CallState /\ call \in [Caller -> CallState]
      /\ Idle.pc = "idle"
  BY DEF TypeOK, Idle
<1>2. CASE d # c
  BY <1>1, <1>2 DEF Refuse, LooksOn
<1>3. CASE d = c /\ call[c].waiting
  <2>1. call'[c].pc = "observe" /\ call'[c].waiting = call[c].waiting
    BY <1>1, <1>3 DEF Refuse, CallState
  <2>. QED  BY <1>3, <2>1 DEF LooksOn, Looking
<1>4. CASE d = c /\ ~call[c].waiting
  BY <1>1, <1>4 DEF Refuse, LooksOn, Looking
<1>. QED  BY <1>2, <1>3, <1>4

LEMMA LookCalls ==
  ASSUME TypeOK, RefusedJustNow, NEW c \in Caller, Step(c)
  PROVE  RefusedJustNow'
<1>0. call \in [Caller -> CallState] /\ Idle.pc = "idle" /\ "idle" \notin Looking
      /\ "work" \notin Looking /\ "try" \notin Looking /\ "asleep" \notin Looking
      /\ lock \in Row \cup {NoRow}
  BY DEF TypeOK, Idle, Looking
<1>. USE <1>0
<1>1. ASSUME lock' = lock \/ lock' = NoRow,
             NEW y \in CallState, call' = [call EXCEPT ![c] = y],
             LooksOn(call[c], y)
      PROVE  RefusedJustNow'
  <2>1. NoOlder
    BY <1>1 DEF NoOlder, Held
  <2>2. \A d \in Caller : LooksOn(call[d], call'[d])
    BY <1>1 DEF LooksOn
  <2>. QED  BY <2>1, <2>2, LookOnKeeps
<1>2. CASE Refuse(c) /\ UNCHANGED lock /\ call[c].pc \in Looking
  <2>1. NoOlder
    BY <1>2 DEF NoOlder, Held
  <2>. QED  BY <1>2, <2>1, RefuseLooksOn, LookOnKeeps
<1>3. CASE StartTry(c)
  <2> DEFINE y == [call[c] EXCEPT !.pc = "try"]
  <2>1. y \in CallState /\ y.pc = "try" /\ call' = [call EXCEPT ![c] = y]
    BY <1>3 DEF StartTry, CallState
  <2>. HIDE DEF y
  <2>. QED  BY <1>1, <1>3, <2>1 DEF StartTry, LooksOn
<1>4. CASE Upsert(c)
  <2>1. CASE Takeable /\ Grab(c)
    <3>1. NoOlder
      BY <2>1 DEF Grab, NoOlder
    <3>2. call'[c].pc = "work"
      BY <2>1, NoticedTypes DEF Grab, Idle
    <3>3. \A d \in Caller \ {c} : call'[d] = Noticed(call)[d]
      BY <2>1, NoticedTypes DEF Grab
    <3>4. \A d \in Caller : LooksOn(call[d], call'[d])
      BY <3>2, <3>3, NoticedLooksOn DEF LooksOn
    <3>. QED  BY <3>1, <3>4, LookOnKeeps
  <2>2. CASE ~Takeable /\ call[c].pc = "try"
    <3>1. lock' = lock /\ Held /\ lock.hb <= Lapse
      BY <1>4, <2>2, RefusedIsFresh DEF Upsert, Takeable
    <3>2. call' = [call EXCEPT ![c].pc = "inspect"]
      BY <1>4, <2>2 DEF Upsert
    <3>3. call'[c].pc = "inspect" /\ \A d \in Caller \ {c} : call'[d] = call[d]
      BY <3>2 DEF CallState
    <3>. QED  BY <3>1, <3>3, CallersAssumption
              DEF RefusedJustNow, Lapse, Larger, Held
  <2>3. CASE ~Takeable /\ call[c].pc # "try"
    BY <1>2, <1>4, <2>3 DEF Upsert, Looking
  <2>. QED  BY <1>4, <2>1, <2>2, <2>3 DEF Upsert
<1>5. CASE Inspect(c)
  <2>1. CASE Held /\ ~Expired /\ DeadLocally(HostOfCall(c))
    <3> DEFINE y == [call[c] EXCEPT !.pc = "delete", !.seen = lock.pid]
    <3>0. lock.pid \in Process \cup {GonePid}
      BY <2>1 DEF Row, Held
    <3>1. y \in CallState /\ y.pc = "delete" /\ y.waiting = call[c].waiting
      BY <3>0 DEF CallState
    <3>2. call' = [call EXCEPT ![c] = y] /\ lock' = lock
          /\ call[c].pc = "inspect"
      BY <1>5, <2>1 DEF Inspect
    <3>. HIDE DEF y
    <3>. QED  BY <1>1, <3>1, <3>2 DEF LooksOn, Looking
  <2>. QED  BY <1>2, <1>5, <2>1 DEF Inspect, Looking
<1>6. CASE TakeOver(c)
  <2>1. CASE Held /\ lock.pid = call[c].seen
    <3> DEFINE y == [call[c] EXCEPT !.pc = "retry", !.seen = GonePid]
    <3>0. call[c] \in CallState
      OBVIOUS
    <3>1. y \in CallState /\ y.pc = "retry" /\ y.waiting = call[c].waiting
      BY <3>0 DEF CallState
    <3>2. call' = [call EXCEPT ![c] = y] /\ lock' = NoRow
          /\ call[c].pc = "delete"
      BY <1>6, <2>1 DEF TakeOver
    <3>. HIDE DEF y
    <3>. QED  BY <1>1, <3>1, <3>2 DEF LooksOn, Looking
  <2>. QED  BY <1>2, <1>6, <2>1 DEF TakeOver, Looking
<1>7. CASE Refresh(c)
  <2>1. CASE Fenced(c)
    <3>1. NoOlder
      BY <1>7, <2>1 DEF Refresh, NoOlder, Fenced, Held, Row
    <3>2. \A d \in Caller : LooksOn(call[d], call'[d])
      BY <1>7, <2>1, NoticedLooksOn DEF Refresh
    <3>. QED  BY <3>1, <3>2, LookOnKeeps
  <2>2. CASE ~Fenced(c)
    <3> DEFINE y == [call[c] EXCEPT !.beating = FALSE]
    <3>1. y \in CallState /\ y.pc = "work" /\ call' = [call EXCEPT ![c] = y]
          /\ lock' = lock
      BY <1>7, <2>2 DEF Refresh, CallState
    <3>. HIDE DEF y
    <3>. QED  BY <1>1, <3>1 DEF LooksOn
  <2>. QED  BY <2>1, <2>2
<1>8. CASE Finish(c)
  <2>1. NoOlder
    BY <1>8, OrphanIsNoOlder DEF Finish
  <2>2. \A d \in Caller : LooksOn(call[d], call'[d])
    BY <1>8 DEF Finish, LooksOn
  <2>. QED  BY <2>1, <2>2, LookOnKeeps
<1>9. CASE StartWait(c)
  <2>1. PICK b \in {"same", "none"} :
          call' = [call EXCEPT ![c] =
               [Idle EXCEPT !.pc = "try", !.waiting = TRUE, !.base = b]]
    BY <1>9 DEF StartWait
  <2> DEFINE y == [Idle EXCEPT !.pc = "try", !.waiting = TRUE, !.base = b]
  <2>2. y \in CallState /\ y.pc = "try"
    BY IdleType DEF CallState, Idle
  <2>. HIDE DEF y
  <2>. QED  BY <1>1, <1>9, <2>1, <2>2 DEF StartWait, LooksOn, y
<1>10. CASE Observe(c)
  <2>1. PICK y \in CallState : /\ y.pc \in {"idle", "asleep"}
                               /\ call' = [call EXCEPT ![c] = y]
                               /\ UNCHANGED <<lock, alive, op>>
    BY <1>10, ObserveWaits
  <2>. QED  BY <1>1, <2>1 DEF LooksOn, Looking
<1>. QED
  BY <1>3, <1>4, <1>5, <1>6, <1>7, <1>8, <1>9, <1>10 DEF Step

LEMMA LookOthers ==
  ASSUME TypeOK, RefusedJustNow,
         \/ \E how \in Ops \cap {"safe", "force", "maxage", "reap"}, h \in Host :
              OpInspect(how, h)
         \/ OpDelete
         \/ \E p \in Process : Crash(p) \/ Terminate(p) \/ Restart(p)
         \/ Tick
  PROVE  RefusedJustNow'
<1>0. call \in [Caller -> CallState] /\ Idle.pc = "idle"
      /\ lock \in Row \cup {NoRow}
  BY DEF TypeOK, Idle
<1>. USE <1>0
<1>1. ASSUME lock' = lock \/ lock' = NoRow, UNCHANGED call
      PROVE  RefusedJustNow'
  BY <1>1, LookOnKeeps DEF NoOlder, Held, LooksOn
<1>2. ASSUME NEW p \in Process, Crash(p) \/ Terminate(p)
      PROVE  RefusedJustNow'
  <2>1. NoOlder
    <3>1. CallsOf(p) \in SUBSET Caller
      BY DEF CallsOf
    <3>. QED  BY <1>2, <3>1, OrphanIsNoOlder DEF Crash, Terminate
  <2>2. \A d \in Caller : LooksOn(call[d], call'[d])
    BY <1>2 DEF Crash, Terminate, Gone, LooksOn, Looking
  <2>. QED  BY <2>1, <2>2, LookOnKeeps
<1>3. ASSUME NEW p \in Process, Restart(p)
      PROVE  RefusedJustNow'
  <2>1. lock'.hb = lock.hb /\ (lock = NoRow => lock' = NoRow)
    BY <1>3, CallersAssumption DEF Restart, Repid, Row, NoRow
  <2>2. NoOlder
    BY <2>1 DEF NoOlder, Held, NoRow
  <2>3. \A d \in Caller : LooksOn(call[d], call'[d])
    BY <1>3 DEF Restart, LooksOn, CallState
  <2>. QED  BY <2>2, <2>3, LookOnKeeps
<1>4. CASE Tick
  <2> SUFFICES ASSUME NEW d \in Punctual
               PROVE  /\ call'[d].pc = "observe" => call'[d].waiting
                      /\ ~(call'[d].waiting /\ call'[d].pc \in Looking)
    BY DEF RefusedJustNow, Lapse, Larger
  <2>1. call[d] \in CallState /\ call'[d] = Woken(call[d])
    BY <1>4, CallersAssumption DEF Tick
  <2>2. CASE call[d].waiting
    <3>1. call[d].pc = "asleep"
      BY <1>4, <2>2 DEF Tick, InTime
    <3>. QED  BY <2>1, <2>2, <3>1 DEF Woken, CallState, Looking
  <2>3. CASE ~call[d].waiting
    BY <2>1, <2>3 DEF Woken, RefusedJustNow
  <2>. QED  BY <2>2, <2>3
<1>. QED  BY <1>1, <1>2, <1>3, <1>4 DEF OpInspect, OpDelete

\* A waiter that polls on time never runs out of time in front of a row that was
\* silent since the spare time passed, whoever renews, steals or deletes it
\* between its try and its look, pid reuse and every operator included.
THEOREM WaitCoversTheLease == Spec => []OutwaitsTheDead
<1>1. Init => RefusedJustNow
  BY CallersAssumption DEF Init, RefusedJustNow, Idle, Looking
<1>2. TypeOK /\ RefusedJustNow /\ [Next]_vars => RefusedJustNow'
  <2> SUFFICES ASSUME TypeOK, RefusedJustNow, [Next]_vars  PROVE RefusedJustNow'
    OBVIOUS
  <2>1. CASE UNCHANGED vars
    BY <2>1 DEF vars, RefusedJustNow, Held, Lapse, Larger
  <2>2. CASE \E c \in Caller : Step(c)
    BY <2>2, LookCalls
  <2>. QED  BY <2>1, <2>2, LookOthers DEF Next
<1>3. TypeOK /\ RefusedJustNow => OutwaitsTheDead
  <2> SUFFICES ASSUME TypeOK, RefusedJustNow, NEW c \in Punctual,
                      call[c].pc = "observe", call[c].waited >= MaxWait, Held
               PROVE  lock.hb + Spare <= call[c].waited
    BY DEF OutwaitsTheDead
  <2>1. lock.hb <= Lapse
    BY DEF RefusedJustNow, Looking
  <2>2. lock.hb \in Nat /\ call[c].waited \in Nat
    BY CallersAssumption DEF TypeOK, Held, Row, CallState
  <2>3. Lapse \in Nat /\ Spare \in Nat /\ MaxWait \in Nat /\ Lapse + Spare <= MaxWait
    BY ClocksAssumption DEF Lapse, Larger, Smaller, Spare, MaxWait
  <2>. QED  BY <2>1, <2>2, <2>3
<1>. QED  BY <1>1, <1>2, <1>3, LockTypes, PTL DEF Spec
=============================================================================
