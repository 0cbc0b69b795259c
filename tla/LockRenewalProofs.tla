------------------------- MODULE LockRenewalProofs -------------------------
(***************************************************************************)
(* How long a handler may run blind, and how long beside its successor, for *)
(* every lease, environment and lateness.  ClockInv bounds the time since  *)
(* the last known success in each phase of the tick, and ties it to the    *)
(* lease in the database.                                                  *)
(***************************************************************************)
EXTENDS LockRenewal, TLAPS

\* What the clamps of resolveLockRenewalKnobs establish.
Clamped ==
  /\ knobs.lock \in Nat \ {0} /\ knobs.grace \in Nat /\ knobs.deadline \in Int
  /\ knobs.interval \in Nat \ {0} /\ knobs.timeout \in Nat \ {0} /\ knobs.evict \in Nat \ {0}
  /\ knobs.timeout <= knobs.interval /\ knobs.deadline <= knobs.evict

\* The lateness of the call in flight and of the timer.
CallLate == IF rest = 0 THEN lag ELSE 0
TimerLate == IF next = 0 THEN lag ELSE 0

\* A tick that did not evict leaves at most this, with the wait for the next one.
Slack == knobs.evict - 1 + knobs.timeout + MaxLate + knobs.interval

Waiting == phase = "none" => since + next <= Slack + TimerLate
Renewing == phase = "renew" => since + rest <= Slack + knobs.timeout + MaxLate + CallLate
Verifying ==
  phase = "verify" => since + rest <= Slack + 2 * knobs.timeout + 2 * MaxLate + CallLate
Reconnecting == phase = "reconnect" => since + rest <= knobs.evict - 1 + knobs.timeout + CallLate

\* A reply on its way is as old as the call; what happened to the lease is newer.
Answered ==
  /\ asked # "nothing" => phase \in {"renew", "verify"}
  /\ asked = "yes" /\ row = "ours" => left >= knobs.lock - (knobs.timeout - rest) - CallLate
  /\ asked = "yes" /\ row = "lost" =>
       gone + knobs.lock + knobs.grace + 1 <= knobs.timeout - rest + CallLate

\* The lease was extended by the last success that is known, a call before it was known.
Extended ==
  /\ row = "ours" => gone = 0 /\ left >= knobs.lock - since - knobs.timeout - MaxLate
  /\ row = "lost" => gone + knobs.lock + knobs.grace + 1 <= since + knobs.timeout + MaxLate

Ticking == Waiting /\ Renewing /\ Verifying /\ Reconnecting

ClockInv == TypeOK /\ (handler = "running" => Ticking /\ Answered /\ Extended)

-----------------------------------------------------------------------------

LEMMA SettingsFit ==
  ASSUME NEW s \in Settings
  PROVE  /\ KnobsOf(s).lock \in Nat \ {0} /\ KnobsOf(s).grace \in Nat
         /\ KnobsOf(s).deadline \in Int
         /\ KnobsOf(s).interval \in Nat \ {0} /\ KnobsOf(s).timeout \in Nat \ {0}
         /\ KnobsOf(s).evict \in Nat \ {0}
         /\ KnobsOf(s).timeout <= KnobsOf(s).interval
         /\ KnobsOf(s).deadline <= KnobsOf(s).evict
<1>1. s \in [lock : Nat \ {0}, timeout : Nat \ {0}, margin : Nat \ {0}, evict : Nat \ {0},
             grace : Nat]
  BY SettingsAssumption DEF SettingsAssumption
<1>2. IntervalFor(s.lock) \in Nat \ {0}
  BY <1>1, SettingsAssumption, SMT DEF SettingsAssumption, IntervalFor, Smaller
<1>3. MarginFor(s.lock) \in Nat \ {0}
  BY <1>1, SettingsAssumption, SMT DEF SettingsAssumption, MarginFor, Smaller
<1> QED
  BY <1>1, <1>2, <1>3, SMT DEF KnobsOf, Smaller

LEMMA KnobsFit == TypeOK => Clamped
  BY SettingsFit DEF TypeOK, Clamped

-----------------------------------------------------------------------------
(* Type correctness *)

LEMMA InitTypes == Init => TypeOK
<1> SUFFICES ASSUME Init PROVE TypeOK
  OBVIOUS
<1>1. \E s \in Settings : knobs = KnobsOf(s)
  BY DEF Init
<1>2. Clamped
  BY <1>1, SettingsFit DEF Clamped
<1>3. MaxLate \in Nat /\ MaxOrphans \in Nat
  BY SettingsAssumption DEF SettingsAssumption
<1> QED
  BY <1>1, <1>2, <1>3, SMT DEF Init, TypeOK, Clamped, Ceiling, Lapsed

LEMMA TypesKept == TypeOK /\ [Next]_vars => TypeOK'
<1> SUFFICES ASSUME TypeOK, [Next]_vars PROVE TypeOK'
  OBVIOUS
<1>1. Clamped /\ MaxLate \in Nat /\ MaxOrphans \in Nat
  BY KnobsFit, SettingsAssumption DEF SettingsAssumption
<1>2. knobs' = knobs
  BY DEF Next, vars, Fire, Renewed, Fenced, RenewFails, VerifyFails, Reconnected, End,
         Execute, ExecuteLate, Vanish, Reclaim, Revoke, Pass
<1>3. \E s \in Settings : knobs' = KnobsOf(s)
  BY <1>2 DEF TypeOK
<1> USE <1>1, <1>2, <1>3 DEF TypeOK, Clamped, Ceiling, Lapsed
<1>4. CASE Fire
  BY <1>4, SMT DEF Fire, Ask, call
<1>5. CASE Renewed
  BY <1>5, SMT DEF Renewed, Settled
<1>6. CASE Fenced
  BY <1>6, SMT DEF Fenced, Settled
<1>7. CASE RenewFails
  BY <1>7, SMT DEF RenewFails, Failed, Reconnect, Ask, Abandon, Smaller
<1>8. CASE VerifyFails
  BY <1>8, SMT DEF VerifyFails, Failed, Reconnect, Settled, Abandon, Smaller
<1>9. CASE Reconnected
  BY <1>9, SMT DEF Reconnected, Settled
<1>10. CASE End
  BY <1>10, SMT DEF End, call
<1>11. CASE Execute
  BY <1>11, SMT DEF Execute, Extend
<1>12. CASE ExecuteLate
  BY <1>12, SMT DEF ExecuteLate, Extend
<1>13. CASE Vanish
  BY <1>13, SMT DEF Vanish
<1>14. CASE Reclaim
  BY <1>14, SMT DEF Reclaim, call
<1>15. CASE Revoke
  BY <1>15, SMT DEF Revoke, call
<1>16. CASE Pass
  BY <1>16, SMT DEF Pass, Due, Less, Smaller
<1>17. CASE UNCHANGED vars
  BY <1>17, SMT DEF vars
<1> QED
  BY <1>4, <1>5, <1>6, <1>7, <1>8, <1>9, <1>10, <1>11, <1>12, <1>13, <1>14, <1>15,
     <1>16, <1>17 DEF Next

\* The types hold for every lease, environment and lateness.
THEOREM TypeCorrect == Spec => []TypeOK
<1>1. TypeOK /\ [Next]_vars => TypeOK'
  BY TypesKept
<1> QED
  BY InitTypes, <1>1, PTL DEF Spec

-----------------------------------------------------------------------------
(* The clocks *)

LEMMA InitClocks == Init => ClockInv
<1> SUFFICES ASSUME Init PROVE ClockInv
  OBVIOUS
<1>1. TypeOK /\ Clamped /\ MaxLate \in Nat
  BY InitTypes, KnobsFit, SettingsAssumption DEF SettingsAssumption
<1>2. Ticking
  BY <1>1, SMT DEF Init, Clamped, Ticking, Waiting, Renewing, Verifying, Reconnecting,
     Slack, TimerLate
<1>3. Answered /\ Extended
  BY <1>1, SMT DEF Init, Clamped, Answered, Extended
<1> QED
  BY <1>1, <1>2, <1>3 DEF ClockInv

\* While the handler runs, the time since the last success is within the bound, and so is
\* counted exactly.
LEMMA ClocksBound ==
  ASSUME ClockInv, handler = "running"
  PROVE  since < BlindBound /\ since < Ceiling
<1>1. TypeOK /\ Clamped /\ MaxLate \in Nat /\ Ticking
  BY KnobsFit, SettingsAssumption DEF SettingsAssumption, ClockInv
<1> USE <1>1 DEF Clamped, TypeOK, Ticking, Slack, TimerLate, CallLate, BlindBound, Ceiling
<1>2. CASE phase = "none"
  BY <1>2, SMT DEF Waiting
<1>3. CASE phase = "renew"
  BY <1>3, SMT DEF Renewing
<1>4. CASE phase = "verify"
  BY <1>4, SMT DEF Verifying
<1>5. CASE phase = "reconnect"
  BY <1>5, SMT DEF Reconnecting
<1> QED
  BY <1>2, <1>3, <1>4, <1>5

LEMMA ClocksKept ==
  ASSUME ClockInv, [Next]_vars, handler' = "running"
  PROVE  Ticking' /\ Answered' /\ Extended'
<1>1. handler = "running"
  BY DEF Next, vars, Fire, Renewed, Fenced, RenewFails, VerifyFails, Reconnected, End,
         Execute, ExecuteLate, Vanish, Reclaim, Revoke, Pass, Failed
<1>2. TypeOK /\ Clamped /\ MaxLate \in Nat
  BY KnobsFit, SettingsAssumption DEF SettingsAssumption, ClockInv
<1>3. Ticking /\ Answered /\ Extended
  BY <1>1 DEF ClockInv
<1>4. since < Ceiling
  BY <1>1, ClocksBound
<1> USE <1>1, <1>2, <1>3 DEF TypeOK, Clamped, Slack, TimerLate, CallLate
<1>5. CASE Fire
  <2>1. Ticking'
    BY <1>5, SMT DEF Fire, Ask, call, Ticking, Waiting, Renewing, Verifying,
       Reconnecting
  <2>2. Answered'
    BY <1>5, SMT DEF Fire, Ask, call, Answered, Extended
  <2>3. Extended'
    BY <1>5, SMT DEF Fire, Ask, call, Answered, Extended
  <2> QED
    BY <2>1, <2>2, <2>3
<1>6. CASE Renewed
  <2>1. Ticking'
    BY <1>6, SMT DEF Renewed, Settled, Ticking, Waiting, Renewing, Verifying,
       Reconnecting
  <2>2. Answered'
    BY <1>6, SMT DEF Renewed, Settled, Answered, Extended
  <2>3. Extended'
    BY <1>6, SMT DEF Renewed, Settled, Answered, Extended
  <2> QED
    BY <2>1, <2>2, <2>3
<1>7. CASE RenewFails
  <2>1. Ticking'
    BY <1>7, SMT DEF RenewFails, Failed, Reconnect, Ask, Abandon, Ticking, Waiting, Renewing, Verifying,
       Reconnecting
  <2>2. Answered'
    BY <1>7, SMT DEF RenewFails, Failed, Reconnect, Ask, Abandon, Answered, Extended
  <2>3. Extended'
    BY <1>7, SMT DEF RenewFails, Failed, Reconnect, Ask, Abandon, Answered, Extended
  <2> QED
    BY <2>1, <2>2, <2>3
<1>8. CASE VerifyFails
  <2>1. Ticking'
    BY <1>8, SMT DEF VerifyFails, Failed, Reconnect, Settled, Ticking, Waiting, Renewing, Verifying,
       Reconnecting
  <2>2. Answered'
    BY <1>8, SMT DEF VerifyFails, Failed, Reconnect, Settled, Answered, Extended
  <2>3. Extended'
    BY <1>8, SMT DEF VerifyFails, Failed, Reconnect, Settled, Answered, Extended
  <2> QED
    BY <2>1, <2>2, <2>3
<1>9. CASE Reconnected
  <2>1. Ticking'
    BY <1>9, SMT DEF Reconnected, Settled, Ticking, Waiting, Renewing, Verifying,
       Reconnecting
  <2>2. Answered'
    BY <1>9, SMT DEF Reconnected, Settled, Answered, Extended
  <2>3. Extended'
    BY <1>9, SMT DEF Reconnected, Settled, Answered, Extended
  <2> QED
    BY <2>1, <2>2, <2>3
<1>10. CASE Execute
  <2>1. Ticking'
    BY <1>10, SMT DEF Execute, Extend, Ticking, Waiting, Renewing, Verifying,
       Reconnecting
  <2>2. Answered'
    BY <1>10, SMT DEF Execute, Extend, Answered, Extended
  <2>3. Extended'
    BY <1>10, SMT DEF Execute, Extend, Answered, Extended
  <2> QED
    BY <2>1, <2>2, <2>3
<1>11. CASE ExecuteLate
  <2>1. Ticking'
    BY <1>11, SMT DEF ExecuteLate, Extend, Ticking, Waiting, Renewing, Verifying,
       Reconnecting
  <2>2. Answered'
    BY <1>11, SMT DEF ExecuteLate, Extend, Answered, Extended
  <2>3. Extended'
    BY <1>11, SMT DEF ExecuteLate, Extend, Answered, Extended
  <2> QED
    BY <2>1, <2>2, <2>3
<1>12. CASE Vanish
  <2>1. Ticking'
    BY <1>12, SMT DEF Vanish, Ticking, Waiting, Renewing, Verifying,
       Reconnecting
  <2>2. Answered'
    BY <1>12, SMT DEF Vanish, Answered, Extended
  <2>3. Extended'
    BY <1>12, SMT DEF Vanish, Answered, Extended
  <2> QED
    BY <2>1, <2>2, <2>3
<1>13. CASE Reclaim
  <2>1. Ticking'
    BY <1>13, SMT DEF Reclaim, Reclaimable, call, Ticking, Waiting, Renewing, Verifying,
       Reconnecting
  <2>2. Answered'
    BY <1>13, SMT DEF Reclaim, Reclaimable, call, Answered, Extended
  <2>3. Extended'
    BY <1>13, SMT DEF Reclaim, Reclaimable, call, Answered, Extended
  <2> QED
    BY <2>1, <2>2, <2>3
<1>14. CASE Revoke
  <2>1. Ticking'
    BY <1>14, SMT DEF Revoke, call, Ticking, Waiting, Renewing, Verifying,
       Reconnecting
  <2>2. Answered'
    BY <1>14, SMT DEF Revoke, call, Answered, Extended
  <2>3. Extended'
    BY <1>14, SMT DEF Revoke, call, Answered, Extended
  <2> QED
    BY <2>1, <2>2, <2>3
<1>15. CASE Pass
  <2>1. Ticking'
    BY <1>15, <1>4, SMT DEF Pass, Due, Less, Smaller, Ticking, Waiting, Renewing, Verifying,
       Reconnecting
  <2>2. Answered'
    BY <1>15, <1>4, SMT DEF Pass, Due, Less, Smaller, Answered, Extended
  <2>3. Extended'
    BY <1>15, <1>4, SMT DEF Pass, Due, Less, Smaller, Answered, Extended
  <2> QED
    BY <2>1, <2>2, <2>3
<1>16. CASE Fenced \/ End
  BY <1>16 DEF Fenced, End
<1>17. CASE UNCHANGED vars
  BY <1>17, SMT DEF vars, Ticking, Waiting, Renewing, Verifying, Reconnecting, Answered,
     Extended
<1> QED
  BY <1>5, <1>6, <1>7, <1>8, <1>9, <1>10, <1>11, <1>12, <1>13, <1>14, <1>15, <1>16, <1>17 DEF Next

\* The clocks of the worker and of the database stay within what each phase allows.
THEOREM Invariance == Spec => []ClockInv
<1>1. ClockInv /\ [Next]_vars => ClockInv'
  BY TypesKept, ClocksKept DEF ClockInv
<1> QED
  BY InitClocks, <1>1, PTL DEF Spec

\* No handler runs blind beyond the bound, whatever the lease and the environment say.
THEOREM BlindIsBounded == Spec => []BlindBounded
<1>1. ClockInv => BlindBounded
  BY ClocksBound DEF BlindBounded
<1> QED
  BY <1>1, Invariance, PTL

\* Nor does one run on beside its successor beyond the bound.
THEOREM TwoHandlersAreBounded == Spec => []TwoHandlersBounded
<1>1. ASSUME ClockInv, handler = "running", row = "lost"
      PROVE  gone + knobs.lock + knobs.grace < BlindBound + knobs.timeout + MaxLate
  <2>1. TypeOK /\ Clamped /\ MaxLate \in Nat /\ Extended
    BY <1>1, KnobsFit, SettingsAssumption DEF SettingsAssumption, ClockInv
  <2>2. since < BlindBound
    BY <1>1, ClocksBound
  <2> QED
    BY <1>1, <2>1, <2>2, SMT DEF TypeOK, Clamped, Extended, BlindBound, Ceiling
<1>2. ClockInv => TwoHandlersBounded
  BY <1>1 DEF TwoHandlersBounded
<1> QED
  BY <1>2, Invariance, PTL
-----------------------------------------------------------------------------
(* A single failed call *)

\* How long ago the timer fired, a late callback included.
Aged == knobs.interval - next + TimerLate
\* How long the call in flight has taken.
Taken == knobs.timeout - rest + CallLate

\* In a roomy lease the tick of a renewal that is not known to have failed twice is
\* over before the timer fires again: the age of its calls is the age of the timer.
Abreast ==
  /\ failures = 0 => phase \in {"none", "renew"}
  /\ phase = "renew" => Aged = Taken
  /\ phase = "verify" \/ (phase = "reconnect" /\ failures <= 1) =>
       Taken <= Aged /\ Aged <= Taken + knobs.timeout + MaxLate

\* What is left of the lease: every failure costs it one interval, and so does the
\* renewal in flight.
Round == knobs.interval + MaxLate
Spent ==
  row = "ours" =>
    /\ failures = 0 =>
         left >= knobs.lock - Aged - (IF phase = "none" THEN 0 ELSE Round)
    /\ failures = 1 =>
         left >= knobs.lock - Aged - (IF phase = "renew" THEN 2 * Round ELSE Round)

RoomyInv == ClockInv /\ (handler = "running" /\ Roomy => Abreast /\ Spent)

LEMMA InitRoomy == Init => RoomyInv
<1> SUFFICES ASSUME Init PROVE Abreast /\ Spent
  BY InitClocks DEF RoomyInv
<1>1. Clamped
  BY InitTypes, KnobsFit
<1> QED
  BY <1>1, SMT DEF Init, Clamped, Abreast, Spent, Aged, TimerLate

LEMMA RoomyKept ==
  ASSUME RoomyInv, [Next]_vars, handler' = "running", Roomy'
  PROVE  Abreast' /\ Spent'
<1>1. handler = "running" /\ knobs' = knobs
  BY DEF Next, vars, Fire, Renewed, Fenced, RenewFails, VerifyFails, Reconnected, End,
         Execute, ExecuteLate, Vanish, Reclaim, Revoke, Pass, Failed
<1>2. TypeOK /\ Clamped /\ MaxLate \in Nat
  BY KnobsFit, SettingsAssumption DEF SettingsAssumption, RoomyInv, ClockInv
<1>3. Roomy /\ Abreast /\ Spent /\ Answered
  BY <1>1 DEF RoomyInv, ClockInv, Roomy
<1> USE <1>1, <1>2, <1>3 DEF TypeOK, Clamped, Roomy, Abreast, Aged, Taken, TimerLate, CallLate
<1>4. CASE Fire
  <2>1. Abreast'
    BY <1>4, SMT DEF Fire, Ask, call, Spent
  <2>2. Spent'
    BY <1>4, SMT DEF Fire, Ask, call, Spent, Round
  <2> QED
    BY <2>1, <2>2
<1>5. CASE Renewed
  <2>1. Abreast'
    BY <1>5, SMT DEF Renewed, Settled, Spent
  <2>2. Spent'
    BY <1>5, SMT DEF Renewed, Settled, Spent, Round, Answered
  <2> QED
    BY <2>1, <2>2
<1>6. CASE RenewFails
  <2>1. Abreast'
    BY <1>6, SMT DEF RenewFails, Failed, Reconnect, Ask, Smaller, Spent
  <2>2. Spent'
    BY <1>6, SMT DEF RenewFails, Failed, Reconnect, Ask, Smaller, Spent, Round
  <2> QED
    BY <2>1, <2>2
<1>7. CASE VerifyFails
  <2>1. Abreast'
    BY <1>7, SMT DEF VerifyFails, Failed, Reconnect, Settled, Smaller, Spent
  <2>2. Spent'
    BY <1>7, SMT DEF VerifyFails, Failed, Reconnect, Settled, Smaller, Spent, Round
  <2> QED
    BY <2>1, <2>2
<1>8. CASE Reconnected
  <2>1. Abreast'
    BY <1>8, SMT DEF Reconnected, Settled, Spent
  <2>2. Spent'
    BY <1>8, SMT DEF Reconnected, Settled, Spent, Round
  <2> QED
    BY <2>1, <2>2
<1>9. CASE Execute
  <2>1. Abreast'
    BY <1>9, SMT DEF Execute, Extend, Spent
  <2>2. Spent'
    BY <1>9, SMT DEF Execute, Extend, Spent, Round
  <2> QED
    BY <2>1, <2>2
<1>10. CASE ExecuteLate
  <2>1. Abreast'
    BY <1>10, SMT DEF ExecuteLate, Extend, Spent
  <2>2. Spent'
    BY <1>10, SMT DEF ExecuteLate, Extend, Spent, Round
  <2> QED
    BY <2>1, <2>2
<1>11. CASE Vanish
  <2>1. Abreast'
    BY <1>11, SMT DEF Vanish, Spent
  <2>2. Spent'
    BY <1>11, SMT DEF Vanish, Spent, Round
  <2> QED
    BY <2>1, <2>2
<1>12. CASE Reclaim
  <2>1. Abreast'
    BY <1>12, SMT DEF Reclaim, call, Spent
  <2>2. Spent'
    BY <1>12, SMT DEF Reclaim, call, Spent, Round
  <2> QED
    BY <2>1, <2>2
<1>13. CASE Revoke
  <2>1. Abreast'
    BY <1>13, SMT DEF Revoke, call, Spent
  <2>2. Spent'
    BY <1>13, SMT DEF Revoke, call, Spent, Round
  <2> QED
    BY <2>1, <2>2
<1>14. CASE Pass
  <2>1. Abreast'
    BY <1>14, SMT DEF Pass, Due, Less, Spent
  <2>2. Spent'
    BY <1>14, SMT DEF Pass, Due, Less, Spent, Round
  <2> QED
    BY <2>1, <2>2
<1>15. CASE Fenced \/ End
  BY <1>15 DEF Fenced, End
<1>16. CASE UNCHANGED vars
  BY <1>16, SMT DEF vars, Spent, Round
<1> QED
  BY <1>4, <1>5, <1>6, <1>7, <1>8, <1>9, <1>10, <1>11, <1>12, <1>13, <1>14, <1>15, <1>16 DEF Next

\* Until a second call fails, a roomy lease reaches beyond the sweep's grace.
LEMMA RoomyReaches ==
  ASSUME RoomyInv, handler = "running", Roomy, row = "ours", failures \in {0, 1}
  PROVE  ~Reclaimable
<1>1. TypeOK /\ Clamped /\ MaxLate \in Nat /\ Abreast /\ Spent
  BY KnobsFit, SettingsAssumption DEF SettingsAssumption, RoomyInv, ClockInv
<1> USE <1>1 DEF TypeOK, Clamped, Roomy, Aged, Taken, TimerLate, CallLate, Abreast, Spent,
               Round, Reclaimable
<1>2. CASE phase = "none"
  BY <1>2, SMT
<1>3. CASE phase = "renew"
  BY <1>3, SMT
<1>4. CASE phase \in {"verify", "reconnect"}
  BY <1>4, SMT
<1> QED
  BY <1>2, <1>3, <1>4

\* A live worker loses a roomy lease to a sweep only after two failed calls in a row,
\* for every lease, environment and lateness.
THEOREM SingleFailureSpared == Spec => SpareSingleFailure
<1>1. RoomyInv /\ [Next]_vars => RoomyInv'
  BY TypesKept, ClocksKept, RoomyKept DEF RoomyInv, ClockInv
<1>2. RoomyInv /\ [Next]_vars
        => [Roomy /\ row = "ours" /\ row' = "lost" => failures >= 2]_vars
  <2> SUFFICES ASSUME RoomyInv, Next, Roomy, row = "ours", row' = "lost"
               PROVE  failures >= 2
    OBVIOUS
  <2>1. Reclaim
    BY DEF Next, Fire, Renewed, Fenced, RenewFails, VerifyFails, Reconnected, End,
           Execute, ExecuteLate, Vanish, Revoke, Pass
  <2>2. failures \notin {0, 1}
    BY <2>1, RoomyReaches DEF Reclaim
  <2>3. failures \in 0..3
    BY DEF RoomyInv, ClockInv, TypeOK
  <2> QED
    BY <2>2, <2>3
<1> QED
  BY InitRoomy, <1>1, <1>2, PTL DEF Spec, SpareSingleFailure
=============================================================================
