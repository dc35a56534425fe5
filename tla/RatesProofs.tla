---------------------------- MODULE RatesProofs ----------------------------
(***************************************************************************)
(* Theorems about Rates, for every interval, every Min < Max and every     *)
(* scheduling of the goroutines.                                           *)
(***************************************************************************)
EXTENDS Rates, TLAPS

(***************************************************************************)
(* Type correctness of a rate and its goroutines.                          *)
(***************************************************************************)
THEOREM TypeCorrect == Spec => []TypeOK
<1>1. Init => TypeOK
  BY RatesAssumption DEF Init, TypeOK, Timers
<1>2. TypeOK /\ [Next]_vars => TypeOK'
  <2> SUFFICES ASSUME TypeOK, [Next]_vars PROVE TypeOK'
    OBVIOUS
  <2> USE RatesAssumption DEF TypeOK, Timers
  <2>1. ASSUME NEW t \in Timers, TimerStoppedAtTurn(t) PROVE TypeOK'
    BY <2>1 DEF TimerStoppedAtTurn
  <2>2. ASSUME NEW t \in Timers, TimerStoppedAtExit(t) PROVE TypeOK'
    BY <2>2 DEF TimerStoppedAtExit
  <2>3. ASSUME NEW t \in Timers, TimerDefault(t) PROVE TypeOK'
    BY <2>3 DEF TimerDefault, Interval
  <2>4. ASSUME NEW t \in Timers, TimerSleep(t) PROVE TypeOK'
    BY <2>4 DEF TimerSleep, Interval
  <2>5. ASSUME NEW t \in Timers, Tick(t) PROVE TypeOK'
    BY <2>5 DEF Tick
  <2>6. CASE Count
    <3>1. goingUp' \in BOOLEAN
      BY <2>6, Zenon DEF Count
    <3>2. rate' \in {"turn", "deliver"} /\ counter' \in {counter + 1, counter - 1}
      BY <2>6, Zenon DEF Count
    <3>3. UNCHANGED <<kind, timer, count, ops, got, stop>>
      BY <2>6 DEF Count
    <3>4. QED
      BY <3>1, <3>2, <3>3
  <2>7. CASE Pass
    BY <2>7 DEF Pass
  <2>8. CASE Deliver
    BY <2>8 DEF Deliver, Value
  <2>9. CASE ExitRate
    BY <2>9 DEF ExitRate
  <2>10. CASE OpsDone
    BY <2>10 DEF OpsDone
  <2>11. CASE StopRoutines
    BY <2>11 DEF StopRoutines
  <2>12. CASE StopRate
    BY <2>12 DEF StopRate
  <2>13. CASE StopOps
    BY <2>13 DEF StopOps
  <2>14. CASE UNCHANGED vars
    BY <2>14 DEF vars
  <2>15. QED
    BY <2>1, <2>2, <2>3, <2>4, <2>5, <2>6, <2>7, <2>8, <2>9, <2>10, <2>11,
       <2>12, <2>13, <2>14 DEF Next, TimerStep, RateStep
<1>3. QED
  BY <1>1, <1>2, PTL DEF Spec

(***************************************************************************)
(* The counter's place relative to its bounds.  While the rate is between  *)
(* two steps it has already turned at a bound, which is what makes the     *)
(* next step stay inside.                                                  *)
(***************************************************************************)
THEOREM StaysInBounds == ASSUME Min < Max PROVE Spec => []InBounds
<1>1. Init => InBounds
  BY RatesAssumption DEF Init, InBounds
<1>2. TypeOK /\ InBounds /\ [Next]_vars => InBounds'
  <2> SUFFICES ASSUME TypeOK, InBounds, [Next]_vars PROVE InBounds'
    OBVIOUS
  <2>1. CASE Count
    <3>1. CASE goingUp
      <4>1. counter' = counter + 1 /\ (counter' = Max <=> ~goingUp')
        BY <2>1, <3>1, Zenon DEF Count
      <4>2. counter # Max
        BY <3>1 DEF InBounds
      <4>3. UNCHANGED <<kind, got>>
        BY <2>1 DEF Count
      <4>4. QED
        BY <3>1, <4>1, <4>2, <4>3, RatesAssumption DEF InBounds
    <3>2. CASE ~goingUp
      <4>1. counter' = counter - 1 /\ (counter' = Min <=> goingUp')
        BY <2>1, <3>2, Zenon DEF Count
      <4>2. counter # Min
        BY <3>2 DEF InBounds
      <4>3. UNCHANGED <<kind, got>>
        BY <2>1 DEF Count
      <4>4. QED
        BY <3>2, <4>1, <4>2, <4>3, RatesAssumption DEF InBounds
    <3>3. QED
      BY <3>1, <3>2
  <2>2. CASE UNCHANGED <<kind, counter, goingUp, got>>
    BY <2>2 DEF InBounds
  <2>3. CASE Deliver
    <3>1. UNCHANGED <<kind, counter, goingUp>> /\ got' \in {got, Value}
      BY <2>3 DEF Deliver
    <3>2. kind = "incdec" => Value = counter
      BY DEF Value
    <3>3. QED
      BY <3>1, <3>2 DEF InBounds
  <2>4. QED
    BY <2>1, <2>2, <2>3 DEF Next, TimerStep, RateStep, TimerStoppedAtTurn,
       TimerStoppedAtExit, TimerDefault, TimerSleep, Tick, Pass,
       ExitRate, OpsDone, StopRoutines, StopRate, StopOps, vars
<1>3. QED
  BY <1>1, <1>2, TypeCorrect, PTL DEF Spec

(***************************************************************************)
(* One timer at a time on the shared channel.                              *)
(***************************************************************************)
THEOREM TimersNeverOverlap == Spec => []OneTimer
<1> USE DEF OneTimer, Running, Timers
<1>1. Init => OneTimer
  BY DEF Init
<1>2. TypeOK /\ OneTimer /\ [Next]_vars => OneTimer'
  <2> SUFFICES ASSUME TypeOK, OneTimer, [Next]_vars PROVE OneTimer'
    OBVIOUS
  <2> USE DEF TypeOK
  <2>1. ASSUME NEW t \in Timers, TimerStoppedAtTurn(t) PROVE OneTimer'
    BY <2>1 DEF TimerStoppedAtTurn
  <2>2. ASSUME NEW t \in Timers, TimerStoppedAtExit(t) PROVE OneTimer'
    BY <2>2 DEF TimerStoppedAtExit
  <2>3. ASSUME NEW t \in Timers, TimerDefault(t) PROVE OneTimer'
    BY <2>3 DEF TimerDefault
  <2>4. ASSUME NEW t \in Timers, TimerSleep(t) PROVE OneTimer'
    BY <2>4 DEF TimerSleep
  <2>5. ASSUME NEW t \in Timers, Tick(t) PROVE OneTimer'
    BY <2>5 DEF Tick
  <2>6. CASE Count
    BY <2>6 DEF Count
  <2>7. CASE Pass \/ Deliver \/ ExitRate \/ StopRate
    BY <2>7 DEF Pass, Deliver, ExitRate, StopRate
  <2>8. CASE UNCHANGED <<rate, timer, goingUp>>
    BY <2>8
  <2>9. QED
    BY <2>1, <2>2, <2>3, <2>4, <2>5, <2>6, <2>7, <2>8 DEF Next, TimerStep,
       RateStep, OpsDone, StopRoutines, StopOps, vars
<1>3. QED
  BY <1>1, <1>2, TypeCorrect, PTL DEF Spec

(***************************************************************************)
(* Why a prompt rate never deadlocks with its timer when it turns: from    *)
(* the tick on, the only timer is asleep until the rate is parked.         *)
(***************************************************************************)
AsleepAfterTick ==
    /\ rate = "tick" => timer[Running] = "sleep"
    /\ rate = "turn" => timer[Running] \in {"sleep", "poll"}

THEOREM PromptTurns == ASSUME Prompt PROVE Spec => []TurnNeverBlocks
<1> USE DEF AsleepAfterTick, OneTimer, Running, Timers
<1>1. Init => AsleepAfterTick
  BY DEF Init
<1>2. TypeOK /\ OneTimer /\ AsleepAfterTick /\ [Next]_vars => AsleepAfterTick'
  <2> SUFFICES ASSUME TypeOK, OneTimer, AsleepAfterTick, [Next]_vars
               PROVE  AsleepAfterTick'
    OBVIOUS
  <2> USE DEF TypeOK
  <2>1. ASSUME NEW t \in Timers, TimerStoppedAtTurn(t) \/ TimerStoppedAtExit(t)
        PROVE  AsleepAfterTick'
    BY <2>1 DEF TimerStoppedAtTurn, TimerStoppedAtExit
  <2>2. ASSUME NEW t \in Timers, TimerDefault(t) PROVE AsleepAfterTick'
    BY <2>2 DEF TimerDefault, Parked
  <2>3. ASSUME NEW t \in Timers, TimerSleep(t) PROVE AsleepAfterTick'
    BY <2>3 DEF TimerSleep, Busy
  <2>4. ASSUME NEW t \in Timers, Tick(t) PROVE AsleepAfterTick'
    BY <2>4 DEF Tick
  <2>5. CASE Count
    BY <2>5 DEF Count
  <2>6. CASE Pass \/ Deliver \/ ExitRate \/ StopRate
    BY <2>6 DEF Pass, Deliver, ExitRate, StopRate
  <2>7. CASE UNCHANGED <<rate, timer, goingUp>>
    BY <2>7
  <2>8. QED
    BY <2>1, <2>2, <2>3, <2>4, <2>5, <2>6, <2>7 DEF Next, TimerStep,
       RateStep, OpsDone, StopRoutines, StopOps, vars
<1>3. TypeOK /\ OneTimer /\ AsleepAfterTick => TurnNeverBlocks
  BY DEF TurnNeverBlocks, TypeOK
<1>4. QED
  BY <1>1, <1>2, <1>3, TypeCorrect, TimersNeverOverlap, PTL DEF Spec
=============================================================================
