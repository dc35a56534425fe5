------------------------------- MODULE Rates -------------------------------
(***************************************************************************)
(* One running rate of a benchmark (pkg/rates/rates.go): the rate          *)
(* goroutine (SingleRate or IncDecRate), the ConstTimer goroutines it      *)
(* starts, the runControlOps goroutine that consumes its values, and the   *)
(* stopRoutines call that ends them (controllers/benchmark_controller.go). *)
(*                                                                         *)
(* All channels are unbuffered, so a send and its receive are one step     *)
(* that both goroutines must be ready for.  "pin" carries ticks from the   *)
(* timer to the rate AND the stop request from the rate to the timer.      *)
(* A select with a default takes a channel case only if the other side is  *)
(* already parked on the channel, so "about to send" and "parked in the    *)
(* send" are different places of the rate goroutine.                       *)
(***************************************************************************)
EXTENDS Integers

CONSTANTS
    Kinds,          \* the rates considered: "single" (SingleRate), "incdec" (IncDecRate)
    Min, Max,       \* bounds of the IncDecRate counter
    IncInterval,    \* seconds between ticks while counting up (and of SingleRate)
    DecInterval,    \* seconds between ticks while counting down
    Prompt          \* TRUE: a goroutine that is not blocked runs within the one
                    \* second a timer sleeps; FALSE: it may be delayed for longer

ASSUME RatesAssumption ==
    /\ Kinds \subseteq {"single", "incdec"}
    /\ Min \in Int /\ Max \in Int       \* the CRD does not relate them
    /\ IncInterval \in Int \ {0}        \* startRates rejects 0
    /\ DecInterval \in Int
    /\ Prompt \in BOOLEAN

VARIABLES
    kind,       \* what startRates has started
    rate,       \* where the rate goroutine is
    timer,      \* where the inc timer and the dec timer goroutine are
    count,      \* the seconds each timer has counted
    counter,    \* IncDecRate's counter
    goingUp,    \* IncDecRate's direction
    ops,        \* where the runControlOps goroutine is
    got,        \* the last value runControlOps received (0: none yet)
    stop        \* control messages stopRoutines has left to send, -1: not called

vars == <<kind, rate, timer, count, counter, goingUp, ops, got, stop>>

Timers == {"inc", "dec"}

Interval(t) == IF t = "inc" THEN IncInterval ELSE DecInterval

\* The rate goroutine is parked in a send on pin.
Parked == rate \in {"turn", "exit"}

\* The rate goroutine is between two channel operations and can run.
Busy == rate \in {"tick", "deliver", "stopping"}

Init ==
    /\ kind \in Kinds
    /\ rate = "select"
    /\ timer = [t \in Timers |-> IF t = "inc" THEN "poll" ELSE "off"]
    /\ count = [t \in Timers |-> 0]
    /\ counter = Min
    /\ goingUp = TRUE
    /\ ops = "select"
    /\ got = 0
    /\ stop = -1
-----------------------------------------------------------------------------
(***************************************************************************)
(* ConstTimer.Run: poll pin, tick when the interval has passed, sleep.     *)
(***************************************************************************)

\* Mutant: the new timer is started without stopping the old one.
TurnKeepsOldTimer(t) ==
    /\ timer[t] = "poll"
    /\ rate = "turn"
    /\ LET next == IF goingUp THEN "inc" ELSE "dec"
       IN  /\ timer' = [timer EXCEPT ![next] = "poll"]
           /\ count' = [count EXCEPT ![next] = 0]
    /\ rate' = "deliver"
    /\ UNCHANGED <<kind, counter, goingUp, ops, got, stop>>

\* case <-pin: the rate stops this timer, because it turns around ...
TimerStoppedAtTurn(t) ==
    /\ timer[t] = "poll"
    /\ rate = "turn"
    /\ LET next == IF goingUp THEN "inc" ELSE "dec"
       IN  /\ timer' = [timer EXCEPT ![t] = "off", ![next] = "poll"]
           /\ count' = [count EXCEPT ![next] = 0]
    /\ rate' = "deliver"
    /\ UNCHANGED <<kind, counter, goingUp, ops, got, stop>>

\* ... or because it was told to exit.
TimerStoppedAtExit(t) ==
    /\ timer[t] = "poll"
    /\ rate = "exit"
    /\ timer' = [timer EXCEPT ![t] = "off"]
    /\ rate' = "done"
    /\ UNCHANGED <<kind, count, counter, goingUp, ops, got, stop>>

\* Mutant: the count is not reset with the tick.
DefaultWithoutReset(t) ==
    /\ timer[t] = "poll"
    /\ ~Parked
    /\ timer' = [timer EXCEPT ![t] = IF count[t] = Interval(t) THEN "send" ELSE "sleep"]
    /\ UNCHANGED <<kind, rate, count, counter, goingUp, ops, got, stop>>

\* default: send a tick if the interval has passed, otherwise sleep.
TimerDefault(t) ==
    /\ timer[t] = "poll"
    /\ ~Parked
    /\ \/ /\ count[t] = Interval(t)
          /\ count' = [count EXCEPT ![t] = 0]
          /\ timer' = [timer EXCEPT ![t] = "send"]
       \/ /\ count[t] # Interval(t)
          /\ timer' = [timer EXCEPT ![t] = "sleep"]
          /\ UNCHANGED count
    /\ UNCHANGED <<kind, rate, counter, goingUp, ops, got, stop>>

\* time.Sleep(time.Second); count += 1.  Past the interval the exact count
\* no longer matters (the code compares with ==), so it stays there.
TimerSleep(t) ==
    /\ timer[t] = "sleep"
    /\ Prompt => ~Busy
    /\ timer' = [timer EXCEPT ![t] = "poll"]
    /\ count' = [count EXCEPT ![t] = IF @ > Interval(t) THEN @ ELSE @ + 1]
    /\ UNCHANGED <<kind, rate, counter, goingUp, ops, got, stop>>
-----------------------------------------------------------------------------
(***************************************************************************)
(* SingleRate and IncDecRate.                                              *)
(***************************************************************************)

\* Mutant: the timer makes up for a late tick with a second one.
TickTwice(t) ==
    /\ timer[t] = "send"
    /\ rate = "select"
    /\ timer' = [timer EXCEPT ![t] = "send"]
    /\ rate' = "tick"
    /\ UNCHANGED <<kind, count, counter, goingUp, ops, got, stop>>

\* pin <- 1 in the timer meets case <-pin in the rate's select.
Tick(t) ==
    /\ timer[t] = "send"
    /\ rate = "select"
    /\ timer' = [timer EXCEPT ![t] = "sleep"]
    /\ rate' = "tick"
    /\ UNCHANGED <<kind, count, counter, goingUp, ops, got, stop>>

\* Mutant: the bound is compared before the counter is moved.
CountThenCompareOld ==
    /\ kind = "incdec"
    /\ rate = "tick"
    /\ \/ /\ goingUp
          /\ counter' = counter + 1
          /\ goingUp' = (counter # Max)
       \/ /\ ~goingUp
          /\ counter' = counter - 1
          /\ goingUp' = (counter = Min)
    /\ rate' = IF goingUp' # goingUp THEN "turn" ELSE "deliver"
    /\ UNCHANGED <<kind, timer, count, ops, got, stop>>

\* The body of IncDecRate's tick case up to its first channel operation:
\* at a bound it flips the direction and parks to stop the running timer.
Count ==
    /\ kind = "incdec"
    /\ rate = "tick"
    /\ \/ /\ goingUp
          /\ counter' = counter + 1
          /\ goingUp' = (counter' # Max)
       \/ /\ ~goingUp
          /\ counter' = counter - 1
          /\ goingUp' = (counter' = Min)
    /\ rate' = IF goingUp' # goingUp THEN "turn" ELSE "deliver"
    /\ UNCHANGED <<kind, timer, count, ops, got, stop>>

\* SingleRate has nothing to count.
Pass ==
    /\ kind = "single"
    /\ rate = "tick"
    /\ rate' = "deliver"
    /\ UNCHANGED <<kind, timer, count, counter, goingUp, ops, got, stop>>

\* SingleRate forwards the 1 it read from pin; IncDecRate sends its counter.
Value == IF kind = "single" THEN 1 ELSE counter

\* The inner select: hand the value over if the consumer is waiting, drop it if not.
Deliver ==
    /\ rate = "deliver"
    /\ rate' = "select"
    /\ \/ /\ ops = "select"
          /\ ops' = "busy"
          /\ got' = Value
       \/ /\ ops # "select"
          /\ UNCHANGED <<ops, got>>
    /\ UNCHANGED <<kind, timer, count, counter, goingUp, stop>>

\* Mutant: break instead of return, which leaves the select and not the loop.
ExitRateBreaks ==
    /\ rate = "stopping"
    /\ rate' = "select"
    /\ UNCHANGED <<kind, timer, count, counter, goingUp, ops, got, stop>>

\* The control case of the rate's select, up to its blocking pin <- 1.
ExitRate ==
    /\ rate = "stopping"
    /\ rate' = "exit"
    /\ UNCHANGED <<kind, timer, count, counter, goingUp, ops, got, stop>>
-----------------------------------------------------------------------------
(***************************************************************************)
(* runControlOps and stopRoutines.                                         *)
(***************************************************************************)

\* The operations of this rate have run; back to the select.
OpsDone ==
    /\ ops = "busy"
    /\ ops' = "select"
    /\ UNCHANGED <<kind, rate, timer, count, counter, goingUp, got, stop>>

\* The benchmark ends: two messages, one for each routine of the rate.
StopRoutines ==
    /\ stop = -1
    /\ stop' = 2
    /\ UNCHANGED <<kind, rate, timer, count, counter, goingUp, ops, got>>

\* The control channel is shared: whichever routine selects takes a message.
StopRate ==
    /\ stop > 0
    /\ rate = "select"
    /\ stop' = stop - 1
    /\ rate' = "stopping"
    /\ UNCHANGED <<kind, timer, count, counter, goingUp, ops, got>>

StopOps ==
    /\ stop > 0
    /\ ops = "select"
    /\ stop' = stop - 1
    /\ ops' = "done"
    /\ UNCHANGED <<kind, rate, timer, count, counter, goingUp, got>>
-----------------------------------------------------------------------------
TimerStep(t) ==
    \/ TimerStoppedAtTurn(t)
    \/ TimerStoppedAtExit(t)
    \/ TimerDefault(t)
    \/ TimerSleep(t)
    \/ Tick(t)

RateStep == Count \/ Pass \/ Deliver \/ ExitRate

Next ==
    \/ \E t \in Timers : TimerStep(t)
    \/ RateStep
    \/ OpsDone
    \/ StopRoutines
    \/ StopRate
    \/ StopOps

(***************************************************************************)
(* The Go scheduler runs every goroutine that can run.  A select with      *)
(* several ready cases picks one at random, so a case that is ready again  *)
(* and again is picked eventually: strong fairness of the two control      *)
(* receives.  Nothing obliges the benchmark to end (StopRoutines).         *)
(***************************************************************************)
Fairness ==
    /\ \A t \in Timers : WF_vars(TimerStep(t))
    /\ WF_vars(RateStep)
    /\ WF_vars(OpsDone)
    /\ SF_vars(StopRate)
    /\ SF_vars(StopOps)

Spec == Init /\ [][Next]_vars

FairSpec == Spec /\ Fairness
-----------------------------------------------------------------------------
(***************************************************************************)
(* Properties.                                                             *)
(***************************************************************************)

TypeOK ==
    /\ kind \in {"single", "incdec"}
    /\ rate \in {"select", "tick", "turn", "deliver", "stopping", "exit", "done"}
    /\ timer \in [Timers -> {"off", "poll", "send", "sleep"}]
    /\ count \in [Timers -> Int]
    /\ counter \in Int
    /\ goingUp \in BOOLEAN
    /\ ops \in {"select", "busy", "done"}
    /\ got \in Int
    /\ stop \in {-1, 0, 1, 2}

\* The timer that ought to be running: the one of the current direction,
\* except while the rate is still trying to stop the one of the old direction.
Running == IF (rate = "turn") = goingUp THEN "dec" ELSE "inc"

(***************************************************************************)
(* Exactly one ConstTimer goroutine uses pin, and it is the one of the     *)
(* counter's direction: stopping the old timer before starting the new one *)
(* (rates.go:75-84) never leaves two timers ticking on the shared channel  *)
(* nor none, and the stopped one really is gone.  Once the rate has        *)
(* returned no timer is left behind.                                       *)
(***************************************************************************)
OneTimer ==
    \A t \in Timers : timer[t] # "off" <=> (rate # "done" /\ t = Running)

(***************************************************************************)
(* The counter stays between Min and Max, and has already turned around    *)
(* at a bound whenever the rate waits for the next tick: rates.go:75 and   *)
(* :82 compare with == only, so one missed turn would let it run away.  So *)
(* does each value that runControlOps receives from an IncDecRate.         *)
(***************************************************************************)
InBounds ==
    /\ counter \in Min..Max
    /\ counter = Max => ~goingUp
    /\ counter = Min => goingUp
    /\ kind = "incdec" /\ got # 0 => got \in Min..Max

(***************************************************************************)
(* Turning around never finds the old timer in its own send: both would    *)
(* wait on pin for ever (rates.go:29 against :77 and :84).  It holds only  *)
(* because the timer sleeps a second after the tick that made the rate     *)
(* turn, that is when Prompt.                                              *)
(***************************************************************************)
TurnNeverBlocks == rate = "turn" => \A t \in Timers : timer[t] # "send"

(***************************************************************************)
(* "Runs indefinitely" (doc/benchmark_resource.md:137-138): unless it is   *)
(* stopped, an IncDecRate reaches Max and Min again and again, and a       *)
(* SingleRate goes on ticking.                                             *)
(***************************************************************************)
RunsIndefinitely ==
    \/ <>(stop # -1)
    \/ kind = "single" /\ []<>(rate = "tick")
    \/ []<>(counter = Max) /\ []<>(counter = Min)

(***************************************************************************)
(* "the only way they exit is if we tell them to via the control channel"  *)
(* (benchmark_controller.go:351-352).  stopRoutines always returns: its    *)
(* two messages are taken, each by another routine, whatever both are      *)
(* doing.  Told to, the routines exit, or block on pin for one reason: the *)
(* timer was already sending a tick when the rate began to send it the     *)
(* request to stop (rates.go:29 against :48 and :69).  Both goroutines are *)
(* leaked then.                                                            *)
(***************************************************************************)
StoppedExits ==
    stop # -1 ~>
        /\ stop = 0 /\ ops = "done"
        /\ \/ rate = "done" /\ \A t \in Timers : timer[t] = "off"
           \/ rate = "exit" /\ \E t \in Timers : timer[t] = "send"
=============================================================================
