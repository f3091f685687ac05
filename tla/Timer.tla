--------------------------------- MODULE Timer ---------------------------------
(***************************************************************************)
(* timer_delay (raspi/timer.c): a loop that watches the free running       *)
(* counter of microseconds, which wraps.  handle_unknown trusts it to let  *)
(* the line fall silent.                                                   *)
(***************************************************************************)
EXTENDS Integers

CONSTANTS
  CounterRange,   \* 2^32 on the board: the counter, and unsigned arithmetic, wrap there
  Delays,         \* what micros may be
  MaxGap          \* bound: microseconds between two readings of the counter

ASSUME TimerAssumption ==
  /\ CounterRange \in Nat \ {0} /\ MaxGap \in Nat \ {0}
  /\ Delays \subseteq 0 .. CounterRange - 1
  /\ \A d \in Delays : d + MaxGap < CounterRange

VARIABLES
  counter,    \* ARM_TIMER_CNT
  running,    \* the counter is enabled in ARM_TIMER_CTL
  delay,      \* boot (timer_init is still to come), idle, wait (in timer_delay), over
  prev_cnt, micros,
  elapsed,    \* microseconds since prev_cnt was read
  gap         \* microseconds since the counter was read last

callVars  == <<prev_cnt, micros, elapsed, gap>>
timerVars == <<counter, running, delay, callVars>>

Counts == 0 .. CounterRange - 1

\* The firmware leaves the timer as it likes.
TimerStart == counter \in Counts /\ running \in BOOLEAN /\ delay = "boot"
              /\ prev_cnt = 0 /\ micros = 0 /\ elapsed = 0 /\ gap = 0

TimerStop == /\ delay = "boot" /\ delay' = "idle" /\ running' = FALSE
             /\ UNCHANGED <<counter, callVars>>

\* Stops the counter, and starts it.
TimerInit == /\ delay = "boot" /\ delay' = "idle" /\ running' = TRUE
             /\ UNCHANGED <<counter, callVars>>

\* uint32_t arithmetic
Inc(a)    == IF a + 1 = CounterRange THEN 0 ELSE a + 1
Sub(a, b) == IF a < b THEN a - b + CounterRange ELSE a - b

Enter(m) ==
  /\ delay = "idle" /\ delay' = "wait"
  /\ prev_cnt' = counter /\ micros' = m /\ elapsed' = 0 /\ gap' = 0
  /\ UNCHANGED <<counter, running>>

\* The processor is never kept from the loop for long: no interrupts.
Tick ==
  /\ running
  /\ delay = "wait" => gap < MaxGap
  /\ counter' = Inc(counter)
  /\ IF delay = "wait" THEN elapsed' = elapsed + 1 /\ gap' = gap + 1
                       ELSE UNCHANGED <<elapsed, gap>>
  /\ UNCHANGED <<running, prev_cnt, micros, delay>>

Absolute == counter < (prev_cnt + micros) % CounterRange

\* The condition of the loop: an unsigned difference.
Waits == Sub(counter, prev_cnt) < micros

Poll ==
  /\ delay = "wait" /\ gap' = 0 /\ delay' = IF Waits THEN "wait" ELSE "over"
  /\ UNCHANGED <<counter, running, prev_cnt, micros, elapsed>>

\* What belongs to the call goes with it.
Return ==
  /\ delay = "over" /\ delay' = "idle"
  /\ prev_cnt' = 0 /\ micros' = 0 /\ elapsed' = 0 /\ gap' = 0
  /\ UNCHANGED <<counter, running>>

\* A program was started and has returned; the counter cannot be written, but stopped.
ProgramReturns ==
  delay = "idle" /\ delay' = "boot" /\ running' \in BOOLEAN /\ UNCHANGED <<counter, callVars>>

TimerNext == \/ TimerInit \/ (\E m \in Delays : Enter(m)) \/ Tick \/ Poll \/ Return
             \/ ProgramReturns

TimerSpec == TimerStart /\ [][TimerNext]_timerVars

-----------------------------------------------------------------------------
(* Properties *)

TimerTypeOK ==
  /\ counter \in Counts /\ running \in BOOLEAN /\ prev_cnt \in Counts
  /\ micros \in Delays \cup {0} /\ delay \in {"boot", "idle", "wait", "over"}
  /\ elapsed \in Counts /\ gap \in 0 .. MaxGap

\* The delay is never shorter than asked for, and longer by no more than it takes
\* to look at the counter, wherever the counter stands when it begins
\* (timer_delay).
DelayIsExact ==
  delay = "over" => micros <= elapsed /\ elapsed <= micros + MaxGap

\* It ends, whatever the program that ran before has done to the timer (kmain).
DelayEnds == delay = "wait" ~> delay = "over"

=============================================================================
