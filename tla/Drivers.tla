-------------------------------- MODULE Drivers --------------------------------
(***************************************************************************)
(* The loader below its protocol: start.S moves it (Relocate), then kmain  *)
(* (raspi/bootrpi.c) sets up the LED, the UART, the timer and the watchdog *)
(* (Registers, Timer) and uses them command by command, until it starts a  *)
(* program; that may come back to kmain, with everything left as it likes. *)
(***************************************************************************)
EXTENDS Relocate, Timer, Registers

vars == <<relocateVars, timerVars, registerVars>>

Init == RelocateInit /\ TimerStart /\ RegistersInit

\* Nothing but start.S runs before it has come to _start.
StartUp == RelocateNext /\ UNCHANGED <<timerVars, registerVars>>

Time == reloc = "run" /\ Tick /\ UNCHANGED <<relocateVars, registerVars>>

\* The loop of timer_delay.
Look == Poll /\ UNCHANGED <<relocateVars, registerVars>>

\* What a command does with the hardware; an unknown one lets timer_delay pass
\* before it is answered.
Command ==
  \/ delay = "idle" /\ (Serve \/ HandleReboot \/ HandleExec) /\ UNCHANGED timerVars
  \/ at = "serve" /\ (\E m \in Delays : Enter(m)) /\ UNCHANGED registerVars
  \/ Return /\ Serve

KMain ==
  /\ reloc = "run" /\ UNCHANGED relocateVars
  /\ \/ (OkledInit \/ UartInit) /\ UNCHANGED timerVars
     \/ at = "uart" /\ TimerInit /\ UNCHANGED registerVars
     \/ delay = "idle" /\ (WdogStop \/ WaitForHeader \/ Received) /\ UNCHANGED timerVars
     \/ Command

Program == KernelLeaves /\ ProgramReturns /\ UNCHANGED relocateVars

Next == StartUp \/ Time \/ Look \/ KMain \/ Program

\* Time goes on, and so does the processor; no command ever has to come.
Spec == Init /\ [][Next]_vars
FairSpec == Spec /\ WF_vars(StartUp) /\ WF_vars(Time) /\ WF_vars(Look)

-----------------------------------------------------------------------------
(* Properties *)

DriversTypeOK ==
  /\ RelocateTypeOK /\ TimerTypeOK
  /\ at \in {"enter", "led", "uart", "line", "wait", "serve", "kernel"}
  /\ fsel1 \cup fsel4 \subseteq 0 .. 29 /\ latch \subseteq 0 .. 53 /\ rstc \subseteq 0 .. 23

=============================================================================
