------------------------------- MODULE Registers -------------------------------
(***************************************************************************)
(* The registers that the loader programs: the pins of the activity LED    *)
(* and the UART (raspi/okled.c, raspi/uart.c), which share a register, and *)
(* the watchdog's control (raspi/wdog.c).  The loader is entered again and *)
(* again by programs that leave in them what they like.                    *)
(*                                                                         *)
(* A register is the set of its bits that are 1.  Pin p's function is a    *)
(* field of 3 bits in GPFSEL<p div 10>.                                    *)
(***************************************************************************)
EXTENDS Integers

CONSTANTS
  Boards,     \* a part of {"rpi", "rpi2"}: TARGET_BOARD_*
  Left        \* what a program may leave: [fsel1, fsel4, latch, rstc]

ASSUME RegistersAssumption ==
  /\ Boards \subseteq {"rpi", "rpi2"}
  /\ \A l \in Left : /\ l.fsel1 \subseteq 0 .. 29 /\ l.fsel4 \subseteq 0 .. 29
                     /\ l.latch \subseteq 0 .. 53 /\ l.rstc \subseteq 0 .. 23

VARIABLES
  board,
  fsel1, fsel4,  \* GPFSEL1, GPFSEL4
  latch,         \* the pins driven high, as GPFSET* and GPFCLR* leave them
  rstc,          \* PM_RSTC, its password left out
  at             \* enter, led, uart, line (inside kmain), wait (for a header),
                 \* serve (a command), kernel

registerVars == <<board, fsel1, fsel4, latch, rstc, at>>

\* Pins and fields of bcm283x.h.
FSEL14OFF == 12
FSEL15OFF == 15
FSEL16OFF == 18
FSEL47OFF == 21
LedPin == IF board = "rpi" THEN 16 ELSE 47

Output == {0}
Alt0   == {2}

OrField(reg, off, value) == reg \cup {off + k : k \in value}

StoreField(reg, off, value) == {off + k : k \in value}

\* (reg & ~(7<<off)) | value<<off
SetField(reg, off, value) == (reg \ (off .. off + 2)) \cup {off + k : k \in value}

Field(reg, off) == {k \in 0 .. 2 : off + k \in reg}

\* PM_RSTC_WRCFG_CLR clears bits 4 and 5.
WRCFG == 4 .. 5
FullReset == {5}
RSTC_RESET == {1, 8}

-----------------------------------------------------------------------------
(* kmain *)

\* Registers are left by the firmware or a program: they are not known.
Leave(l) == fsel1' = l.fsel1 /\ fsel4' = l.fsel4 /\ latch' = l.latch /\ rstc' = l.rstc

RegistersInit ==
  /\ board \in Boards /\ at = "enter"
  /\ \E l \in Left : fsel1 = l.fsel1 /\ fsel4 = l.fsel4 /\ latch = l.latch /\ rstc = l.rstc

\* okled_init: GPFSET0 is bank 0 on both boards.
OkledInit ==
  /\ at = "enter" /\ at' = "led"
  /\ IF board = "rpi"
     THEN fsel1' = SetField(fsel1, FSEL16OFF, Output) /\ fsel4' = fsel4
                   /\ latch' = latch \cup {16}
     ELSE fsel4' = SetField(fsel4, FSEL47OFF, Output) /\ fsel1' = fsel1
                   /\ latch' = latch \cup {15}
  /\ UNCHANGED <<board, rstc>>

UartInit ==
  /\ at = "led" /\ at' = "uart"
  /\ fsel1' = SetField(SetField(fsel1, FSEL14OFF, Alt0), FSEL15OFF, Alt0)
  /\ UNCHANGED <<board, fsel4, latch, rstc>>

WdogStopOr == /\ at = "uart" /\ at' = "line" /\ rstc' = rstc \cup RSTC_RESET
              /\ UNCHANGED <<board, fsel1, fsel4, latch>>

WdogStop == /\ at = "uart" /\ at' = "line" /\ rstc' = RSTC_RESET
            /\ UNCHANGED <<board, fsel1, fsel4, latch>>

SwitchLow(on) == latch' = IF on THEN latch \ {LedPin} ELSE latch \cup {LedPin}

\* okled_switch: low lights the LED of one board, high that of the other.
OkledSwitch(on) ==
  latch' = IF on <=> board = "rpi" THEN latch \ {LedPin} ELSE latch \cup {LedPin}

WaitForHeader == /\ at = "line" /\ at' = "wait" /\ OkledSwitch(TRUE)
                 /\ UNCHANGED <<board, fsel1, fsel4, rstc>>

Received == /\ at = "wait" /\ at' = "serve" /\ OkledSwitch(FALSE)
            /\ UNCHANGED <<board, fsel1, fsel4, rstc>>

WdogStart == rstc' = (rstc \ WRCFG) \cup FullReset

\* The command is PING, LOAD, ZERO or unknown; REBOOT; EXEC with or without BPF_NOWD.
Serve == /\ at = "serve" /\ at' = "line"
         /\ UNCHANGED <<board, fsel1, fsel4, latch, rstc>>

HandleReboot == /\ at = "serve" /\ at' = "line" /\ WdogStart
                /\ UNCHANGED <<board, fsel1, fsel4, latch>>

HandleExec == /\ at = "serve" /\ at' = "kernel"
              /\ WdogStart \/ UNCHANGED rstc
              /\ UNCHANGED <<board, fsel1, fsel4, latch>>

\* The program returns, or the board is reset.
KernelLeaves == /\ at = "kernel" /\ at' = "enter" /\ (\E l \in Left : Leave(l))
                /\ UNCHANGED board

-----------------------------------------------------------------------------
(* Properties *)

\* Whatever functions a program gave the pins, commands are read with the UART
\* on its pins and the LED's pin an output: three read-modify-writes, two of them
\* or all three on one register (okled_init, uart_init).
PinsAreOurs ==
  at \in {"wait", "serve"} =>
    /\ Field(fsel1, FSEL14OFF) = Alt0 /\ Field(fsel1, FSEL15OFF) = Alt0
    /\ IF board = "rpi" THEN Field(fsel1, FSEL16OFF) = Output
                        ELSE Field(fsel4, FSEL47OFF) = Output

\* Pins that are none of the loader's keep the function they were given: the
\* loader is "as transparent as possible".
OtherPinsKept ==
  [][at # "kernel" =>
       /\ fsel1' \ (FSEL14OFF .. FSEL16OFF + 2) = fsel1 \ (FSEL14OFF .. FSEL16OFF + 2)
       /\ fsel4' \ (FSEL47OFF .. FSEL47OFF + 2) = fsel4 \ (FSEL47OFF .. FSEL47OFF + 2)]_registerVars

\* The LED is lit just while the loader waits for a command, on either board and
\* whatever its level was (kmain).
LedShowsWaiting ==
  /\ at = "wait" => (LedPin \in latch <=> board = "rpi2")
  /\ at = "serve" => (LedPin \in latch <=> board = "rpi")

\* The watchdog's reset is selected by a field that must be all of one value: it
\* is the full reset or none while commands are read, whatever a program wrote
\* there before it came back (wdog_stop, wdog_start).
ResetIsFull ==
  at \in {"wait", "serve"} => rstc \cap WRCFG \in {{}, FullReset}

=============================================================================
