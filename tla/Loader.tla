-------------------------------- MODULE Loader --------------------------------
(***************************************************************************)
(* The second stage boot loader on the Raspberry Pi: the command loop of   *)
(* raspi/bootrpi.c with the UART, watchdog and timer routines it calls,    *)
(* its start-up (raspi/start.S), the program it starts, and the serial     *)
(* line up to the PC's receive buffer.                                     *)
(*                                                                         *)
(* Whoever drives the PC end is left open: LoaderStep takes units from     *)
(* line and leaves responses in inbox.  AnyHost and PiSystem close it.     *)
(***************************************************************************)
EXTENDS BootProto

CONSTANTS
  FifoCap,      \* units the UART's receive FIFO holds
  TxCap,        \* responses the UART's transmit FIFO holds
  Window,       \* units that arrive during the 0.1 s of handle_unknown
  FwRegs,       \* <<r0, r1, r2>> as the firmware passes them
  KernelRegs,   \* <<r0, r1, r2>> as a returning program leaves them
  KernelMay,    \* what the started program may do besides running on
  Noise,        \* the parts of a packet that noise may change
  MaxFaults     \* bound on losses, noise and power cycles together

ASSUME BoardAssumption ==
  /\ FifoCap \in Nat \ {0} /\ TxCap \in Nat \ {0} /\ Window \in Nat
  /\ MaxFaults \in Nat
  /\ FwRegs \in Nat \X Nat \X Nat /\ KernelRegs \in Nat \X Nat \X Nat
  /\ KernelMay \subseteq {"return", "trash", "disarm", "print"}
  /\ Noise \subseteq {"header", "payload"}

VARIABLES
  mode,     \* where the board is, see Modes
  hdr,      \* struct bp_hdr hdr of kmain
  buf,      \* the units of hdr that kread has so far
  off,      \* payload units that kread in handle_load has stored
  fifo,     \* UART receive FIFO
  line,     \* units the PC has written that have not arrived yet
  tx,       \* responses in the UART's transmit FIFO
  inbox,    \* responses in the PC's tty buffer, not read yet
  dcount,   \* units that arrived since timer_delay was entered
  mem,      \* RAM
  wdog,     \* the watchdog: stopped, running, or stopped by the program
  saved,    \* saved_r0, saved_r1, saved_r2
  regs,     \* CPU registers r0-r2 at the last jump
  faults    \* losses, garbled units and power cycles so far

loaderVars == <<mode, hdr, buf, off, dcount, mem, wdog, saved, regs>>
linkVars   == <<fifo, line, tx, inbox, faults>>
boardVars  == <<loaderVars, linkVars>>

\* boot: firmware and _startup; enter: kmain up to its loop; hdr: reading a
\* header; payload: reading a payload; delay: timer_delay in handle_unknown;
\* exec: uart_waitidle in handle_exec; kernel: the loaded program runs;
\* hung: the CPU loops or executes garbage.
Modes == {"boot", "enter", "hdr", "payload", "delay", "exec", "kernel", "hung"}

TypeOK ==
  /\ mode \in Modes
  /\ hdr \in Header
  /\ buf \in Seq(Unit) /\ Len(buf) <= HdrLen
  /\ off \in Nat /\ dcount \in 0 .. Window
  /\ fifo \in Seq(Unit) /\ line \in Seq(Unit)
  /\ tx \in Seq(Response) /\ inbox \in Seq(Response)
  /\ mem \in [Addr -> Value]
  /\ wdog \in {"off", "armed", "reboot", "disarmed"}
  /\ saved \in Nat \X Nat \X Nat /\ regs \in Nat \X Nat \X Nat
  /\ faults \in 0 .. MaxFaults

BoardInit ==
  /\ mode = "boot" /\ hdr = UnknownHeader /\ buf = <<>> /\ off = 0
  /\ fifo = <<>> /\ line = <<>> /\ tx = <<>> /\ inbox = <<>> /\ dcount = 0
  /\ mem = [a \in Addr |-> "junk"]
  /\ wdog = "off" /\ saved = <<0, 0, 0>> /\ regs = FwRegs /\ faults = 0

-----------------------------------------------------------------------------
(* Start-up *)

\* The firmware loads kernel.img and jumps to _startup, which moves the loader
\* to its running address.  The image brings .bss along, filled with zeros.
\* What RAM holds elsewhere after a reset is not relied upon.
Startup ==
  /\ mode = "boot"
  /\ mem' = [a \in Addr |-> IF a \in Region THEN "ldr" ELSE "junk"]
  /\ saved' = <<0, 0, 0>> /\ regs' = FwRegs
  /\ mode' = "enter"
  /\ UNCHANGED <<hdr, buf, off, dcount, wdog, linkVars>>

SaveRegs == IF saved[2] # 0 THEN regs ELSE saved

KMainWatched ==
  /\ mode = "enter"
  /\ saved' = SaveRegs
  /\ buf' = <<>> /\ mode' = "hdr"
  /\ UNCHANGED <<hdr, off, dcount, mem, wdog, regs, linkVars>>

\* _start and kmain up to the command loop.  uart_init leaves the receive FIFO
\* enabled and what it holds in place.
KMain ==
  /\ mode = "enter"
  /\ saved' = SaveRegs
  /\ wdog' = "off"
  /\ buf' = <<>> /\ mode' = "hdr"
  /\ UNCHANGED <<hdr, off, dcount, mem, regs, linkVars>>

\* A reset clears the UART; RAM is set by the start-up that follows.
Reset ==
  /\ mode' = "boot" /\ wdog' = "off"
  /\ buf' = <<>> /\ fifo' = <<>> /\ tx' = <<>>
  /\ UNCHANGED <<hdr, off, dcount, mem, saved, regs, line, inbox>>

\* Both timeouts (16 s and 0.1 s) are long against the time a response takes
\* to leave the UART (0.7 ms), so none is cut short; what a program prints may be.
WdogFire == /\ wdog \in {"armed", "reboot"}
            /\ mode = "kernel" \/ tx = <<>>
            /\ Reset /\ UNCHANGED faults

\* The user may pull the plug at any time.
PowerCycle == /\ mode # "boot" /\ Reset
              /\ faults < MaxFaults /\ faults' = faults + 1

\* The loader runs on damaged code or data: it may go on, or hang.
Derail ==
  /\ mode \in Modes \ {"boot", "kernel", "hung"}
  /\ \E a \in Region : mem[a] # "ldr"
  /\ mode' = "hung"
  /\ UNCHANGED <<hdr, buf, off, dcount, mem, wdog, saved, regs, linkVars>>

-----------------------------------------------------------------------------
(* The serial link *)

\* A unit reaches the UART.  It is lost while the UART is off, and when the
\* FIFO is full because nobody reads it; a loader that polls keeps up.
Arrive ==
  /\ line # <<>> /\ line' = Tail(line)
  /\ \/ mode = "boot" /\ fifo' = fifo
     \/ mode # "boot" /\ Len(fifo) < FifoCap /\ fifo' = Append(fifo, Head(line))
     \/ /\ mode \in {"delay", "exec", "kernel", "hung"}
        /\ Len(fifo) >= FifoCap /\ fifo' = fifo
  /\ dcount' = IF mode = "delay" /\ dcount < Window THEN dcount + 1 ELSE dcount
  /\ UNCHANGED <<mode, hdr, buf, off, mem, wdog, saved, regs, tx, inbox, faults>>

\* The UART's transmitter: a response reaches the PC.
Deliver ==
  /\ tx # <<>> /\ tx' = Tail(tx)
  /\ inbox' = Append(inbox, Head(tx))
  /\ UNCHANGED <<loaderVars, fifo, line, faults>>

\* The UART misses a unit, or the PC misses a response.
MissUnit ==
  /\ faults < MaxFaults /\ faults' = faults + 1
  /\ line # <<>> /\ line' = Tail(line)
  /\ UNCHANGED <<loaderVars, fifo, tx, inbox>>

\* Noise changes a unit.  One that is a header's first unit makes an unknown
\* type; a changed unit of payload changes its checksum.
Garble ==
  /\ faults < MaxFaults /\ faults' = faults + 1
  /\ line # <<>>
  /\ (IF Head(line).k > HdrLen THEN "payload" ELSE "header") \in Noise
  /\ line' = <<[Head(line) EXCEPT !.k = 0]>> \o Tail(line)
  /\ UNCHANGED <<loaderVars, fifo, tx, inbox>>

MissResponse ==
  /\ faults < MaxFaults /\ faults' = faults + 1
  /\ tx # <<>> /\ tx' = Tail(tx)
  /\ UNCHANGED <<loaderVars, fifo, line, inbox>>

-----------------------------------------------------------------------------
(* The command loop.  Every response waits for room in the transmit FIFO.    *)

Respond(code, data) ==
  /\ Len(tx) < TxCap
  /\ tx' = Append(tx, Rsp(code, data))
  /\ UNCHANGED <<fifo, line, inbox, faults>>

KReadHdrUnbounded ==
  /\ mode = "hdr" /\ fifo # <<>>
  /\ buf' = Append(buf, Head(fifo)) /\ fifo' = Tail(fifo)
  /\ UNCHANGED <<mode, hdr, off, dcount, mem, wdog, saved, regs,
                 line, tx, inbox, faults>>

\* kread(&pc_io, &hdr, sizeof(hdr)), one unit at a time.
KReadHdr ==
  /\ mode = "hdr" /\ Len(buf) < HdrLen /\ fifo # <<>>
  /\ buf' = Append(buf, Head(fifo)) /\ fifo' = Tail(fifo)
  /\ UNCHANGED <<mode, hdr, off, dcount, mem, wdog, saved, regs,
                 line, tx, inbox, faults>>

\* kread has returned; h is what hdr holds.
Received(h, type) ==
  /\ mode = "hdr" /\ Len(buf) = HdrLen
  /\ h \in Decode(buf) /\ h.type = type
  /\ hdr' = h /\ buf' = <<>>

HandlePing(h) ==
  /\ Received(h, "PING")
  /\ Respond("RDY", "none")
  /\ UNCHANGED <<mode, off, dcount, mem, wdog, saved, regs>>

Overwrites(h) == ~ ValidateTargetAddr(h.address, h.size)

\* handle_load and handle_zero on a range they refuse.  The payload that
\* follows a LOAD header stays on the line.
Refuse(h, type) ==
  /\ Received(h, type) /\ Overwrites(h)
  /\ Respond("ERR", "OVR")
  /\ UNCHANGED <<mode, off, dcount, mem, wdog, saved, regs>>

HandleLoad(h) ==
  /\ Received(h, "LOAD") /\ ~ Overwrites(h)
  /\ mode' = "payload" /\ off' = 0
  /\ UNCHANGED <<dcount, mem, wdog, saved, regs, linkVars>>

\* kread in handle_load stores each unit where it belongs as it comes.
KReadPayload ==
  /\ mode = "payload" /\ off < hdr.size /\ fifo # <<>>
  /\ mem' = [mem EXCEPT ![Plus(hdr.address, off)] = ValueOf(Head(fifo))]
  /\ off' = off + 1 /\ fifo' = Tail(fifo)
  /\ UNCHANGED <<mode, hdr, buf, dcount, wdog, saved, regs,
                 line, tx, inbox, faults>>

\* The checksum is taken over what memory holds now.
Loaded(h) == [i \in 1 .. h.size |-> mem[Plus(h.address, i - 1)]]

CheckNothing ==
  /\ mode = "payload" /\ off = hdr.size
  /\ Respond("ACK", "none")
  /\ mode' = "hdr"
  /\ UNCHANGED <<hdr, buf, off, dcount, mem, wdog, saved, regs>>

\* The rest of handle_load.
CheckCrc ==
  /\ mode = "payload" /\ off = hdr.size
  /\ IF Loaded(hdr) = hdr.crc THEN Respond("ACK", "none") ELSE Respond("ERR", "CRC")
  /\ mode' = "hdr"
  /\ UNCHANGED <<hdr, buf, off, dcount, mem, wdog, saved, regs>>

HandleZero(h) ==
  /\ Received(h, "ZERO") /\ ~ Overwrites(h)
  /\ mem' = [a \in Addr |-> IF a \notin Cells(h.address, h.size) THEN mem[a]
                            ELSE IF "BEEF" \in h.flags THEN "beef" ELSE "zero"]
  /\ Respond("ACK", "none")
  /\ UNCHANGED <<mode, off, dcount, wdog, saved, regs>>

HandleExecInverted(h) ==
  /\ Received(h, "EXEC")
  /\ wdog' = IF "NOWD" \in h.flags THEN "armed" ELSE wdog
  /\ Respond("ACK", "none")
  /\ mode' = "exec"
  /\ UNCHANGED <<off, dcount, mem, saved, regs>>

\* handle_exec up to uart_waitidle.
HandleExec(h) ==
  /\ Received(h, "EXEC")
  /\ wdog' = IF "NOWD" \in h.flags THEN wdog ELSE "armed"
  /\ Respond("ACK", "none")
  /\ mode' = "exec"
  /\ UNCHANGED <<off, dcount, mem, saved, regs>>

\* The loop goes on after this, until the watchdog fires.
HandleReboot(h) ==
  /\ Received(h, "REBOOT")
  /\ wdog' = "reboot"
  /\ Respond("ACK", "none")
  /\ UNCHANGED <<mode, off, dcount, mem, saved, regs>>

\* handle_unknown enters timer_delay ...
HandleUnknown(h) ==
  /\ Received(h, "UNKNOWN")
  /\ mode' = "delay" /\ dcount' = 0
  /\ UNCHANGED <<off, mem, wdog, saved, regs, linkVars>>

ReportOnly ==
  /\ mode = "delay" /\ (line = <<>> \/ dcount >= Window)
  /\ Respond("ERR", "TYPE")
  /\ mode' = "hdr"
  /\ UNCHANGED <<hdr, buf, off, dcount, mem, wdog, saved, regs>>

\* ... and when it is over empties the receive FIFO and reports.  By then the
\* line has delivered all it had, or as much as it can carry in that time.
DrainAndReport ==
  /\ mode = "delay" /\ (line = <<>> \/ dcount >= Window)
  /\ Len(tx) < TxCap
  /\ fifo' = <<>> /\ tx' = Append(tx, Rsp("ERR", "TYPE"))
  /\ mode' = "hdr"
  /\ UNCHANGED <<hdr, buf, off, dcount, mem, wdog, saved, regs,
                 line, inbox, faults>>

-----------------------------------------------------------------------------
(* The started program *)

StartAtOnce ==
  /\ mode = "exec"
  /\ mode' = "kernel" /\ regs' = saved /\ tx' = <<>>
  /\ UNCHANGED <<hdr, buf, off, dcount, mem, wdog, saved, fifo, line, inbox, faults>>

\* uart_waitidle is over: start_kernel jumps.  The program sets the UART up
\* anew, so a response that were still in it would be lost.
StartKernel ==
  /\ mode = "exec" /\ tx = <<>>
  /\ mode' = "kernel" /\ regs' = saved /\ tx' = <<>>
  /\ UNCHANGED <<hdr, buf, off, dcount, mem, wdog, saved, fifo, line, inbox, faults>>

\* It returns to the loader if it finds the magic there.
KernelReturn ==
  /\ "return" \in KernelMay
  /\ mode = "kernel" /\ mem[RunAddr] = "ldr"
  /\ mode' = "enter" /\ regs' = KernelRegs
  /\ UNCHANGED <<hdr, buf, off, dcount, mem, wdog, saved, linkVars>>

\* It may overwrite any memory, the loader's included ...
KernelTrash(a) ==
  /\ "trash" \in KernelMay
  /\ mode = "kernel" /\ mem' = [mem EXCEPT ![a] = "junk"]
  /\ UNCHANGED <<mode, hdr, buf, off, dcount, wdog, saved, regs, linkVars>>

\* ... disable the watchdog ...
KernelDisarm ==
  /\ "disarm" \in KernelMay
  /\ mode = "kernel" /\ wdog' = "disarmed"
  /\ UNCHANGED <<mode, hdr, buf, off, dcount, mem, saved, regs, linkVars>>

\* ... and print.  The bound keeps the PC's buffer finite.
KernelPrint ==
  /\ "print" \in KernelMay
  /\ mode = "kernel" /\ inbox = <<>>
  /\ Respond("TEXT", "none")
  /\ UNCHANGED loaderVars

-----------------------------------------------------------------------------
(* Composition *)

Handle == \E h \in Decode(buf) :
  \/ HandlePing(h)   \/ HandleLoad(h)   \/ HandleZero(h) \/ HandleExec(h)
  \/ HandleReboot(h) \/ HandleUnknown(h)
  \/ Refuse(h, "LOAD") \/ Refuse(h, "ZERO")

Commands == (mode = "hdr" /\ Len(buf) = HdrLen /\ Handle)
            \/ KReadHdr \/ KReadPayload \/ CheckCrc \/ DrainAndReport

Kernel == StartKernel \/ KernelReturn \/ KernelDisarm \/ KernelPrint
          \/ \E a \in Addr : KernelTrash(a)

Link == Arrive \/ Deliver \/ MissUnit \/ Garble \/ MissResponse

LoaderStep == Startup \/ KMain \/ WdogFire \/ PowerCycle \/ Derail
              \/ Commands \/ Kernel \/ Link

\* The processor, the line and the watchdog's timer never stop.  The user, the
\* started program and the losses owe nothing.
LoaderFairness ==
  /\ WF_boardVars(KMain)
  /\ WF_boardVars(Commands) /\ WF_boardVars(StartKernel)
  /\ WF_boardVars(Arrive) /\ WF_boardVars(Deliver) /\ WF_boardVars(WdogFire)

-----------------------------------------------------------------------------
(* Properties *)

\* The loader never overwrites itself: only a reset or the started program
\* changes a word of its stack page, text or data (validate_target_addr, the
\* reason for BPE_OVR).
LoaderKeepsItself ==
  [][(\E a \in Region : mem'[a] # mem[a]) => mode \in {"boot", "kernel"}]_mem

\* "it preserves these values and passes them to kernels when jumping to them"
\* (README, ATags and boot register values).
KernelGetsBootRegisters == mode = "kernel" => regs = FwRegs

\* The watchdog is there for programs: one that is started with it never runs
\* without it unless it disables it, and when the loader has the board back, in
\* whatever state the program left the watchdog, it never cuts an upload short
\* but after a REBOOT (handle_exec, wdog_stop in kmain).
WatchdogIsForPrograms ==
  /\ mode \in {"exec", "kernel"} /\ "NOWD" \notin hdr.flags =>
       wdog = "armed" \/ (mode = "kernel" /\ wdog = "disarmed")
  /\ mode \in {"hdr", "payload", "delay"} => wdog \in {"off", "reboot"}

\* "Disable watchdog while executing" (BPF_NOWD, common/bootproto.h).
NoWatchdogWhileExecuting ==
  mode = "kernel" /\ "NOWD" \in hdr.flags => wdog \in {"off", "disarmed"}

\* "... so the data flow stops.  And then throw it all away. ... bootloader
\* returns to good state" (handle_unknown): none of the data that was out of
\* step is still to come when it has answered.
UnknownRestoresSync ==
  [][mode = "delay" /\ mode' = "hdr" => line' = <<>>]_boardVars

\* A program started with the watchdog that does not disable it gives the
\* board back: it returns, or is reset, and commands are read again.  (One that
\* returns to a loader it has ruined is given no second chance: kmain stops the
\* watchdog first, and what is left of the loader may hang later.)
WatchdogBringsBack ==
  (mode = "kernel" /\ "NOWD" \notin hdr.flags) ~> (mode = "hdr" \/ wdog = "disarmed")

=============================================================================
