------------------------------- MODULE PiSystem -------------------------------
(***************************************************************************)
(* piboot and the board at the two ends of one serial line: the sessions   *)
(* of client/bootpc.c and client/bootproto.c, run again and again by a     *)
(* person, against the loader of module Loader.                            *)
(*                                                                         *)
(* A job is what one run of piboot sends after its ping: the packets of    *)
(* its files in order, then EXEC, REBOOT or nothing.                       *)
(***************************************************************************)
EXTENDS Loader

CONSTANTS
  Jobs,          \* the jobs that piboot may be given
  MaxSessions,   \* bound on the sessions that may be counted, see Impatient
  Impatient      \* TRUE: a session may be killed at any time, and at most
                 \* MaxSessions are started.  FALSE: a session is killed only
                 \* when it is stuck, and there is no bound

ASSUME JobsAssumption ==
  /\ Jobs \subseteq Seq(Packets)
  /\ \A job \in Jobs : \A i \in 1 .. Len(job) :
       /\ job[i].type \in {"LOAD", "ZERO", "EXEC", "REBOOT"}
       /\ job[i].type \in {"EXEC", "REBOOT"} => i = Len(job)
  /\ MaxSessions \in Nat /\ Impatient \in BOOLEAN

VARIABLES
  cli,      \* where piboot is, see CliStates
  job,      \* the packets of this run
  cur,      \* the packet of job it is at
  sessions  \* runs started so far (counted when Impatient)

clientVars == <<cli, job, cur, sessions>>
vars == <<boardVars, clientVars>>

\* ping, rdy: about to write a PING, reading its response; send, data: about to
\* write the header of job[cur], its payload; ack: in check_response; done:
\* main returned 0; failed: exit(1), or killed.
CliStates == {"idle", "ping", "rdy", "send", "data", "ack", "done", "failed"}

ClientTypeOK ==
  /\ TypeOK
  /\ cli \in CliStates /\ job \in Jobs \cup {<<>>}
  /\ cur \in 1 .. Len(job) + 1
  /\ cli \in {"send", "data", "ack"} => cur \in 1 .. Len(job)
  /\ sessions \in 0 .. MaxSessions

PingPacket == [type |-> "PING", address |-> 0, size |-> 0, data |-> <<>>, flags |-> {}]

ASSUME PingAssumption == PingPacket \in Packets

-----------------------------------------------------------------------------
(* Timing *)

\* The loader waits inside kread for a unit that has not come.
WaitsForUnit ==
  fifo = <<>> /\ \/ mode = "hdr" /\ Len(buf) < HdrLen
                 \/ mode = "payload" /\ off < hdr.size

\* Nothing moves any more on the line or in the loader.
Quiet == /\ line = <<>> /\ tx = <<>>
         /\ WaitsForUnit \/ mode \in {"boot", "kernel", "hung"}

\* The firmware takes seconds to start, a session milliseconds between two of
\* its steps: one that has had an answer before a reset has come to wait for
\* the next one before the loader is back.
BootIsSlow == cli \in {"send", "data", "ack"} =>
                cli = "ack" /\ line = <<>> /\ tx = <<>> /\ inbox = <<>>

-----------------------------------------------------------------------------
(* Client *)

Write(units) == line' = line \o units /\ UNCHANGED <<fifo, tx, inbox, faults>>

Read(rsp) ==
  /\ inbox # <<>> /\ rsp = Head(inbox) /\ inbox' = Tail(inbox)
  /\ UNCHANGED <<fifo, line, tx, faults>>

StartUnflushed(j) ==
  /\ cli \in {"idle", "done", "failed"} /\ Quiet
  /\ Impatient => sessions < MaxSessions
  /\ sessions' = IF Impatient THEN sessions + 1 ELSE sessions
  /\ cli' = "ping" /\ job' = j /\ cur' = 1
  /\ UNCHANGED boardVars

\* piboot is started: setup_serial flushes what has been received.  A person
\* is slower than the line: all of the last run's bytes have arrived.
StartSession(j) ==
  /\ cli \in {"idle", "done", "failed"} /\ Quiet
  /\ Impatient => sessions < MaxSessions
  /\ sessions' = IF Impatient THEN sessions + 1 ELSE sessions
  /\ cli' = "ping" /\ job' = j /\ cur' = 1
  /\ inbox' = <<>>
  /\ UNCHANGED <<loaderVars, fifo, line, tx, faults>>

SendPing ==
  /\ cli = "ping" /\ cli' = "rdy"
  /\ Write(HeaderUnits(PingPacket))
  /\ UNCHANGED <<loaderVars, job, cur, sessions>>

AfterOneMore(n) == IF n > Len(job) + 1 THEN "done" ELSE "send"

AfterPacket(n) == IF n > Len(job) THEN "done" ELSE "send"

\* The second half of ping.
RecvReady ==
  /\ cli = "rdy"
  /\ \E rsp \in Response : /\ Read(rsp)
                           /\ cli' = IF rsp.code = "RDY" THEN AfterPacket(cur) ELSE "failed"
  /\ UNCHANGED <<loaderVars, job, cur, sessions>>

\* load_buffer, zero_section, exec_program and reboot_pi write a header ...
SendHeader ==
  /\ cli = "send"
  /\ cli' = IF job[cur].type = "LOAD" THEN "data" ELSE "ack"
  /\ Write(HeaderUnits(job[cur]))
  /\ UNCHANGED <<loaderVars, job, cur, sessions>>

\* ... and load_buffer the payload.
SendPayload ==
  /\ cli = "data" /\ cli' = "ack"
  /\ Write(PayloadUnits(job[cur]))
  /\ UNCHANGED <<loaderVars, job, cur, sessions>>

RecvAny ==
  /\ cli = "ack"
  /\ \E rsp \in Response : Read(rsp) /\ cur' = cur + 1 /\ cli' = AfterPacket(cur + 1)
  /\ UNCHANGED <<loaderVars, job, sessions>>

\* check_response: anything but an ACK ends the program.
RecvAck ==
  /\ cli = "ack"
  /\ \E rsp \in Response :
       /\ Read(rsp)
       /\ IF rsp.code = "ACK" THEN cur' = cur + 1 /\ cli' = AfterPacket(cur + 1)
                              ELSE cur' = cur /\ cli' = "failed"
  /\ UNCHANGED <<loaderVars, job, sessions>>

\* Nothing will ever answer this session: it has no timeout.
Stuck == cli \in {"rdy", "ack"} /\ inbox = <<>> /\ Quiet

\* The user interrupts piboot; a write of a payload may be cut anywhere.
Kill ==
  /\ cli \notin {"idle", "done", "failed"}
  /\ Impatient \/ Stuck
  /\ cli' = "failed"
  /\ \/ UNCHANGED linkVars
     \/ /\ cli = "data"
        /\ \E n \in 1 .. Len(job[cur].data) : Write(SubSeq(PayloadUnits(job[cur]), 1, n))
  /\ UNCHANGED <<loaderVars, job, cur, sessions>>

-----------------------------------------------------------------------------

ClientStep == SendPing \/ RecvReady \/ SendHeader \/ SendPayload \/ RecvAck

Init == BoardInit /\ cli = "idle" /\ job = <<>> /\ cur = 1 /\ sessions = 0

BoardStep ==
  /\ LoaderStep /\ UNCHANGED clientVars
  /\ mode = "boot" /\ mode' = "enter" => BootIsSlow

Next == BoardStep \/ ClientStep \/ Kill \/ \E j \in Jobs : StartSession(j)

Spec == Init /\ [][Next]_vars

\* The user ends a run that is stuck and, as long as runs fail, tries again.
Patience == /\ WF_vars(Kill)
            /\ WF_vars(cli = "failed" /\ \E j \in Jobs : StartSession(j))

FairSpec == /\ Spec /\ LoaderFairness
            /\ WF_vars(Startup /\ BootIsSlow /\ UNCHANGED clientVars)
            /\ WF_vars(ClientStep) /\ Patience

-----------------------------------------------------------------------------
(* Properties *)

\* What the files asked for, is what the program starts with: when the loader
\* is about to jump on behalf of this session, it has this session's EXEC, and
\* every address the job wrote holds what the last packet to write it put there.
ExecSeesImage ==
  mode = "exec" /\ cli = "ack" =>
    /\ hdr = HeaderOf(job[cur])
    /\ \A i \in 1 .. cur - 1 : \A a \in Writes(job[i]) :
         (\A j \in i + 1 .. cur - 1 : a \notin Writes(job[j])) => mem[a] = Wrote(job[i], a)

\* An ACK that a session accepts is the answer to its own packet, and both ends
\* are in step again: nothing of the packet is left anywhere on the way.  No
\* response carries a number, so only the flush and the order keep this true.
AckIsOwn ==
  [][cli = "ack" /\ cli' \in {"send", "done"} =>
       /\ hdr = HeaderOf(job[cur])
       /\ line = <<>> /\ fifo = <<>> /\ buf = <<>> /\ tx = <<>> /\ inbox' = <<>>]_vars

\* What of it holds when noise hits a header, too, so that a size, an address or
\* the flags of the packet are wrong: an ACK that a session accepts leaves nothing
\* behind that the loader could take for a part of the next packet.
AckInStep ==
  [][cli = "ack" /\ cli' \in {"send", "done"} =>
       /\ line = <<>> /\ fifo = <<>> /\ buf = <<>> /\ mode \notin {"payload", "delay"}
       /\ tx = <<>> /\ inbox' = <<>>]_vars

\* The loader does not start a program while the session that asked for it could
\* still miss the answer: unless the link lost it, it has reached the PC
\* ("uart_waitidle" in handle_exec).
ExecIsAnswered ==
  mode = "kernel" /\ cli = "ack" /\ faults = 0 => inbox # <<>>

\* Whatever bytes were lost or cut: who tries again gets through, unless a
\* program has the board (handle_unknown: "bootloader returns to good state").
Recovery == cli = "failed" ~> (cli = "done" \/ mode \in {"kernel", "hung"})

=============================================================================
