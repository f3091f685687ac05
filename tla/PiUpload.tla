------------------------------- MODULE PiUpload -------------------------------
(***************************************************************************)
(* PiSystem implements Upload.  lost is a history variable: it records     *)
(* what happened after which this session can not end well, and changes    *)
(* nothing that the system does.                                           *)
(***************************************************************************)
EXTENDS PiSystem, SequencesExt

VARIABLE lost

\* The board has left its loop, or the loader has taken something else for the
\* header of the packet that was sent, with a part of that.
LosesBoard ==
  \/ mode' # mode /\ mode' \in {"boot", "kernel", "hung"}
  \/ /\ mode = "hdr" /\ buf # <<>> /\ buf' = <<>>
     /\ cli \in {"data", "ack"} /\ hdr' # HeaderOf(job[cur])
     /\ ~ ToSet(HeaderUnits(job[cur])) \subseteq ToSet(fifo' \o line')

LosesAnswer == tx # <<>> /\ Head(tx).code = "ACK" /\ tx' = Tail(tx) /\ inbox' = inbox

HistInit == Init /\ lost = "board"
HistNext ==
  /\ Next
  /\ lost' = IF cli = "rdy" /\ cli' \in {"send", "done"} THEN "no"
             ELSE IF LosesBoard THEN "board"
             ELSE IF LosesAnswer /\ cli \in {"data", "ack"} /\ lost = "no" THEN "answer" ELSE lost
HistSpec == HistInit /\ [][HistNext]_<<vars, lost>>

-----------------------------------------------------------------------------
(* The refinement mapping *)

AckOnItsWay == \E s \in {tx, inbox} : \E n \in 1 .. Len(s) : s[n].code = "ACK"

\* A LOAD without data is acknowledged before its payload is written.
Phase ==
  CASE cli \in {"ping", "rdy"} -> "contact"
    [] cli = "send" -> "run"
    [] cli \in {"data", "ack"} -> IF AckOnItsWay THEN "served" ELSE "sent"
    [] OTHER -> cli

\* The packets of job that have taken effect, and the one that may be doing so.
Settled == IF Phase = "served" THEN cur ELSE cur - 1
InDoubt == IF Phase = "sent" THEN Writes(job[cur]) ELSE {}

Image ==
  IF lost = "board" \/ Phase \notin {"run", "sent", "served", "done"}
  THEN [a \in Addr |-> "unknown"]
  ELSE [a \in Addr |-> IF a \notin InDoubt /\ \E n \in 1 .. Settled : a \in Writes(job[n])
                       THEN mem[a] ELSE "unknown"]

U == INSTANCE Upload WITH phase <- Phase, image <- Image, running <- mode = "kernel"

\* Whatever is lost, garbled, reset, killed and started again in between: a packet
\* is confirmed to a session only when it has taken effect, once and in its turn,
\* nothing of what was confirmed is disturbed by a later packet that does not write
\* there, and no program starts before all of a job is in place (check_response,
\* handle_load, handle_exec).
ImplementsUpload == U!Spec

=============================================================================
