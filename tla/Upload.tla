-------------------------------- MODULE Upload --------------------------------
(***************************************************************************)
(* What piboot and the loader promise together, without line, FIFOs or     *)
(* responses: the packets of a job take effect in memory one by one, in    *)
(* order and at most once; piboot goes on only after a packet has; and a   *)
(* program is never started in the middle of an upload.  The whole may     *)
(* fail at any time, and is lost when the board resets.                    *)
(***************************************************************************)
EXTENDS BootProto

CONSTANT Jobs      \* sequences of packets

VARIABLES
  phase,     \* of the session: idle, contact (waiting for the board), run, sent
             \* (a packet is on its way), served (it has taken effect), done, failed
  job, cur,  \* what the session sends, and the packet it is at
  image,     \* what memory is known to hold on behalf of this session
  lost,      \* "board": it can not complete this session any more; "answer": it
             \* has done the packet, but the session will not learn of it
  running    \* a program has the board

vars == <<phase, job, cur, image, lost, running>>

Unknown == "unknown"
Blank   == [a \in Addr |-> Unknown]

Init == /\ phase = "idle" /\ job = <<>> /\ cur = 1
        /\ image = Blank /\ lost = "board" /\ running = FALSE

Start(j) ==
  /\ phase \in {"idle", "done", "failed"} /\ phase' = "contact"
  /\ job' = j /\ cur' = 1 /\ image' = Blank
  /\ UNCHANGED <<lost, running>>

Goes(n) == IF n > Len(job) THEN "done" ELSE "run"

\* The board has answered: whatever happened before does not count.
Contact ==
  /\ phase = "contact" /\ ~running /\ phase' = Goes(cur) /\ lost' = "no"
  /\ UNCHANGED <<job, cur, image, running>>

\* From here on, what the packet will write is in doubt.
Send ==
  /\ phase = "run" /\ phase' = "sent"
  /\ image' = [a \in Addr |-> IF a \in Writes(job[cur]) THEN Unknown ELSE image[a]]
  /\ UNCHANGED <<job, cur, lost, running>>

TakeEffect ==
  /\ phase = "sent" /\ lost = "no" /\ ~running /\ phase' = "served"
  /\ image' = [a \in Addr |-> IF a \in Writes(job[cur]) THEN Wrote(job[cur], a) ELSE image[a]]
  /\ UNCHANGED <<job, cur, lost, running>>

Confirm ==
  /\ phase = "served" /\ cur' = cur + 1 /\ phase' = Goes(cur + 1)
  /\ UNCHANGED <<job, image, lost, running>>

Fail ==
  /\ phase \in {"contact", "run", "sent", "served"} /\ phase' = "failed"
  /\ image' = Blank /\ UNCHANGED <<job, cur, lost, running>>

\* A reset, or a packet that went missing on its way.
Lose ==
  /\ lost' = "board" /\ image' = Blank /\ running' \in {running, FALSE}
  /\ \/ phase' = phase
     \/ phase = "served" /\ phase' = "sent"
  /\ UNCHANGED <<job, cur>>

LoseAnswer ==
  /\ phase = "served" /\ phase' = "sent" /\ lost' = IF lost = "no" THEN "answer" ELSE lost
  /\ image' = [a \in Addr |-> IF a \in Writes(job[cur]) THEN Unknown ELSE image[a]]
  /\ UNCHANGED <<job, cur, running>>

\* A program is started by the EXEC of a session whose upload is whole, or by
\* what is left over of a session that failed before.
Launch ==
  /\ ~running /\ running' = TRUE /\ lost' = "board" /\ image' = Blank
  /\ \/ phase \in {"contact", "failed"}
     \/ phase = "served" /\ job[cur].type = "EXEC" /\ lost = "no"
     \/ phase = "sent" /\ job[cur].type = "EXEC" /\ lost = "answer"
     \/ phase = "done" /\ job # <<>> /\ job[Len(job)].type = "EXEC" /\ lost = "no"
  /\ UNCHANGED <<phase, job, cur>>

Return == running /\ running' = FALSE /\ UNCHANGED <<phase, job, cur, image, lost>>

Next == \/ \E j \in Jobs : Start(j)
        \/ Contact \/ Send \/ TakeEffect \/ Confirm \/ Fail \/ Lose \/ LoseAnswer \/ Launch \/ Return

Spec == Init /\ [][Next]_vars

=============================================================================
