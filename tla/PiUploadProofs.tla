---------------------------- MODULE PiUploadProofs ----------------------------
(***************************************************************************)
(* PiSystem implements Upload, for every board and every set of jobs.      *)
(***************************************************************************)
EXTENDS PiUpload, PiSessionProofs

\* Upload speaks of the same addresses.
LEMMA SameWrites ==
  ASSUME NEW p, NEW a
  PROVE  U!Writes(p) = Writes(p) /\ U!Wrote(p, a) = Wrote(p, a) /\ U!Addr = Addr
<1>1. U!Addr = Addr
  BY DEF U!Addr, Addr
<1>2. \A x, n : U!Plus(x, n) = Plus(x, n)
  BY DEF U!Plus, Plus
<1>3. \A x, n : U!Cells(x, n) = Cells(x, n)
  BY <1>2 DEF U!Cells, Cells
<1>4. U!Writes(p) = Writes(p)
  BY <1>3 DEF U!Writes, Writes
<1>5. U!Wrote(p, a) = Wrote(p, a)
  BY DEF U!Wrote, Wrote, U!Plus, Plus
<1> QED BY <1>1, <1>4, <1>5

-----------------------------------------------------------------------------
(* Units of a header that have gone missing *)

\* Not all of p's header is in s any more, or not as it was written.
Missing(s, p) == \E k \in 1 .. HdrLen : \A i \in 1 .. Len(s) : s[i] # [pkt |-> p, k |-> k]

LEMMA MissingUnits ==
  ASSUME NEW p \in Packets, NEW s \in Seq(Unit)
  PROVE  Missing(s, p) <=> ~ ToSet(HeaderUnits(p)) \subseteq ToSet(s)
<1> DEFINE h == HeaderUnits(p)
<1>1. h \in Seq(Unit) /\ Len(h) = HdrLen /\ HdrLen \in Nat
  BY UnitsWritten, LayoutAssumption
<1>2. DOMAIN h = 1 .. HdrLen /\ DOMAIN s = 1 .. Len(s)
  BY <1>1, LenProperties
<1>3. \A k \in 1 .. HdrLen : h[k] = [pkt |-> p, k |-> k]
  BY DEF HeaderUnits
<1> HIDE DEF h
<1>4. \A u : u \in ToSet(h) <=> \E k \in 1 .. HdrLen : u = [pkt |-> p, k |-> k]
  BY <1>2, <1>3 DEF ToSet
<1>5. \A u : u \in ToSet(s) <=> \E i \in 1 .. Len(s) : s[i] = u
  BY <1>2 DEF ToSet
<1> QED BY <1>4, <1>5, ZenonT(30) DEF Missing, h

LEMMA MissingInEmpty ==
  ASSUME NEW s, Len(s) = 0, NEW p
  PROVE  Missing(s, p)
<1>1. 1 \in 1 .. HdrLen
  BY LayoutAssumption
<1> QED BY <1>1 DEF Missing

\* Where there is no first unit of a command, its header is not whole.
LEMMA MissingInTame ==
  ASSUME NEW s, AllTame(s), NEW p, p.type # "PING"
  PROVE  Missing(s, p)
<1>1. 1 \in 1 .. HdrLen
  BY LayoutAssumption
<1>2. \A i \in 1 .. Len(s) : s[i] # [pkt |-> p, k |-> 1]
  BY DEF AllTame, Tame
<1> QED BY <1>1, <1>2 DEF Missing

\* What is missing does not come back.
LEMMA MissingStays ==
  ASSUME NEW s \in Seq(Unit), NEW t \in Seq(Unit), NEW m \in Nat, NEW d \in Nat,
         Shrinks(s, t, m, d), NEW p, Missing(s, p)
  PROVE  Missing(t, p)
<1>1. PICK k \in 1 .. HdrLen : \A i \in 1 .. Len(s) : s[i] # [pkt |-> p, k |-> k]
  BY DEF Missing
<1>2. ASSUME NEW i \in 1 .. Len(t) PROVE t[i] # [pkt |-> p, k |-> k]
  <2> DEFINE j == IF i <= m THEN i ELSE i + d
  <2>1. j \in 1 .. Len(s)
    BY LenProperties DEF Shrinks
  <2>2. t[i] = s[j] \/ Noisy(s[j], t[i])
    BY DEF Shrinks
  <2>3. s[j] # [pkt |-> p, k |-> k] /\ s[j] \in Unit
    BY <1>1, <2>1, ElementOfSeq
  <2> HIDE DEF j
  <2>4. ASSUME Noisy(s[j], t[i]) PROVE t[i].k = 0
    BY <2>3, <2>4 DEF Noisy, Unit
  <2> QED BY <2>2, <2>3, <2>4
<1> QED BY <1>2 DEF Missing

LEMMA MissingFromPayload ==
  ASSUME NEW s \in Seq(Unit), NEW p \in Packets, Missing(s, p)
  PROVE  Missing(s \o PayloadUnits(p), p)
<1> DEFINE q == PayloadUnits(p)
           t == s \o q
<1>1. q \in Seq(Unit) /\ Len(s) \in Nat /\ Len(q) \in Nat
  BY UnitsWritten, LenProperties
<1>2. \A i \in 1 .. Len(q) : q[i].k = HdrLen + i
  BY UnitsWritten
<1> HIDE DEF q
<1>3. Len(t) = Len(s) + Len(q)
      /\ \A i \in 1 .. Len(s) + Len(q) : t[i] = IF i <= Len(s) THEN s[i] ELSE q[i - Len(s)]
  BY <1>1, ConcatProperties
<1> HIDE DEF t
<1>4. PICK k \in 1 .. HdrLen : \A i \in 1 .. Len(s) : s[i] # [pkt |-> p, k |-> k]
  BY DEF Missing
<1>5. ASSUME NEW i \in 1 .. Len(t) PROVE t[i] # [pkt |-> p, k |-> k]
  <2>1. CASE i <= Len(s)
    <3>1. i \in 1 .. Len(s)
      BY <1>1, <2>1
    <3> QED BY <1>1, <1>3, <1>4, <2>1, <3>1
  <2>2. CASE ~ (i <= Len(s))
    <3>1. i - Len(s) \in 1 .. Len(q) /\ i \in 1 .. Len(s) + Len(q)
      BY <1>1, <1>3, <2>2
    <3>2. t[i] = q[i - Len(s)]
      BY <1>3, <2>2, <3>1
    <3>3. t[i].k = HdrLen + (i - Len(s))
      BY <1>2, <3>1, <3>2
    <3>4. t[i].k # k
      BY <1>1, <3>1, <3>3, LayoutAssumption
    <3> QED BY <3>4
  <2> QED BY <2>1, <2>2
<1> QED BY <1>5 DEF Missing, t, q

-----------------------------------------------------------------------------
(* Acknowledgements that get lost *)

\* The steps that lose something, resets aside.
LEMMA FaultMoves ==
  ASSUME TypeOK, LoaderStep, faults' = faults + 1
  PROVE  mode' = "boot" \/ MissUnit \/ Garble \/ MissResponse
<1>0. faults \in Int /\ faults' # faults
  BY BoardAssumption DEF TypeOK
<1>1. CASE Startup \/ KMain \/ WdogFire \/ PowerCycle \/ Derail
  BY <1>0, <1>1 DEF Startup, KMain, WdogFire, PowerCycle, Derail, Reset, linkVars
<1>2. CASE mode = "hdr" /\ Len(buf) = HdrLen /\ Handle
  BY <1>0, <1>2, HandleMoves
<1>3. CASE KReadHdr \/ KReadPayload \/ CheckCrc \/ DrainAndReport
  BY <1>0, <1>3 DEF KReadHdr, KReadPayload, CheckCrc, DrainAndReport, Respond
<1>4. CASE Kernel
  BY <1>0, <1>4 DEF Kernel, StartKernel, KernelReturn, KernelDisarm, KernelPrint, KernelTrash,
     Respond, linkVars
<1>5. CASE Arrive \/ Deliver
  BY <1>0, <1>5 DEF Arrive, Deliver
<1> QED BY <1>1, <1>2, <1>3, <1>4, <1>5 DEF LoaderStep, Commands, Link

\* An acknowledgement goes away by a reset or by being dropped.
LEMMA AckGoesAway ==
  ASSUME TypeOK, LoaderStep, AckIn(Answers), ~ AckIn(Answers')
  PROVE  mode' = "boot" \/ LosesAnswer
<1> DEFINE A == inbox \o tx
           B == inbox \o Tail(tx)
           n == Len(inbox)
<1>0. inbox \in Seq(Response) /\ tx \in Seq(Response)
  BY DEF TypeOK
<1>e. Rsp("ERR", "TYPE") \in Response
  BY DEF Rsp, Response
<1>1. Answers \in Seq(Response)
  BY AnswersType
<1>2. CASE Answers' = Answers
  BY <1>2
<1>3. ASSUME NEW r \in Response, Answers' = Append(Answers, r) PROVE FALSE
  BY <1>1, <1>3, AppendKeeps
<1>4. CASE faults' = faults + 1 /\ mode' # "boot" /\ Answers' # Answers
  <2>1. MissResponse
    <3>1. CASE MissUnit \/ Garble
      BY <1>4, <3>1 DEF MissUnit, Garble, Answers
    <3> QED BY <1>4, <3>1, FaultMoves
  <2>2. tx # <<>> /\ tx' = Tail(tx) /\ inbox' = inbox /\ Answers = A /\ Answers' = B
    BY <2>1 DEF MissResponse, Answers
  <2>3. Loses(A, B, n, 1)
    BY <1>0, <1>e, <2>2, AnswerMoves
  <2>4. n \in Nat /\ Len(A) \in Nat /\ Len(A) = n + Len(tx) /\ Len(tx) \in Nat
    BY <1>0, <1>1, <2>2, AnswersType
  <2>5. PICK i \in 1 .. Len(A) : A[i].code = "ACK"
    BY <2>2 DEF AckIn
  <2> HIDE DEF B
  <2>6. i = n + 1
    <3>1. ASSUME i # n + 1 PROVE FALSE
      <4> DEFINE j == IF i <= n THEN i ELSE i - 1
      <4>1. j \in 1 .. Len(B) /\ i = IF j <= n THEN j ELSE j + 1
        <5>1. Len(B) = Len(A) - 1 /\ n + 1 <= Len(A)
          BY <2>3 DEF Loses
        <5> HIDE DEF A, n
        <5> QED BY <2>4, <2>5, <3>1, <5>1
      <4> HIDE DEF j
      <4>2. B[j] = A[i]
        BY <2>3, <4>1 DEF Loses
      <4> QED BY <2>2, <2>5, <4>1, <4>2 DEF AckIn
    <3> QED BY <3>1
  <2>7. A[n + 1] = tx[1] /\ tx[1] = Head(tx)
    <3>1. n + 1 \in 1 .. Len(inbox) + Len(tx) /\ ~ (n + 1 <= Len(inbox)) /\ n + 1 - Len(inbox) = 1
      BY <2>4, <2>5, <2>6
    <3>2. A[n + 1] = tx[1]
      BY <2>2, <3>1, AnswersType
    <3> QED BY <1>0, <3>2, HeadTailProperties, <2>2
  <2>8. Head(tx).code = "ACK"
    BY <2>5, <2>6, <2>7
  <2> QED BY <2>2, <2>8 DEF LosesAnswer
<1> QED BY <1>2, <1>3, <1>4, AnswersStep

\* It was the only one.
LEMMA DroppedAck ==
  ASSUME TypeOK, LosesAnswer, AckLast(Answers)
  PROVE  AckIn(Answers) /\ ~ AckIn(Answers')
<1> DEFINE A == inbox \o tx
           B == inbox \o Tail(tx)
           n == Len(inbox)
<1>0. inbox \in Seq(Response) /\ tx \in Seq(Response)
  BY DEF TypeOK
<1>e. Rsp("ERR", "TYPE") \in Response
  BY DEF Rsp, Response
<1>1. tx # <<>> /\ Head(tx).code = "ACK" /\ Answers = A /\ Answers' = B
  BY DEF LosesAnswer, Answers
<1>2. n \in Nat /\ Len(A) = n + Len(tx) /\ Len(tx) \in Nat
  BY <1>1, AnswersType
<1>3. Len(tx) >= 1 /\ Head(tx) = tx[1]
  BY <1>0, <1>1, <1>2, EmptySeq
<1>4. A[n + 1] = tx[1]
  <2>1. n + 1 \in 1 .. Len(inbox) + Len(tx) /\ ~ (n + 1 <= Len(inbox)) /\ n + 1 - Len(inbox) = 1
    BY <1>2, <1>3
  <2> QED BY <1>1, <2>1, AnswersType
<1>5. n + 1 \in 1 .. Len(A)
  BY <1>2, <1>3
<1>6. n + 1 = Len(A)
  BY <1>1, <1>3, <1>4, <1>5 DEF AckLast
<1>7. Loses(A, B, n, 1)
  BY <1>0, <1>e, <1>1, AnswerMoves
<1>8. AckIn(Answers)
  BY <1>1, <1>3, <1>4, <1>5 DEF AckIn
<1> HIDE DEF A, B
<1>9. ASSUME NEW i \in 1 .. Len(B) PROVE B[i].code # "ACK"
  <2>1. Len(B) = n
    BY <1>2, <1>6, <1>7 DEF Loses
  <2> HIDE DEF n
  <2>2. i <= n /\ i \in 1 .. Len(A) /\ i # Len(A)
    BY <1>2, <1>6, <2>1
  <2>3. B[i] = A[i]
    BY <1>7, <2>2 DEF Loses, n
  <2> QED BY <1>1, <2>2, <2>3 DEF AckLast
<1> QED BY <1>1, <1>8, <1>9 DEF AckIn

-----------------------------------------------------------------------------
(* The history variable in the steps of the board, and of piboot *)

LEMMA HistBoard ==
  ASSUME HistNext, UNCHANGED clientVars
  PROVE  lost' = IF LosesBoard THEN "board"
                 ELSE IF LosesAnswer /\ cli \in {"data", "ack"} /\ lost = "no" THEN "answer"
                 ELSE lost
BY DEF HistNext, clientVars

LEMMA HistClient ==
  ASSUME TypeOK, HistNext, UNCHANGED loaderVars, UNCHANGED tx
  PROVE  lost' = IF cli = "rdy" /\ cli' \in {"send", "done"} THEN "no" ELSE lost
<1>1. ~ LosesBoard
  BY DEF LosesBoard, loaderVars
<1>2. ASSUME tx # <<>> PROVE Tail(tx) # tx
  <2>1. Len(tx) \in Nat /\ Len(tx) >= 1 /\ tx \in Seq(Response)
    BY <1>2, EmptySeq, LenProperties DEF TypeOK
  <2>2. Len(Tail(tx)) = Len(tx) - 1
    BY <1>2, <2>1, HeadTailProperties
  <2> QED BY <2>1, <2>2
<1>3. ~ LosesAnswer
  BY <1>2 DEF LosesAnswer
<1> QED BY <1>1, <1>3 DEF HistNext

-----------------------------------------------------------------------------
(* The inductive invariant *)

\* Of the packet that is on its way, the header has lost a unit, or what the
\* loader reads of its payload can not be whole any more.
Spent == Missing(Stream, job[cur]) /\ (mode = "payload" => ToCome < Written)

LostType == /\ lost \in {"no", "answer", "board"}
            /\ mode = "kernel" => lost = "board"
            /\ cli = "idle" => AllTame(Stream) /\ mode \notin Busy

LostDone == cli = "done" =>
  /\ AllTame(Stream) /\ mode # "payload"
  /\ mode = "exec" => job # <<>> /\ job[Len(job)].type = "EXEC" /\ lost = "no"

LostSend == cli = "send" => lost = "no" \/ (lost = "board" /\ mode \in {"boot", "hung"})

\* Contact with a board that was reset since it answered.
LostBoot ==
  mode = "boot" /\ lost # "board" /\ cli \in {"send", "data", "ack", "done"} =>
    cur = 1 /\ (cli # "done" => ~ AckIn(Answers))

\* A packet whose loss is recorded is not acknowledged any more, one that is
\* acknowledged can be lost by a reset or a start only; what is obeyed in its
\* place counts as a loss, and a start knows whether its answer is on its way.
LostPacket == cli \in {"data", "ack"} =>
  /\ AckIn(Answers) => \/ lost = "no"
                       \/ lost = "board" /\ (mode \in {"boot", "hung"} \/ job[cur].type = "EXEC")
  /\ ~ AckIn(Answers) /\ lost # "no" => mode \in {"boot", "hung"} \/ Spent
  /\ mode = "payload" /\ hdr # HeaderOf(job[cur]) => lost = "board"
  /\ mode = "exec" => lost = IF AckIn(Answers) THEN "no" ELSE "answer"

LostInv == LostType /\ LostDone /\ LostSend /\ LostBoot /\ LostPacket

\* The step that acknowledges a packet finds nothing lost, and loses nothing.
LEMMA AckingStep ==
  ASSUME "header" \notin Noise, ClientTypeOK, SessionInv, HeaderInv, LostPacket,
         cli \in {"data", "ack"}, LoaderStep, UNCHANGED clientVars, HistNext, Acks
  PROVE  /\ lost = "no" /\ lost' = "no" /\ ~ AckIn(Answers) /\ AckIn(Answers')
         /\ mode' \in {"hdr", "exec"} /\ hdr' = HeaderOf(job[cur])
<1>0. /\ TypeOK /\ AtRest /\ OneHeader /\ PacketInv
      /\ job[cur] \in Packets /\ Written \in Nat /\ (job[cur].type # "LOAD" => Written = 0)
  BY SessionType, WrittenType DEF SessionInv
<1>1. ~ AckIn(Answers) /\ mode' \in {"hdr", "exec"}
  BY <1>0, AcksEmpty
<1> DEFINE r == Rsp("ACK", "none")
<1>2. tx' = Append(tx, r) /\ inbox' = inbox
  BY DEF Acks, HandleZero, HandleExec, HandleReboot, CheckCrc, Respond
<1>3. r \in Response /\ r.code = "ACK"
  BY DEF Rsp, Response
<1> HIDE DEF r
<1>4. inbox \in Seq(Response) /\ tx \in Seq(Response) /\ Answers \in Seq(Response)
  BY <1>0, AnswersType DEF TypeOK
<1>5. AckIn(Answers')
  <2>1. Answers' = Append(Answers, r)
    BY <1>2, <1>3, <1>4, AnswerMoves DEF Answers
  <2> QED BY <1>3, <1>4, <2>1, AppendKeeps
<1>6. ~ LosesAnswer
  <2> SUFFICES ASSUME tx # <<>>, tx' = Tail(tx) PROVE FALSE
    BY DEF LosesAnswer
  <2>1. Len(tx) \in Nat /\ Len(Append(tx, r)) = Len(tx) + 1 /\ Len(Tail(tx)) = Len(tx) - 1
    BY <1>3, <1>4, LenProperties, AppendProperties, HeadTailProperties
  <2> QED BY <1>2, <2>1
<1>7. hdr' = HeaderOf(job[cur])
  <2>1. HeaderInv'
    BY <1>0, HeaderBoardStep
  <2> QED BY <1>5, <2>1 DEF HeaderInv, clientVars
<1>8. ~ Spent
  <2>1. CASE CheckCrc /\ Loaded(hdr) = hdr.crc
    <3>1. mode = "payload"
      BY <2>1 DEF CheckCrc
    <3>2. job[cur].type = "LOAD" /\ ToCome = Written
      BY <1>0, <2>1, PayloadDone
    <3> QED BY <1>0, <3>1, <3>2 DEF Spent
  <2>2. ASSUME mode = "hdr", Len(buf) = HdrLen, NEW h \in Decode(buf),
               HandleZero(h) \/ HandleExec(h) \/ HandleReboot(h)
        PROVE  ~ Spent
    <3>1. h.type \in {"ZERO", "EXEC", "REBOOT"}
      BY <2>2 DEF HandleZero, HandleExec, HandleReboot, Received
    <3>2. h.type = job[cur].type /\ Len(fifo) \in Nat /\ Len(line) \in Nat
      BY <1>0, <2>2, <3>1, HeaderIsOwn
    <3>3. Written = 0
      BY <1>0, <3>1, <3>2
    <3>4. InOrder(Stream, job[cur], Written)
      BY DEF HeaderInv
    <3>5. HeaderFirst(Stream, job[cur])
      BY <1>0, <2>2, <3>1, <3>2, <3>3, <3>4, HeaderInOrder
    <3>6. \A k \in 1 .. HdrLen : k \in 1 .. Len(Stream)
      BY <1>0, <2>2, <3>1, HeaderTaken, LayoutAssumption
    <3> QED BY <3>5, <3>6 DEF Spent, Missing, HeaderFirst
  <2> QED BY <2>1, <2>2 DEF Acks
<1>9. lost = "no"
  <2>1. mode \in {"hdr", "payload"}
    BY DEF Acks, CheckCrc
  <2> QED BY <1>1, <1>8, <2>1 DEF LostPacket
<1>10. ~ LosesBoard
  BY <1>1, <1>7 DEF LosesBoard
<1> QED BY <1>1, <1>5, <1>6, <1>7, <1>9, <1>10, HistBoard

-----------------------------------------------------------------------------
(* Steps of the board keep it *)

LEMMA HungStays ==
  ASSUME LoaderStep, mode = "hung"
  PROVE  mode' \in {"hung", "boot"}
<1>1. ~ Startup /\ ~ KMain /\ ~ Derail
  BY DEF Startup, KMain, Derail
<1>2. CASE WdogFire \/ PowerCycle
  BY <1>2 DEF WdogFire, PowerCycle, Reset
<1>3. CASE Commands
  BY <1>3 DEF Commands, KReadHdr, KReadPayload, CheckCrc, DrainAndReport
<1>4. CASE Kernel
  BY <1>4 DEF Kernel, StartKernel, KernelReturn, KernelDisarm, KernelPrint, KernelTrash
<1>5. CASE Link
  BY <1>5 DEF Link, Arrive, Deliver, MissUnit, Garble, MissResponse, loaderVars
<1> QED BY <1>1, <1>2, <1>3, <1>4, <1>5 DEF LoaderStep

LEMMA LostTypeBoard ==
  ASSUME ClientTypeOK, AtRest, LostType, BoardStep, HistNext
  PROVE  LostType'
<1>0. TypeOK /\ LoaderStep /\ UNCHANGED clientVars /\ cli' = cli
  BY SessionType DEF BoardStep, clientVars
<1>1. lost' \in {"no", "answer", "board"}
  BY <1>0, HistBoard DEF LostType
<1>2. ASSUME mode' = "kernel" PROVE lost' = "board"
  BY <1>0, <1>2, HistBoard DEF LostType, LosesBoard
<1>3. ASSUME cli' = "idle" PROVE AllTame(Stream') /\ mode' \notin Busy
  BY <1>0, <1>3, TameStep DEF LostType
<1> QED BY <1>1, <1>2, <1>3 DEF LostType

LEMMA LostDoneBoard ==
  ASSUME ClientTypeOK, AtRest, LostDone, BoardStep, HistNext
  PROVE  LostDone'
<1>0. /\ TypeOK /\ LoaderStep /\ UNCHANGED clientVars
      /\ cli' = cli /\ job' = job
  BY SessionType DEF BoardStep, clientVars
<1> SUFFICES ASSUME cli = "done"
             PROVE  /\ AllTame(Stream') /\ mode' # "payload"
                    /\ mode' = "exec" => /\ job # <<>> /\ job[Len(job)].type = "EXEC"
                                         /\ lost' = "no"
  BY <1>0 DEF LostDone
<1>1. AllTame(Stream) /\ mode # "payload"
  BY DEF LostDone
<1>2. AllTame(Stream')
  <2>1. TypeOK'
    BY <1>0, BoardTypeStep
  <2>2. Stream \in Seq(Unit) /\ Stream' \in Seq(Unit)
    BY <1>0, <2>1, StreamType, StreamTypeNext
  <2>3. PICK m \in Nat, d \in Nat : Shrinks(Stream, Stream', m, d)
    BY <1>0, StreamStep
  <2> QED BY <1>1, <2>2, <2>3, ShrinkKeeps
<1>3. mode' # "payload" /\ (mode' = "exec" => mode = "exec")
  <2>1. CASE mode \notin Busy
    BY <1>0, <1>1, <2>1, TameStep DEF Busy
  <2>2. CASE mode \in {"exec", "kernel"}
    BY <1>0, <2>2, ModeStep
  <2> QED BY <1>1, <2>1, <2>2 DEF Busy
<1>4. ASSUME mode' = "exec" PROVE lost' = lost
  <2>1. ~ LosesBoard
    BY <1>3, <1>4 DEF LosesBoard
  <2> QED BY <1>0, <2>1, HistBoard
<1> QED BY <1>2, <1>3, <1>4 DEF LostDone

LEMMA LostSendBoard ==
  ASSUME ClientTypeOK, AtRest, Ready, LostSend, BoardStep, HistNext
  PROVE  LostSend'
<1>0. TypeOK /\ LoaderStep /\ UNCHANGED clientVars /\ cli' = cli
  BY SessionType DEF BoardStep, clientVars
<1> SUFFICES ASSUME cli = "send"
             PROVE  lost' = "no" \/ (lost' = "board" /\ mode' \in {"boot", "hung"})
  BY <1>0 DEF LostSend
<1>1. lost' = IF LosesBoard THEN "board" ELSE lost
  BY <1>0, HistBoard
<1>2. mode' # "kernel"
  BY <1>0, TameStep DEF Ready, Busy
<1>3. CASE LosesBoard
  BY <1>1, <1>2, <1>3 DEF LosesBoard
<1>4. CASE ~ LosesBoard /\ mode \in {"boot", "hung"}
  <2>1. mode' \in {"boot", "hung"}
    <3>1. CASE mode = "boot"
      BY <1>0, <3>1, BootMoves DEF BoardStep, BootIsSlow
    <3> QED BY <1>0, <1>4, <3>1, HungStays
  <2> QED BY <1>1, <1>4, <2>1 DEF LostSend
<1> QED BY <1>1, <1>3, <1>4 DEF LostSend

LEMMA LostBootBoard ==
  ASSUME ClientTypeOK, LostBoot, BoardStep, HistNext
  PROVE  LostBoot'
<1>0. /\ TypeOK /\ LoaderStep /\ UNCHANGED clientVars
      /\ cli' = cli /\ job' = job /\ cur' = cur
  BY SessionType DEF BoardStep, clientVars
<1> SUFFICES ASSUME mode' = "boot", lost' # "board", cli \in {"send", "data", "ack", "done"}
             PROVE  cur = 1 /\ (cli # "done" => ~ AckIn(Answers'))
  BY <1>0 DEF LostBoot
<1>1. mode = "boot" /\ lost # "board"
  BY <1>0, HistBoard DEF LosesBoard
<1>2. cur = 1 /\ (cli # "done" => ~ AckIn(Answers))
  BY <1>1 DEF LostBoot
<1>3. ~ Acks
  BY <1>1 DEF Acks, CheckCrc
<1> QED BY <1>0, <1>2, <1>3, NewAck

LEMMA LostPacketBoard ==
  ASSUME "header" \notin Noise, ClientTypeOK, SessionInv, HeaderInv, LostInv,
         BoardStep, HistNext
  PROVE  LostPacket'
<1>0. /\ TypeOK /\ LoaderStep /\ UNCHANGED clientVars
      /\ cli' = cli /\ job' = job /\ cur' = cur
      /\ AtRest /\ OneHeader /\ PacketInv /\ LostPacket
  BY SessionType DEF BoardStep, clientVars, SessionInv, LostInv
<1>t. TypeOK'
  BY <1>0, BoardTypeStep
<1> SUFFICES
      ASSUME cli \in {"data", "ack"}
      PROVE  /\ AckIn(Answers') => \/ lost' = "no"
                                   \/ /\ lost' = "board"
                                      /\ mode' \in {"boot", "hung"} \/ job[cur].type = "EXEC"
             /\ ~ AckIn(Answers') /\ lost' # "no" => mode' \in {"boot", "hung"} \/ Spent'
             /\ mode' = "payload" /\ hdr' # HeaderOf(job[cur]) => lost' = "board"
             /\ mode' = "exec" => lost' = IF AckIn(Answers') THEN "no" ELSE "answer"
  BY <1>0 DEF LostPacket
<1>1. /\ job[cur] \in Packets /\ job[cur].type # "PING" /\ Written \in Nat
      /\ Written' = Written
  BY <1>0, SessionType, WrittenType DEF Written
<1>2. Stream \in Seq(Unit) /\ Stream' \in Seq(Unit)
  BY <1>0, <1>t, StreamType, StreamTypeNext
<1>3. lost' = IF LosesBoard THEN "board"
              ELSE IF LosesAnswer /\ lost = "no" THEN "answer" ELSE lost
  BY <1>0, HistBoard
<1>4. ASSUME buf' = <<>>, fifo' = <<>>, line' = <<>> PROVE Missing(Stream', job[cur])
  <2>1. InBuf' = <<>> /\ InFifo' = <<>>
    BY <1>4 DEF InBuf, InFifo
  <2>2. Len(Stream') = 0
    BY <1>4, <1>t, <2>1, EmptySeq, StreamTypeNext
  <2> QED BY <2>2, MissingInEmpty
\* A board that is off stays off, or comes up with nothing on its way.
<1>5. ASSUME mode = "boot", mode' # "boot" PROVE ~ AckIn(Answers) /\ Spent' /\ mode' = "enter"
  <2>1. mode' = "enter" /\ UNCHANGED <<buf, linkVars>>
    BY <1>0, <1>5, BootMoves
  <2>2. line = <<>> /\ tx = <<>> /\ inbox = <<>> /\ buf = <<>> /\ fifo = <<>>
    BY <1>0, <1>5, <2>1 DEF BoardStep, BootIsSlow, AtRest
  <2>3. ~ AckIn(Answers)
    <3>1. ~ AckIn(inbox) /\ ~ AckIn(tx)
      BY <2>2, EmptySeq DEF AckIn
    <3> QED BY <1>0, <3>1, AckInParts
  <2>4. Missing(Stream', job[cur])
    BY <1>4, <2>1, <2>2 DEF linkVars
  <2> QED BY <1>0, <2>1, <2>3, <2>4 DEF Spent
\* An acknowledgement on its way leaves nothing that could go wrong.
<1>6. ASSUME AckIn(Answers)
      PROVE  Spent' /\ mode' # "payload" /\ buf = <<>> /\ (mode' = "exec" => mode = "exec")
  <2>1. buf = <<>> /\ fifo = <<>> /\ line = <<>> /\ mode \notin {"payload", "delay"}
    BY <1>0, <1>6 DEF PacketInv, Answered
  <2>2. buf' = <<>> /\ fifo' = <<>> /\ line' = <<>> /\ mode' # "payload"
    BY <1>0, <2>1, EmptyStays
  <2>3. mode' = "exec" => mode = "exec"
    <3>1. ASSUME mode' = "exec", mode # "exec" PROVE FALSE
      BY <1>0, <2>1, <3>1, EmptySeq, LayoutAssumption, ModeStep
    <3> QED BY <3>1
  <2> QED BY <1>0, <1>4, <2>1, <2>2, <2>3 DEF Spent
<1>7. ASSUME AckIn(Answers), AckIn(Answers') PROVE ~ LosesAnswer
  BY <1>0, <1>7, DroppedAck DEF PacketInv, Answered
<1>8. ASSUME ~ AckIn(Answers), AckIn(Answers') PROVE lost' = "no"
  BY <1>0, <1>8, NewAck, AckingStep
<1>9. ASSUME AckIn(Answers')
      PROVE  \/ lost' = "no"
             \/ lost' = "board" /\ (mode' \in {"boot", "hung"} \/ job[cur].type = "EXEC")
  <2>1. CASE AckIn(Answers) /\ LosesBoard
    <3>1. mode' # mode /\ mode' \in {"boot", "kernel", "hung"}
      BY <1>6, <2>1 DEF LosesBoard
    <3>2. CASE mode' = "kernel"
      <4>1. mode = "exec"
        BY <1>0, <3>1, <3>2, ModeStep
      <4> QED BY <1>0, <1>3, <2>1, <4>1 DEF PacketInv, Working
    <3> QED BY <1>3, <2>1, <3>1, <3>2
  <2>2. CASE AckIn(Answers) /\ ~ LosesBoard
    <3>1. lost' = lost
      BY <1>3, <1>7, <1>9, <2>2
    <3>2. CASE mode \in {"boot", "hung"}
      <4>1. mode' \in {"boot", "hung"}
        BY <1>0, <1>5, <2>2, <3>2, HungStays
      <4> QED BY <1>0, <2>2, <3>1, <4>1 DEF LostPacket
    <3> QED BY <1>0, <2>2, <3>1, <3>2 DEF LostPacket
  <2> QED BY <1>8, <1>9, <2>1, <2>2
<1>10. ASSUME ~ AckIn(Answers'), lost' # "no" PROVE mode' \in {"boot", "hung"} \/ Spent'
  <2>1. CASE AckIn(Answers)
    BY <1>6, <2>1
  <2>2. CASE ~ AckIn(Answers) /\ lost = "no" /\ mode' \notin {"boot", "hung"}
    <3>1. ~ LosesAnswer
      <4>1. ASSUME LosesAnswer PROVE AckIn(tx)
        <5>1. tx \in Seq(Response) /\ tx # <<>> /\ Head(tx).code = "ACK"
          BY <1>0, <4>1 DEF LosesAnswer, TypeOK
        <5>2. 1 \in 1 .. Len(tx) /\ Head(tx) = tx[1]
          BY <5>1, EmptySeq, LenProperties, HeadTailProperties
        <5> QED BY <5>1, <5>2 DEF AckIn
      <4> QED BY <1>0, <2>2, <4>1, AckInParts
    <3>2. LosesBoard
      BY <1>3, <1>10, <2>2, <3>1
    <3>3. CASE mode' = "kernel" /\ mode # "kernel"
      BY <1>0, <2>2, <3>3, ModeStep DEF LostPacket
    <3>4. CASE ~ (mode' # mode /\ mode' \in {"boot", "kernel", "hung"})
      <4>1. /\ mode = "hdr" /\ buf # <<>> /\ buf' = <<>> /\ hdr' # HeaderOf(job[cur])
            /\ ~ ToSet(HeaderUnits(job[cur])) \subseteq ToSet(fifo' \o line')
        BY <3>2, <3>4 DEF LosesBoard
      <4>2. Stream' = <<>> \o fifo' \o line'
        BY <2>2, <4>1 DEF Stream, InBuf, InFifo
      <4>3. fifo' \in Seq(Unit) /\ line' \in Seq(Unit)
        BY <1>t DEF TypeOK
      <4>4. Stream' = fifo' \o line'
        BY <4>2, <4>3, ConcatEmptySeq
      <4>5. Missing(Stream', job[cur])
        BY <1>1, <1>2, <4>1, <4>4, MissingUnits
      <4>6. HeaderInv'
        BY <1>0, HeaderBoardStep
      <4>7. mode' = "payload" => (ToCome < Written)'
        BY <1>0, <4>1, <4>6 DEF HeaderInv
      <4> QED BY <1>0, <4>5, <4>7 DEF Spent
    <3> QED BY <2>2, <3>3, <3>4
  <2>3. CASE ~ AckIn(Answers) /\ lost # "no" /\ mode \in {"boot", "hung"}
    BY <1>0, <1>5, <2>3, HungStays
  <2>4. CASE Spent
    <3>1. Missing(Stream', job[cur])
      <4>1. PICK m \in Nat, d \in Nat : Shrinks(Stream, Stream', m, d)
        BY <1>0, StreamStep
      <4> QED BY <1>2, <2>4, <4>1, MissingStays DEF Spent
    <3>2. ASSUME mode' = "payload" PROVE ToCome' < Written
      <4>1. CASE mode = "payload"
        BY <1>0, <1>1, <2>4, <3>2, <4>1, PayloadGoesOn DEF Spent
      <4>2. CASE mode # "payload"
        <5>1. mode = "hdr" /\ Len(buf) = HdrLen
          BY <1>0, <3>2, <4>2, ModeStep
        <5>2. PICK h \in Decode(buf) : HandleLoad(h)
          BY <1>0, <3>2, <4>2, ModeStep
        <5>3. h.type = "LOAD" /\ off' = 0 /\ fifo' = fifo /\ line' = line
          BY <5>2 DEF HandleLoad, Received, linkVars
        <5>4. InOrder(Stream, job[cur], Written)
          BY DEF HeaderInv
        <5>5. ~ HeaderFirst(Stream, job[cur])
          <6>1. \A k \in 1 .. HdrLen : k \in 1 .. Len(Stream)
            BY <1>0, <5>1, <5>2, <5>3, HeaderTaken, LayoutAssumption
          <6> QED BY <2>4, <6>1 DEF Spent, Missing, HeaderFirst
        <5>6. Len(fifo) + Len(line) < Written
          BY <1>0, <1>1, <5>1, <5>2, <5>3, <5>4, <5>5, HeaderInOrder
        <5>7. Len(fifo) \in Nat /\ Len(line) \in Nat
          BY <1>0, <5>1, <5>2, <5>3, HeaderTaken
        <5> QED BY <5>3, <5>6, <5>7 DEF ToCome
      <4> QED BY <4>1, <4>2
    <3> QED BY <1>0, <1>1, <3>1, <3>2 DEF Spent
  <2> QED BY <1>0, <2>1, <2>2, <2>3, <2>4 DEF LostPacket
<1>11. ASSUME mode' = "payload", hdr' # HeaderOf(job[cur]) PROVE lost' = "board"
  <2>1. CASE mode = "payload"
    BY <1>0, <1>3, <1>11, <2>1, PayloadGoesOn DEF LostPacket
  <2>2. CASE mode # "payload"
    <3>1. mode = "hdr" /\ Len(buf) = HdrLen
      BY <1>0, <1>11, <2>2, ModeStep
    <3>2. PICK h \in Decode(buf) : HandleLoad(h)
      BY <1>0, <1>11, <2>2, ModeStep
    <3>3. h.type = "LOAD" /\ buf' = <<>> /\ fifo' = fifo /\ line' = line
      BY <3>2 DEF HandleLoad, Received, linkVars
    <3>4. AllTame(<<>> \o fifo \o line)
      BY <1>0, <3>1, <3>2, <3>3, HeaderIsOwn
    <3>5. fifo \in Seq(Unit) /\ line \in Seq(Unit)
      BY <1>0 DEF TypeOK
    <3>6. AllTame(fifo \o line)
      BY <3>4, <3>5, ConcatEmptySeq
    <3>7. Missing(fifo \o line, job[cur])
      BY <1>1, <3>6, MissingInTame
    <3>8. fifo \o line \in Seq(Unit)
      BY <3>5, ConcatProperties
    <3>9. ~ ToSet(HeaderUnits(job[cur])) \subseteq ToSet(fifo' \o line')
      BY <1>1, <3>3, <3>7, <3>8, MissingUnits
    <3>10. buf # <<>>
      BY <3>1, EmptySeq, LayoutAssumption
    <3> QED BY <1>3, <1>11, <3>1, <3>3, <3>9, <3>10 DEF LosesBoard
  <2> QED BY <2>1, <2>2
<1>12. ASSUME mode' = "exec" PROVE lost' = IF AckIn(Answers') THEN "no" ELSE "answer"
  <2>1. CASE mode # "exec"
    <3>1. Acks
      BY <1>0, <1>12, <2>1, ModeStep DEF Acks
    <3> QED BY <1>0, <3>1, AckingStep
  <2>2. CASE mode = "exec"
    <3>1. ~ LosesBoard
      BY <1>12, <2>2 DEF LosesBoard
    <3>2. lost = IF AckIn(Answers) THEN "no" ELSE "answer"
      BY <1>0, <2>2 DEF LostPacket
    <3>3. ~ Acks
      BY <2>2 DEF Acks, CheckCrc
    <3>4. CASE AckIn(Answers) /\ AckIn(Answers')
      BY <1>3, <1>7, <3>1, <3>2, <3>4
    <3>5. CASE AckIn(Answers) /\ ~ AckIn(Answers')
      BY <1>0, <1>3, <1>12, <3>1, <3>2, <3>5, AckGoesAway
    <3>6. CASE ~ AckIn(Answers)
      BY <1>0, <1>3, <3>1, <3>2, <3>3, <3>6, NewAck
    <3> QED BY <3>4, <3>5, <3>6
  <2> QED BY <2>1, <2>2
<1> QED BY <1>9, <1>10, <1>11, <1>12

-----------------------------------------------------------------------------
(* Steps of piboot keep it *)

\* The answer to the ping.
LEMMA ReadyHeard ==
  ASSUME ClientTypeOK, SessionInv, RecvReady, cli' # "failed"
  PROVE  /\ cli = "rdy" /\ cli' = AfterPacket(cur) /\ cur = 1 /\ AllTame(Stream)
         /\ Stream' = Stream /\ mode \notin Busy /\ ~ AckIn(Answers')
         /\ UNCHANGED <<loaderVars, tx, job, cur, sessions>>
<1>0. TypeOK /\ Answers \in Seq(Response) /\ Calling
  BY SessionType, AnswersType DEF SessionInv, ContactInv
<1>1. cli = "rdy" /\ UNCHANGED <<loaderVars, job, cur, sessions>>
  BY DEF RecvReady
<1>2. PICK rsp \in Response : Read(rsp) /\ rsp.code = "RDY" /\ cli' = AfterPacket(cur)
  BY DEF RecvReady
<1>3. /\ Stream' = Stream /\ tx' = tx
      /\ Len(Answers) >= 1 /\ Answers[1] = rsp /\ Len(Answers') = Len(Answers) - 1
      /\ Loses(Answers, Answers', 0, 1)
  BY <1>0, <1>1, <1>2, ReadStep DEF Read
<1>4. Len(Answers) \in Nat /\ 1 \in 1 .. Len(Answers)
  BY <1>0, <1>3, LenProperties
<1>5. cur = 1 /\ AllTame(Stream) /\ mode \notin Busy /\ NoAckBehindRdy(Answers)
  BY <1>0, <1>1, <1>2, <1>3, <1>4 DEF Calling, RdyIn
<1>6. ~ AckIn(Answers')
  <2> SUFFICES ASSUME NEW n \in 1 .. Len(Answers'), Answers'[n].code = "ACK" PROVE FALSE
    BY DEF AckIn
  <2>1. n + 1 \in 1 .. Len(Answers) /\ 1 < n + 1 /\ ~ n <= 0
    BY <1>3, <1>4
  <2>2. Answers'[n] = Answers[n + 1]
    BY <1>3, <2>1 DEF Loses
  <2> QED BY <1>2, <1>3, <1>4, <1>5, <2>1, <2>2 DEF NoAckBehindRdy
<1> QED BY <1>1, <1>2, <1>3, <1>5, <1>6

\* The answer to a packet.
LEMMA AckHeard ==
  ASSUME ClientTypeOK, SessionInv, RecvAck, cli' # "failed"
  PROVE  /\ cli = "ack" /\ cur' = cur + 1 /\ cli' = AfterPacket(cur + 1)
         /\ AckIn(Answers) /\ ~ AckIn(Answers')
         /\ AllTame(Stream) /\ Stream' = Stream /\ mode \notin {"payload", "delay"}
         /\ job[cur].type = "EXEC" => cur = Len(job) /\ cli' = "done"
         /\ mode \in {"exec", "kernel"} => job[cur].type = "EXEC"
         /\ UNCHANGED <<loaderVars, tx, job, sessions>>
<1>0. TypeOK /\ Answers \in Seq(Response) /\ PacketInv
  BY SessionType, AnswersType DEF SessionInv
<1>1. cli = "ack" /\ UNCHANGED <<loaderVars, job, sessions>>
  BY DEF RecvAck
<1>2. PICK rsp \in Response : /\ Read(rsp) /\ rsp.code = "ACK"
                              /\ cur' = cur + 1 /\ cli' = AfterPacket(cur + 1)
  BY DEF RecvAck
<1>3. /\ Stream' = Stream /\ tx' = tx
      /\ Len(Answers) >= 1 /\ Answers[1] = rsp /\ Len(Answers') = Len(Answers) - 1
  BY <1>0, <1>1, <1>2, ReadStep DEF Read
<1>4. Len(Answers) \in Nat /\ 1 \in 1 .. Len(Answers)
  BY <1>0, <1>3, LenProperties
<1>5. AckIn(Answers)
  BY <1>2, <1>3, <1>4 DEF AckIn
<1>6. /\ buf = <<>> /\ fifo = <<>> /\ line = <<>> /\ mode \notin {"payload", "delay"}
      /\ AckLast(Answers)
  BY <1>0, <1>1, <1>5 DEF PacketInv, Answered
<1>7. ~ AckIn(Answers')
  <2>1. Len(Answers) = 1
    BY <1>2, <1>3, <1>4, <1>6 DEF AckLast
  <2> QED BY <1>3, <2>1 DEF AckIn
<1>8. AllTame(Stream)
  <2>1. Stream = <<>>
    BY <1>6 DEF Stream, InBuf, InFifo
  <2> QED BY <2>1, EmptySeq DEF AllTame
<1>9. ASSUME job[cur].type = "EXEC" PROVE cur = Len(job) /\ cli' = "done"
  <2>1. cur = Len(job) /\ cur \in Nat
    BY <1>1, <1>9, SessionType
  <2> QED BY <1>2, <2>1 DEF AfterPacket
<1>10. mode \in {"exec", "kernel"} => job[cur].type = "EXEC"
  BY <1>0, <1>1 DEF PacketInv, Working
<1> QED BY <1>1, <1>2, <1>3, <1>5, <1>6, <1>7, <1>8, <1>9, <1>10

LEMMA LostClientStep ==
  ASSUME ClientTypeOK, SessionInv, LostInv, ClientStep \/ Kill \/ \E j \in Jobs : StartSession(j),
         HistNext
  PROVE  LostInv'
<1>0. TypeOK /\ PacketInv
  BY SessionType DEF SessionInv
<1>1. UNCHANGED loaderVars /\ tx' = tx /\ cli' # "idle"
  BY DEF ClientStep, Kill, StartSession, SendPing, RecvReady, SendHeader, SendPayload, RecvAck,
         Read, Write, linkVars, AfterPacket
<1>2. lost' = IF cli = "rdy" /\ cli' \in {"send", "done"} THEN "no" ELSE lost
  BY <1>0, <1>1, HistClient
<1>3. mode' = mode /\ hdr' = hdr /\ off' = off /\ buf' = buf
  BY <1>1 DEF loaderVars
<1>4. CASE cli' \in {"ping", "rdy", "failed"}
  <2>1. lost' = lost
    BY <1>2, <1>4
  <2> QED BY <1>1, <1>3, <1>4, <2>1
          DEF LostInv, LostType, LostDone, LostSend, LostBoot, LostPacket
<1>5. CASE RecvReady /\ cli' # "failed"
  <2>1. /\ cli = "rdy" /\ cli' \in {"send", "done"} /\ cur' = 1 /\ AllTame(Stream')
        /\ mode' \notin Busy /\ ~ AckIn(Answers') /\ lost' = "no"
    BY <1>2, <1>3, <1>5, ReadyHeard DEF AfterPacket
  <2> QED BY <1>3, <2>1 DEF LostInv, LostType, LostDone, LostSend, LostBoot, LostPacket, Busy
<1>6. CASE SendHeader
  <2>1. /\ cli = "send" /\ cli' \in {"data", "ack"} /\ cur' = cur /\ ~ AckIn(Answers')
        /\ mode' \notin Busy /\ lost' = lost
    BY <1>2, <1>3, <1>6, HeaderSent DEF SendHeader, SessionInv, ContactInv
  <2>2. lost' = "no" \/ (lost' = "board" /\ mode' \in {"boot", "hung"})
    BY <1>3, <2>1 DEF LostInv, LostSend
  <2>3. LostBoot'
    BY <1>3, <2>1 DEF LostInv, LostBoot
  <2>4. LostPacket'
    BY <2>1, <2>2 DEF LostPacket, Busy
  <2> QED BY <1>3, <2>1, <2>2, <2>3, <2>4 DEF LostInv, LostType, LostDone, LostSend, Busy
<1>7. CASE SendPayload
  <2>1. /\ job[cur] \in Packets /\ job' = job /\ cur' = cur /\ cli = "data" /\ cli' = "ack"
        /\ Stream \in Seq(Unit) /\ Stream' = Stream \o PayloadUnits(job[cur])
        /\ Answers' = Answers /\ Len(job[cur].data) \in Nat
        /\ Written = 0 /\ ToCome \in Nat
    BY <1>0, <1>7, PayloadSent
  <2>2. lost' = lost
    BY <1>2, <2>1
  <2>3. Spent => Spent'
    <3> SUFFICES ASSUME Spent PROVE Spent'
      OBVIOUS
    <3>1. mode' # "payload"
      BY <1>3, <2>1 DEF Spent
    <3>2. Missing(Stream', job[cur])
      BY <2>1, MissingFromPayload DEF Spent
    <3> QED BY <2>1, <3>1, <3>2 DEF Spent
  <2>4. LostPacket'
    BY <1>3, <2>1, <2>2, <2>3 DEF LostInv, LostPacket
  <2>5. LostBoot'
    BY <1>3, <2>1, <2>2 DEF LostInv, LostBoot
  <2> QED BY <1>3, <2>1, <2>2, <2>4, <2>5 DEF LostInv, LostType, LostDone, LostSend
<1>8. CASE RecvAck /\ cli' # "failed"
  <2>1. /\ cli = "ack" /\ cli' \in {"send", "done"} /\ AckIn(Answers) /\ AllTame(Stream')
        /\ job' = job /\ mode # "payload"
        /\ job[cur].type = "EXEC" => cur = Len(job) /\ cli' = "done"
        /\ mode \in {"exec", "kernel"} => job[cur].type = "EXEC"
    BY <1>8, AckHeard DEF AfterPacket
  <2>2. lost' = lost
    BY <1>2, <2>1
  <2>3. LostPacket'
    BY <2>1 DEF LostPacket
  <2>4. LostBoot'
    BY <1>3, <2>1, <2>2 DEF LostInv, LostBoot
  <2>5. LostSend'
    BY <1>3, <2>1, <2>2 DEF LostInv, LostSend, LostPacket
  <2>6. LostDone'
    <3>1. ASSUME mode = "exec" PROVE job # <<>> /\ job[Len(job)].type = "EXEC" /\ lost = "no"
      <4>1. cur = Len(job) /\ cur \in Nat /\ cur >= 1 /\ job[cur].type = "EXEC"
        BY <2>1, <3>1, SessionType
      <4>2. job # <<>>
        BY <4>1, EmptySeq
      <4> QED BY <2>1, <3>1, <4>1, <4>2 DEF LostInv, LostPacket
    <3> QED BY <1>3, <2>1, <2>2, <3>1 DEF LostDone
  <2> QED BY <1>3, <2>1, <2>2, <2>3, <2>4, <2>5, <2>6 DEF LostInv, LostType
<1> QED BY <1>4, <1>5, <1>6, <1>7, <1>8
        DEF ClientStep, Kill, StartSession, SendPing, RecvReady, RecvAck

LEMMA LostInvStep ==
  ASSUME "header" \notin Noise, ClientTypeOK, SessionInv, HeaderInv, LostInv,
         [HistNext]_<<vars, lost>>
  PROVE  LostInv'
<1>1. CASE BoardStep /\ HistNext
  <2>1. LostType' /\ LostDone'
    BY <1>1, LostTypeBoard, LostDoneBoard DEF LostInv, SessionInv
  <2>2. LostSend' /\ LostBoot'
    BY <1>1, LostSendBoard, LostBootBoard DEF LostInv, SessionInv, ContactInv
  <2>3. LostPacket'
    BY <1>1, LostPacketBoard
  <2> QED BY <2>1, <2>2, <2>3 DEF LostInv
<1>2. CASE (ClientStep \/ Kill \/ \E j \in Jobs : StartSession(j)) /\ HistNext
  BY <1>2, LostClientStep
<1>3. CASE UNCHANGED <<vars, lost>>
  <2>1. /\ UNCHANGED <<cli, job, cur, mode, hdr, lost>> /\ Stream' = Stream
        /\ Answers' = Answers /\ ToCome' = ToCome
    BY <1>3 DEF vars, boardVars, clientVars, loaderVars, linkVars, Stream, InBuf, InFifo,
                Answers, ToCome
  <2>2. Spent' <=> Spent
    BY <2>1 DEF Spent, Written
  <2>3. LostPacket'
    BY <2>1, <2>2 DEF LostInv, LostPacket
  <2> QED BY <2>1, <2>3 DEF LostInv, LostType, LostDone, LostSend, LostBoot
<1> QED BY <1>1, <1>2, <1>3 DEF HistNext, Next

-----------------------------------------------------------------------------
(* What Upload sees *)

LEMMA AckSeen == TypeOK => (AckOnItsWay <=> AckIn(Answers))
<1> SUFFICES ASSUME TypeOK PROVE AckOnItsWay <=> AckIn(Answers)
  OBVIOUS
<1>1. AckOnItsWay <=> AckIn(tx) \/ AckIn(inbox)
  BY DEF AckOnItsWay, AckIn
<1> QED BY <1>1, AckInParts

LEMMA PhaseIs ==
  ClientTypeOK =>
    /\ cli \in {"ping", "rdy"} => Phase = "contact"
    /\ cli = "send" => Phase = "run"
    /\ cli \in {"data", "ack"} => Phase = IF AckIn(Answers) THEN "served" ELSE "sent"
    /\ cli \in {"idle", "done", "failed"} => Phase = cli
BY AckSeen DEF ClientTypeOK, Phase

\* Memory m where the first n packets of j have written, but for the addresses in E.
Uploaded(m, j, n, E) ==
  [a \in Addr |-> IF a \notin E /\ \E k \in 1 .. n : a \in Writes(j[k])
                  THEN m[a] ELSE "unknown"]
Nothing == [a \in Addr |-> "unknown"]

LEMMA ImageIs ==
  ClientTypeOK =>
    /\ lost = "board" \/ cli \notin {"send", "data", "ack", "done"} => Image = Nothing
    /\ lost # "board" /\ cli \in {"send", "done"} => Image = Uploaded(mem, job, cur - 1, {})
    /\ lost # "board" /\ cli \in {"data", "ack"} =>
         Image = IF AckIn(Answers) THEN Uploaded(mem, job, cur, {})
                 ELSE Uploaded(mem, job, cur - 1, Writes(job[cur]))
<1> SUFFICES ASSUME ClientTypeOK
             PROVE  /\ lost = "board" \/ cli \notin {"send", "data", "ack", "done"} =>
                         Image = Nothing
                    /\ lost # "board" /\ cli \in {"send", "done"} =>
                         Image = Uploaded(mem, job, cur - 1, {})
                    /\ lost # "board" /\ cli \in {"data", "ack"} =>
                         Image = IF AckIn(Answers) THEN Uploaded(mem, job, cur, {})
                                 ELSE Uploaded(mem, job, cur - 1, Writes(job[cur]))
  OBVIOUS
<1>0. cli \in CliStates
  BY DEF ClientTypeOK
<1>1. ASSUME lost = "board" \/ cli \notin {"send", "data", "ack", "done"}
      PROVE  Image = Nothing
  <2>1. lost = "board" \/ Phase \notin {"run", "sent", "served", "done"}
    BY <1>0, <1>1, PhaseIs DEF CliStates
  <2> QED BY <2>1 DEF Image, Nothing
<1>2. ASSUME lost # "board", cli \in {"send", "done"} PROVE Image = Uploaded(mem, job, cur - 1, {})
  <2>1. Phase \in {"run", "done"}
    BY <1>2, PhaseIs
  <2>2. Settled = cur - 1 /\ InDoubt = {}
    BY <2>1 DEF Settled, InDoubt
  <2> QED BY <1>2, <2>1, <2>2 DEF Image, Uploaded
<1>3. ASSUME lost # "board", cli \in {"data", "ack"}, AckIn(Answers)
      PROVE  Image = Uploaded(mem, job, cur, {})
  <2>1. Phase = "served"
    BY <1>3, PhaseIs
  <2>2. Settled = cur /\ InDoubt = {}
    BY <2>1 DEF Settled, InDoubt
  <2> QED BY <1>3, <2>1, <2>2 DEF Image, Uploaded
<1>4. ASSUME lost # "board", cli \in {"data", "ack"}, ~ AckIn(Answers)
      PROVE  Image = Uploaded(mem, job, cur - 1, Writes(job[cur]))
  <2>1. Phase = "sent"
    BY <1>4, PhaseIs
  <2>2. Settled = cur - 1 /\ InDoubt = Writes(job[cur])
    BY <2>1 DEF Settled, InDoubt
  <2> QED BY <1>4, <2>1, <2>2 DEF Image, Uploaded
<1> QED BY <1>1, <1>2, <1>3, <1>4

LEMMA PhaseNext ==
  ClientTypeOK' =>
    /\ cli' \in {"ping", "rdy"} => Phase' = "contact"
    /\ cli' = "send" => Phase' = "run"
    /\ cli' \in {"data", "ack"} => Phase' = IF AckIn(Answers') THEN "served" ELSE "sent"
    /\ cli' \in {"idle", "done", "failed"} => Phase' = cli'
<1>1. (ClientTypeOK =>
        /\ cli \in {"ping", "rdy"} => Phase = "contact"
        /\ cli = "send" => Phase = "run"
        /\ cli \in {"data", "ack"} => Phase = IF AckIn(Answers) THEN "served" ELSE "sent"
        /\ cli \in {"idle", "done", "failed"} => Phase = cli)'
  BY PhaseIs, PTL
<1> QED BY <1>1

LEMMA ImageNext ==
  ClientTypeOK' =>
    /\ lost' = "board" \/ cli' \notin {"send", "data", "ack", "done"} => Image' = Nothing
    /\ lost' # "board" /\ cli' \in {"send", "done"} => Image' = Uploaded(mem', job', cur' - 1, {})
    /\ lost' # "board" /\ cli' \in {"data", "ack"} =>
         Image' = IF AckIn(Answers') THEN Uploaded(mem', job', cur', {})
                  ELSE Uploaded(mem', job', cur' - 1, Writes(job'[cur']))
<1>1. (ClientTypeOK =>
        /\ lost = "board" \/ cli \notin {"send", "data", "ack", "done"} => Image = Nothing
        /\ lost # "board" /\ cli \in {"send", "done"} => Image = Uploaded(mem, job, cur - 1, {})
        /\ lost # "board" /\ cli \in {"data", "ack"} =>
             Image = IF AckIn(Answers) THEN Uploaded(mem, job, cur, {})
                     ELSE Uploaded(mem, job, cur - 1, Writes(job[cur])))'
  BY ImageIs, PTL
<1> QED BY <1>1 DEF Nothing

\* Whatever the board does when the session is lost, or with that.
LEMMA IsLose ==
  ASSUME ClientTypeOK', lost' = "board", UNCHANGED <<job, cur>>,
         mode' = "kernel" => mode = "kernel",
         Phase' = Phase \/ (Phase = "served" /\ Phase' = "sent")
  PROVE  U!Lose
<1>1. Image' = U!Blank
  BY ImageNext DEF Nothing, U!Blank, U!Unknown, U!Addr, Addr
<1> QED BY <1>1 DEF U!Lose

-----------------------------------------------------------------------------
(* Steps of piboot *)

LEMMA ClientImplements ==
  ASSUME ClientTypeOK, ClientTypeOK', SessionInv, LostInv,
         ClientStep \/ Kill \/ \E j \in Jobs : StartSession(j), HistNext
  PROVE  [U!Next]_U!vars
<1>0. TypeOK /\ cur \in Nat /\ cli' \in CliStates
  BY SessionType DEF ClientTypeOK
<1>1. UNCHANGED loaderVars /\ tx' = tx /\ mode' = mode /\ mem' = mem
  BY DEF ClientStep, Kill, StartSession, SendPing, RecvReady, SendHeader, SendPayload, RecvAck,
         Read, Write, linkVars, loaderVars
<1>2. lost' = IF cli = "rdy" /\ cli' \in {"send", "done"} THEN "no" ELSE lost
  BY <1>0, <1>1, HistClient
<1>b. Nothing = U!Blank
  BY DEF Nothing, U!Blank, U!Unknown, U!Addr, Addr
<1>3. ASSUME NEW j \in Jobs, StartSession(j) PROVE U!Next
  <2>1. cli \in {"idle", "done", "failed"} /\ cli' = "ping" /\ job' = j /\ cur' = 1
    BY <1>3 DEF StartSession
  <2>2. Phase \in {"idle", "done", "failed"} /\ Phase' = "contact"
    BY <2>1, PhaseIs, PhaseNext
  <2>3. Image' = U!Blank /\ lost' = lost
    BY <1>2, <1>b, <2>1, ImageNext
  <2>4. U!Start(j)
    BY <1>1, <2>1, <2>2, <2>3 DEF U!Start
  <2> QED BY <2>4 DEF U!Next
<1>4. CASE SendPing
  <2>1. cli = "ping" /\ cli' = "rdy" /\ job' = job /\ cur' = cur
    BY <1>4 DEF SendPing
  <2>2. Phase' = Phase /\ Image' = Image /\ lost' = lost
    BY <1>2, <2>1, PhaseIs, PhaseNext, ImageIs, ImageNext
  <2> QED BY <1>1, <2>1, <2>2 DEF U!vars
\* A refused packet, an end of file, a kill.
<1>5. ASSUME cli' = "failed", cli \notin {"idle", "done", "failed"},
             UNCHANGED <<job, cur>>
      PROVE  U!Next
  <2>1. Phase \in {"contact", "run", "sent", "served"} /\ Phase' = "failed"
    BY <1>5, PhaseIs, PhaseNext DEF ClientTypeOK, CliStates
  <2>2. Image' = U!Blank /\ lost' = lost
    BY <1>2, <1>b, <1>5, ImageNext
  <2>3. U!Fail
    BY <1>1, <1>5, <2>1, <2>2 DEF U!Fail
  <2> QED BY <2>3 DEF U!Next
<1>6. CASE RecvReady /\ cli' # "failed"
  <2>1. /\ cli = "rdy" /\ cli' = AfterPacket(cur) /\ cur = 1 /\ mode \notin Busy
        /\ UNCHANGED <<job, cur>>
    BY <1>6, ReadyHeard
  <2>2. lost' = "no"
    BY <1>2, <2>1 DEF AfterPacket
  <2>3. Phase = "contact" /\ Phase' = U!Goes(cur)
    BY <2>1, PhaseIs, PhaseNext DEF AfterPacket, U!Goes
  <2>4. Image' = Image
    <3>1. Image = Nothing
      BY <2>1, ImageIs
    <3>2. Image' = Uploaded(mem', job', cur' - 1, {})
      BY <2>1, <2>2, ImageNext DEF AfterPacket
    <3>3. \A k \in 1 .. cur' - 1 : FALSE
      BY <2>1
    <3>4. Uploaded(mem', job', cur' - 1, {}) = Nothing
      BY <3>3 DEF Uploaded, Nothing
    <3> QED BY <3>1, <3>2, <3>4
  <2>5. U!Contact
    BY <1>1, <2>1, <2>2, <2>3, <2>4 DEF U!Contact, Busy
  <2> QED BY <2>5 DEF U!Next
<1>7. CASE SendHeader
  <2>1. /\ cli = "send" /\ cli' \in {"data", "ack"} /\ UNCHANGED <<job, cur>>
        /\ ~ AckIn(Answers') /\ job[cur] \in Packets
    BY <1>7, HeaderSent DEF SendHeader, SessionInv, ContactInv
  <2>2. Phase = "run" /\ Phase' = "sent" /\ lost' = lost
    BY <1>2, <2>1, PhaseIs, PhaseNext
  <2>3. Image' = [a \in U!Addr |-> IF a \in U!Writes(job[cur]) THEN U!Unknown ELSE Image[a]]
    <3>1. U!Addr = Addr /\ U!Writes(job[cur]) = Writes(job[cur])
      BY SameWrites
    <3>2. CASE lost = "board"
      <4>1. Image' = Nothing /\ Image = Nothing
        BY <2>2, <3>2, ImageIs, ImageNext
      <4> QED BY <3>1, <4>1 DEF Nothing, U!Unknown
    <3>3. CASE lost # "board"
      <4>1. Image = Uploaded(mem, job, cur - 1, {})
        BY <2>1, <3>3, ImageIs
      <4>2. Image' = Uploaded(mem, job, cur - 1, Writes(job[cur]))
        BY <1>1, <2>1, <2>2, <3>3, ImageNext
      <4> QED BY <3>1, <4>1, <4>2 DEF Uploaded, U!Unknown
    <3> QED BY <3>2, <3>3
  <2>4. U!Send
    BY <1>1, <2>1, <2>2, <2>3 DEF U!Send
  <2> QED BY <2>4 DEF U!Next
<1>8. CASE SendPayload
  <2>1. /\ cli = "data" /\ cli' = "ack" /\ UNCHANGED <<job, cur>> /\ Answers' = Answers
    BY <1>0, <1>8, PayloadSent DEF SessionInv
  <2>2. Phase' = Phase /\ lost' = lost
    BY <1>2, <2>1, PhaseIs, PhaseNext
  <2>3. Image' = Image
    <3>1. CASE lost = "board"
      BY <2>2, <3>1, ImageIs, ImageNext
    <3>2. CASE lost # "board"
      BY <1>1, <2>1, <2>2, <3>2, ImageIs, ImageNext
    <3> QED BY <3>1, <3>2
  <2> QED BY <1>1, <2>1, <2>2, <2>3 DEF U!vars
<1>9. CASE RecvAck /\ cli' # "failed"
  <2>1. /\ cli = "ack" /\ cur' = cur + 1 /\ cli' = AfterPacket(cur + 1)
        /\ AckIn(Answers) /\ ~ AckIn(Answers') /\ job' = job
    BY <1>9, AckHeard
  <2>2. Phase = "served" /\ Phase' = U!Goes(cur + 1) /\ lost' = lost
    BY <1>2, <2>1, PhaseIs, PhaseNext DEF AfterPacket, U!Goes
  <2>3. Image' = Image
    <3>1. CASE lost = "board"
      BY <2>2, <3>1, ImageIs, ImageNext
    <3>2. CASE lost # "board"
      <4>1. Image = Uploaded(mem, job, cur, {})
        BY <2>1, <3>2, ImageIs
      <4>2. Image' = Uploaded(mem, job, cur' - 1, {})
        BY <1>1, <2>1, <2>2, <3>2, ImageNext DEF AfterPacket
      <4>3. cur' - 1 = cur
        BY <1>0, <2>1
      <4> QED BY <4>1, <4>2, <4>3
    <3> QED BY <3>1, <3>2
  <2>4. U!Confirm
    BY <1>1, <2>1, <2>2, <2>3 DEF U!Confirm
  <2> QED BY <2>4 DEF U!Next
<1>10. CASE RecvReady /\ cli' = "failed"
  BY <1>5, <1>10 DEF RecvReady
<1>11. CASE RecvAck /\ cli' = "failed"
  <2>1. UNCHANGED <<job, cur>> /\ cli = "ack"
    BY <1>11 DEF RecvAck, AfterPacket
  <2> QED BY <1>5, <1>11, <2>1
<1>12. CASE Kill
  BY <1>5, <1>12 DEF Kill
<1> QED BY <1>3, <1>4, <1>6, <1>7, <1>8, <1>9, <1>10, <1>11, <1>12 DEF ClientStep

-----------------------------------------------------------------------------
(* Steps of the board *)

\* A packet takes effect where it writes, and nowhere else.
LEMMA AckImplements ==
  ASSUME "header" \notin Noise, ClientTypeOK, ClientTypeOK', SessionInv, HeaderInv, MemInv,
         LostInv, BoardStep, HistNext, cli \in {"data", "ack"}, Acks
  PROVE  U!TakeEffect
<1>0. /\ TypeOK /\ LoaderStep /\ UNCHANGED clientVars
      /\ cli' = cli /\ job' = job /\ cur' = cur
      /\ AtRest /\ OneHeader /\ PacketInv /\ LostPacket
      /\ cur \in Nat /\ cur >= 1 /\ job[cur] \in Packets
  BY SessionType DEF BoardStep, clientVars, SessionInv, LostInv
<1>1. /\ lost = "no" /\ lost' = "no" /\ ~ AckIn(Answers) /\ AckIn(Answers')
      /\ mode' \in {"hdr", "exec"} /\ hdr' = HeaderOf(job[cur])
  BY <1>0, AckingStep
<1>2. mode # "kernel" /\ mode' # "kernel"
  BY <1>1 DEF LostInv, LostType
<1>3. Phase = "sent" /\ Phase' = "served"
  BY <1>0, <1>1, PhaseIs, PhaseNext
<1>4. ASSUME NEW a \in Writes(job[cur]) PROVE mem'[a] = Wrote(job[cur], a)
  <2>1. job[cur].type # "EXEC"
    BY DEF Writes
  <2>2. Holds(mem', job, cur, {})
    BY <1>0, <1>1, <2>1, MemAckedStep
  <2>3. cur \in 1 .. cur /\ ~ \E k \in cur + 1 .. cur : TRUE
    BY <1>0
  <2> QED BY <2>2, <2>3 DEF Holds
<1>5. ASSUME NEW a \in Addr, a \notin Writes(job[cur]) PROVE mem'[a] = mem[a]
  <2>1. ASSUME NEW h \in Decode(buf), HandleZero(h) PROVE mem'[a] = mem[a]
    <3>1. h = HeaderOf(job[cur]) /\ h.type = "ZERO"
      BY <1>1, <2>1 DEF HandleZero, Received
    <3>2. Writes(job[cur]) = Cells(h.address, h.size)
      BY <3>1 DEF HeaderOf, Writes
    <3> QED BY <1>5, <2>1, <3>2 DEF HandleZero
  <2>2. ASSUME ~ \E h \in Decode(buf) : HandleZero(h) PROVE mem' = mem
    BY <2>2 DEF Acks, HandleExec, HandleReboot, CheckCrc
  <2> QED BY <2>1, <2>2
<1>6. Image = Uploaded(mem, job, cur - 1, Writes(job[cur]))
  BY <1>0, <1>1, ImageIs
<1>7. Image' = Uploaded(mem', job, cur, {})
  BY <1>0, <1>1, ImageNext
<1>8. \A a : (\E k \in 1 .. cur : a \in Writes(job[k])) <=>
               a \in Writes(job[cur]) \/ \E k \in 1 .. cur - 1 : a \in Writes(job[k])
  BY <1>0
<1>9. ASSUME NEW a \in Addr
      PROVE  Image'[a] = IF a \in Writes(job[cur]) THEN Wrote(job[cur], a) ELSE Image[a]
  BY <1>4, <1>5, <1>6, <1>7, <1>8, <1>9 DEF Uploaded
<1>10. Image' = [a \in Addr |-> IF a \in Writes(job[cur]) THEN Wrote(job[cur], a)
                                ELSE Image[a]]
  BY <1>7, <1>9 DEF Uploaded
<1>11. Image' = [a \in U!Addr |-> IF a \in U!Writes(job[cur]) THEN U!Wrote(job[cur], a)
                                  ELSE Image[a]]
  BY <1>10, SameWrites
<1> QED BY <1>0, <1>1, <1>2, <1>3, <1>11 DEF U!TakeEffect

LEMMA DropImplements ==
  ASSUME ClientTypeOK, ClientTypeOK', SessionInv, LostInv, BoardStep, HistNext,
         cli \in {"data", "ack"}, ~ LosesBoard, LosesAnswer, lost = "no"
  PROVE  U!LoseAnswer
<1>0. /\ TypeOK /\ LoaderStep /\ UNCHANGED clientVars
      /\ cli' = cli /\ job' = job /\ cur' = cur /\ AtRest /\ PacketInv
      /\ cur \in Nat /\ cur >= 1
  BY SessionType DEF BoardStep, clientVars, SessionInv
<1>1. lost' = "answer"
  BY <1>0, HistBoard
<1>2. mode # "kernel" /\ mode' # "kernel"
  BY DEF LostInv, LostType, LosesBoard
<1>3. AckIn(Answers) /\ ~ AckIn(Answers')
  <2>1. AckIn(tx)
    <3>1. tx \in Seq(Response) /\ tx # <<>> /\ Head(tx).code = "ACK"
      BY <1>0 DEF LosesAnswer, TypeOK
    <3>2. 1 \in 1 .. Len(tx) /\ Head(tx) = tx[1]
      BY <3>1, EmptySeq, LenProperties, HeadTailProperties
    <3> QED BY <3>1, <3>2 DEF AckIn
  <2>2. AckLast(Answers)
    BY <1>0, <2>1, AckInParts DEF PacketInv, Answered
  <2> QED BY <1>0, <2>2, DroppedAck
<1>4. mem' = mem
  <2>1. buf = <<>> /\ fifo = <<>> /\ line = <<>> /\ mode \notin {"payload", "delay"}
    BY <1>0, <1>3 DEF PacketInv, Answered
  <2>2. mode # "boot"
    BY <1>0 DEF AtRest, LosesAnswer
  <2> QED BY <1>0, <1>2, <2>1, <2>2, EmptyStays
<1>5. Phase = "served" /\ Phase' = "sent"
  BY <1>0, <1>3, PhaseIs, PhaseNext
<1>6. Image = Uploaded(mem, job, cur, {}) /\ Image' = Uploaded(mem, job, cur - 1, Writes(job[cur]))
  BY <1>0, <1>1, <1>3, <1>4, ImageIs, ImageNext
<1>7. \A a : (\E k \in 1 .. cur : a \in Writes(job[k])) <=>
               a \in Writes(job[cur]) \/ \E k \in 1 .. cur - 1 : a \in Writes(job[k])
  BY <1>0
<1>8. Image' = [a \in Addr |-> IF a \in Writes(job[cur]) THEN "unknown" ELSE Image[a]]
  BY <1>6, <1>7 DEF Uploaded
<1>9. Image' = [a \in U!Addr |-> IF a \in U!Writes(job[cur]) THEN U!Unknown ELSE Image[a]]
  BY <1>8, SameWrites DEF U!Unknown
<1> QED BY <1>0, <1>1, <1>2, <1>5, <1>9 DEF U!LoseAnswer

LEMMA StartImplements ==
  ASSUME ClientTypeOK, ClientTypeOK', SessionInv, LostInv, BoardStep, HistNext,
         mode # "kernel", mode' = "kernel"
  PROVE  U!Launch
<1>0. /\ TypeOK /\ LoaderStep /\ UNCHANGED clientVars
      /\ cli' = cli /\ job' = job /\ cur' = cur /\ cli \in CliStates
      /\ PacketInv /\ Ready
  BY SessionType DEF BoardStep, clientVars, SessionInv, ContactInv, ClientTypeOK
<1>1. lost' = "board"
  BY <1>0, HistBoard DEF LosesBoard
<1>2. Image' = U!Blank
  BY <1>1, ImageNext DEF Nothing, U!Blank, U!Unknown, U!Addr, Addr
<1>3. mode = "exec"
  BY <1>0, ModeStep
<1>4. Answers' = Answers
  <2>1. StartKernel
    <3>1. ~ Startup /\ ~ KMain /\ ~ Commands /\ ~ Derail
      BY <1>3 DEF Startup, KMain, Derail, Commands, KReadHdr, KReadPayload, CheckCrc,
                  DrainAndReport
    <3>2. ~ WdogFire /\ ~ PowerCycle
      BY DEF WdogFire, PowerCycle, Reset
    <3>3. ~ Link
      BY DEF Link, Arrive, Deliver, MissUnit, Garble, MissResponse, loaderVars
    <3> QED BY <1>0, <1>3, <3>1, <3>2, <3>3
            DEF LoaderStep, Kernel, KernelReturn, KernelTrash, KernelDisarm, KernelPrint
  <2> QED BY <2>1 DEF StartKernel, Answers
<1>5. cli \notin {"idle", "send"}
  BY <1>0, <1>3 DEF LostInv, LostType, Ready, Busy
<1>6. Phase' = Phase
  BY <1>0, <1>4, PhaseIs, PhaseNext DEF CliStates
<1>7. CASE cli \in {"ping", "rdy", "failed"}
  <2>1. Phase \in {"contact", "failed"}
    BY <1>7, PhaseIs
  <2> QED BY <1>0, <1>1, <1>2, <1>6, <2>1 DEF U!Launch
<1>8. CASE cli = "done"
  <2>1. Phase = "done" /\ job # <<>> /\ job[Len(job)].type = "EXEC" /\ lost = "no"
    BY <1>3, <1>8, PhaseIs DEF LostInv, LostDone
  <2> QED BY <1>0, <1>1, <1>2, <1>6, <2>1 DEF U!Launch
<1>9. CASE cli \in {"data", "ack"}
  <2>1. job[cur].type = "EXEC"
    BY <1>0, <1>3, <1>9 DEF PacketInv, Working
  <2>2. \/ Phase = "served" /\ lost = "no"
        \/ Phase = "sent" /\ lost = "answer"
    BY <1>3, <1>9, PhaseIs DEF LostInv, LostPacket
  <2> QED BY <1>0, <1>1, <1>2, <1>6, <2>1, <2>2 DEF U!Launch
<1> QED BY <1>0, <1>5, <1>7, <1>8, <1>9 DEF CliStates

\* What has been uploaded stays: nothing else than the packet in doubt writes.
LEMMA ImageStays ==
  ASSUME ClientTypeOK, SessionInv, LostInv, BoardStep, HistNext,
         lost # "board", lost' # "board", cli \in {"send", "data", "ack", "done"},
         ~ (cli \in {"data", "ack"} /\ Acks)
  PROVE  /\ cli \in {"send", "done"} =>
              Uploaded(mem', job, cur - 1, {}) = Uploaded(mem, job, cur - 1, {})
         /\ cli \in {"data", "ack"} /\ AckIn(Answers) =>
              Uploaded(mem', job, cur, {}) = Uploaded(mem, job, cur, {})
         /\ cli \in {"data", "ack"} /\ ~ AckIn(Answers) =>
              Uploaded(mem', job, cur - 1, Writes(job[cur]))
                = Uploaded(mem, job, cur - 1, Writes(job[cur]))
<1>0. /\ TypeOK /\ LoaderStep /\ AtRest /\ PacketInv /\ Ready /\ mode # "kernel"
  BY SessionType DEF BoardStep, SessionInv, ContactInv, LostInv, LostType
<1>1. CASE mem' = mem
  BY <1>1
<1>2. CASE mode = "boot"
  <2>1. cur = 1 /\ (cli \in {"data", "ack"} => ~ AckIn(Answers))
    BY <1>2 DEF LostInv, LostBoot
  <2>2. \A k \in 1 .. cur - 1 : FALSE
    BY <2>1
  <2> QED BY <2>1, <2>2 DEF Uploaded
<1>3. CASE KReadPayload
  <2>1. /\ mode = "payload" /\ off < hdr.size
        /\ mem' = [mem EXCEPT ![Plus(hdr.address, off)] = ValueOf(Head(fifo))]
    BY <1>3 DEF KReadPayload
  <2>2. cli \in {"data", "ack"}
    BY <1>0, <2>1 DEF Ready, Busy, LostInv, LostDone
  <2>3. hdr = HeaderOf(job[cur]) /\ job[cur].type = "LOAD" /\ ~ AckIn(Answers)
    BY <1>0, <2>1, <2>2 DEF LostInv, LostPacket, PacketInv, Working, Answered
  <2>4. Writes(job[cur]) = Cells(hdr.address, hdr.size)
    BY <2>3 DEF Writes, HeaderOf
  <2>5. off \in 0 .. hdr.size - 1
    <3>1. off \in Nat /\ hdr.size \in Addr
      BY <1>0 DEF TypeOK, Header
    <3>2. hdr.size \in Int
      BY <3>1 DEF Addr
    <3> QED BY <2>1, <3>1, <3>2
  <2>6. Plus(hdr.address, off) \in Writes(job[cur])
    BY <2>4, <2>5 DEF Cells
  <2>7. \A a \in Addr : a \notin Writes(job[cur]) => mem'[a] = mem[a]
    BY <1>0, <2>1, <2>6 DEF TypeOK
  <2> QED BY <2>2, <2>3, <2>7 DEF Uploaded
<1>4. CASE mode = "hdr" /\ Len(buf) = HdrLen /\ \E h \in Decode(buf) : HandleZero(h)
  <2>1. Acks
    BY <1>4 DEF Acks
  <2>2. AllTame(Stream)
    BY <2>1, <1>0 DEF Ready, LostInv, LostDone
  <2> QED BY <1>0, <1>4, <2>1, <2>2, TameStep DEF Busy
<1> QED BY <1>0, <1>1, <1>2, <1>3, <1>4, MemMoves

LEMMA BoardImplements ==
  ASSUME "header" \notin Noise, ClientTypeOK, ClientTypeOK', SessionInv, HeaderInv, MemInv,
         LostInv, BoardStep, HistNext
  PROVE  [U!Next]_U!vars
<1>0. /\ TypeOK /\ LoaderStep /\ UNCHANGED clientVars
      /\ cli' = cli /\ job' = job /\ cur' = cur /\ cli \in CliStates
      /\ AtRest /\ PacketInv
  BY SessionType DEF BoardStep, clientVars, SessionInv, ClientTypeOK
<1>1. lost' = IF LosesBoard THEN "board"
              ELSE IF LosesAnswer /\ cli \in {"data", "ack"} /\ lost = "no" THEN "answer"
              ELSE lost
  BY <1>0, HistBoard
<1>2. CASE cli \in {"data", "ack"} /\ Acks
  BY <1>2, AckImplements DEF U!Next
<1>3. CASE mode # "kernel" /\ mode' = "kernel"
  BY <1>3, StartImplements DEF U!Next
<1>4. CASE cli \in {"data", "ack"} /\ ~ LosesBoard /\ LosesAnswer /\ lost = "no"
  BY <1>4, DropImplements DEF U!Next
<1> SUFFICES ASSUME ~ (cli \in {"data", "ack"} /\ Acks),
                    mode' = "kernel" => mode = "kernel",
                    ~ (cli \in {"data", "ack"} /\ ~ LosesBoard /\ LosesAnswer /\ lost = "no")
             PROVE  [U!Next]_U!vars
  BY <1>2, <1>3, <1>4
\* No packet takes effect, so the session stays where it is, or loses an answer.
<1>5. Phase' = Phase \/ (Phase = "served" /\ Phase' = "sent")
  <2>1. CASE cli \in {"data", "ack"}
    <3>1. AckIn(Answers') => AckIn(Answers)
      BY <1>0, <2>1, NewAck
    <3> QED BY <1>0, <2>1, <3>1, PhaseIs, PhaseNext
  <2>2. CASE cli \notin {"data", "ack"}
    BY <1>0, <2>2, PhaseIs, PhaseNext DEF CliStates
  <2> QED BY <2>1, <2>2
<1>6. CASE lost' = "board"
  BY <1>0, <1>5, <1>6, IsLose DEF U!Next
<1>7. CASE lost' # "board"
  <2>1. ~ LosesBoard /\ lost' = lost /\ lost # "board"
    BY <1>1, <1>7
  <2>2. mode # "kernel" /\ mode' # "kernel"
    BY <2>1 DEF LostInv, LostType
  <2>3. cli \in {"data", "ack"} => (AckIn(Answers') <=> AckIn(Answers))
    <3> SUFFICES ASSUME cli \in {"data", "ack"}, AckIn(Answers), ~ AckIn(Answers') PROVE FALSE
      BY <1>0, NewAck
    <3>1. lost = "no"
      BY <2>1 DEF LostInv, LostPacket
    <3>2. mode' = "boot"
      BY <1>0, <2>1, <3>1, AckGoesAway
    <3>3. mode = "boot"
      BY <2>1, <3>2 DEF LosesBoard
    <3> QED BY <2>1, <3>3 DEF LostInv, LostBoot
  <2>4. Phase' = Phase
    BY <1>0, <2>3, PhaseIs, PhaseNext DEF CliStates
  <2>5. Image' = Image
    <3>1. CASE cli \notin {"send", "data", "ack", "done"}
      BY <1>0, <3>1, ImageIs, ImageNext
    <3>2. CASE cli \in {"send", "done"}
      BY <1>0, <1>7, <2>1, <3>2, ImageIs, ImageNext, ImageStays
    <3>3. CASE cli \in {"data", "ack"} /\ AckIn(Answers)
      BY <1>0, <1>7, <2>1, <2>3, <3>3, ImageIs, ImageNext, ImageStays
    <3>4. CASE cli \in {"data", "ack"} /\ ~ AckIn(Answers)
      BY <1>0, <1>7, <2>1, <2>3, <3>4, ImageIs, ImageNext, ImageStays
    <3> QED BY <3>1, <3>2, <3>3, <3>4
  <2> QED BY <1>0, <2>1, <2>2, <2>4, <2>5 DEF U!vars
<1> QED BY <1>6, <1>7

LEMMA StepImplements ==
  ASSUME "header" \notin Noise, ClientTypeOK, ClientTypeOK', SessionInv, HeaderInv, MemInv,
         LostInv, [HistNext]_<<vars, lost>>
  PROVE  [U!Next]_U!vars
<1>1. CASE BoardStep /\ HistNext
  BY <1>1, BoardImplements
<1>2. CASE (ClientStep \/ Kill \/ \E j \in Jobs : StartSession(j)) /\ HistNext
  BY <1>2, ClientImplements
<1>3. CASE UNCHANGED <<vars, lost>>
  <2>1. UNCHANGED <<cli, job, cur, mode, mem, tx, inbox, lost>>
    BY <1>3 DEF vars, boardVars, clientVars, loaderVars, linkVars
  <2>2. Answers' = Answers
    BY <2>1 DEF Answers
  <2>3. Phase' = Phase
    BY <2>1, <2>2, PhaseIs, PhaseNext DEF ClientTypeOK, CliStates
  <2>4. Image' = Image
    BY <2>1, <2>2, ImageIs, ImageNext DEF ClientTypeOK, CliStates
  <2> QED BY <2>1, <2>3, <2>4 DEF U!vars
<1> QED BY <1>1, <1>2, <1>3 DEF HistNext, Next

-----------------------------------------------------------------------------

\* The history variable records and does not interfere: what is proved of
\* PiSystem holds of it with its history.
LEMMA HistIsSystem == HistSpec => Spec
<1>1. HistInit => Init
  BY DEF HistInit
<1>2. [HistNext]_<<vars, lost>> => [Next]_vars
  BY DEF HistNext
<1> QED BY <1>1, <1>2, PTL DEF HistSpec, Spec

\* What is recorded as lost agrees with what is on its way.
THEOREM LostIsRight ==
  ASSUME "header" \notin Noise
  PROVE  HistSpec => []LostInv
<1>1. HistInit => LostInv
  <2> SUFFICES ASSUME HistInit PROVE LostInv
    OBVIOUS
  <2>1. mode = "boot" /\ cli = "idle" /\ lost = "board" /\ Stream = <<>> \o <<>> \o <<>>
    BY DEF HistInit, Init, BoardInit, Stream, InBuf, InFifo
  <2>2. <<>> \in Seq(Unit)
    BY EmptySeq
  <2>3. Stream = <<>>
    BY <2>1, <2>2, ConcatEmptySeq
  <2>4. AllTame(Stream)
    BY <2>3, EmptySeq DEF AllTame
  <2> QED BY <2>1, <2>4
          DEF LostInv, LostType, LostDone, LostSend, LostBoot, LostPacket, Busy
<1>2. ClientTypeOK /\ SessionInv /\ HeaderInv /\ LostInv /\ [HistNext]_<<vars, lost>> => LostInv'
  BY LostInvStep
<1>3. Spec => []ClientTypeOK /\ []SessionInv /\ []HeaderInv
  BY ClientTypeCorrect, SessionCorrect, HeaderCorrect
<1> QED BY <1>1, <1>2, <1>3, HistIsSystem, PTL DEF HistSpec

\* Unless noise hits a header, every run of piboot and the loader is one of Upload:
\* each step of theirs is one of its steps or none.  So packets take effect once,
\* in order, are confirmed only when they have, stay until a reset, and no
\* program starts in the middle (check_response, handle_load, handle_exec).
THEOREM SystemImplementsUpload ==
  ASSUME "header" \notin Noise
  PROVE  HistSpec => ImplementsUpload
<1>1. HistInit => U!Init
  <2> SUFFICES ASSUME HistInit PROVE U!Init
    OBVIOUS
  <2>1. ClientTypeOK
    BY ClientTypeInit DEF HistInit
  <2>2. mode = "boot" /\ cli = "idle" /\ lost = "board" /\ job = <<>> /\ cur = 1
    BY DEF HistInit, Init, BoardInit
  <2>3. Phase = "idle" /\ Image = Nothing
    BY <2>1, <2>2, PhaseIs, ImageIs
  <2>4. Nothing = U!Blank
    BY DEF Nothing, U!Blank, U!Unknown, U!Addr, Addr
  <2> QED BY <2>2, <2>3, <2>4 DEF U!Init
<1>2. /\ ClientTypeOK /\ ClientTypeOK' /\ SessionInv /\ HeaderInv /\ MemInv /\ LostInv
      /\ [HistNext]_<<vars, lost>>
      => [U!Next]_U!vars
  BY StepImplements
<1>3. Spec => []ClientTypeOK /\ []SessionInv /\ []HeaderInv
  BY ClientTypeCorrect, SessionCorrect, HeaderCorrect
<1>4. Spec => []MemInv
  BY MemCorrect
<1>5. HistSpec => []LostInv
  BY LostIsRight
<1> QED BY <1>1, <1>2, <1>3, <1>4, <1>5, HistIsSystem, PTL
        DEF HistSpec, ImplementsUpload, U!Spec

=============================================================================
