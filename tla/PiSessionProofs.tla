---------------------------- MODULE PiSessionProofs ----------------------------
(***************************************************************************)
(* What a session of piboot may rely on: an ACK is the answer to its own   *)
(* packet, the program that it starts sees its image, and it hears that    *)
(* the program starts; before that, types, and the loader's own memory.    *)
(* All of it for every board and every set of jobs.                        *)
(***************************************************************************)
EXTENDS PiSystem, LoaderProofs

-----------------------------------------------------------------------------
(* Types, and the loader's own memory *)

LEMMA JobType ==
  ASSUME ClientTypeOK
  PROVE  /\ job \in Seq(Packets) /\ Len(job) \in Nat /\ cur \in Nat
         /\ cli \in {"send", "data", "ack"} => job[cur] \in Packets
<1>0. <<>> \in Seq(Packets)
  BY EmptySeq
<1>1. job \in Seq(Packets)
  <2>1. Jobs \subseteq Seq(Packets) /\ job \in Jobs \cup {<<>>}
    BY JobsAssumption DEF ClientTypeOK
  <2> QED BY <1>0, <2>1
<1>2. Len(job) \in Nat /\ cur \in Nat
  BY <1>1, LenProperties DEF ClientTypeOK
<1>3. ASSUME cli \in {"send", "data", "ack"} PROVE job[cur] \in Packets
  BY <1>1, <1>3, ElementOfSeq DEF ClientTypeOK
<1> QED BY <1>1, <1>2, <1>3

\* Writing units and reading a response keep the board's types.
LEMMA WriteKeepsType ==
  ASSUME TypeOK, NEW units \in Seq(Unit), Write(units), UNCHANGED loaderVars
  PROVE  TypeOK'
<1>1. line' \in Seq(Unit)
  BY ConcatProperties DEF Write, TypeOK
<1> QED BY <1>1 DEF Write, TypeOK, loaderVars

LEMMA ReadKeepsType ==
  ASSUME TypeOK, NEW rsp, Read(rsp), UNCHANGED loaderVars
  PROVE  TypeOK'
<1>1. inbox' \in Seq(Response)
  BY HeadTailProperties DEF Read, TypeOK
<1> QED BY <1>1 DEF Read, TypeOK, loaderVars

LEMMA ClientTypeInit == Init => ClientTypeOK
<1> SUFFICES ASSUME Init PROVE ClientTypeOK
  OBVIOUS
<1>1. TypeOK /\ MaxSessions \in Nat
  BY InitType, JobsAssumption DEF Init
<1> QED BY <1>1 DEF Init, ClientTypeOK, CliStates

LEMMA ClientTypeStep == ClientTypeOK /\ [Next]_vars => ClientTypeOK'
<1> SUFFICES ASSUME ClientTypeOK, [Next]_vars PROVE ClientTypeOK'
  OBVIOUS
<1>1. /\ TypeOK /\ Len(job) \in Nat /\ cur \in 1 .. Len(job) + 1
      /\ MaxSessions \in Nat /\ sessions \in 0 .. MaxSessions
      /\ job \in Jobs \cup {<<>>} /\ cli \in CliStates
  BY JobType, JobsAssumption DEF ClientTypeOK
<1>2. CASE BoardStep
  <2>1. LoaderStep /\ UNCHANGED clientVars
    BY <1>2 DEF BoardStep
  <2> QED BY <2>1, BoardTypeStep DEF ClientTypeOK, clientVars
<1>3. ASSUME NEW j \in Jobs, StartSession(j)
      PROVE  ClientTypeOK'
  <2>1. TypeOK'
    BY <1>1, <1>3 DEF StartSession, TypeOK, loaderVars
  <2>2. Len(j) \in Nat
    BY JobsAssumption, LenProperties
  <2>3. sessions' \in 0 .. MaxSessions
    BY <1>1, <1>3 DEF StartSession
  <2> QED BY <1>3, <2>1, <2>2, <2>3 DEF StartSession, ClientTypeOK, CliStates
<1>4. CASE SendPing
  <2>1. HeaderUnits(PingPacket) \in Seq(Unit)
    BY WriteType, PingAssumption
  <2>2. TypeOK'
    BY <1>1, <1>4, <2>1, WriteKeepsType DEF SendPing
  <2> QED BY <1>1, <1>4, <2>2 DEF SendPing, ClientTypeOK, CliStates
<1>5. CASE RecvReady
  <2>1. PICK rsp \in Response :
          Read(rsp) /\ cli' = IF rsp.code = "RDY" THEN AfterPacket(cur) ELSE "failed"
    BY <1>5 DEF RecvReady
  <2>2. TypeOK'
    BY <1>1, <1>5, <2>1, ReadKeepsType DEF RecvReady
  <2>3. UNCHANGED <<job, cur, sessions>>
    BY <1>5 DEF RecvReady
  <2>4. cli' \in {"failed", "done"} \/ (cli' = "send" /\ cur <= Len(job))
    BY <1>1, <2>1 DEF AfterPacket
  <2> QED BY <1>1, <2>2, <2>3, <2>4 DEF ClientTypeOK, CliStates
<1>6. CASE SendHeader
  <2>1. HeaderUnits(job[cur]) \in Seq(Unit)
    BY <1>6, JobType, WriteType DEF SendHeader
  <2>2. TypeOK'
    BY <1>1, <1>6, <2>1, WriteKeepsType DEF SendHeader
  <2>3. cli = "send" /\ cli' \in {"data", "ack"} /\ UNCHANGED <<job, cur, sessions>>
    BY <1>6 DEF SendHeader
  <2> QED BY <1>1, <2>2, <2>3 DEF ClientTypeOK, CliStates
<1>7. CASE SendPayload
  <2>1. PayloadUnits(job[cur]) \in Seq(Unit)
    BY <1>7, JobType, WriteType DEF SendPayload
  <2>2. TypeOK'
    BY <1>1, <1>7, <2>1, WriteKeepsType DEF SendPayload
  <2> QED BY <1>1, <1>7, <2>2 DEF SendPayload, ClientTypeOK, CliStates
<1>8. CASE RecvAck
  <2>1. PICK rsp \in Response :
          /\ Read(rsp)
          /\ IF rsp.code = "ACK" THEN cur' = cur + 1 /\ cli' = AfterPacket(cur + 1)
                                 ELSE cur' = cur /\ cli' = "failed"
    BY <1>8 DEF RecvAck
  <2>2. TypeOK'
    BY <1>1, <1>8, <2>1, ReadKeepsType DEF RecvAck
  <2>3. UNCHANGED <<job, sessions>> /\ cur \in 1 .. Len(job)
    BY <1>8 DEF RecvAck, ClientTypeOK
  <2>4. CASE rsp.code = "ACK"
    <3>1. cur' = cur + 1 /\ cli' \in {"done", "send"} /\ (cli' = "send" => cur' <= Len(job))
      BY <1>1, <2>1, <2>3, <2>4 DEF AfterPacket
    <3> QED BY <1>1, <2>2, <2>3, <3>1 DEF ClientTypeOK, CliStates
  <2>5. CASE rsp.code # "ACK"
    BY <1>1, <2>1, <2>2, <2>3, <2>5 DEF ClientTypeOK, CliStates
  <2> QED BY <2>4, <2>5
<1>9. CASE Kill
  <2>1. TypeOK'
    <3>1. CASE UNCHANGED linkVars
      <4>1. UNCHANGED boardVars
        BY <1>9, <3>1 DEF Kill, boardVars
      <4> QED BY <1>1, <4>1, BoardTypeStutter
    <3>2. CASE ~ UNCHANGED linkVars
      <4>1. cli = "data" /\ UNCHANGED loaderVars
        BY <1>9, <3>2 DEF Kill
      <4>2. PICK n \in 1 .. Len(job[cur].data) :
              Write(SubSeq(PayloadUnits(job[cur]), 1, n))
        BY <1>9, <3>2 DEF Kill
      <4> DEFINE q == PayloadUnits(job[cur])
      <4>3. job[cur] \in Packets
        BY <4>1, JobType
      <4>4. q \in Seq(Unit) /\ Len(q) = Len(job[cur].data) /\ Len(job[cur].data) \in Nat
        BY <4>3, WriteType, PacketType DEF PayloadUnits
      <4>5. \A i \in 1 .. n : q[i] \in Unit
        BY <4>4, ElementOfSeq
      <4> HIDE DEF q
      <4>6. SubSeq(q, 1, n) \in Seq(Unit)
        BY <4>5, SubSeqProperties
      <4> QED BY <1>1, <4>1, <4>2, <4>6, WriteKeepsType DEF q
    <3> QED BY <3>1, <3>2
  <2> QED BY <1>1, <1>9, <2>1 DEF Kill, ClientTypeOK, CliStates
<1>10. CASE UNCHANGED vars
  <2>1. TypeOK'
    BY <1>1, <1>10, BoardTypeStutter DEF vars
  <2> QED BY <1>1, <1>10, <2>1 DEF vars, clientVars, ClientTypeOK
<1> QED BY <1>2, <1>3, <1>4, <1>5, <1>6, <1>7, <1>8, <1>9, <1>10 DEF Next, ClientStep

\* The type invariant of board and piboot together.
THEOREM ClientTypeCorrect == Spec => []ClientTypeOK
<1>1. Init => ClientTypeOK
  BY ClientTypeInit
<1>2. ClientTypeOK /\ [Next]_vars => ClientTypeOK'
  BY ClientTypeStep
<1> QED BY <1>1, <1>2, PTL DEF Spec

-----------------------------------------------------------------------------

\* piboot's own steps leave the loader's variables alone.
LEMMA ClientLeavesLoader ==
  ASSUME [Next]_vars, ~ LoaderStep
  PROVE  UNCHANGED loaderVars
BY DEF Next, BoardStep, ClientStep, SendPing, RecvReady, SendHeader, SendPayload,
       RecvAck, Kill, StartSession, vars, boardVars

\* Whatever files piboot is given, and wherever its sessions are killed or the
\* line fails: unless a piece of them has the loader between its ends, and so no
\* end in it for validate_target_addr to see, they leave it whole.
THEOREM FilesLeaveLoaderWhole ==
  ASSUME NoneReachesOver
  PROVE  Spec => LoaderKeepsItself
<1> DEFINE Kept == (\E a \in Region : mem'[a] # mem[a]) => mode \in {"boot", "kernel"}
<1>1. Init => PayloadElsewhere
  BY DEF Init, BoardInit, PayloadElsewhere
<1>2. ClientTypeOK /\ PayloadElsewhere /\ [Next]_vars => PayloadElsewhere' /\ [Kept]_mem
  <2> SUFFICES ASSUME ClientTypeOK, PayloadElsewhere, [Next]_vars
               PROVE  PayloadElsewhere' /\ [Kept]_mem
    OBVIOUS
  <2>1. CASE LoaderStep
    BY <2>1, PayloadElsewhereStep, KeepsItselfStep DEF ClientTypeOK
  <2>2. CASE ~ LoaderStep
    BY <2>2, ClientLeavesLoader DEF loaderVars, PayloadElsewhere
  <2> QED BY <2>1, <2>2
<1>3. Spec => []ClientTypeOK
  BY ClientTypeCorrect
<1> QED BY <1>1, <1>2, <1>3, PTL DEF Spec, LoaderKeepsItself

-----------------------------------------------------------------------------
(* What is on its way, in the order in which it will be read *)

\* A loader that hangs reads no more until a reset, which clears its FIFO.
InBuf  == IF mode = "hung" THEN <<>> ELSE buf
InFifo == IF mode = "hung" THEN <<>> ELSE fifo

\* From the loader to the PC's end of the line, and back.
Stream  == InBuf \o InFifo \o line
Answers == inbox \o tx

\* u does not make the loader do anything but answer a ping.
Tame(u)     == u.k = 1 => u.pkt.type = "PING"
AllTame(s)  == \A i \in 1 .. Len(s) : Tame(s[i])
OneFirst(s) == \A i, j \in 1 .. Len(s) : i < j => Tame(s[i]) \/ Tame(s[j])

AckIn(s) == \E n \in 1 .. Len(s) : s[n].code = "ACK"
RdyIn(s) == \E n \in 1 .. Len(s) : s[n].code = "RDY"

\* What is behind a first unit in s are units of p, and of its payload no more
\* than n.
Own(s, p, n) ==
  \A i \in 1 .. Len(s) : ~ Tame(s[i]) => s[i].pkt = p /\ Len(s) - i <= HdrLen - 1 + n

\* Without noise in headers, they are also in order.  Noise in the payload hides
\* a unit's number, but that is more than HdrLen.
Num(u) == IF u.k = 0 THEN HdrLen + 1 ELSE u.k
InOrder(s, p, n) ==
  \A i \in 1 .. Len(s) : ~ Tame(s[i]) =>
    \A j \in i .. Len(s) : /\ s[j].pkt = p
                           /\ s[j].k = 0 \/ s[j].k >= j - i + 1
                           /\ Len(s) - j <= HdrLen + n - Num(s[j])

\* What is left of s when d of its members behind the m-th are lost, and for
\* units, when others are garbled.
Loses(s, t, m, d) ==
  /\ m + d <= Len(s) /\ Len(t) = Len(s) - d
  /\ \A i \in 1 .. Len(t) : t[i] = s[IF i <= m THEN i ELSE i + d]

Noisy(u, v) == v = [u EXCEPT !.k = 0] /\ (u.k > HdrLen \/ "header" \in Noise)

Shrinks(s, t, m, d) ==
  /\ m + d <= Len(s) /\ Len(t) = Len(s) - d
  /\ \A i \in 1 .. Len(t) :
       LET u == s[IF i <= m THEN i ELSE i + d] IN t[i] = u \/ Noisy(u, t[i])

LEMMA Concat3 ==
  ASSUME NEW S, NEW a \in Seq(S), NEW b \in Seq(S), NEW c \in Seq(S)
  PROVE  /\ a \o b \o c \in Seq(S)
         /\ Len(a) \in Nat /\ Len(b) \in Nat /\ Len(c) \in Nat
         /\ Len(a \o b \o c) = Len(a) + Len(b) + Len(c)
         /\ \A i \in 1 .. Len(a) + Len(b) + Len(c) :
              (a \o b \o c)[i] = IF i <= Len(a) THEN a[i]
                                 ELSE IF i <= Len(a) + Len(b) THEN b[i - Len(a)]
                                 ELSE c[i - Len(a) - Len(b)]
<1>1. Len(a) \in Nat /\ Len(b) \in Nat /\ Len(c) \in Nat
  BY LenProperties
<1> DEFINE ab == a \o b
<1>2. /\ ab \in Seq(S) /\ Len(ab) = Len(a) + Len(b)
      /\ \A i \in 1 .. Len(a) + Len(b) :
           ab[i] = IF i <= Len(a) THEN a[i] ELSE b[i - Len(a)]
  BY ConcatProperties
<1> HIDE DEF ab
<1>3. ab \o c \in Seq(S) /\ Len(ab \o c) = Len(ab) + Len(c)
  BY <1>2, ConcatProperties
<1>4. \A i \in 1 .. Len(ab) + Len(c) :
        (ab \o c)[i] = IF i <= Len(ab) THEN ab[i] ELSE c[i - Len(ab)]
  BY <1>2, ConcatProperties
<1>5. ASSUME NEW i \in 1 .. Len(a) + Len(b) + Len(c)
      PROVE  (ab \o c)[i] = IF i <= Len(a) THEN a[i]
                            ELSE IF i <= Len(a) + Len(b) THEN b[i - Len(a)]
                            ELSE c[i - Len(a) - Len(b)]
  BY <1>1, <1>2, <1>3, <1>4
<1> QED BY <1>1, <1>2, <1>3, <1>5 DEF ab

\* What the steps of the board do to the three parts of the stream ...
LEMMA StreamMoves ==
  ASSUME NEW a \in Seq(Unit), NEW f \in Seq(Unit), NEW l \in Seq(Unit)
  PROVE  /\ Shrinks(a \o f \o l, a \o f \o l, 0, 0)
         /\ f # <<>> => Shrinks(a \o f \o l, Append(a, Head(f)) \o Tail(f) \o l, 0, 0)
         /\ l # <<>> => Shrinks(a \o f \o l, a \o Append(f, Head(l)) \o Tail(l), 0, 0)
         /\ l # <<>> => Shrinks(a \o f \o l, a \o f \o Tail(l), Len(a) + Len(f), 1)
         /\ f # <<>> => Shrinks(<<>> \o f \o l, <<>> \o Tail(f) \o l, 0, 1)
         /\ Shrinks(a \o f \o l, <<>> \o f \o l, 0, Len(a))
         /\ Shrinks(a \o f \o l, <<>> \o <<>> \o l, 0, Len(a) + Len(f))
<1> DEFINE s == a \o f \o l
<1>e. <<>> \in Seq(Unit) /\ Len(<<>>) = 0
  BY EmptySeq
<1>0. /\ Len(a) \in Nat /\ Len(f) \in Nat /\ Len(l) \in Nat
      /\ Len(s) = Len(a) + Len(f) + Len(l)
  BY Concat3
<1>1. \A i \in 1 .. Len(a) + Len(f) + Len(l) :
        s[i] = IF i <= Len(a) THEN a[i]
               ELSE IF i <= Len(a) + Len(f) THEN f[i - Len(a)]
               ELSE l[i - Len(a) - Len(f)]
  BY Concat3
<1> HIDE DEF s
<1>2. Shrinks(s, s, 0, 0)
  BY <1>0, <1>1 DEF Shrinks
<1>3. ASSUME f # <<>> PROVE Shrinks(s, Append(a, Head(f)) \o Tail(f) \o l, 0, 0)
  <2> DEFINE a2 == Append(a, Head(f))
             f2 == Tail(f)
  <2>1. f2 \in Seq(Unit) /\ Head(f) \in Unit
    BY <1>3, HeadTailProperties
  <2>2. a2 \in Seq(Unit)
    BY <2>1, AppendProperties
  <2>3. Len(f2) = Len(f) - 1 /\ \A i \in 1 .. Len(f2) : f2[i] = f[i + 1]
    BY <1>3, HeadTailProperties
  <2>4. Len(a2) = Len(a) + 1 /\ a2[Len(a) + 1] = f[1]
    BY <2>1, AppendProperties
  <2>5. \A i \in 1 .. Len(a) : a2[i] = a[i]
    BY <2>1, AppendProperties
  <2> HIDE DEF a2, f2
  <2> DEFINE t == a2 \o f2 \o l
  <2>6. Len(t) = Len(a2) + Len(f2) + Len(l)
    BY <2>1, <2>2, Concat3
  <2>7. \A i \in 1 .. Len(a2) + Len(f2) + Len(l) :
          t[i] = IF i <= Len(a2) THEN a2[i]
                               ELSE IF i <= Len(a2) + Len(f2) THEN f2[i - Len(a2)]
                               ELSE l[i - Len(a2) - Len(f2)]
    BY <2>1, <2>2, Concat3
  <2> HIDE DEF t
  <2>8. ASSUME NEW i \in 1 .. Len(s) PROVE t[i] = s[i]
    <3>1. Len(f2) \in Nat
      BY <2>1, LenProperties
    <3>2. CASE i <= Len(a)
      BY <1>0, <1>1, <2>3, <2>4, <2>5, <2>7, <3>1, <3>2, SMTT(30)
    <3>3. CASE i = Len(a) + 1
      BY <1>0, <1>1, <2>3, <2>4, <2>7, <3>1, <3>3
    <3>4. CASE i > Len(a) + 1 /\ i <= Len(a) + Len(f)
      <4> DEFINE j == i - Len(a2)
      <4>1. /\ j \in 1 .. Len(f2) /\ j + 1 = i - Len(a)
            /\ ~ (i <= Len(a2)) /\ i <= Len(a2) + Len(f2) /\ ~ (i <= Len(a))
            /\ i \in 1 .. Len(a2) + Len(f2) + Len(l) /\ i \in 1 .. Len(a) + Len(f) + Len(l)
        BY <1>0, <2>3, <2>4, <3>1, <3>4
      <4>2. t[i] = f2[j]
        BY <2>7, <4>1
      <4>3. s[i] = f[j + 1]
        BY <1>0, <1>1, <3>4, <4>1
      <4> HIDE DEF j
      <4> QED BY <2>3, <4>1, <4>2, <4>3
    <3>5. CASE i > Len(a) + Len(f)
      <4> DEFINE j == i - Len(a) - Len(f)
      <4>1. /\ i - Len(a2) - Len(f2) = j
            /\ ~ (i <= Len(a2)) /\ ~ (i <= Len(a2) + Len(f2)) /\ ~ (i <= Len(a))
            /\ i \in 1 .. Len(a2) + Len(f2) + Len(l) /\ i \in 1 .. Len(a) + Len(f) + Len(l)
        BY <1>0, <2>3, <2>4, <3>1, <3>5
      <4>2. t[i] = l[j]
        BY <2>7, <4>1
      <4>3. s[i] = l[j]
        BY <1>0, <1>1, <3>5, <4>1
      <4> QED BY <4>2, <4>3
    <3> QED BY <1>0, <3>2, <3>3, <3>4, <3>5
  <2>9. Shrinks(s, t, 0, 0)
    BY <1>0, <1>1, <2>3, <2>4, <2>6, <2>8 DEF Shrinks
  <2> QED BY <2>9 DEF a2, f2, t
<1>4. ASSUME l # <<>> PROVE Shrinks(s, a \o Append(f, Head(l)) \o Tail(l), 0, 0)
  <2> DEFINE f2 == Append(f, Head(l))
             l2 == Tail(l)
  <2>1. l2 \in Seq(Unit) /\ Head(l) \in Unit
    BY <1>4, HeadTailProperties
  <2>2. f2 \in Seq(Unit)
    BY <2>1, AppendProperties
  <2>3. Len(l2) = Len(l) - 1 /\ \A i \in 1 .. Len(l2) : l2[i] = l[i + 1]
    BY <1>4, HeadTailProperties
  <2>4. Len(f2) = Len(f) + 1 /\ f2[Len(f) + 1] = l[1]
    BY <2>1, AppendProperties
  <2>5. \A i \in 1 .. Len(f) : f2[i] = f[i]
    BY <2>1, AppendProperties
  <2> HIDE DEF f2, l2
  <2> DEFINE t == a \o f2 \o l2
  <2>6. Len(t) = Len(a) + Len(f2) + Len(l2)
    BY <2>1, <2>2, Concat3
  <2>7. \A i \in 1 .. Len(a) + Len(f2) + Len(l2) :
          t[i] = IF i <= Len(a) THEN a[i]
                               ELSE IF i <= Len(a) + Len(f2) THEN f2[i - Len(a)]
                               ELSE l2[i - Len(a) - Len(f2)]
    BY <2>1, <2>2, Concat3
  <2> HIDE DEF t
  <2>8. ASSUME NEW i \in 1 .. Len(s) PROVE t[i] = s[i]
    <3>1. Len(l2) \in Nat
      BY <2>1, LenProperties
    <3>2. CASE i <= Len(a)
      <4>1. i \in 1 .. Len(a) + Len(f2) + Len(l2) /\ i \in 1 .. Len(a) + Len(f) + Len(l)
        BY <1>0, <2>3, <2>4, <3>1, <3>2
      <4> QED BY <1>1, <2>7, <3>2, <4>1
    <3>3. CASE i > Len(a) /\ i <= Len(a) + Len(f)
      <4> DEFINE j == i - Len(a)
      <4>1. /\ j \in 1 .. Len(f)
            /\ ~ (i <= Len(a)) /\ i <= Len(a) + Len(f) /\ i <= Len(a) + Len(f2)
            /\ i \in 1 .. Len(a) + Len(f2) + Len(l2) /\ i \in 1 .. Len(a) + Len(f) + Len(l)
        BY <1>0, <2>3, <2>4, <3>1, <3>3
      <4>2. t[i] = f2[j]
        BY <2>7, <4>1
      <4>3. s[i] = f[j]
        BY <1>1, <4>1
      <4> HIDE DEF j
      <4> QED BY <2>5, <4>1, <4>2, <4>3
    <3>4. CASE i = Len(a) + Len(f) + 1
      BY <1>0, <1>1, <2>3, <2>4, <2>7, <3>1, <3>4, SMTT(30)
    <3>5. CASE i > Len(a) + Len(f) + 1
      <4> DEFINE j == i - Len(a) - Len(f2)
      <4>1. /\ j \in 1 .. Len(l2) /\ j + 1 = i - Len(a) - Len(f)
            /\ ~ (i <= Len(a)) /\ ~ (i <= Len(a) + Len(f2)) /\ ~ (i <= Len(a) + Len(f))
            /\ i \in 1 .. Len(a) + Len(f2) + Len(l2) /\ i \in 1 .. Len(a) + Len(f) + Len(l)
        BY <1>0, <2>3, <2>4, <3>1, <3>5
      <4>2. t[i] = l2[j]
        BY <2>7, <4>1
      <4>3. s[i] = l[j + 1]
        BY <1>0, <1>1, <4>1
      <4> HIDE DEF j
      <4> QED BY <2>3, <4>1, <4>2, <4>3
    <3> QED BY <1>0, <3>2, <3>3, <3>4, <3>5
  <2>9. Shrinks(s, t, 0, 0)
    BY <1>0, <1>1, <2>3, <2>4, <2>6, <2>8 DEF Shrinks
  <2> QED BY <2>9 DEF f2, l2, t
<1>5. ASSUME l # <<>> PROVE Shrinks(s, a \o f \o Tail(l), Len(a) + Len(f), 1)
  <2> DEFINE l2 == Tail(l)
  <2>1. l2 \in Seq(Unit)
    BY <1>5, HeadTailProperties
  <2>2. Len(l2) = Len(l) - 1 /\ \A i \in 1 .. Len(l2) : l2[i] = l[i + 1]
    BY <1>5, HeadTailProperties
  <2>3. Len(l2) \in Nat
    BY <2>1, LenProperties
  <2> HIDE DEF l2
  <2> DEFINE t == a \o f \o l2
  <2>4. Len(t) = Len(a) + Len(f) + Len(l2)
    BY <2>1, Concat3
  <2>5. \A i \in 1 .. Len(a) + Len(f) + Len(l2) :
          t[i] = IF i <= Len(a) THEN a[i]
                              ELSE IF i <= Len(a) + Len(f) THEN f[i - Len(a)]
                              ELSE l2[i - Len(a) - Len(f)]
    BY <2>1, Concat3
  <2> HIDE DEF t
  <2>6. ASSUME NEW i \in 1 .. Len(t)
        PROVE  t[i] = s[IF i <= Len(a) + Len(f) THEN i ELSE i + 1]
    <3>1. CASE i <= Len(a) + Len(f)
      <4>1. i \in 1 .. Len(a) + Len(f) + Len(l2) /\ i \in 1 .. Len(a) + Len(f) + Len(l)
        BY <1>0, <2>2, <2>3, <2>4, <3>1
      <4>2. t[i] = s[i]
        BY <1>1, <2>5, <3>1, <4>1
      <4> QED BY <3>1, <4>2
    <3>2. CASE i > Len(a) + Len(f)
      <4> DEFINE j == i - Len(a) - Len(f)
      <4>1. /\ j \in 1 .. Len(l2) /\ j + 1 = i + 1 - Len(a) - Len(f)
            /\ ~ (i <= Len(a)) /\ ~ (i <= Len(a) + Len(f))
            /\ ~ (i + 1 <= Len(a)) /\ ~ (i + 1 <= Len(a) + Len(f))
            /\ i \in 1 .. Len(a) + Len(f) + Len(l2) /\ i + 1 \in 1 .. Len(a) + Len(f) + Len(l)
        BY <1>0, <1>1, <2>2, <2>3, <2>4, <3>2
      <4>2. t[i] = l2[j]
        BY <2>5, <4>1
      <4>3. s[i + 1] = l[j + 1]
        BY <1>0, <1>1, <4>1, SMTT(30)
      <4> HIDE DEF j
      <4>4. t[i] = s[i + 1]
        BY <2>2, <4>1, <4>2, <4>3
      <4> QED BY <4>1, <4>4
    <3> QED BY <1>0, <2>3, <2>4, <3>1, <3>2
  <2>7. Shrinks(s, t, Len(a) + Len(f), 1)
    BY <1>0, <1>1, <2>2, <2>3, <2>4, <2>6 DEF Shrinks
  <2> QED BY <2>7 DEF l2, t
<1>6. ASSUME f # <<>> PROVE Shrinks(<<>> \o f \o l, <<>> \o Tail(f) \o l, 0, 1)
  <2> DEFINE f2 == Tail(f)
             e  == <<>>
  <2>1. f2 \in Seq(Unit) /\ e \in Seq(Unit)
    BY <1>6, <1>e, HeadTailProperties
  <2>2. Len(f2) = Len(f) - 1 /\ \A i \in 1 .. Len(f2) : f2[i] = f[i + 1]
    BY <1>6, HeadTailProperties
  <2>3. Len(f2) \in Nat /\ Len(e) = 0
    BY <1>e, <2>1, LenProperties
  <2> HIDE DEF f2, e
  <2>4. Len(e \o f2 \o l) = Len(e) + Len(f2) + Len(l)
    BY <2>1, Concat3
  <2>5. \A i \in 1 .. Len(e) + Len(f2) + Len(l) :
          (e \o f2 \o l)[i] = IF i <= Len(e) THEN e[i]
                              ELSE IF i <= Len(e) + Len(f2) THEN f2[i - Len(e)]
                              ELSE l[i - Len(e) - Len(f2)]
    BY <2>1, Concat3
  <2>6. Len(e \o f \o l) = Len(e) + Len(f) + Len(l)
    BY <2>1, Concat3
  <2>7. \A i \in 1 .. Len(e) + Len(f) + Len(l) :
          (e \o f \o l)[i] = IF i <= Len(e) THEN e[i]
                             ELSE IF i <= Len(e) + Len(f) THEN f[i - Len(e)]
                             ELSE l[i - Len(e) - Len(f)]
    BY <2>1, Concat3
  <2>8. Shrinks(e \o f \o l, e \o f2 \o l, 0, 1)
    BY <1>0, <1>1, <2>2, <2>3, <2>4, <2>5, <2>6, <2>7 DEF Shrinks
  <2> QED BY <2>8 DEF e, f2
<1>7. Shrinks(s, <<>> \o f \o l, 0, Len(a))
  <2> DEFINE e == <<>>
  <2>2. e \in Seq(Unit) /\ Len(e) = 0
    BY <1>e
  <2> HIDE DEF e
  <2>3. Len(e \o f \o l) = Len(f) + Len(l)
    BY <1>0, <1>1, <2>2, Concat3
  <2>3i. \A i \in 1 .. Len(f) + Len(l) :
          (e \o f \o l)[i] = IF i <= Len(f) THEN f[i] ELSE l[i - Len(f)]
    BY <1>0, <1>1, <2>2, Concat3
  <2>4. Shrinks(s, e \o f \o l, 0, Len(a))
    BY <1>0, <1>1, <2>3, <2>3i, SMTT(30) DEF Shrinks
  <2> QED BY <2>4 DEF e
<1>8. Shrinks(s, <<>> \o <<>> \o l, 0, Len(a) + Len(f))
  <2> DEFINE e == <<>>
  <2>2. e \in Seq(Unit) /\ Len(e) = 0
    BY <1>e
  <2> HIDE DEF e
  <2>3. Len(e \o e \o l) = Len(l)
    BY <1>0, <1>1, <2>2, Concat3
  <2>3i. \A i \in 1 .. Len(e) + Len(e) + Len(l) :
          (e \o e \o l)[i] = IF i <= Len(e) THEN e[i]
                             ELSE IF i <= Len(e) + Len(e) THEN e[i - Len(e)]
                             ELSE l[i - Len(e) - Len(e)]
    BY <2>2, Concat3
  <2>4. Shrinks(s, e \o e \o l, 0, Len(a) + Len(f))
    BY <1>0, <1>1, <2>2, <2>3, <2>3i DEF Shrinks
  <2> QED BY <2>4 DEF e
<1> QED BY <1>2, <1>3, <1>4, <1>5, <1>6, <1>7, <1>8 DEF s

\* Noise in one unit of the line.
LEMMA StreamGarbled ==
  ASSUME NEW a \in Seq(Unit), NEW f \in Seq(Unit), NEW l \in Seq(Unit), l # <<>>,
         (IF Head(l).k > HdrLen THEN "payload" ELSE "header") \in Noise
  PROVE  Shrinks(a \o f \o l, a \o f \o (<<[Head(l) EXCEPT !.k = 0]>> \o Tail(l)), 0, 0)
<1> DEFINE v  == [Head(l) EXCEPT !.k = 0]
           l2 == <<v>> \o Tail(l)
           s  == a \o f \o l
           t  == a \o f \o l2
<1>1. Head(l) \in Unit /\ Tail(l) \in Seq(Unit) /\ Len(Tail(l)) = Len(l) - 1
  BY HeadTailProperties
<1>2. \A i \in 1 .. Len(Tail(l)) : Tail(l)[i] = l[i + 1]
  BY HeadTailProperties
<1>3. v \in Unit
  <2>1. Head(l) \in [pkt : Packets, k : Nat] /\ Head(l).pkt \in Packets
    BY <1>1 DEF Unit
  <2>2. 0 \in 0 .. WireLen(Head(l).pkt)
    BY <2>1, LayoutAssumption, PacketType DEF WireLen
  <2> QED BY <2>1, <2>2 DEF Unit
<1>4. Noisy(l[1], v)
  BY DEF Noisy
<1> HIDE DEF v
<1>5. <<v>> \in Seq(Unit) /\ Len(<<v>>) = 1 /\ <<v>>[1] = v
  BY <1>3
<1>6. l2 \in Seq(Unit) /\ Len(l2) = Len(l)
  <2>1. l2 \in Seq(Unit) /\ Len(l2) = Len(<<v>>) + Len(Tail(l))
    BY <1>1, <1>5, ConcatProperties
  <2>2. Len(l) \in Nat
    BY LenProperties
  <2> QED BY <1>1, <1>5, <2>1, <2>2
<1>7. \A i \in 1 .. Len(l) : l2[i] = IF i = 1 THEN v ELSE l[i]
  <2>1. Len(l) \in Nat /\ Len(l) > 0
    BY LenProperties, EmptySeq
  <2>2. \A i \in 1 .. 1 + Len(Tail(l)) : l2[i] = IF i <= 1 THEN <<v>>[i] ELSE Tail(l)[i - 1]
    BY <1>1, <1>5, ConcatProperties
  <2> HIDE DEF l2
  <2> SUFFICES ASSUME NEW i \in 1 .. Len(l) PROVE l2[i] = IF i = 1 THEN v ELSE l[i]
    OBVIOUS
  <2>3. CASE i = 1
    BY <1>1, <1>5, <2>1, <2>2, <2>3
  <2>4. CASE i # 1
    <3>1. i - 1 \in 1 .. Len(Tail(l)) /\ (i - 1) + 1 = i /\ i \in 1 .. 1 + Len(Tail(l)) /\ ~ (i <= 1)
      BY <1>1, <2>1, <2>4
    <3> QED BY <1>2, <2>2, <2>4, <3>1
  <2> QED BY <2>3, <2>4
<1> HIDE DEF l2
<1>8. /\ Len(a) \in Nat /\ Len(f) \in Nat /\ Len(l) \in Nat
      /\ Len(s) = Len(a) + Len(f) + Len(l)
  BY Concat3
<1>9. \A i \in 1 .. Len(a) + Len(f) + Len(l) :
        s[i] = IF i <= Len(a) THEN a[i]
               ELSE IF i <= Len(a) + Len(f) THEN f[i - Len(a)]
               ELSE l[i - Len(a) - Len(f)]
  BY Concat3
<1> HIDE DEF s
<1>10. Len(t) = Len(a) + Len(f) + Len(l2)
  <2>1. l2 \in Seq(Unit)
    BY <1>6
  <2> QED BY <2>1, Concat3
<1>11. \A i \in 1 .. Len(a) + Len(f) + Len(l2) :
        t[i] = IF i <= Len(a) THEN a[i]
               ELSE IF i <= Len(a) + Len(f) THEN f[i - Len(a)]
               ELSE l2[i - Len(a) - Len(f)]
  BY <1>6, Concat3
<1> HIDE DEF s, t
<1>12. ASSUME NEW i \in 1 .. Len(t)
       PROVE  t[i] = s[i] \/ Noisy(s[i], t[i])
  <2>1. i \in 1 .. Len(a) + Len(f) + Len(l2) /\ i \in 1 .. Len(a) + Len(f) + Len(l)
    BY <1>6, <1>8, <1>10
  <2>2. CASE i <= Len(a) + Len(f)
    BY <1>9, <1>11, <2>1, <2>2
  <2>3. CASE ~ (i <= Len(a) + Len(f))
    <3> DEFINE j == i - Len(a) - Len(f)
    <3>1. j \in 1 .. Len(l) /\ ~ (i <= Len(a))
      BY <1>8, <2>1, <2>3
    <3>2. s[i] = l[j] /\ t[i] = l2[j]
      BY <1>9, <1>11, <2>1, <2>3, <3>1
    <3> HIDE DEF j
    <3> QED BY <1>4, <1>7, <3>1, <3>2
  <2> QED BY <2>2, <2>3
<1>13. Shrinks(s, t, 0, 0)
  <2>1. Len(t) = Len(s) - 0 /\ 0 + 0 <= Len(s)
    BY <1>6, <1>8, <1>10
  <2>2. ASSUME NEW i \in 1 .. Len(t)
        PROVE  LET u == s[IF i <= 0 THEN i ELSE i + 0] IN t[i] = u \/ Noisy(u, t[i])
    <3>1. i + 0 = i /\ ~ (i <= 0)
      BY <1>6, <1>8, <1>10
    <3> QED BY <1>12, <3>1
  <2> QED BY <2>1, <2>2 DEF Shrinks
<1> QED BY <1>13 DEF s, t, l2, v

\* Whatever is lost or garbled, no more first units come to be, and what is
\* behind one can only become less.
LEMMA NoisyIsTame ==
  ASSUME NEW u \in Unit, NEW v, v = u \/ Noisy(u, v)
  PROVE  /\ v.pkt = u.pkt /\ (v.k = u.k \/ v.k = 0)
         /\ ~ Tame(v) => v = u
BY DEF Noisy, Tame, Unit

LEMMA ShrinkKeeps ==
  ASSUME NEW s \in Seq(Unit), NEW t \in Seq(Unit), NEW m \in Nat, NEW d \in Nat,
         Shrinks(s, t, m, d)
  PROVE  /\ AllTame(s) => AllTame(t)
         /\ OneFirst(s) => OneFirst(t)
         /\ \A p, n : n \in Nat /\ Own(s, p, n) => Own(t, p, n)
<1> DEFINE From(i) == IF i <= m THEN i ELSE i + d
<1>1. Len(s) \in Nat /\ Len(t) \in Nat /\ Len(t) = Len(s) - d /\ HdrLen \in Nat
  BY LenProperties, LayoutAssumption DEF Shrinks
<1>2. \A i \in 1 .. Len(t) : From(i) \in 1 .. Len(s) /\ Len(t) - i <= Len(s) - From(i)
  BY <1>1 DEF Shrinks
<1>2a. \A i, j \in 1 .. Len(t) : i < j => From(i) < From(j)
  BY <1>1
<1>3. \A i \in 1 .. Len(t) : t[i] = s[From(i)] \/ Noisy(s[From(i)], t[i])
  BY DEF Shrinks
<1> HIDE DEF From
<1>4. ASSUME NEW i \in 1 .. Len(t)
      PROVE  t[i].pkt = s[From(i)].pkt /\ (~ Tame(t[i]) => t[i] = s[From(i)])
  <2>1. s[From(i)] \in Unit
    BY <1>2, ElementOfSeq
  <2> QED BY <1>3, <2>1, NoisyIsTame
<1>5. ASSUME AllTame(s) PROVE AllTame(t)
  BY <1>2, <1>4, <1>5 DEF AllTame
<1>6. ASSUME OneFirst(s) PROVE OneFirst(t)
  BY <1>2, <1>2a, <1>4, <1>6 DEF OneFirst
<1>7. ASSUME NEW p, NEW n \in Nat, Own(s, p, n) PROVE Own(t, p, n)
  <2> SUFFICES ASSUME NEW i \in 1 .. Len(t), ~ Tame(t[i])
               PROVE  t[i].pkt = p /\ Len(t) - i <= HdrLen - 1 + n
    BY DEF Own
  <2>1. s[From(i)].pkt = p /\ Len(s) - From(i) <= HdrLen - 1 + n
    BY <1>2, <1>4, <1>7 DEF Own
  <2>2. From(i) \in 1 .. Len(s) /\ Len(t) - i <= Len(s) - From(i)
    BY <1>2
  <2> QED BY <1>1, <1>4, <2>1, <2>2
<1> QED BY <1>5, <1>6, <1>7

LEMMA ShrinkKeepsOrder ==
  ASSUME NEW s \in Seq(Unit), NEW t \in Seq(Unit), NEW m \in Nat, NEW d \in Nat,
         Shrinks(s, t, m, d), "header" \notin Noise,
         NEW p, NEW n \in Nat, InOrder(s, p, n)
  PROVE  InOrder(t, p, n)
<1> DEFINE From(i) == IF i <= m THEN i ELSE i + d
<1>1. Len(s) \in Nat /\ Len(t) \in Nat /\ Len(t) = Len(s) - d /\ HdrLen \in Nat
  BY LenProperties, LayoutAssumption DEF Shrinks
<1>2. \A i \in 1 .. Len(t) : From(i) \in 1 .. Len(s) /\ Len(t) - i <= Len(s) - From(i)
  BY <1>1 DEF Shrinks
<1>3. \A i \in 1 .. Len(t) : \A j \in i .. Len(t) :
        From(j) \in From(i) .. Len(s) /\ j - i <= From(j) - From(i)
  BY <1>1 DEF Shrinks
<1>4. \A i \in 1 .. Len(t) : t[i] = s[From(i)] \/ Noisy(s[From(i)], t[i])
  BY DEF Shrinks
<1> HIDE DEF From
<1> SUFFICES ASSUME NEW i \in 1 .. Len(t), ~ Tame(t[i]), NEW j \in i .. Len(t)
             PROVE  /\ t[j].pkt = p
                    /\ t[j].k = 0 \/ t[j].k >= j - i + 1
                    /\ Len(t) - j <= HdrLen + n - Num(t[j])
  BY DEF InOrder
<1>5. j \in 1 .. Len(t) /\ i \in Int /\ j \in Int
  BY <1>1
<1>6. s[From(i)] \in Unit /\ s[From(j)] \in Unit
  BY <1>2, <1>5, ElementOfSeq
<1>7. ~ Tame(s[From(i)])
  BY <1>4, <1>6, NoisyIsTame
<1>8. From(i) \in 1 .. Len(s) /\ From(j) \in From(i) .. Len(s)
  BY <1>2, <1>3
<1>9. s[From(j)].pkt = p
  BY <1>7, <1>8 DEF InOrder
<1>10. s[From(j)].k = 0 \/ s[From(j)].k >= From(j) - From(i) + 1
  BY <1>7, <1>8 DEF InOrder
<1>11. Len(s) - From(j) <= HdrLen + n - Num(s[From(j)])
  BY <1>7, <1>8 DEF InOrder
<1>12. From(i) \in Int /\ From(j) \in Int /\ s[From(j)].k \in Nat /\ i \in Int /\ j \in Int
  BY <1>1, <1>2, <1>5, <1>6, <1>8, SMTT(30) DEF Unit
<1>13. j - i <= From(j) - From(i)
  BY <1>3
<1>14. Len(t) - j <= Len(s) - From(j)
  BY <1>2, <1>5
<1> DEFINE k == s[From(j)].k
           num == Num(s[From(j)])
           room == HdrLen + n - num
<1>15. k = 0 \/ k >= j - i + 1
  BY <1>10, <1>12, <1>13, SMTT(30)
<1>16. room \in Int /\ (k = 0 \/ room = HdrLen + n - k) /\ (k = 0 => room = n - 1)
  <2>1. num = IF k = 0 THEN HdrLen + 1 ELSE k
    BY DEF Num
  <2>2. k \in Nat
    BY <1>12
  <2> HIDE DEF k, num
  <2>3. CASE k = 0
    BY <1>1, <2>1, <2>3
  <2>4. CASE k # 0
    BY <1>1, <2>1, <2>2, <2>4
  <2> QED BY <2>3, <2>4
<1>17. Len(t) - j <= room
  BY <1>1, <1>11, <1>12, <1>14, <1>16
<1> HIDE DEF k, num, room
<1>18. CASE t[j] = s[From(j)]
  <2>1. t[j].pkt = p
    BY <1>9, <1>18
  <2>2. t[j].k = 0 \/ t[j].k >= j - i + 1
    BY <1>15, <1>18 DEF k
  <2>3. Len(t) - j <= HdrLen + n - Num(t[j])
    BY <1>17, <1>18 DEF room, num
  <2> QED BY <2>1, <2>2, <2>3
<1>19. CASE Noisy(s[From(j)], t[j])
  <2>1. t[j].k = 0 /\ t[j].pkt = s[From(j)].pkt /\ k > HdrLen
    BY <1>6, <1>19 DEF Noisy, Unit, k
  <2>2. HdrLen + n - Num(t[j]) = n - 1
    BY <1>1, <2>1 DEF Num
  <2>3. k \in Nat
    BY <1>12 DEF k
  <2>4. room <= n - 1
    BY <1>1, <1>16, <2>1, <2>3
  <2>5. Len(t) - j <= n - 1
    BY <1>1, <1>12, <1>16, <1>17, <2>4
  <2> QED BY <1>9, <2>1, <2>2, <2>5
<1> QED BY <1>4, <1>5, <1>18, <1>19

-----------------------------------------------------------------------------
(* The steps of the board, as far as what is on its way goes *)

\* Only a header in progress is in the loader's buffer; a reset empties all.
AtRest == /\ mode \notin {"hdr", "hung"} => buf = <<>>
          /\ mode = "boot" => fifo = <<>> /\ tx = <<>>

LEMMA StreamType ==
  ASSUME TypeOK
  PROVE  /\ InBuf \in Seq(Unit) /\ InFifo \in Seq(Unit) /\ line \in Seq(Unit)
         /\ Stream \in Seq(Unit)
         /\ Len(InBuf) \in Nat /\ Len(InFifo) \in Nat /\ Len(line) \in Nat
         /\ Len(Stream) = Len(InBuf) + Len(InFifo) + Len(line)
<1>1. <<>> \in Seq(Unit) /\ buf \in Seq(Unit) /\ fifo \in Seq(Unit) /\ line \in Seq(Unit)
  BY EmptySeq DEF TypeOK
<1>2. InBuf \in Seq(Unit) /\ InFifo \in Seq(Unit)
  BY <1>1 DEF InBuf, InFifo
<1> QED BY <1>1, <1>2, Concat3 DEF Stream

LEMMA StreamTypeNext ==
  ASSUME TypeOK'
  PROVE  /\ Stream' \in Seq(Unit)
         /\ Len(InBuf') \in Nat /\ Len(InFifo') \in Nat /\ Len(line') \in Nat
         /\ Len(Stream') = Len(InBuf') + Len(InFifo') + Len(line')
<1>1. <<>> \in Seq(Unit) /\ buf' \in Seq(Unit) /\ fifo' \in Seq(Unit) /\ line' \in Seq(Unit)
  BY EmptySeq DEF TypeOK
<1>2. InBuf' \in Seq(Unit) /\ InFifo' \in Seq(Unit)
  BY <1>1 DEF InBuf, InFifo
<1> QED BY <1>1, <1>2, Concat3 DEF Stream

LEMMA AtRestStep ==
  ASSUME AtRest, [Next]_vars
  PROVE  AtRest'
<1>1. CASE mode = "hdr" /\ Len(buf) = HdrLen /\ Handle
  <2>1. PICK h \in Decode(buf) :
          \/ HandlePing(h)   \/ HandleLoad(h)   \/ HandleZero(h) \/ HandleExec(h)
          \/ HandleReboot(h) \/ HandleUnknown(h)
          \/ Refuse(h, "LOAD") \/ Refuse(h, "ZERO")
    BY <1>1 DEF Handle
  <2>2. buf' = <<>>
    BY <2>1 DEF HandlePing, HandleLoad, HandleZero, HandleExec, HandleReboot,
                HandleUnknown, Refuse, Received
  <2>3. mode' \in {"hdr", "payload", "exec", "delay"}
    BY <1>1, <2>1 DEF HandlePing, HandleLoad, HandleZero, HandleExec, HandleReboot,
                HandleUnknown, Refuse, Received
  <2> QED BY <2>2, <2>3 DEF AtRest
<1>2. CASE KReadHdr \/ KReadPayload \/ CheckCrc \/ DrainAndReport
  BY <1>2 DEF KReadHdr, KReadPayload, CheckCrc, DrainAndReport, AtRest
<1>3. CASE Startup \/ KMain \/ WdogFire \/ PowerCycle \/ Derail
  BY <1>3 DEF Startup, KMain, WdogFire, PowerCycle, Reset, Derail, AtRest
<1>4. CASE Kernel
  BY <1>4 DEF Kernel, StartKernel, KernelReturn, KernelTrash, KernelDisarm,
              KernelPrint, loaderVars, AtRest
<1>5. CASE Link
  BY <1>5 DEF Link, Arrive, Deliver, MissUnit, Garble, MissResponse, loaderVars, AtRest
<1>6. CASE ~ LoaderStep
  BY <1>6 DEF Next, BoardStep, ClientStep, SendPing, RecvReady, SendHeader, SendPayload,
       RecvAck, Kill, StartSession, Write, Read, vars, boardVars, linkVars, loaderVars, AtRest
<1> QED BY <1>1, <1>2, <1>3, <1>4, <1>5, <1>6 DEF LoaderStep, Commands

\* A header that has been handled is gone from the stream.
LEMMA HandleMoves ==
  ASSUME mode = "hdr", Handle
  PROVE  /\ buf' = <<>> /\ fifo' = fifo /\ line' = line /\ faults' = faults
         /\ mode' \in {"hdr", "payload", "exec", "delay"}
<1>1. PICK h \in Decode(buf) :
        \/ HandlePing(h)   \/ HandleLoad(h)   \/ HandleZero(h) \/ HandleExec(h)
        \/ HandleReboot(h) \/ HandleUnknown(h)
        \/ Refuse(h, "LOAD") \/ Refuse(h, "ZERO")
  BY DEF Handle
<1> QED BY <1>1 DEF HandlePing, HandleLoad, HandleZero, HandleExec, HandleReboot,
                HandleUnknown, Refuse, Received, Respond, linkVars

\* The board only takes units off the stream, or garbles them.
LEMMA StreamStep ==
  ASSUME TypeOK, AtRest, LoaderStep
  PROVE  \E m \in Nat, d \in Nat : Shrinks(Stream, Stream', m, d)
<1> DEFINE a == InBuf
           f == InFifo
           Same == InBuf' = a /\ InFifo' = f /\ line' = line
           Lost == InBuf' = a /\ InFifo' = f /\ line # <<>> /\ line' = Tail(line)
           Gone == InBuf' = <<>> /\ InFifo' = <<>> /\ line' = line
<1>1. a \in Seq(Unit) /\ f \in Seq(Unit) /\ line \in Seq(Unit)
  BY StreamType
<1>2. Len(a) \in Nat /\ Len(f) \in Nat /\ Len(a) + Len(f) \in Nat
  BY StreamType
<1>3. ASSUME Same PROVE Shrinks(Stream, Stream', 0, 0)
  BY <1>1, <1>3, StreamMoves DEF Stream
<1>4. ASSUME Lost PROVE Shrinks(Stream, Stream', Len(a) + Len(f), 1)
  BY <1>1, <1>4, StreamMoves DEF Stream
<1>5. ASSUME Gone PROVE Shrinks(Stream, Stream', 0, Len(a) + Len(f))
  BY <1>1, <1>5, StreamMoves DEF Stream
<1>6. CASE mode = "hdr" /\ Len(buf) = HdrLen /\ Handle
  <2>1. InBuf' = <<>> /\ InFifo' = f /\ line' = line
    BY <1>6, HandleMoves DEF InBuf, InFifo
  <2>2. Shrinks(Stream, Stream', 0, Len(a))
    BY <1>1, <2>1, StreamMoves DEF Stream
  <2> QED BY <1>2, <2>2
<1>7. CASE KReadHdr
  <2>1. f # <<>> /\ InBuf' = Append(a, Head(f)) /\ InFifo' = Tail(f) /\ line' = line
    BY <1>7 DEF KReadHdr, InBuf, InFifo
  <2>2. Shrinks(Stream, Stream', 0, 0)
    BY <1>1, <2>1, StreamMoves DEF Stream
  <2> QED BY <2>2
<1>8. CASE KReadPayload
  <2>1. f # <<>> /\ a = <<>> /\ InBuf' = <<>> /\ InFifo' = Tail(f) /\ line' = line
    BY <1>8 DEF KReadPayload, AtRest, InBuf, InFifo
  <2>2. Shrinks(<<>> \o f \o line, <<>> \o Tail(f) \o line, 0, 1)
    BY <1>1, <2>1, StreamMoves
  <2>3. Shrinks(Stream, Stream', 0, 1)
    BY <2>1, <2>2 DEF Stream
  <2> QED BY <2>3
<1>9. CASE CheckCrc
  <2>1. Same
    BY <1>9 DEF CheckCrc, Respond, InBuf, InFifo
  <2> QED BY <1>3, <2>1
<1>10. CASE DrainAndReport
  <2>1. Gone
    BY <1>10 DEF DrainAndReport, AtRest, InBuf, InFifo
  <2> QED BY <1>2, <1>5, <2>1
<1>11. CASE WdogFire \/ PowerCycle \/ Derail
  <2>1. Gone
    BY <1>11 DEF WdogFire, PowerCycle, Reset, Derail, linkVars, InBuf, InFifo
  <2> QED BY <1>2, <1>5, <2>1
<1>12. CASE Startup \/ KMain
  <2>1. Same
    BY <1>12 DEF Startup, KMain, linkVars, AtRest, InBuf, InFifo
  <2> QED BY <1>3, <2>1
<1>13. CASE Kernel
  <2>1. Same
    BY <1>13 DEF Kernel, StartKernel, KernelReturn, KernelTrash, KernelDisarm,
                 KernelPrint, Respond, loaderVars, linkVars, InBuf, InFifo
  <2> QED BY <1>3, <2>1
<1>14. CASE Arrive
  <2>1. CASE mode = "hung" \/ fifo' = fifo
    <3>1. Lost
      BY <1>14, <2>1 DEF Arrive, InBuf, InFifo
    <3> QED BY <1>2, <1>4, <3>1
  <2>2. CASE mode # "hung" /\ fifo' # fifo
    <3>1. line # <<>> /\ InBuf' = a /\ InFifo' = Append(f, Head(line)) /\ line' = Tail(line)
      BY <1>14, <2>2 DEF Arrive, InBuf, InFifo
    <3>2. Shrinks(Stream, Stream', 0, 0)
      BY <1>1, <3>1, StreamMoves DEF Stream
    <3> QED BY <3>2
  <2> QED BY <2>1, <2>2
<1>15. CASE Deliver \/ MissResponse
  <2>1. Same
    BY <1>15 DEF Deliver, MissResponse, loaderVars, InBuf, InFifo
  <2> QED BY <1>3, <2>1
<1>16. CASE MissUnit
  <2>1. Lost
    BY <1>16 DEF MissUnit, loaderVars, InBuf, InFifo
  <2> QED BY <1>2, <1>4, <2>1
<1>17. CASE Garble
  <2>1. /\ InBuf' = a /\ InFifo' = f /\ line # <<>>
        /\ line' = <<[Head(line) EXCEPT !.k = 0]>> \o Tail(line)
        /\ (IF Head(line).k > HdrLen THEN "payload" ELSE "header") \in Noise
    BY <1>17 DEF Garble, loaderVars, InBuf, InFifo
  <2>2. Shrinks(Stream, Stream', 0, 0)
    BY <1>1, <2>1, StreamGarbled DEF Stream
  <2> QED BY <2>2
<1> QED BY <1>6, <1>7, <1>8, <1>9, <1>10, <1>11, <1>12, <1>13, <1>14, <1>15, <1>16, <1>17
        DEF LoaderStep, Commands, Link

-----------------------------------------------------------------------------
(* The answers *)

\* The last answer is the only one that may be an ACK; no ACK follows an RDY.
AckLast(s) == \A n \in 1 .. Len(s) : s[n].code = "ACK" => n = Len(s)
NoAckBehindRdy(s) ==
  \A m, n \in 1 .. Len(s) : m < n => ~ (s[m].code = "RDY" /\ s[n].code = "ACK")

LEMMA AnswersType ==
  ASSUME TypeOK
  PROVE  /\ Answers \in Seq(Response) /\ Len(inbox) \in Nat /\ Len(tx) \in Nat
         /\ Len(Answers) = Len(inbox) + Len(tx)
         /\ \A i \in 1 .. Len(inbox) + Len(tx) :
              Answers[i] = IF i <= Len(inbox) THEN inbox[i] ELSE tx[i - Len(inbox)]
<1>1. inbox \in Seq(Response) /\ tx \in Seq(Response)
  BY DEF TypeOK
<1>2. Len(inbox) \in Nat /\ Len(tx) \in Nat
  BY <1>1, LenProperties
<1> QED BY <1>1, <1>2, ConcatProperties DEF Answers

LEMMA AckInParts ==
  ASSUME TypeOK
  PROVE  AckIn(Answers) <=> AckIn(inbox) \/ AckIn(tx)
<1>1. /\ Len(inbox) \in Nat /\ Len(tx) \in Nat
      /\ Len(Answers) = Len(inbox) + Len(tx)
  BY AnswersType
<1>2. \A i \in 1 .. Len(inbox) + Len(tx) :
        Answers[i] = IF i <= Len(inbox) THEN inbox[i] ELSE tx[i - Len(inbox)]
  BY AnswersType
<1>3. ASSUME NEW i \in 1 .. Len(inbox) PROVE Answers[i] = inbox[i] /\ i \in 1 .. Len(Answers)
  BY <1>1, <1>2
<1>4. ASSUME NEW i \in 1 .. Len(tx)
      PROVE  /\ Len(inbox) + i \in 1 .. Len(Answers)
             /\ Answers[Len(inbox) + i] = tx[i]
  <2> DEFINE j == Len(inbox) + i
  <2>1. /\ j \in 1 .. Len(inbox) + Len(tx) /\ ~ (j <= Len(inbox)) /\ j - Len(inbox) = i
    BY <1>1
  <2> HIDE DEF j
  <2>2. Answers[j] = tx[j - Len(inbox)]
    BY <1>2, <2>1
  <2> QED BY <1>1, <2>1, <2>2 DEF j
<1>5. ASSUME AckIn(inbox) PROVE AckIn(Answers)
  BY <1>3, <1>5 DEF AckIn
<1>6. ASSUME AckIn(tx) PROVE AckIn(Answers)
  BY <1>4, <1>6 DEF AckIn
<1>7. ASSUME AckIn(Answers), ~ AckIn(inbox) PROVE AckIn(tx)
  <2>1. PICK i \in 1 .. Len(Answers) : Answers[i].code = "ACK"
    BY <1>7 DEF AckIn
  <2>2. ~ (i <= Len(inbox))
    BY <1>1, <1>3, <1>7, <2>1 DEF AckIn
  <2>3. i - Len(inbox) \in 1 .. Len(tx) /\ i \in 1 .. Len(inbox) + Len(tx)
    BY <1>1, <2>2
  <2>4. Answers[i] = tx[i - Len(inbox)]
    BY <1>2, <2>2, <2>3
  <2> QED BY <2>1, <2>3, <2>4 DEF AckIn
<1> QED BY <1>5, <1>6, <1>7

LEMMA LosesKeeps ==
  ASSUME NEW s \in Seq(Response), NEW t \in Seq(Response), NEW m \in Nat, NEW d \in Nat,
         Loses(s, t, m, d)
  PROVE  /\ AckIn(t) => AckIn(s)
         /\ RdyIn(t) => RdyIn(s)
         /\ AckLast(s) => AckLast(t)
         /\ NoAckBehindRdy(s) => NoAckBehindRdy(t)
<1> DEFINE From(i) == IF i <= m THEN i ELSE i + d
<1>1. Len(s) \in Nat /\ Len(t) \in Nat /\ Len(t) = Len(s) - d
  BY LenProperties DEF Loses
<1>2. \A i \in 1 .. Len(t) : From(i) \in 1 .. Len(s)
  BY <1>1 DEF Loses
<1>3. \A i, j \in 1 .. Len(t) : i < j => From(i) < From(j)
  BY <1>1
<1>4. \A i \in 1 .. Len(t) : t[i] = s[From(i)]
  BY DEF Loses
<1>5. \A i \in 1 .. Len(t) : From(i) = Len(s) => i = Len(t)
  BY <1>1 DEF Loses
<1> HIDE DEF From
<1>6. ASSUME AckIn(t) PROVE AckIn(s)
  BY <1>2, <1>4, <1>6 DEF AckIn
<1>7. ASSUME RdyIn(t) PROVE RdyIn(s)
  BY <1>2, <1>4, <1>7 DEF RdyIn
<1>8. ASSUME AckLast(s) PROVE AckLast(t)
  BY <1>2, <1>4, <1>5, <1>8 DEF AckLast
<1>9. ASSUME NoAckBehindRdy(s) PROVE NoAckBehindRdy(t)
  BY <1>2, <1>3, <1>4, <1>9 DEF NoAckBehindRdy
<1> QED BY <1>6, <1>7, <1>8, <1>9

LEMMA AppendKeeps ==
  ASSUME NEW s \in Seq(Response), NEW r \in Response
  PROVE  /\ r.code # "ACK" => (AckIn(Append(s, r)) <=> AckIn(s))
         /\ r.code # "RDY" => (RdyIn(Append(s, r)) <=> RdyIn(s))
         /\ r.code = "ACK" => AckIn(Append(s, r))
         /\ ~ AckIn(s) => AckLast(Append(s, r))
         /\ r.code # "ACK" \/ ~ RdyIn(s) =>
              (NoAckBehindRdy(s) => NoAckBehindRdy(Append(s, r)))
<1> DEFINE t == Append(s, r)
<1>1. Len(s) \in Nat /\ Len(t) = Len(s) + 1 /\ t[Len(s) + 1] = r
  BY LenProperties, AppendProperties
<1>2. \A i \in 1 .. Len(s) : t[i] = s[i]
  BY AppendProperties
<1> HIDE DEF t
<1>3. \A i \in 1 .. Len(t) : i \in 1 .. Len(s) \/ (i = Len(t) /\ i = Len(s) + 1)
  BY <1>1
<1>4. Len(t) \in 1 .. Len(t) /\ \A i \in 1 .. Len(s) : i \in 1 .. Len(t) /\ i # Len(t)
  BY <1>1
<1>5. t[Len(t)] = r
  BY <1>1
<1>6. ASSUME r.code # "ACK" PROVE AckIn(t) <=> AckIn(s)
  BY <1>2, <1>3, <1>4, <1>5, <1>6 DEF AckIn
<1>7. ASSUME r.code # "RDY" PROVE RdyIn(t) <=> RdyIn(s)
  BY <1>2, <1>3, <1>4, <1>5, <1>7 DEF RdyIn
<1>8. ASSUME r.code = "ACK" PROVE AckIn(t)
  BY <1>4, <1>5, <1>8 DEF AckIn
<1>9. ASSUME ~ AckIn(s) PROVE AckLast(t)
  BY <1>2, <1>3, <1>9 DEF AckIn, AckLast
<1>10. ASSUME r.code # "ACK" \/ ~ RdyIn(s), NoAckBehindRdy(s) PROVE NoAckBehindRdy(t)
  <2> SUFFICES ASSUME NEW m \in 1 .. Len(t), NEW n \in 1 .. Len(t), m < n,
                      t[m].code = "RDY", t[n].code = "ACK"
               PROVE  FALSE
    BY DEF NoAckBehindRdy
  <2>1. m \in 1 .. Len(s)
    BY <1>1
  <2>2. CASE n \in 1 .. Len(s)
    BY <1>2, <1>10, <2>1, <2>2 DEF NoAckBehindRdy
  <2>3. CASE n = Len(t)
    BY <1>2, <1>5, <1>10, <2>1, <2>3 DEF RdyIn
  <2> QED BY <1>3, <2>2, <2>3
<1> QED BY <1>6, <1>7, <1>8, <1>9, <1>10 DEF t

\* The steps that acknowledge.
Acks == \/ /\ mode = "hdr" /\ Len(buf) = HdrLen
           /\ \E h \in Decode(buf) : HandleZero(h) \/ HandleExec(h) \/ HandleReboot(h)
        \/ CheckCrc /\ Loaded(hdr) = hdr.crc

LEMMA AnswerMoves ==
  ASSUME NEW s \in Seq(Response), NEW t \in Seq(Response), NEW r \in Response
  PROVE  /\ Loses(s \o t, s \o t, 0, 0)
         /\ t # <<>> => Append(s, Head(t)) \o Tail(t) = s \o t
         /\ t # <<>> => Loses(s \o t, s \o Tail(t), Len(s), 1)
         /\ Loses(s \o t, s \o <<>>, Len(s), Len(t))
         /\ s \o Append(t, r) = Append(s \o t, r)
         /\ s # <<>> => /\ Loses(s \o t, Tail(s) \o t, 0, 1)
                        /\ Head(s) = (s \o t)[1] /\ Len(s \o t) >= 1
<1> DEFINE st == s \o t
<1>0. Len(s) \in Nat /\ Len(t) \in Nat
  BY LenProperties
<1>1. st \in Seq(Response) /\ Len(st) = Len(s) + Len(t)
  BY ConcatProperties
<1>2. \A i \in 1 .. Len(s) + Len(t) : st[i] = IF i <= Len(s) THEN s[i] ELSE t[i - Len(s)]
  BY ConcatProperties
<1> HIDE DEF st
<1>3. Loses(st, st, 0, 0)
  BY <1>0, <1>1 DEF Loses
<1>4. ASSUME t # <<>> PROVE Append(s, Head(t)) \o Tail(t) = s \o t
  <2> DEFINE h == <<Head(t)>>
  <2>1. Head(t) \in Response /\ Tail(t) \in Seq(Response)
    BY <1>4, HeadTailProperties
  <2>2. h \in Seq(Response) /\ Append(s, Head(t)) = s \o h
    BY <2>1, AppendIsConcat
  <2>3. h \o Tail(t) = t
    <3>1. Len(t) \in Nat \ {0} /\ Tail(t) = SubSeq(t, 2, Len(t))
      BY <1>4, EmptySeq, TailIsSubSeq
    <3>2. SubSeq(t, 1, Len(t)) = <<t[1]>> \o SubSeq(t, 1 + 1, Len(t))
      BY <3>1, SubSeqRecursiveFirst
    <3>3. SubSeq(t, 1, Len(t)) = t /\ Head(t) = t[1]
      BY SubSeqFull
    <3> QED BY <3>1, <3>2, <3>3
  <2> HIDE DEF h
  <2>4. (s \o h) \o Tail(t) = s \o (h \o Tail(t))
    BY <2>1, <2>2, ConcatAssociative
  <2> QED BY <2>2, <2>3, <2>4
<1>5. ASSUME t # <<>> PROVE Loses(st, s \o Tail(t), Len(s), 1)
  <2> DEFINE t2 == Tail(t)
             st2 == s \o t2
  <2>1. t2 \in Seq(Response) /\ Len(t2) = Len(t) - 1
    BY <1>5, HeadTailProperties
  <2>2. \A i \in 1 .. Len(t2) : t2[i] = t[i + 1]
    BY <1>5, HeadTailProperties
  <2>3. Len(t2) \in Nat
    BY <2>1, LenProperties
  <2> HIDE DEF t2
  <2>4. Len(st2) = Len(s) + Len(t2)
    BY <2>1, ConcatProperties
  <2>5. \A i \in 1 .. Len(s) + Len(t2) :
          st2[i] = IF i <= Len(s) THEN s[i] ELSE t2[i - Len(s)]
    BY <2>1, ConcatProperties
  <2> HIDE DEF st2
  <2>6. ASSUME NEW i \in 1 .. Len(st2) PROVE st2[i] = st[IF i <= Len(s) THEN i ELSE i + 1]
    <3>1. CASE i <= Len(s)
      BY <1>0, <1>2, <2>3, <2>4, <2>5, <3>1, SMTT(30)
    <3>2. CASE ~ (i <= Len(s))
      <4> DEFINE j == i - Len(s)
      <4>1. /\ j \in 1 .. Len(t2) /\ j + 1 = i + 1 - Len(s) /\ ~ (i + 1 <= Len(s))
            /\ i \in 1 .. Len(s) + Len(t2) /\ i + 1 \in 1 .. Len(s) + Len(t)
        BY <1>0, <2>1, <2>3, <2>4, <3>2
      <4>2. st2[i] = t2[j]
        BY <2>5, <3>2, <4>1
      <4>3. st[i + 1] = t[j + 1]
        BY <1>2, <4>1
      <4> HIDE DEF j
      <4> QED BY <2>2, <3>2, <4>1, <4>2, <4>3
    <3> QED BY <3>1, <3>2
  <2>7. Len(s) + 1 <= Len(st) /\ Len(st2) = Len(st) - 1
    BY <1>0, <1>1, <2>1, <2>3, <2>4
  <2>8. Loses(st, st2, Len(s), 1)
    BY <2>6, <2>7 DEF Loses
  <2> QED BY <2>8 DEF st2, t2
<1>6. Loses(st, s \o <<>>, Len(s), Len(t))
  <2>1. s \o <<>> = s
    BY ConcatEmptySeq
  <2>2. \A i \in 1 .. Len(s) : s[i] = st[i]
    BY <1>0, <1>2
  <2> QED BY <1>0, <1>1, <2>1, <2>2 DEF Loses
<1>7. s \o Append(t, r) = Append(s \o t, r)
  <2> DEFINE l == <<r>>
  <2>1. l \in Seq(Response) /\ Append(t, r) = t \o l /\ Append(st, r) = st \o l
    BY <1>1, AppendIsConcat
  <2> HIDE DEF l
  <2>2. (s \o t) \o l = s \o (t \o l)
    BY <2>1, ConcatAssociative, SMTT(30)
  <2> QED BY <2>1, <2>2 DEF st
<1>8. ASSUME s # <<>> PROVE Loses(st, Tail(s) \o t, 0, 1) /\ Head(s) = st[1] /\ Len(st) >= 1
  <2> DEFINE s2 == Tail(s)
             st2 == s2 \o t
  <2>1. s2 \in Seq(Response) /\ Len(s2) = Len(s) - 1
    BY <1>8, HeadTailProperties
  <2>2. \A i \in 1 .. Len(s2) : s2[i] = s[i + 1]
    BY <1>8, HeadTailProperties
  <2>3. Len(s2) \in Nat
    BY <2>1, LenProperties
  <2> HIDE DEF s2
  <2>4. Len(st2) = Len(s2) + Len(t)
    BY <2>1, ConcatProperties
  <2>5. \A i \in 1 .. Len(s2) + Len(t) :
          st2[i] = IF i <= Len(s2) THEN s2[i] ELSE t[i - Len(s2)]
    BY <2>1, ConcatProperties
  <2> HIDE DEF st2
  <2>6. ASSUME NEW i \in 1 .. Len(st2) PROVE st2[i] = st[IF i <= 0 THEN i ELSE i + 1]
    <3>1. i \in 1 .. Len(s2) + Len(t) /\ i + 1 \in 1 .. Len(s) + Len(t) /\ ~ (i <= 0)
          /\ (i <= Len(s2) <=> i + 1 <= Len(s)) /\ i - Len(s2) = i + 1 - Len(s)
          /\ (i <= Len(s2) => i \in 1 .. Len(s2))
      BY <1>0, <2>1, <2>3, <2>4
    <3>2. CASE i <= Len(s2)
      BY <1>2, <2>2, <2>5, <3>1, <3>2
    <3>3. CASE ~ (i <= Len(s2))
      <4> DEFINE j == i - Len(s2)
      <4>1. st2[i] = t[j]
        BY <2>5, <3>1, <3>3
      <4>2. ~ (i + 1 <= Len(s)) /\ i + 1 \in 1 .. Len(s) + Len(t) /\ j = i + 1 - Len(s)
        BY <3>1, <3>3
      <4> HIDE DEF j
      <4>3. st[i + 1] = t[j]
        BY <1>2, <4>2
      <4> QED BY <3>1, <4>1, <4>3
    <3> QED BY <3>2, <3>3
  <2>7. 0 + 1 <= Len(st) /\ Len(st2) = Len(st) - 1
    BY <1>0, <1>1, <2>1, <2>3, <2>4
  <2>8. Loses(st, st2, 0, 1)
    BY <2>6, <2>7 DEF Loses
  <2>9. Head(s) = st[1]
    BY <1>0, <1>2, <2>1, <2>3
  <2> QED BY <2>7, <2>8, <2>9 DEF st2, s2
<1> QED BY <1>3, <1>4, <1>5, <1>6, <1>7, <1>8 DEF st

LEMMA AnswersStep ==
  ASSUME TypeOK, LoaderStep
  PROVE  \/ Answers' = Answers
         \/ /\ \E m \in Nat, d \in Nat : Loses(Answers, Answers', m, d)
            /\ mode' = "boot" \/ faults' = faults + 1
         \/ \E r \in Response :
              /\ Answers' = Append(Answers, r)
              /\ r.code = "ACK" => Acks
              /\ r.code = "RDY" => /\ mode = "hdr" /\ mode' = "hdr" /\ buf' = <<>>
                                   /\ fifo' = fifo /\ line' = line
              /\ IF r.code = "TEXT" THEN mode = "kernel" /\ inbox = <<>>
                 ELSE mode \in {"payload", "delay"} \/ (mode = "hdr" /\ Len(buf) = HdrLen)
<1> DEFINE Same == inbox' = inbox /\ tx' = tx
           Rs(r) == inbox' = inbox /\ tx' = Append(tx, r)
<1>0. inbox \in Seq(Response) /\ tx \in Seq(Response) /\ Len(inbox) \in Nat /\ Len(tx) \in Nat
  BY AnswersType DEF TypeOK
<1>e. Rsp("ERR", "TYPE") \in Response
  BY DEF Rsp, Response
<1>1. ASSUME Same PROVE Answers' = Answers
  BY <1>1 DEF Answers
<1>2. ASSUME NEW r \in Response, Rs(r) PROVE Answers' = Append(Answers, r)
  BY <1>0, <1>2, AnswerMoves DEF Answers
<1>3. CASE mode = "hdr" /\ Len(buf) = HdrLen /\ Handle
  <2>1. PICK h \in Decode(buf) :
          \/ HandlePing(h)   \/ HandleLoad(h)   \/ HandleZero(h) \/ HandleExec(h)
          \/ HandleReboot(h) \/ HandleUnknown(h)
          \/ Refuse(h, "LOAD") \/ Refuse(h, "ZERO")
    BY <1>3 DEF Handle
  <2>2. CASE HandleZero(h) \/ HandleExec(h) \/ HandleReboot(h)
    <3> DEFINE r == Rsp("ACK", "none")
    <3>1. r \in Response /\ r.code = "ACK"
      BY DEF Rsp, Response
    <3>2. Rs(r)
      BY <2>2 DEF HandleZero, HandleExec, HandleReboot, Respond
    <3>3. Acks
      BY <1>3, <2>2 DEF Acks
    <3> HIDE DEF r
    <3> QED BY <1>2, <1>3, <3>1, <3>2, <3>3
  <2>3. CASE HandlePing(h)
    <3> DEFINE r == Rsp("RDY", "none")
    <3>1. r \in Response /\ r.code = "RDY"
      BY DEF Rsp, Response
    <3>2. Rs(r) /\ mode = "hdr" /\ mode' = "hdr" /\ buf' = <<>> /\ fifo' = fifo /\ line' = line
      BY <2>3 DEF HandlePing, Received, Respond
    <3> HIDE DEF r
    <3> QED BY <1>2, <1>3, <3>1, <3>2
  <2>4. CASE Refuse(h, "LOAD") \/ Refuse(h, "ZERO")
    <3> DEFINE r == Rsp("ERR", "OVR")
    <3>1. r \in Response /\ r.code = "ERR"
      BY DEF Rsp, Response
    <3>2. Rs(r)
      BY <2>4 DEF Refuse, Respond
    <3> HIDE DEF r
    <3> QED BY <1>2, <1>3, <3>1, <3>2
  <2>5. CASE HandleLoad(h) \/ HandleUnknown(h)
    <3>1. Same
      BY <2>5 DEF HandleLoad, HandleUnknown, linkVars
    <3> QED BY <1>1, <3>1
  <2> QED BY <2>1, <2>2, <2>3, <2>4, <2>5
<1>4. CASE KReadHdr \/ KReadPayload
  <2>1. Same
    BY <1>4 DEF KReadHdr, KReadPayload
  <2> QED BY <1>1, <2>1
<1>5. CASE CheckCrc
  <2>1. CASE Loaded(hdr) = hdr.crc
    <3> DEFINE r == Rsp("ACK", "none")
    <3>1. r \in Response /\ r.code = "ACK"
      BY DEF Rsp, Response
    <3>2. Rs(r) /\ mode = "payload"
      BY <1>5, <2>1 DEF CheckCrc, Respond
    <3>3. Acks
      BY <1>5, <2>1 DEF Acks
    <3> HIDE DEF r
    <3> QED BY <1>2, <3>1, <3>2, <3>3
  <2>2. CASE Loaded(hdr) # hdr.crc
    <3> DEFINE r == Rsp("ERR", "CRC")
    <3>1. r \in Response /\ r.code = "ERR"
      BY DEF Rsp, Response
    <3>2. Rs(r) /\ mode = "payload"
      BY <1>5, <2>2 DEF CheckCrc, Respond
    <3> HIDE DEF r
    <3> QED BY <1>2, <3>1, <3>2
  <2> QED BY <2>1, <2>2
<1>6. CASE DrainAndReport
  <2> DEFINE r == Rsp("ERR", "TYPE")
  <2>1. r \in Response /\ r.code = "ERR"
    BY DEF Rsp, Response
  <2>2. Rs(r) /\ mode = "delay"
    BY <1>6 DEF DrainAndReport
  <2> HIDE DEF r
  <2> QED BY <1>2, <2>1, <2>2
<1>7. CASE WdogFire \/ PowerCycle
  <2>1. inbox' = inbox /\ tx' = <<>>
    BY <1>7 DEF WdogFire, PowerCycle, Reset
  <2>1m. mode' = "boot"
    BY <1>7 DEF WdogFire, PowerCycle, Reset
  <2>2. Loses(Answers, Answers', Len(inbox), Len(tx))
    BY <1>0, <1>e, <2>1, AnswerMoves DEF Answers
  <2> QED BY <1>0, <2>1m, <2>2
<1>8. CASE Startup \/ KMain \/ Derail
  <2>1. Same
    BY <1>8 DEF Startup, KMain, Derail, linkVars
  <2> QED BY <1>1, <2>1
<1>9. CASE Kernel
  <2>1. CASE KernelPrint
    <3> DEFINE r == Rsp("TEXT", "none")
    <3>1. r \in Response /\ r.code = "TEXT"
      BY DEF Rsp, Response
    <3>2. Rs(r) /\ mode = "kernel" /\ inbox = <<>>
      BY <2>1 DEF KernelPrint, Respond
    <3> HIDE DEF r
    <3> QED BY <1>2, <3>1, <3>2
  <2>2. CASE ~ KernelPrint
    <3>1. Same
      BY <1>9, <2>2 DEF Kernel, StartKernel, KernelReturn, KernelTrash, KernelDisarm, linkVars
    <3> QED BY <1>1, <3>1
  <2> QED BY <2>1, <2>2
<1>10. CASE Arrive \/ MissUnit \/ Garble
  <2>1. Same
    BY <1>10 DEF Arrive, MissUnit, Garble
  <2> QED BY <1>1, <2>1
<1>11. CASE Deliver
  <2>1. tx # <<>> /\ tx' = Tail(tx) /\ inbox' = Append(inbox, Head(tx))
    BY <1>11 DEF Deliver
  <2>2. Answers' = Answers
    BY <1>0, <1>e, <2>1, AnswerMoves DEF Answers
  <2> QED BY <2>2
<1>12. CASE MissResponse
  <2>1. tx # <<>> /\ tx' = Tail(tx) /\ inbox' = inbox /\ faults' = faults + 1
    BY <1>12 DEF MissResponse
  <2>2. Loses(Answers, Answers', Len(inbox), 1)
    BY <1>0, <1>e, <2>1, AnswerMoves DEF Answers
  <2> QED BY <1>0, <2>1, <2>2
<1> QED BY <1>3, <1>4, <1>5, <1>6, <1>7, <1>8, <1>9, <1>10, <1>11, <1>12
        DEF LoaderStep, Commands, Link

-----------------------------------------------------------------------------
(* What piboot writes and reads *)

LEMMA UnitsWritten ==
  ASSUME NEW p \in Packets
  PROVE  /\ HeaderUnits(p) \in Seq(Unit) /\ Len(HeaderUnits(p)) = HdrLen
         /\ \A k \in 1 .. HdrLen : HeaderUnits(p)[k].pkt = p /\ HeaderUnits(p)[k].k = k
         /\ PayloadUnits(p) \in Seq(Unit) /\ Len(PayloadUnits(p)) = Len(p.data)
         /\ \A i \in 1 .. Len(p.data) : /\ PayloadUnits(p)[i].pkt = p
                                        /\ PayloadUnits(p)[i].k = HdrLen + i
<1>1. HdrLen \in Nat /\ Len(p.data) \in Nat
  BY LayoutAssumption, PacketType
<1>2. HeaderUnits(p) \in Seq(Unit) /\ PayloadUnits(p) \in Seq(Unit)
  BY WriteType
<1>3. Len(HeaderUnits(p)) = HdrLen
  BY <1>1 DEF HeaderUnits
<1>4. Len(PayloadUnits(p)) = Len(p.data)
  BY <1>1 DEF PayloadUnits
<1>5. \A k \in 1 .. HdrLen : HeaderUnits(p)[k].pkt = p /\ HeaderUnits(p)[k].k = k
  BY DEF HeaderUnits
<1>6. \A i \in 1 .. Len(p.data) : PayloadUnits(p)[i].pkt = p /\ PayloadUnits(p)[i].k = HdrLen + i
  BY DEF PayloadUnits
<1> QED BY <1>2, <1>3, <1>4, <1>5, <1>6

\* Payloads are tame, also when they are cut, and so are pings.
LEMMA TameWrites ==
  ASSUME NEW p \in Packets
  PROVE  /\ p.type = "PING" => AllTame(HeaderUnits(p))
         /\ AllTame(PayloadUnits(p))
         /\ \A n \in 1 .. Len(p.data) : /\ SubSeq(PayloadUnits(p), 1, n) \in Seq(Unit)
                                        /\ AllTame(SubSeq(PayloadUnits(p), 1, n))
<1> DEFINE q == PayloadUnits(p)
           h == HeaderUnits(p)
<1>1. HdrLen \in Nat /\ HdrLen >= 2 /\ Len(p.data) \in Nat
  BY LayoutAssumption, PacketType
<1>2. h \in Seq(Unit) /\ Len(h) = HdrLen /\ \A k \in 1 .. HdrLen : h[k].pkt = p
  BY UnitsWritten
<1>3. q \in Seq(Unit) /\ Len(q) = Len(p.data)
  BY UnitsWritten
<1>4. \A i \in 1 .. Len(p.data) : q[i].k = HdrLen + i
  BY UnitsWritten
<1> HIDE DEF q, h
<1>5. \A i \in 1 .. Len(p.data) : Tame(q[i])
  BY <1>1, <1>4 DEF Tame
<1>6. ASSUME NEW n \in 1 .. Len(p.data)
      PROVE  SubSeq(q, 1, n) \in Seq(Unit) /\ AllTame(SubSeq(q, 1, n))
  <2> DEFINE r == SubSeq(q, 1, n)
  <2>1. \A i \in 1 .. n : q[i] \in Unit
    BY <1>1, <1>3, ElementOfSeq
  <2>2. r \in Seq(Unit) /\ Len(r) = (IF 1 <= n THEN n - 1 + 1 ELSE 0)
    BY <2>1, SubSeqProperties
  <2>3. \A i \in 1 .. n - 1 + 1 : r[i] = q[1 + i - 1]
    BY <2>1, SubSeqProperties
  <2> HIDE DEF r
  <2>4. \A i \in 1 .. Len(r) : i \in 1 .. n - 1 + 1 /\ 1 + i - 1 = i /\ i \in 1 .. Len(p.data)
    BY <1>1, <2>2
  <2>5. \A i \in 1 .. Len(r) : Tame(r[i])
    BY <1>5, <2>3, <2>4
  <2> QED BY <2>2, <2>5 DEF AllTame, r
<1>7. ASSUME p.type = "PING" PROVE AllTame(h)
  BY <1>2, <1>7 DEF AllTame, Tame
<1> QED BY <1>3, <1>5, <1>6, <1>7 DEF AllTame, q, h

LEMMA JoinTame ==
  ASSUME NEW s \in Seq(Unit), NEW u \in Seq(Unit), AllTame(u)
  PROVE  /\ AllTame(s) => AllTame(s \o u)
         /\ OneFirst(s) => OneFirst(s \o u)
<1> DEFINE t == s \o u
<1>1. Len(s) \in Nat /\ Len(u) \in Nat /\ Len(t) = Len(s) + Len(u)
  BY LenProperties, ConcatProperties
<1>2. \A i \in 1 .. Len(s) + Len(u) : t[i] = IF i <= Len(s) THEN s[i] ELSE u[i - Len(s)]
  BY ConcatProperties
<1> HIDE DEF t
<1>3. \A i \in 1 .. Len(t) : i \in 1 .. Len(s) + Len(u)
  BY <1>1
<1>4. \A i \in 1 .. Len(s) : i \in 1 .. Len(s) + Len(u) /\ i <= Len(s)
  BY <1>1
<1>5. \A i \in 1 .. Len(t) : i \notin 1 .. Len(s) => ~ (i <= Len(s)) /\ i - Len(s) \in 1 .. Len(u)
  BY <1>1
<1>6. \A i \in 1 .. Len(s) : t[i] = s[i]
  BY <1>2, <1>4
<1>7. \A i \in 1 .. Len(t) : i \notin 1 .. Len(s) => Tame(t[i])
  BY <1>2, <1>3, <1>5 DEF AllTame
<1>8. ASSUME AllTame(s) PROVE AllTame(t)
  BY <1>6, <1>7, <1>8 DEF AllTame
<1>9. ASSUME OneFirst(s) PROVE OneFirst(t)
  BY <1>6, <1>7, <1>9 DEF OneFirst
<1> QED BY <1>8, <1>9 DEF t

\* A header is written when everything before it is tame.
LEMMA JoinHeader ==
  ASSUME NEW s \in Seq(Unit), NEW p \in Packets, AllTame(s)
  PROVE  /\ OneFirst(s \o HeaderUnits(p))
         /\ Own(s \o HeaderUnits(p), p, 0)
         /\ InOrder(s \o HeaderUnits(p), p, 0)
<1> DEFINE h == HeaderUnits(p)
           t == s \o h
<1>1. HdrLen \in Nat /\ HdrLen >= 2 /\ Len(s) \in Nat
  BY LayoutAssumption, LenProperties
<1>2. h \in Seq(Unit) /\ Len(h) = HdrLen
  BY UnitsWritten
<1>3. \A k \in 1 .. HdrLen : h[k].pkt = p /\ h[k].k = k
  BY UnitsWritten
<1> HIDE DEF h
<1>4. Len(t) = Len(s) + HdrLen
  BY <1>2, ConcatProperties
<1>5. \A i \in 1 .. Len(s) + Len(h) : t[i] = IF i <= Len(s) THEN s[i] ELSE h[i - Len(s)]
  BY <1>2, ConcatProperties
<1> HIDE DEF t
<1>6. ASSUME NEW i \in 1 .. Len(t)
      PROVE  IF i <= Len(s) THEN Tame(t[i]) ELSE t[i].pkt = p /\ t[i].k = i - Len(s)
  <2>1. i \in 1 .. Len(s) + Len(h)
    BY <1>2, <1>4
  <2>2. CASE i <= Len(s)
    BY <1>1, <1>5, <2>1, <2>2 DEF AllTame
  <2>3. CASE ~ (i <= Len(s))
    <3> DEFINE j == i - Len(s)
    <3>1. j \in 1 .. HdrLen
      BY <1>1, <1>2, <2>1, <2>3
    <3>2. t[i] = h[j]
      BY <1>5, <2>1, <2>3
    <3> HIDE DEF j
    <3>3. t[i].pkt = p /\ t[i].k = j
      BY <1>3, <3>1, <3>2
    <3> QED BY <2>3, <3>3 DEF j
  <2> QED BY <2>2, <2>3
<1>7. \A i \in 1 .. Len(t) : ~ Tame(t[i]) => i = Len(s) + 1
  <2> SUFFICES ASSUME NEW i \in 1 .. Len(t), ~ Tame(t[i]) PROVE i = Len(s) + 1
    OBVIOUS
  <2>1. t[i].k = 1
    BY DEF Tame
  <2> QED BY <1>1, <1>4, <1>6, <2>1
<1>8. OneFirst(t)
  BY <1>7 DEF OneFirst
<1>9. Own(t, p, 0)
  <2> SUFFICES ASSUME NEW i \in 1 .. Len(t), ~ Tame(t[i])
               PROVE  t[i].pkt = p /\ Len(t) - i <= HdrLen - 1 + 0
    BY DEF Own
  <2>1. i = Len(s) + 1 /\ ~ (i <= Len(s))
    BY <1>1, <1>7
  <2> QED BY <1>1, <1>4, <1>6, <2>1
<1>10. InOrder(t, p, 0)
  <2> SUFFICES ASSUME NEW i \in 1 .. Len(t), ~ Tame(t[i]), NEW j \in i .. Len(t)
               PROVE  /\ t[j].pkt = p
                      /\ t[j].k = 0 \/ t[j].k >= j - i + 1
                      /\ Len(t) - j <= HdrLen + 0 - Num(t[j])
    BY DEF InOrder
  <2>1. i = Len(s) + 1 /\ ~ (j <= Len(s)) /\ j \in 1 .. Len(t)
    BY <1>1, <1>7
  <2>2. t[j].pkt = p /\ t[j].k = j - Len(s)
    BY <1>6, <2>1
  <2>3. j - Len(s) = j - i + 1 /\ j - Len(s) # 0 /\ j - Len(s) \in Int
    BY <1>1, <2>1
  <2>4. Num(t[j]) = j - Len(s)
    BY <2>2, <2>3 DEF Num
  <2>5. Len(t) - j <= HdrLen + 0 - (j - Len(s))
    BY <1>1, <1>4, <2>1
  <2>6. t[j].k >= j - i + 1
    BY <1>1, <2>1, <2>2, <2>3
  <2> QED BY <2>2, <2>4, <2>5, <2>6
<1> QED BY <1>8, <1>9, <1>10 DEF t, h

LEMMA JoinPayload ==
  ASSUME NEW s \in Seq(Unit), NEW p \in Packets
  PROVE  /\ Own(s, p, 0) => Own(s \o PayloadUnits(p), p, Len(p.data))
         /\ InOrder(s, p, 0) => InOrder(s \o PayloadUnits(p), p, Len(p.data))
<1> DEFINE q == PayloadUnits(p)
           n == Len(p.data)
           t == s \o q
<1>1. HdrLen \in Nat /\ HdrLen >= 2 /\ Len(s) \in Nat /\ n \in Nat
  BY LayoutAssumption, LenProperties, PacketType
<1>2. q \in Seq(Unit) /\ Len(q) = n
  BY UnitsWritten
<1>3. \A i \in 1 .. n : q[i].pkt = p /\ q[i].k = HdrLen + i
  BY UnitsWritten
<1> HIDE DEF q, n
<1>4. Len(t) = Len(s) + n
  BY <1>2, ConcatProperties
<1>5. \A i \in 1 .. Len(s) + Len(q) : t[i] = IF i <= Len(s) THEN s[i] ELSE q[i - Len(s)]
  BY <1>2, ConcatProperties
<1> HIDE DEF t
<1>6. \A i \in 1 .. Len(t) : i <= Len(s) => t[i] = s[i] /\ i \in 1 .. Len(s)
  BY <1>1, <1>2, <1>4, <1>5
<1>7. ASSUME NEW i \in 1 .. Len(t), ~ (i <= Len(s))
      PROVE  t[i].pkt = p /\ t[i].k = HdrLen + (i - Len(s)) /\ Tame(t[i])
  <2> DEFINE j == i - Len(s)
  <2>1. j \in 1 .. n /\ i \in 1 .. Len(s) + Len(q)
    BY <1>1, <1>2, <1>4, <1>7
  <2>2. t[i] = q[j]
    BY <1>5, <1>7, <2>1
  <2> HIDE DEF j
  <2>3. t[i].pkt = p /\ t[i].k = HdrLen + j
    BY <1>3, <2>1, <2>2
  <2>4. HdrLen + j # 1
    BY <1>1, <2>1
  <2> QED BY <2>3, <2>4 DEF Tame, j
<1>8. ASSUME Own(s, p, 0) PROVE Own(t, p, n)
  <2> SUFFICES ASSUME NEW i \in 1 .. Len(t), ~ Tame(t[i])
               PROVE  t[i].pkt = p /\ Len(t) - i <= HdrLen - 1 + n
    BY DEF Own
  <2>1. t[i] = s[i] /\ i \in 1 .. Len(s)
    BY <1>6, <1>7
  <2>2. t[i].pkt = p /\ Len(s) - i <= HdrLen - 1 + 0
    BY <1>8, <2>1 DEF Own
  <2> QED BY <1>1, <1>4, <2>1, <2>2
<1>9. ASSUME InOrder(s, p, 0) PROVE InOrder(t, p, n)
  <2> SUFFICES ASSUME NEW i \in 1 .. Len(t), ~ Tame(t[i]), NEW j \in i .. Len(t)
               PROVE  /\ t[j].pkt = p
                      /\ t[j].k = 0 \/ t[j].k >= j - i + 1
                      /\ Len(t) - j <= HdrLen + n - Num(t[j])
    BY DEF InOrder
  <2>1. t[i] = s[i] /\ i \in 1 .. Len(s)
    BY <1>6, <1>7
  <2>2. j \in 1 .. Len(t) /\ j \in Int /\ i \in Int
    BY <1>1, <2>1
  <2>3. CASE j <= Len(s)
    <3>1. t[j] = s[j] /\ j \in i .. Len(s) /\ j \in 1 .. Len(s)
      BY <1>1, <1>6, <2>1, <2>2, <2>3
    <3> DEFINE num == Num(s[j])
    <3>2. s[j].pkt = p /\ (s[j].k = 0 \/ s[j].k >= j - i + 1)
      BY <1>9, <2>1, <3>1 DEF InOrder
    <3>3. Len(s) - j <= HdrLen + 0 - num
      BY <1>9, <2>1, <3>1 DEF InOrder
    <3>4. num \in Int
      <4>1. s[j] \in Unit
        BY <3>1, ElementOfSeq
      <4>2. s[j].k \in Nat
        BY <4>1 DEF Unit
      <4> QED BY <1>1, <4>2 DEF Num
    <3> HIDE DEF num
    <3>5. Len(t) - j <= HdrLen + n - num
      BY <1>1, <1>4, <2>2, <3>3, <3>4
    <3> QED BY <3>1, <3>2, <3>5 DEF num
  <2>4. CASE ~ (j <= Len(s))
    <3>1. t[j].pkt = p /\ t[j].k = HdrLen + (j - Len(s))
      BY <1>7, <2>2, <2>4
    <3>2. Len(s) - i <= HdrLen + 0 - Num(s[i])
      <4>1. i \in i .. Len(s)
        BY <1>1, <2>1
      <4> QED BY <1>9, <2>1, <4>1 DEF InOrder
    <3>3. Num(s[i]) = 1
      BY <2>1 DEF Tame, Num
    <3>4. HdrLen + (j - Len(s)) >= j - i + 1 /\ HdrLen + (j - Len(s)) # 0
      BY <1>1, <2>2, <2>4, <3>2, <3>3
    <3>5. Len(t) - j <= HdrLen + n - (HdrLen + (j - Len(s)))
      BY <1>1, <1>4, <2>2
    <3>6. Num(t[j]) = HdrLen + (j - Len(s))
      BY <3>1, <3>4 DEF Num
    <3> QED BY <3>1, <3>4, <3>5, <3>6
  <2> QED BY <2>3, <2>4
<1> QED BY <1>8, <1>9 DEF t, q, n

LEMMA WriteStep ==
  ASSUME TypeOK, NEW units \in Seq(Unit), Write(units), UNCHANGED loaderVars
  PROVE  Stream' = Stream \o units /\ Answers' = Answers
<1> DEFINE a == InBuf \o InFifo
<1>1. InBuf \in Seq(Unit) /\ InFifo \in Seq(Unit) /\ line \in Seq(Unit)
  BY StreamType
<1>2. InBuf' = InBuf /\ InFifo' = InFifo /\ line' = line \o units /\ Answers' = Answers
  BY DEF Write, loaderVars, InBuf, InFifo, Answers
<1>3. a \in Seq(Unit)
  BY <1>1, ConcatProperties
<1>4. Stream = a \o line /\ Stream' = a \o (line \o units)
  <2>1. Stream' = InBuf' \o InFifo' \o line'
    BY DEF Stream
  <2> QED BY <1>2, <2>1 DEF Stream
<1> HIDE DEF a
<1>5. (a \o line) \o units = a \o (line \o units)
  <2>1. line \in Seq(Unit)
    BY <1>1
  <2> QED BY <1>3, <2>1, ConcatAssociative
<1> QED BY <1>2, <1>4, <1>5

LEMMA ReadStep ==
  ASSUME TypeOK, NEW rsp, Read(rsp), UNCHANGED loaderVars
  PROVE  /\ Stream' = Stream
         /\ Loses(Answers, Answers', 0, 1)
         /\ Len(Answers) >= 1 /\ Answers[1] = rsp
         /\ Len(Answers') = Len(Answers) - 1
<1>1. inbox \in Seq(Response) /\ tx \in Seq(Response)
  BY DEF TypeOK
<1>2. /\ inbox # <<>> /\ rsp = Head(inbox) /\ inbox' = Tail(inbox) /\ tx' = tx
      /\ InBuf' = InBuf /\ InFifo' = InFifo /\ line' = line
  BY DEF Read, loaderVars, InBuf, InFifo
<1>3. Rsp("ERR", "TYPE") \in Response
  BY DEF Rsp, Response
<1>4. /\ Loses(Answers, Answers', 0, 1)
      /\ Head(inbox) = Answers[1] /\ Len(Answers) >= 1
  BY <1>1, <1>2, <1>3, AnswerMoves DEF Answers
<1>5. Stream' = Stream
  BY <1>2 DEF Stream
<1> QED BY <1>2, <1>4, <1>5 DEF Loses

-----------------------------------------------------------------------------
(* Headers *)

\* The loader works on a command that has changed, or will change, something.
Busy == {"payload", "exec", "kernel"}

LEMMA HeaderTaken ==
  ASSUME TypeOK, mode = "hdr", Len(buf) = HdrLen,
         NEW h \in Decode(buf), h.type \notin {"PING", "UNKNOWN"}
  PROVE  /\ Len(Stream) = HdrLen + Len(fifo) + Len(line)
         /\ Len(fifo) \in Nat /\ Len(line) \in Nat
         /\ 1 \in 1 .. Len(Stream) /\ ~ Tame(Stream[1])
         /\ Stream[1].pkt \in Packets /\ h.type = Stream[1].pkt.type
         /\ h.crc \in {Stream[1].pkt.data, NoCrc}
         /\ OneFirst(Stream) => AllTame(<<>> \o fifo \o line)
<1>0. HdrLen \in Nat /\ HdrLen >= 2
  BY LayoutAssumption
<1>1. InBuf = buf /\ InFifo = fifo
  BY DEF InBuf, InFifo
<1>2. buf \in Seq(Unit) /\ fifo \in Seq(Unit) /\ line \in Seq(Unit)
  BY DEF TypeOK
<1>3. Len(Stream) = HdrLen + Len(fifo) + Len(line) /\ Len(fifo) \in Nat /\ Len(line) \in Nat
  BY <1>1, StreamType
<1>4. \A i \in 1 .. Len(buf) + Len(fifo) + Len(line) :
        Stream[i] = IF i <= Len(buf) THEN buf[i]
                    ELSE IF i <= Len(buf) + Len(fifo) THEN fifo[i - Len(buf)]
                    ELSE line[i - Len(buf) - Len(fifo)]
  BY <1>1, <1>2, Concat3 DEF Stream
<1>5. 1 \in 1 .. Len(Stream) /\ 1 \in 1 .. Len(buf) + Len(fifo) + Len(line) /\ 1 <= Len(buf)
      /\ 1 \in 1 .. Len(buf)
  BY <1>0, <1>3
<1>6. Stream[1] = buf[1]
  BY <1>4, <1>5
<1>7. buf[1] \in Unit
  BY <1>2, <1>5, ElementOfSeq
<1>8. buf[1].pkt \in Packets
  BY <1>7 DEF Unit
<1>9. h # UnknownHeader
  BY DEF UnknownHeader
<1>10. buf[1].k = 1 /\ h.type = buf[1].pkt.type /\ h.crc \in {buf[1].pkt.data, NoCrc}
  <2>1. buf[1].k = 1
    BY <1>9 DEF Decode
  <2>2. CASE h = HeaderOf(buf[1].pkt)
    BY <2>1, <2>2 DEF HeaderOf
  <2>3. CASE h \in [type : {buf[1].pkt.type}, address : Addr, size : GarbledSizes,
                    crc : {buf[1].pkt.data, NoCrc}, flags : SUBSET Flags]
    BY <2>1, <2>3
  <2> QED BY <2>1, <2>2, <2>3 DEF Decode
<1>11. ~ Tame(Stream[1])
  BY <1>6, <1>10 DEF Tame
<1>12. ASSUME OneFirst(Stream) PROVE AllTame(<<>> \o fifo \o line)
  <2> DEFINE e == <<>>
             t == e \o fifo \o line
  <2>1. e \in Seq(Unit) /\ Len(e) = 0
    BY EmptySeq
  <2> HIDE DEF e
  <2>2. Len(t) = Len(e) + Len(fifo) + Len(line)
    BY <1>2, <2>1, Concat3
  <2>3. \A i \in 1 .. Len(e) + Len(fifo) + Len(line) :
          t[i] = IF i <= Len(e) THEN e[i]
                 ELSE IF i <= Len(e) + Len(fifo) THEN fifo[i - Len(e)]
                 ELSE line[i - Len(e) - Len(fifo)]
    BY <1>2, <2>1, Concat3
  <2> HIDE DEF t
  <2>4. ASSUME NEW i \in 1 .. Len(t) PROVE Tame(t[i])
    <3> DEFINE j == HdrLen + i
    <3>1. /\ j \in 1 .. Len(Stream) /\ 1 < j /\ ~ (j <= Len(buf))
          /\ j \in 1 .. Len(buf) + Len(fifo) + Len(line)
          /\ i \in 1 .. Len(e) + Len(fifo) + Len(line) /\ ~ (i <= Len(e))
      BY <1>0, <1>3, <2>1, <2>2
    <3>2. /\ i <= Len(e) + Len(fifo) <=> j <= Len(buf) + Len(fifo)
          /\ j - Len(buf) = i - Len(e)
          /\ j - Len(buf) - Len(fifo) = i - Len(e) - Len(fifo)
      BY <1>0, <1>3, <2>1, <2>2
    <3> HIDE DEF j
    <3>3. t[i] = Stream[j]
      <4>1. t[i] = IF i <= Len(e) + Len(fifo) THEN fifo[i - Len(e)]
                   ELSE line[i - Len(e) - Len(fifo)]
        BY <2>3, <3>1
      <4>2. Stream[j] = IF j <= Len(buf) + Len(fifo) THEN fifo[j - Len(buf)]
                        ELSE line[j - Len(buf) - Len(fifo)]
        BY <1>4, <3>1
      <4> QED BY <3>2, <4>1, <4>2
    <3>4. Tame(Stream[1]) \/ Tame(Stream[j])
      BY <1>5, <1>12, <3>1 DEF OneFirst
    <3> QED BY <1>11, <3>3, <3>4
  <2> QED BY <2>4 DEF AllTame, t, e
<1> QED BY <1>3, <1>5, <1>6, <1>8, <1>10, <1>11, <1>12

\* s begins with the whole header of p.
HeaderFirst(s, p) == \A k \in 1 .. HdrLen : s[k] = [pkt |-> p, k |-> k]

\* A header that is in order and is not whole has lost a unit: less is left of
\* the packet than has been written.
LEMMA HeaderInOrder ==
  ASSUME TypeOK, mode = "hdr", Len(buf) = HdrLen,
         NEW h \in Decode(buf), h.type \notin {"PING", "UNKNOWN"},
         NEW p, NEW n \in Nat, InOrder(Stream, p, n)
  PROVE  \/ h = HeaderOf(p) /\ HeaderFirst(Stream, p)
         \/ Len(fifo) + Len(line) < n
<1>0. HdrLen \in Nat /\ HdrLen >= 2
  BY LayoutAssumption
<1>1. InBuf = buf /\ InFifo = fifo
  BY DEF InBuf, InFifo
<1>2. buf \in Seq(Unit) /\ fifo \in Seq(Unit) /\ line \in Seq(Unit)
  BY DEF TypeOK
<1>3. Len(Stream) = HdrLen + Len(fifo) + Len(line) /\ Len(fifo) \in Nat /\ Len(line) \in Nat
  BY HeaderTaken
<1>4. 1 \in 1 .. Len(Stream) /\ ~ Tame(Stream[1])
  BY HeaderTaken
<1>5. \A i \in 1 .. Len(buf) + Len(fifo) + Len(line) :
        Stream[i] = IF i <= Len(buf) THEN buf[i]
                    ELSE IF i <= Len(buf) + Len(fifo) THEN fifo[i - Len(buf)]
                    ELSE line[i - Len(buf) - Len(fifo)]
  BY <1>1, <1>2, Concat3, SMTT(30) DEF Stream
<1>6. \A k \in 1 .. HdrLen : k \in 1 .. Len(buf) + Len(fifo) + Len(line) /\ k <= Len(buf)
  BY <1>3
<1>6a. \A k \in 1 .. HdrLen : Stream[k] = buf[k]
  BY <1>5, <1>6
<1>7. 1 \in 1 .. HdrLen /\ \A k \in 1 .. HdrLen : k \in 1 .. Len(Stream)
  BY <1>0, <1>3
<1>8. ASSUME NEW k \in 1 .. HdrLen
      PROVE  /\ buf[k].pkt = p /\ (buf[k].k = 0 \/ buf[k].k >= k)
             /\ Len(Stream) - k <= HdrLen + n - Num(buf[k])
  <2>1. k \in 1 .. Len(Stream) /\ k - 1 + 1 = k
    BY <1>7
  <2>2. /\ Stream[k].pkt = p /\ (Stream[k].k = 0 \/ Stream[k].k >= k - 1 + 1)
        /\ Len(Stream) - k <= HdrLen + n - Num(Stream[k])
    BY <1>4, <2>1 DEF InOrder
  <2> QED BY <1>6a, <2>1, <2>2
<1>9. \A k \in 1 .. HdrLen : buf[k] \in [pkt : Packets, k : Nat]
  BY <1>2, ElementOfSeq DEF Unit
<1>10. CASE Whole(buf)
  <2>1. buf[1].pkt = p
    BY <1>7, <1>8
  <2>2. h # UnknownHeader
    BY DEF UnknownHeader
  <2>3. h = HeaderOf(p)
    BY <1>10, <2>1, <2>2 DEF Decode
  <2>4. HeaderFirst(Stream, p)
    BY <1>6a, <1>10, <2>1 DEF HeaderFirst, Whole
  <2> QED BY <2>3, <2>4
<1>11. CASE ~ Whole(buf)
  <2>1. PICK k \in 1 .. HdrLen : buf[k] # [pkt |-> buf[1].pkt, k |-> k]
    BY <1>11 DEF Whole
  <2>2. buf[k].pkt = p /\ buf[1].pkt = p
    BY <1>7, <1>8
  <2>3. buf[k].k # k /\ buf[k].k \in Nat
    <3>1. buf[k] \in [pkt : Packets, k : Nat]
      BY <1>9
    <3>2. buf[k] = [pkt |-> buf[k].pkt, k |-> buf[k].k]
      BY <3>1
    <3> QED BY <2>1, <2>2, <3>1, <3>2
  <2> DEFINE x == buf[k].k
             num == Num(buf[k])
  <2>4. x = 0 \/ x >= k
    BY <1>8
  <2>5. Len(Stream) - k <= HdrLen + n - num
    BY <1>8
  <2>6. num = IF x = 0 THEN HdrLen + 1 ELSE x
    BY DEF Num
  <2>7. x # k /\ x \in Nat
    BY <2>3
  <2> HIDE DEF x, num
  <2>8. num \in Int /\ num >= k + 1
    BY <1>0, <2>4, <2>6, <2>7
  <2>9. HdrLen + Len(fifo) + Len(line) - k <= HdrLen + n - num
    BY <1>3, <2>5
  <2> QED BY <1>0, <1>3, <2>8, <2>9
<1> QED BY <1>10, <1>11

\* While everything on its way is tame, the loader changes nothing and
\* acknowledges nothing.
LEMMA TameStep ==
  ASSUME TypeOK, AtRest, LoaderStep, AllTame(Stream), mode \notin Busy
  PROVE  /\ AllTame(Stream') /\ mode' \notin Busy /\ ~ Acks
         /\ mem' = mem \/ mode = "boot"
<1>1. AllTame(Stream')
  <2>1. PICK m \in Nat, d \in Nat : Shrinks(Stream, Stream', m, d)
    BY StreamStep
  <2>2. TypeOK'
    BY BoardTypeStep
  <2>3. Stream \in Seq(Unit) /\ Stream' \in Seq(Unit)
    BY <2>2, StreamType, StreamTypeNext
  <2> QED BY <2>1, <2>3, ShrinkKeeps
<1>2. ASSUME mode = "hdr", Len(buf) = HdrLen, NEW h \in Decode(buf)
      PROVE  h.type \in {"PING", "UNKNOWN"}
  <2> SUFFICES ASSUME h.type \notin {"PING", "UNKNOWN"} PROVE FALSE
    OBVIOUS
  <2>1. 1 \in 1 .. Len(Stream) /\ ~ Tame(Stream[1])
    BY <1>2, HeaderTaken
  <2> QED BY <2>1 DEF AllTame
<1>3. mode' \notin Busy /\ (mem' = mem \/ mode = "boot")
  <2>1. CASE mode = "hdr" /\ Len(buf) = HdrLen /\ Handle
    <3>1. PICK h \in Decode(buf) :
            \/ HandlePing(h)   \/ HandleLoad(h)   \/ HandleZero(h) \/ HandleExec(h)
            \/ HandleReboot(h) \/ HandleUnknown(h)
            \/ Refuse(h, "LOAD") \/ Refuse(h, "ZERO")
      BY <2>1 DEF Handle
    <3>2. h.type \in {"PING", "UNKNOWN"}
      BY <1>2, <2>1
    <3>3. CASE HandlePing(h) \/ HandleUnknown(h)
      BY <2>1, <3>3 DEF HandlePing, HandleUnknown, Busy
    <3> QED BY <3>1, <3>2, <3>3 DEF HandleLoad, HandleZero, HandleExec, HandleReboot,
                                    Refuse, Received
  <2>2. CASE KReadHdr \/ KReadPayload \/ CheckCrc \/ DrainAndReport
    BY <2>2 DEF KReadHdr, KReadPayload, CheckCrc, DrainAndReport, Busy
  <2>3. CASE Startup \/ KMain \/ WdogFire \/ PowerCycle \/ Derail
    BY <2>3 DEF Startup, KMain, WdogFire, PowerCycle, Reset, Derail, Busy
  <2>4. CASE Kernel
    BY <2>4 DEF Kernel, StartKernel, KernelReturn, KernelTrash, KernelDisarm,
                KernelPrint, loaderVars, Busy
  <2>5. CASE Link
    BY <2>5 DEF Link, Arrive, Deliver, MissUnit, Garble, MissResponse, loaderVars
  <2> QED BY <2>1, <2>2, <2>3, <2>4, <2>5 DEF LoaderStep, Commands
<1>4. ~ Acks
  <2>1. CASE CheckCrc
    BY <2>1 DEF CheckCrc, Busy
  <2>2. ASSUME mode = "hdr", Len(buf) = HdrLen, NEW h \in Decode(buf),
               HandleZero(h) \/ HandleExec(h) \/ HandleReboot(h)
        PROVE  FALSE
    BY <1>2, <2>2 DEF HandleZero, HandleExec, HandleReboot, Received
  <2> QED BY <2>1, <2>2 DEF Acks
<1> QED BY <1>1, <1>3, <1>4

-----------------------------------------------------------------------------
(* The inductive invariant *)

\* One session at a time: no more than one first unit is on its way, and none
\* behind the command that the loader is working on.
OneHeader == /\ OneFirst(Stream)
             /\ mode \in Busy => AllTame(Stream)

\* Until piboot has the answer to its ping, only the last session's units can
\* do anything; when the answer is on its way they have been read.
Calling ==
  cli \in {"ping", "rdy"} =>
    /\ cur = 1
    /\ AllTame(line) /\ AllTame(InFifo)
    /\ RdyIn(Answers) => AllTame(Stream) /\ mode \notin Busy
    /\ NoAckBehindRdy(Answers)

Ready == cli = "send" => AllTame(Stream) /\ mode \notin Busy /\ ~ AckIn(Answers)

ContactInv == Calling /\ Ready

\* The packet that is on its way is job[cur]; so much of its payload is written.
Written == IF cli = "ack" /\ job[cur].type = "LOAD" THEN Len(job[cur].data) ELSE 0

\* What the loader has stored of a payload or can still read.
ToCome == off + Len(fifo) + Len(line)

OnItsWay == /\ cli = "data" => job[cur].type = "LOAD"
            /\ Own(Stream, job[cur], Written)

Working ==
  /\ mode = "payload" => /\ job[cur].type = "LOAD"
                         /\ hdr.crc \in {job[cur].data, NoCrc} /\ ToCome <= Written
  /\ mode \in {"exec", "kernel"} => job[cur].type = "EXEC" /\ fifo = <<>> /\ line = <<>>
  /\ mode = "kernel" => ~ AckIn(tx)

Answered ==
  AckIn(Answers) =>
    /\ buf = <<>> /\ fifo = <<>> /\ line = <<>> /\ mode \notin {"payload", "delay"}
    /\ cli = "data" => Len(job[cur].data) = 0
    /\ AckLast(Answers)

StartAnswered ==
  faults = 0 /\ cli = "ack" /\ mode \in {"exec", "kernel"} => AckIn(Answers)

PacketInv == cli \in {"data", "ack"} => OnItsWay /\ Working /\ Answered /\ StartAnswered

\* Without noise in headers, what the loader obeys is job[cur], unless it lacks
\* a unit that will not come.
HeaderInv ==
  cli \in {"data", "ack"} =>
    /\ InOrder(Stream, job[cur], Written)
    /\ mode = "payload" => hdr = HeaderOf(job[cur]) \/ ToCome < Written
    /\ mode \in {"exec", "kernel"} \/ AckIn(Answers) => hdr = HeaderOf(job[cur])

\* Memory m holds what the first n packets of j wrote, but for the addresses in E.
Holds(m, j, n, E) ==
  \A i \in 1 .. n : \A a \in Writes(j[i]) \ E :
    (\A k \in i + 1 .. n : a \notin Writes(j[k])) => m[a] = Wrote(j[i], a)

\* The packet will not be acknowledged any more.
Doomed == /\ AllTame(Stream) /\ mode # "exec"
          /\ mode = "payload" => ToCome < Written

\* What a payload that is on its way may have changed.
Unsettled == IF mode = "payload" THEN Writes(job[cur]) ELSE {}

MemInv ==
  /\ cli = "send" => mode = "boot" \/ Holds(mem, job, cur - 1, {})
  /\ cli \in {"data", "ack"} =>
       /\ mode = "exec" => Holds(mem, job, cur - 1, {})
       /\ AckIn(Answers) =>
            job[cur].type = "EXEC" \/ mode = "boot" \/ Holds(mem, job, cur, {})
       /\ ~ AckIn(Answers) =>
            mode = "boot" \/ Doomed \/ Holds(mem, job, cur - 1, Unsettled)

-----------------------------------------------------------------------------
(* Steps of the board *)

\* How the loader gets to a payload and to a program.
LEMMA ModeStep ==
  ASSUME LoaderStep
  PROVE  /\ mode' = "payload" /\ mode # "payload" =>
              /\ mode = "hdr" /\ Len(buf) = HdrLen
              /\ \E h \in Decode(buf) : HandleLoad(h)
         /\ mode' = "exec" /\ mode # "exec" =>
              /\ mode = "hdr" /\ Len(buf) = HdrLen
              /\ \E h \in Decode(buf) : HandleExec(h)
         /\ mode' = "kernel" => mode \in {"exec", "kernel"}
<1>1. CASE mode = "hdr" /\ Len(buf) = HdrLen /\ Handle
  <2>1. PICK h \in Decode(buf) :
          \/ HandlePing(h)   \/ HandleLoad(h)   \/ HandleZero(h) \/ HandleExec(h)
          \/ HandleReboot(h) \/ HandleUnknown(h)
          \/ Refuse(h, "LOAD") \/ Refuse(h, "ZERO")
    BY <1>1 DEF Handle
  <2>2. CASE HandleLoad(h)
    <3>1. mode' = "payload"
      BY <2>2 DEF HandleLoad
    <3> QED BY <1>1, <2>2, <3>1
  <2>3. CASE HandleExec(h)
    <3>1. mode' = "exec"
      BY <2>3 DEF HandleExec
    <3> QED BY <1>1, <2>3, <3>1
  <2>4. CASE ~ HandleLoad(h) /\ ~ HandleExec(h)
    <3>1. mode' \in {"hdr", "delay"}
      BY <1>1, <2>1, <2>4 DEF HandlePing, HandleZero, HandleReboot, HandleUnknown, Refuse
    <3> QED BY <3>1
  <2> QED BY <2>2, <2>3, <2>4
<1>2. CASE KReadHdr \/ KReadPayload \/ CheckCrc \/ DrainAndReport
  BY <1>2 DEF KReadHdr, KReadPayload, CheckCrc, DrainAndReport
<1>3. CASE Startup \/ KMain \/ WdogFire \/ PowerCycle \/ Derail
  BY <1>3 DEF Startup, KMain, WdogFire, PowerCycle, Reset, Derail
<1>4. CASE Kernel
  BY <1>4 DEF Kernel, StartKernel, KernelReturn, KernelTrash, KernelDisarm,
              KernelPrint, loaderVars
<1>5. CASE Link
  BY <1>5 DEF Link, Arrive, Deliver, MissUnit, Garble, MissResponse, loaderVars
<1> QED BY <1>1, <1>2, <1>3, <1>4, <1>5 DEF LoaderStep, Commands

\* A payload in progress: each unit is counted once.
LEMMA PayloadGoesOn ==
  ASSUME TypeOK, LoaderStep, mode = "payload", mode' = "payload"
  PROVE  hdr' = hdr /\ ToCome' <= ToCome /\ ToCome \in Nat /\ ToCome' \in Nat
<1>0. fifo \in Seq(Unit) /\ line \in Seq(Unit) /\ off \in Nat
  BY DEF TypeOK
<1>1. Len(fifo) \in Nat /\ Len(line) \in Nat
  BY <1>0, LenProperties
<1>2. fifo # <<>> => Len(Tail(fifo)) = Len(fifo) - 1 /\ Len(fifo) > 0
  BY <1>0, HeadTailProperties, EmptySeq
<1>3. line # <<>> => /\ Len(Tail(line)) = Len(line) - 1 /\ Len(line) > 0
                     /\ Len(Append(fifo, Head(line))) = Len(fifo) + 1
  <2> SUFFICES ASSUME line # <<>>
               PROVE  /\ Len(Tail(line)) = Len(line) - 1 /\ Len(line) > 0
                      /\ Len(Append(fifo, Head(line))) = Len(fifo) + 1
    OBVIOUS
  <2>1. Len(Tail(line)) = Len(line) - 1 /\ Head(line) \in Unit
    BY <1>0, HeadTailProperties
  <2>2. Len(line) > 0
    BY <1>0, EmptySeq
  <2>3. Len(Append(fifo, Head(line))) = Len(fifo) + 1
    BY <1>0, <2>1, AppendProperties
  <2> QED BY <2>1, <2>2, <2>3
<1>4. CASE KReadPayload
  BY <1>0, <1>1, <1>2, <1>4 DEF KReadPayload, ToCome
<1>5. CASE Arrive
  <2>1. hdr' = hdr /\ off' = off /\ line # <<>> /\ line' = Tail(line)
        /\ fifo' = Append(fifo, Head(line))
    BY <1>5 DEF Arrive
  <2>2. Len(line') = Len(line) - 1 /\ Len(line) > 0 /\ Len(fifo') = Len(fifo) + 1
    BY <1>3, <2>1
  <2> QED BY <1>0, <1>1, <2>1, <2>2 DEF ToCome
<1>6. CASE Deliver \/ MissResponse
  BY <1>0, <1>1, <1>6 DEF Deliver, MissResponse, loaderVars, ToCome
<1>7. CASE MissUnit
  BY <1>0, <1>1, <1>3, <1>7 DEF MissUnit, loaderVars, ToCome
<1>8. CASE Garble
  <2>1. Len(<<[Head(line) EXCEPT !.k = 0]>> \o Tail(line)) = Len(line) /\ line # <<>>
    <3> DEFINE v == [Head(line) EXCEPT !.k = 0]
               g == <<v>>
               l == Tail(line)
    <3>1. line # <<>>
      BY <1>8 DEF Garble
    <3>2. l \in Seq(Unit) /\ Len(l) = Len(line) - 1 /\ Head(line) \in Unit
      BY <1>0, <3>1, HeadTailProperties
    <3>3. v \in [pkt : Packets, k : Nat]
      BY <3>2 DEF Unit
    <3>4. l \in Seq([pkt : Packets, k : Nat])
      <4>1. Unit \subseteq [pkt : Packets, k : Nat]
        BY DEF Unit
      <4> QED BY <3>2, <4>1, SeqMonotonic
    <3> HIDE DEF v, l
    <3>5. g \in Seq([pkt : Packets, k : Nat]) /\ Len(g) = 1
      BY <3>3
    <3> HIDE DEF g
    <3>6. Len(g \o l) = Len(g) + Len(l)
      BY <3>4, <3>5, ConcatProperties
    <3> QED BY <1>1, <3>1, <3>2, <3>5, <3>6 DEF g, l, v
  <2>2. hdr' = hdr /\ off' = off /\ fifo' = fifo
        /\ line' = <<[Head(line) EXCEPT !.k = 0]>> \o Tail(line)
    BY <1>8 DEF Garble, loaderVars
  <2> QED BY <1>0, <1>1, <2>1, <2>2 DEF ToCome
<1>9. CASE Startup \/ KMain \/ WdogFire \/ PowerCycle \/ Derail \/ Kernel
  BY <1>9 DEF Startup, KMain, WdogFire, PowerCycle, Reset, Derail,
              Kernel, StartKernel, KernelReturn, KernelTrash, KernelDisarm, KernelPrint
<1>10. CASE KReadHdr \/ CheckCrc \/ DrainAndReport
  BY <1>10 DEF KReadHdr, CheckCrc, DrainAndReport
<1> QED BY <1>4, <1>5, <1>6, <1>7, <1>8, <1>9, <1>10 DEF LoaderStep, Commands, Link

\* With nothing on its way and nothing begun, the board stays as it is, but for
\* resets and its program.
LEMMA EmptyStays ==
  ASSUME TypeOK, LoaderStep, buf = <<>>, fifo = <<>>, line = <<>>,
         mode \notin {"payload", "delay"}
  PROVE  /\ buf' = <<>> /\ fifo' = <<>> /\ line' = <<>> /\ hdr' = hdr
         /\ mode' \notin {"payload", "delay"}
         /\ mode' \in {"exec", "kernel"} => mode \in {"exec", "kernel"}
         /\ mem' = mem \/ mode \in {"boot", "kernel"}
         /\ ~ Acks
<1>1. Len(buf) # HdrLen
  BY LayoutAssumption
<1>2. ~ Acks
  BY <1>1 DEF Acks, CheckCrc
<1>3. CASE KReadHdr \/ KReadPayload \/ CheckCrc \/ DrainAndReport
  BY <1>2, <1>3 DEF KReadHdr, KReadPayload, CheckCrc, DrainAndReport
<1>4. CASE Startup \/ KMain \/ WdogFire \/ PowerCycle \/ Derail
  BY <1>2, <1>4 DEF Startup, KMain, WdogFire, PowerCycle, Reset, Derail, linkVars
<1>5. CASE Kernel
  BY <1>2, <1>5 DEF Kernel, StartKernel, KernelReturn, KernelTrash, KernelDisarm,
              KernelPrint, Respond, loaderVars, linkVars
<1>6. CASE Link
  BY <1>2, <1>6 DEF Link, Arrive, Deliver, MissUnit, Garble, MissResponse, loaderVars
<1> QED BY <1>1, <1>2, <1>3, <1>4, <1>5, <1>6 DEF LoaderStep, Commands

\* While a program runs, nothing but what it prints is added to the answers.
LEMMA KernelAnswers ==
  ASSUME TypeOK, LoaderStep, mode' = "kernel", mode = "kernel" => ~ AckIn(tx)
  PROVE  ~ AckIn(tx')
<1>0. tx \in Seq(Response)
  BY DEF TypeOK
<1>1. CASE StartKernel
  BY <1>1 DEF StartKernel, AckIn
<1>2. CASE KernelPrint
  <2> DEFINE r == Rsp("TEXT", "none")
  <2>1. r \in Response /\ r.code # "ACK"
    BY DEF Rsp, Response
  <2>2. tx' = Append(tx, r) /\ mode = "kernel"
    BY <1>2 DEF KernelPrint, Respond
  <2> HIDE DEF r
  <2> QED BY <1>0, <2>1, <2>2, AppendKeeps
<1>3. CASE Deliver \/ MissResponse
  <2>1. tx # <<>> /\ tx' = Tail(tx) /\ mode = "kernel"
    BY <1>3 DEF Deliver, MissResponse, loaderVars
  <2>2. Len(tx') = Len(tx) - 1 /\ Len(tx) \in Nat
    BY <1>0, <2>1, HeadTailProperties, LenProperties
  <2>3. \A i \in 1 .. Len(tx') : tx'[i] = tx[i + 1]
    BY <1>0, <2>1, HeadTailProperties
  <2>4. \A i \in 1 .. Len(tx') : i + 1 \in 1 .. Len(tx)
    BY <2>2
  <2> QED BY <2>1, <2>3, <2>4 DEF AckIn
<1>4. CASE ~ StartKernel /\ ~ KernelPrint /\ ~ Deliver /\ ~ MissResponse
  <2>1. mode = "kernel" /\ tx' = tx
    <3>1. CASE mode = "hdr" /\ Handle
      BY <3>1, HandleMoves
    <3>2. CASE KReadHdr \/ KReadPayload \/ CheckCrc \/ DrainAndReport
      BY <3>2 DEF KReadHdr, KReadPayload, CheckCrc, DrainAndReport
    <3>3. CASE Startup \/ KMain \/ WdogFire \/ PowerCycle \/ Derail
      BY <3>3 DEF Startup, KMain, WdogFire, PowerCycle, Reset, Derail, linkVars
    <3>4. CASE Kernel
      BY <1>4, <3>4 DEF Kernel, KernelReturn, KernelTrash, KernelDisarm, linkVars
    <3>5. CASE Link
      BY <1>4, <3>5 DEF Link, Arrive, MissUnit, Garble, loaderVars
    <3> QED BY <3>1, <3>2, <3>3, <3>4, <3>5 DEF LoaderStep, Commands
  <2> QED BY <2>1
<1> QED BY <1>1, <1>2, <1>3, <1>4

-----------------------------------------------------------------------------
(* The board obeys the packet that is on its way *)

LEMMA WrittenType ==
  ASSUME ClientTypeOK, cli \in {"data", "ack"}
  PROVE  /\ job[cur] \in Packets /\ Written \in Nat
         /\ Len(job[cur].data) \in Nat /\ Written <= Len(job[cur].data)
         /\ job[cur].type # "LOAD" => Written = 0
<1>1. job[cur] \in Packets
  BY JobType
<1>2. Len(job[cur].data) \in Nat
  BY <1>1, PacketType
<1> QED BY <1>1, <1>2 DEF Written

LEMMA HeaderIsOwn ==
  ASSUME ClientTypeOK, OneHeader, PacketInv, cli \in {"data", "ack"},
         mode = "hdr", Len(buf) = HdrLen,
         NEW h \in Decode(buf), h.type \notin {"PING", "UNKNOWN"}
  PROVE  /\ h.type = job[cur].type /\ h.crc \in {job[cur].data, NoCrc}
         /\ Len(fifo) + Len(line) <= Written /\ Len(fifo) \in Nat /\ Len(line) \in Nat
         /\ ~ AckIn(Answers) /\ ~ AllTame(Stream) /\ AllTame(<<>> \o fifo \o line)
         /\ h.type # "LOAD" => fifo = <<>> /\ line = <<>> /\ cli = "ack"
<1>0. TypeOK /\ HdrLen \in Nat /\ HdrLen >= 2 /\ Written \in Nat
  BY LayoutAssumption, WrittenType DEF ClientTypeOK
<1>1. /\ Len(Stream) = HdrLen + Len(fifo) + Len(line)
      /\ Len(fifo) \in Nat /\ Len(line) \in Nat
  BY <1>0, HeaderTaken
<1>2. 1 \in 1 .. Len(Stream) /\ ~ Tame(Stream[1])
  BY <1>0, HeaderTaken
<1>3. h.type = Stream[1].pkt.type /\ h.crc \in {Stream[1].pkt.data, NoCrc}
  BY <1>0, HeaderTaken
<1>4. AllTame(<<>> \o fifo \o line)
  BY <1>0, HeaderTaken DEF OneHeader
<1>5. Stream[1].pkt = job[cur] /\ Len(Stream) - 1 <= HdrLen - 1 + Written
  BY <1>2 DEF PacketInv, OnItsWay, Own
<1>6. Len(fifo) + Len(line) <= Written
  BY <1>0, <1>1, <1>5
<1>7. ~ AckIn(Answers)
  <2>1. buf # <<>>
    BY <1>0
  <2> QED BY <2>1 DEF PacketInv, Answered
<1>8. ~ AllTame(Stream)
  BY <1>2 DEF AllTame
<1>9. ASSUME h.type # "LOAD" PROVE fifo = <<>> /\ line = <<>> /\ cli = "ack"
  <2>1. Written = 0
    BY <1>3, <1>5, <1>9, WrittenType
  <2>2. Len(fifo) = 0 /\ Len(line) = 0
    BY <1>1, <1>6, <2>1
  <2>3. fifo = <<>> /\ line = <<>>
    <3>1. fifo \in Seq(Unit) /\ line \in Seq(Unit)
      BY <1>0 DEF TypeOK
    <3> QED BY <2>2, <3>1, EmptySeq
  <2>4. cli = "ack"
    BY <1>3, <1>5, <1>9 DEF PacketInv, OnItsWay
  <2> QED BY <2>3, <2>4
<1> QED BY <1>1, <1>3, <1>4, <1>5, <1>6, <1>7, <1>8, <1>9

\* A payload whose checksum is right is all of the packet's.
LEMMA PayloadDone ==
  ASSUME ClientTypeOK, PacketInv, cli \in {"data", "ack"}, CheckCrc, Loaded(hdr) = hdr.crc
  PROVE  /\ hdr.crc = job[cur].data /\ hdr.size = Len(job[cur].data)
         /\ job[cur].type = "LOAD" /\ fifo = <<>> /\ line = <<>>
         /\ cli = "data" => Len(job[cur].data) = 0
         /\ ToCome = Len(job[cur].data) /\ Written = Len(job[cur].data)
<1>0. TypeOK /\ hdr \in Header /\ hdr.size \in Nat /\ hdr.address \in Addr
      /\ AddrSpace \in Nat /\ AddrSpace > 0
  <2>1. TypeOK
    BY DEF ClientTypeOK
  <2>2. hdr \in Header
    BY <2>1 DEF TypeOK
  <2>3. AddrSpace \in Nat /\ AddrSpace > 0
    BY LayoutAssumption
  <2>4. hdr.size \in Nat /\ hdr.address \in Addr
    BY <2>2, <2>3 DEF Header, Addr
  <2> QED BY <2>1, <2>2, <2>3, <2>4
<1>1. mode = "payload" /\ off = hdr.size
  BY DEF CheckCrc
<1>2. job[cur].type = "LOAD" /\ hdr.crc \in {job[cur].data, NoCrc} /\ ToCome <= Written
  BY <1>1 DEF PacketInv, Working
<1>3. hdr.crc # NoCrc
  <2> SUFFICES ASSUME hdr.crc = NoCrc PROVE FALSE
    OBVIOUS
  <2> DEFINE l == Loaded(hdr)
  <2>1. DOMAIN l = 1 .. hdr.size /\ \A i \in 1 .. hdr.size : l[i] = mem[Plus(hdr.address, i - 1)]
    BY DEF Loaded
  <2>2. l = NoCrc /\ DOMAIN NoCrc = 1 .. 1 /\ NoCrc[1] = "nocrc"
    BY DEF NoCrc
  <2> HIDE DEF l
  <2>3. 1 \in 1 .. hdr.size
    BY <1>0, <2>1, <2>2, SMTT(30)
  <2>4. mem[Plus(hdr.address, 1 - 1)] = "nocrc"
    BY <2>1, <2>2, <2>3
  <2>5. Plus(hdr.address, 1 - 1) \in Addr
    BY <1>0, PlusType
  <2>6. mem[Plus(hdr.address, 1 - 1)] \in Value
    BY <1>0, <2>5 DEF TypeOK
  <2> QED BY <2>4, <2>6, DataAssumption DEF Value
<1>4. hdr.crc = job[cur].data
  BY <1>2, <1>3
<1>5. job[cur] \in Packets /\ Written \in Nat /\ Len(job[cur].data) \in Nat
      /\ Written <= Len(job[cur].data)
  BY WrittenType
<1>6. hdr.size = Len(job[cur].data)
  <2>1. DOMAIN Loaded(hdr) = 1 .. hdr.size
    BY DEF Loaded
  <2>2. job[cur].data \in Seq(Data)
    BY <1>5, PacketType
  <2>3. DOMAIN job[cur].data = 1 .. Len(job[cur].data)
    BY <2>2, LenProperties
  <2>4. 1 .. hdr.size = 1 .. Len(job[cur].data)
    BY <1>4, <2>1, <2>3
  <2> QED BY <1>0, <1>5, <2>4
<1>7. Len(fifo) \in Nat /\ Len(line) \in Nat /\ fifo \in Seq(Unit) /\ line \in Seq(Unit)
  BY <1>0, LenProperties DEF TypeOK
<1>8. ToCome = Len(job[cur].data) + Len(fifo) + Len(line)
  BY <1>1, <1>6 DEF ToCome
<1>9. Len(fifo) = 0 /\ Len(line) = 0 /\ Written = Len(job[cur].data)
  BY <1>2, <1>5, <1>7, <1>8
<1>10. fifo = <<>> /\ line = <<>>
  BY <1>7, <1>9, EmptySeq
<1>11. cli = "data" => Len(job[cur].data) = 0
  BY <1>9 DEF Written
<1> QED BY <1>2, <1>4, <1>5, <1>6, <1>8, <1>9, <1>10, <1>11

\* What follows an acknowledgement: nothing is left on the way to the board.
LEMMA AcksEmpty ==
  ASSUME ClientTypeOK, AtRest, OneHeader, PacketInv, cli \in {"data", "ack"},
         LoaderStep, Acks
  PROVE  /\ ~ AckIn(Answers)
         /\ buf' = <<>> /\ fifo' = <<>> /\ line' = <<>> /\ mode' \in {"hdr", "exec"}
         /\ cli = "data" => Len(job[cur].data) = 0
<1>1. CASE CheckCrc /\ Loaded(hdr) = hdr.crc
  <2>1. fifo = <<>> /\ line = <<>> /\ (cli = "data" => Len(job[cur].data) = 0)
    BY <1>1, PayloadDone
  <2>2. mode = "payload" /\ mode' = "hdr" /\ buf' = buf /\ fifo' = fifo /\ line' = line
    BY <1>1 DEF CheckCrc, Respond
  <2>3. buf = <<>> /\ ~ AckIn(Answers)
    BY <2>2 DEF AtRest, PacketInv, Answered
  <2> QED BY <2>1, <2>2, <2>3
<1>2. ASSUME mode = "hdr", Len(buf) = HdrLen, NEW h \in Decode(buf),
             HandleZero(h) \/ HandleExec(h) \/ HandleReboot(h)
      PROVE  /\ ~ AckIn(Answers)
             /\ buf' = <<>> /\ fifo' = <<>> /\ line' = <<>> /\ mode' \in {"hdr", "exec"}
             /\ cli = "data" => Len(job[cur].data) = 0
  <2>1. h.type \in {"ZERO", "EXEC", "REBOOT"}
    BY <1>2 DEF HandleZero, HandleExec, HandleReboot, Received
  <2>2. fifo = <<>> /\ line = <<>> /\ cli = "ack" /\ ~ AckIn(Answers)
    BY <1>2, <2>1, HeaderIsOwn
  <2>3. buf' = <<>> /\ fifo' = fifo /\ line' = line /\ mode' \in {"hdr", "exec"}
    BY <1>2 DEF HandleZero, HandleExec, HandleReboot, Received, Respond
  <2> QED BY <2>2, <2>3
<1> QED BY <1>1, <1>2 DEF Acks

LEMMA PacketBoardStep ==
  ASSUME ClientTypeOK, AtRest, OneHeader, PacketInv, cli \in {"data", "ack"},
         LoaderStep, UNCHANGED clientVars
  PROVE  PacketInv'
<1>0. /\ TypeOK /\ TypeOK' /\ HdrLen \in Nat /\ HdrLen >= 2
      /\ Written \in Nat /\ faults \in Nat
  <2>1. TypeOK
    BY DEF ClientTypeOK
  <2>2. TypeOK'
    BY <2>1, BoardTypeStep
  <2>3. faults \in Nat
    BY <2>1, BoardAssumption DEF TypeOK
  <2> QED BY <2>1, <2>2, <2>3, LayoutAssumption, WrittenType
<1>1. cli' = cli /\ job' = job /\ cur' = cur /\ Written' = Written
  BY DEF clientVars, Written
<1>a. Answers \in Seq(Response) /\ Answers' \in Seq(Response)
  <2>1. inbox' \in Seq(Response) /\ tx' \in Seq(Response)
    BY <1>0 DEF TypeOK
  <2>2. inbox' \o tx' \in Seq(Response)
    BY <2>1, ConcatProperties
  <2> QED BY <1>0, <2>2, AnswersType DEF Answers
<1>2. OnItsWay'
  <2>1. PICK m \in Nat, d \in Nat : Shrinks(Stream, Stream', m, d)
    BY <1>0, StreamStep
  <2>2. Stream \in Seq(Unit) /\ Stream' \in Seq(Unit)
    BY <1>0, StreamType, StreamTypeNext
  <2>3. Own(Stream, job[cur], Written)
    BY DEF PacketInv, OnItsWay
  <2>4. Own(Stream', job[cur], Written)
    BY <1>0, <2>1, <2>2, <2>3, ShrinkKeeps
  <2> QED BY <1>1, <2>4 DEF PacketInv, OnItsWay
<1>3. CASE mode \in {"exec", "kernel"} \/ AckIn(Answers)
  <2>1. buf = <<>> /\ fifo = <<>> /\ line = <<>> /\ mode \notin {"payload", "delay"}
    BY <1>3 DEF PacketInv, Working, Answered, AtRest
  <2>2. /\ buf' = <<>> /\ fifo' = <<>> /\ line' = <<>>
        /\ mode' \notin {"payload", "delay"}
        /\ mode' \in {"exec", "kernel"} => mode \in {"exec", "kernel"}
        /\ ~ Acks
    BY <1>0, <2>1, EmptyStays
  <2>3. Working'
    <3>1. mode' = "kernel" => ~ AckIn(tx')
      BY <1>0, KernelAnswers DEF PacketInv, Working
    <3>2. mode' \in {"exec", "kernel"} => job[cur].type = "EXEC"
      BY <2>2 DEF PacketInv, Working
    <3> QED BY <1>1, <2>2, <3>1, <3>2 DEF Working
  <2>4. \/ Answers' = Answers
        \/ /\ \E m \in Nat, d \in Nat : Loses(Answers, Answers', m, d)
           /\ mode' = "boot" \/ faults' = faults + 1
        \/ /\ mode = "kernel" /\ inbox = <<>>
           /\ \E r \in Response : Answers' = Append(Answers, r) /\ r.code # "ACK"
    <3>1. Len(buf) # HdrLen
      BY <1>0, <2>1
    <3> QED BY <1>0, <2>1, <2>2, <3>1, AnswersStep
  <2>5. CASE AckIn(Answers)
    <3>1. ~ (mode = "kernel" /\ inbox = <<>>)
      <4> SUFFICES ASSUME mode = "kernel", inbox = <<>> PROVE FALSE
        OBVIOUS
      <4>1. ~ AckIn(inbox)
        BY EmptySeq DEF AckIn
      <4>2. ~ AckIn(tx)
        BY DEF PacketInv, Working
      <4> QED BY <1>0, <2>5, <4>1, <4>2, AckInParts
    <3>2. AckLast(Answers) /\ (cli = "data" => Len(job[cur].data) = 0)
      BY <2>5 DEF PacketInv, Answered
    <3>3. AckLast(Answers')
      BY <1>a, <2>4, <3>1, <3>2, LosesKeeps
    <3>4. Answered'
      BY <1>1, <2>2, <3>2, <3>3 DEF Answered
    <3>5. StartAnswered'
      <4> SUFFICES ASSUME faults' = 0, mode' \in {"exec", "kernel"}
                   PROVE  AckIn(Answers')
        BY DEF StartAnswered
      <4>1. Answers' = Answers
        BY <1>0, <2>4, <3>1
      <4> QED BY <2>5, <4>1
    <3> QED BY <1>1, <1>2, <2>3, <3>4, <3>5 DEF PacketInv
  <2>6. CASE ~ AckIn(Answers)
    <3>1. ~ AckIn(Answers')
      BY <1>a, <2>4, <2>6, LosesKeeps, AppendKeeps
    <3>2. Answered'
      BY <3>1 DEF Answered
    <3>3. StartAnswered'
      <4> SUFFICES ASSUME faults' = 0, cli = "ack", mode' \in {"exec", "kernel"}
                   PROVE  FALSE
        BY <1>1 DEF StartAnswered
      <4>1. faults # 0
        BY <2>2, <2>6 DEF PacketInv, StartAnswered
      <4>2. faults' >= faults
        <5>1. mode = "hdr" /\ Handle => faults' = faults
          BY HandleMoves
        <5>2. mode' # "boot"
          OBVIOUS
        <5> QED BY <1>0, <5>1, <5>2
            DEF LoaderStep, Startup, KMain, WdogFire, PowerCycle, Reset, Derail, Commands,
                KReadHdr, KReadPayload, CheckCrc, DrainAndReport, Respond,
                Kernel, StartKernel, KernelReturn, KernelTrash, KernelDisarm, KernelPrint,
                Link, Arrive, Deliver, MissUnit, Garble, MissResponse, linkVars
      <4> QED BY <1>0, <4>1, <4>2
    <3> QED BY <1>1, <1>2, <2>3, <3>2, <3>3 DEF PacketInv
  <2> QED BY <2>5, <2>6
<1>4. CASE mode \notin {"exec", "kernel"} /\ ~ AckIn(Answers)
  <2>1. Working'
    <3>1. mode' # "kernel"
      BY <1>4, ModeStep
    <3>2. ASSUME mode' = "payload"
          PROVE  /\ job[cur].type = "LOAD" /\ hdr'.crc \in {job[cur].data, NoCrc}
                 /\ ToCome' <= Written
      <4>1. CASE mode = "payload"
        <5>1. /\ job[cur].type = "LOAD" /\ hdr.crc \in {job[cur].data, NoCrc}
              /\ ToCome <= Written
          BY <4>1 DEF PacketInv, Working
        <5>2. hdr' = hdr /\ ToCome' <= ToCome /\ ToCome \in Nat /\ ToCome' \in Nat
          BY <1>0, <3>2, <4>1, PayloadGoesOn
        <5> QED BY <1>0, <5>1, <5>2
      <4>2. CASE mode # "payload"
        <5>1. mode = "hdr" /\ Len(buf) = HdrLen
          BY <3>2, <4>2, ModeStep
        <5>2. PICK h \in Decode(buf) : HandleLoad(h)
          BY <3>2, <4>2, ModeStep
        <5>3. h.type = "LOAD" /\ hdr' = h /\ off' = 0 /\ fifo' = fifo /\ line' = line
          BY <5>2 DEF HandleLoad, Received, linkVars
        <5>4. /\ h.type = job[cur].type /\ h.crc \in {job[cur].data, NoCrc}
              /\ Len(fifo) + Len(line) <= Written /\ Len(fifo) \in Nat /\ Len(line) \in Nat
          BY <5>1, <5>3, HeaderIsOwn
        <5>5. ToCome' = 0 + Len(fifo) + Len(line)
          BY <5>3 DEF ToCome
        <5> QED BY <1>0, <5>3, <5>4, <5>5
      <4> QED BY <4>1, <4>2
    <3>3. ASSUME mode' = "exec"
          PROVE  job[cur].type = "EXEC" /\ fifo' = <<>> /\ line' = <<>>
      <4>1. mode = "hdr" /\ Len(buf) = HdrLen
        BY <1>4, <3>3, ModeStep
      <4>2. PICK h \in Decode(buf) : HandleExec(h)
        BY <1>4, <3>3, ModeStep
      <4>3. h.type = "EXEC" /\ fifo' = fifo /\ line' = line
        BY <4>2 DEF HandleExec, Received, Respond
      <4>4. h.type = job[cur].type /\ fifo = <<>> /\ line = <<>>
        BY <4>1, <4>3, HeaderIsOwn
      <4> QED BY <4>3, <4>4
    <3> QED BY <1>1, <3>1, <3>2, <3>3 DEF Working
  <2>2. ASSUME AckIn(Answers') PROVE Acks /\ AckLast(Answers')
    <3>1. PICK r \in Response : Answers' = Append(Answers, r) /\ (r.code = "ACK" => Acks)
      BY <1>0, <1>4, <1>a, <2>2, AnswersStep, LosesKeeps
    <3>2. r.code = "ACK" /\ AckLast(Answers')
      BY <1>4, <1>a, <2>2, <3>1, AppendKeeps
    <3> QED BY <3>1, <3>2
  <2>3. Answered'
    <3> SUFFICES ASSUME AckIn(Answers')
                 PROVE  /\ buf' = <<>> /\ fifo' = <<>> /\ line' = <<>>
                        /\ mode' \notin {"payload", "delay"}
                        /\ cli = "data" => Len(job[cur].data) = 0
                        /\ AckLast(Answers')
      BY <1>1 DEF Answered
    <3> QED BY <2>2, AcksEmpty
  <2>4. StartAnswered'
    <3> SUFFICES ASSUME mode' \in {"exec", "kernel"} PROVE AckIn(Answers')
      BY DEF StartAnswered
    <3>1. PICK h \in Decode(buf) : HandleExec(h)
      BY <1>4, ModeStep
    <3> DEFINE r == Rsp("ACK", "none")
    <3>2. r \in Response /\ r.code = "ACK"
      BY DEF Rsp, Response
    <3>3. inbox' = inbox /\ tx' = Append(tx, r)
      BY <3>1 DEF HandleExec, Respond
    <3> HIDE DEF r
    <3>4. Answers' = Append(Answers, r)
      BY <1>0, <3>2, <3>3, AnswerMoves DEF Answers, TypeOK
    <3> QED BY <1>a, <3>2, <3>4, AppendKeeps
  <2> QED BY <1>1, <1>2, <2>1, <2>3, <2>4 DEF PacketInv
<1> QED BY <1>3, <1>4

-----------------------------------------------------------------------------
(* One header at a time *)

\* No first unit is behind the command that the loader begins to work on.
LEMMA OneHeaderBoardStep ==
  ASSUME TypeOK, AtRest, OneHeader, LoaderStep
  PROVE  OneHeader'
<1>0. TypeOK'
  BY BoardTypeStep
<1>1. PICK m \in Nat, d \in Nat : Shrinks(Stream, Stream', m, d)
  BY StreamStep
<1>2. Stream \in Seq(Unit) /\ Stream' \in Seq(Unit)
  BY <1>0, StreamType, StreamTypeNext
<1>3. OneFirst(Stream) /\ (mode \in Busy => AllTame(Stream))
  BY DEF OneHeader
<1>4. OneFirst(Stream')
  BY <1>1, <1>2, <1>3, ShrinkKeeps
<1>5. ASSUME mode' \in Busy PROVE AllTame(Stream')
  <2>1. CASE mode \in Busy
    BY <1>1, <1>2, <1>3, <2>1, ShrinkKeeps
  <2>2. CASE mode \notin Busy
    <3>1. mode = "hdr" /\ Len(buf) = HdrLen
      BY <1>5, <2>2, ModeStep DEF Busy
    <3>2. \E h \in Decode(buf) : HandleLoad(h) \/ HandleExec(h)
      BY <1>5, <2>2, ModeStep DEF Busy
    <3>3. PICK h \in Decode(buf) : HandleLoad(h) \/ HandleExec(h)
      BY <3>2
    <3>4. /\ h.type \in {"LOAD", "EXEC"} /\ buf' = <<>> /\ fifo' = fifo /\ line' = line
          /\ mode' # "hung"
      BY <3>3 DEF HandleLoad, HandleExec, Received, Respond, linkVars
    <3>5. AllTame(<<>> \o fifo \o line)
      BY <1>3, <3>1, <3>4, HeaderTaken
    <3>6. Stream' = <<>> \o fifo \o line
      BY <3>4 DEF Stream, InBuf, InFifo
    <3> QED BY <3>5, <3>6
  <2> QED BY <2>1, <2>2
<1> QED BY <1>4, <1>5 DEF OneHeader

\* What a session is when it writes: ClientTypeOK has the packet.
LEMMA SessionType ==
  ASSUME ClientTypeOK
  PROVE  /\ TypeOK /\ cur \in Nat /\ cur >= 1 /\ Len(job) \in Nat
         /\ cli \in {"send", "data", "ack"} =>
              /\ cur \in 1 .. Len(job) /\ job[cur] \in Packets
              /\ job[cur].type \in {"LOAD", "ZERO", "EXEC", "REBOOT"}
              /\ job[cur].type \in {"EXEC", "REBOOT"} => cur = Len(job)
<1>1. TypeOK
  BY DEF ClientTypeOK
<1>2. job \in Seq(Packets)
  BY JobsAssumption, EmptySeq DEF ClientTypeOK
<1>3. cur \in Nat /\ cur >= 1 /\ Len(job) \in Nat
  BY <1>2, LenProperties DEF ClientTypeOK
<1>4. ASSUME cli \in {"send", "data", "ack"}
      PROVE  cur \in 1 .. Len(job) /\ job \in Jobs
  <2>1. cur \in 1 .. Len(job)
    BY <1>4 DEF ClientTypeOK
  <2>2. job # <<>>
    BY <2>1, EmptySeq
  <2> QED BY <2>1, <2>2 DEF ClientTypeOK
<1> QED BY <1>1, <1>2, <1>3, <1>4, ElementOfSeq, JobsAssumption

LEMMA OneHeaderStep ==
  ASSUME ClientTypeOK, AtRest, OneHeader, Ready, [Next]_vars
  PROVE  OneHeader'
<1>0. TypeOK /\ Stream \in Seq(Unit)
  BY SessionType, StreamType
<1>1. ASSUME NEW u \in Seq(Unit), AllTame(u), Write(u), UNCHANGED loaderVars
      PROVE  OneHeader'
  <2>1. Stream' = Stream \o u
    BY <1>0, <1>1, WriteStep
  <2>2. mode' = mode
    BY <1>1 DEF loaderVars
  <2> QED BY <1>0, <1>1, <2>1, <2>2, JoinTame DEF OneHeader
<1>2. CASE BoardStep
  BY <1>0, <1>2, OneHeaderBoardStep DEF BoardStep
<1>3. CASE SendPing
  <2>1. PingPacket \in Packets /\ PingPacket.type = "PING"
    BY PingAssumption DEF PingPacket
  <2>2. HeaderUnits(PingPacket) \in Seq(Unit) /\ AllTame(HeaderUnits(PingPacket))
    BY <2>1, UnitsWritten, TameWrites
  <2> QED BY <1>1, <1>3, <2>2 DEF SendPing
<1>4. CASE SendHeader
  <2>1. cli = "send" /\ job[cur] \in Packets
    BY <1>4, SessionType DEF SendHeader
  <2>2. AllTame(Stream) /\ mode \notin Busy
    BY <2>1 DEF Ready
  <2>3. HeaderUnits(job[cur]) \in Seq(Unit)
    BY <2>1, UnitsWritten
  <2>4. Stream' = Stream \o HeaderUnits(job[cur]) /\ mode' = mode
    BY <1>0, <1>4, <2>3, WriteStep DEF SendHeader, loaderVars
  <2>5. OneFirst(Stream')
    BY <1>0, <2>1, <2>2, <2>4, JoinHeader
  <2> QED BY <2>2, <2>4, <2>5 DEF OneHeader
<1>5. CASE SendPayload
  <2>1. job[cur] \in Packets
    BY <1>5, SessionType DEF SendPayload
  <2>2. PayloadUnits(job[cur]) \in Seq(Unit) /\ AllTame(PayloadUnits(job[cur]))
    BY <2>1, UnitsWritten, TameWrites
  <2> QED BY <1>1, <1>5, <2>2 DEF SendPayload
<1>6. CASE RecvReady \/ RecvAck
  <2>1. PICK rsp : Read(rsp) /\ UNCHANGED loaderVars
    BY <1>6 DEF RecvReady, RecvAck
  <2>2. Stream' = Stream /\ mode' = mode
    BY <1>0, <2>1, ReadStep DEF loaderVars
  <2> QED BY <2>2 DEF OneHeader
<1>7. CASE Kill
  <2>1. CASE UNCHANGED linkVars
    <3>1. Stream' = Stream /\ mode' = mode
      BY <1>7, <2>1 DEF Kill, loaderVars, linkVars, Stream, InBuf, InFifo
    <3> QED BY <3>1 DEF OneHeader
  <2>2. CASE cli = "data" /\ \E n \in 1 .. Len(job[cur].data) :
                               Write(SubSeq(PayloadUnits(job[cur]), 1, n))
    <3>1. job[cur] \in Packets
      BY <2>2, SessionType
    <3>2. PICK n \in 1 .. Len(job[cur].data) : Write(SubSeq(PayloadUnits(job[cur]), 1, n))
      BY <2>2
    <3>3. /\ SubSeq(PayloadUnits(job[cur]), 1, n) \in Seq(Unit)
          /\ AllTame(SubSeq(PayloadUnits(job[cur]), 1, n))
      BY <3>1, TameWrites
    <3> QED BY <1>1, <1>7, <3>2, <3>3 DEF Kill
  <2> QED BY <1>7, <2>1, <2>2 DEF Kill
<1>8. CASE (\E j \in Jobs : StartSession(j)) \/ UNCHANGED vars
  <2>1. Stream' = Stream /\ mode' = mode
    BY <1>8 DEF StartSession, vars, boardVars, loaderVars, linkVars, Stream, InBuf, InFifo
  <2> QED BY <2>1 DEF OneHeader
<1> QED BY <1>2, <1>3, <1>4, <1>5, <1>6, <1>7, <1>8 DEF Next, ClientStep

-----------------------------------------------------------------------------
(* Making contact *)

LEMMA TameParts ==
  ASSUME NEW s \in Seq(Unit), AllTame(s)
  PROVE  /\ s # <<>> => /\ Tame(Head(s)) /\ AllTame(Tail(s))
                        /\ AllTame(<<[Head(s) EXCEPT !.k = 0]>> \o Tail(s))
         /\ \A u \in Unit : Tame(u) => AllTame(Append(s, u))
<1>1. ASSUME s # <<>>
      PROVE  /\ Tame(Head(s)) /\ AllTame(Tail(s))
             /\ AllTame(<<[Head(s) EXCEPT !.k = 0]>> \o Tail(s))
  <2>1. /\ Head(s) = s[1] /\ 1 \in 1 .. Len(s) /\ Tail(s) \in Seq(Unit)
        /\ Len(s) \in Nat /\ Len(Tail(s)) = Len(s) - 1
        /\ \A i \in 1 .. Len(Tail(s)) : Tail(s)[i] = s[i + 1]
    BY <1>1, HeadTailProperties, EmptySeq, LenProperties
  <2>2. Tame(Head(s))
    BY <2>1 DEF AllTame
  <2>3. \A i \in 1 .. Len(Tail(s)) : i + 1 \in 1 .. Len(s)
    BY <2>1
  <2>4. AllTame(Tail(s))
    BY <2>1, <2>3 DEF AllTame
  <2>5. Head(s) \in Unit
    BY <2>1, ElementOfSeq
  <2> DEFINE v == [Head(s) EXCEPT !.k = 0]
  <2>6. v \in Unit /\ Tame(v)
    <3>1. Head(s) \in [pkt : Packets, k : Nat] /\ Head(s).pkt \in Packets
      BY <2>5 DEF Unit
    <3>2. 0 \in 0 .. WireLen(Head(s).pkt)
      BY <3>1, LayoutAssumption, PacketType DEF WireLen
    <3>3. v.k = 0
      BY <3>1
    <3> QED BY <3>1, <3>2, <3>3 DEF Unit, Tame
  <2> HIDE DEF v
  <2>7. <<v>> \in Seq(Unit) /\ Len(<<v>>) = 1 /\ <<v>>[1] = v
    BY <2>6
  <2> DEFINE w == <<v>>
  <2>8. AllTame(w) /\ w \in Seq(Unit)
    BY <2>6, <2>7 DEF AllTame
  <2> HIDE DEF w
  <2>9. AllTame(w \o Tail(s))
    BY <2>1, <2>4, <2>8, JoinTame
  <2> QED BY <2>2, <2>4, <2>9 DEF v, w
<1>2. ASSUME NEW u \in Unit, Tame(u) PROVE AllTame(Append(s, u))
  <2>1. /\ Len(s) \in Nat /\ Len(Append(s, u)) = Len(s) + 1
        /\ \A i \in 1 .. Len(s) + 1 : Append(s, u)[i] = IF i <= Len(s) THEN s[i] ELSE u
    BY AppendProperties, LenProperties
  <2> QED BY <1>2, <2>1 DEF AllTame
<1> QED BY <1>1, <1>2

\* What has not been written by this session stays tame, wherever it is.
LEMMA PartsStep ==
  ASSUME TypeOK, LoaderStep, AllTame(line), AllTame(InFifo)
  PROVE  AllTame(line') /\ AllTame(InFifo')
<1>0. line \in Seq(Unit) /\ fifo \in Seq(Unit) /\ AllTame(<<>>)
  BY EmptySeq DEF TypeOK, AllTame
<1>1. AllTame(line')
  <2>1. \/ line' = line
        \/ line # <<>> /\ line' \in {Tail(line), <<[Head(line) EXCEPT !.k = 0]>> \o Tail(line)}
    <3>1. mode = "hdr" /\ Handle => line' = line
      BY HandleMoves
    <3> QED BY <3>1
        DEF LoaderStep, Startup, KMain, WdogFire, PowerCycle, Reset, Derail, Commands,
            KReadHdr, KReadPayload, CheckCrc, DrainAndReport, Respond,
            Kernel, StartKernel, KernelReturn, KernelTrash, KernelDisarm, KernelPrint,
            Link, Arrive, Deliver, MissUnit, Garble, MissResponse, linkVars
  <2> QED BY <1>0, <2>1, TameParts
<1>2. ASSUME mode' = "hung" PROVE AllTame(InFifo')
  BY <1>0, <1>2 DEF InFifo
<1>3. ASSUME mode' # "hung" PROVE AllTame(InFifo')
  <2>1. \/ fifo' = <<>>
        \/ mode # "hung" /\ (fifo' = fifo \/ (fifo # <<>> /\ fifo' = Tail(fifo)))
        \/ mode # "hung" /\ line # <<>> /\ fifo' = Append(fifo, Head(line))
    <3>1. mode = "hdr" /\ Handle => fifo' = fifo
      BY HandleMoves
    <3> QED BY <1>3, <3>1
        DEF LoaderStep, Startup, KMain, WdogFire, PowerCycle, Reset, Derail, Commands,
            KReadHdr, KReadPayload, CheckCrc, DrainAndReport, Respond,
            Kernel, StartKernel, KernelReturn, KernelTrash, KernelDisarm, KernelPrint,
            Link, Arrive, Deliver, MissUnit, Garble, MissResponse, linkVars, loaderVars
  <2>2. mode # "hung" => AllTame(fifo)
    BY DEF InFifo
  <2>3. line # <<>> => Head(line) \in Unit /\ Tame(Head(line))
    BY <1>0, HeadTailProperties, TameParts
  <2>4. AllTame(fifo')
    BY <1>0, <2>1, <2>2, <2>3, TameParts
  <2> QED BY <1>3, <2>4 DEF InFifo
<1> QED BY <1>1, <1>2, <1>3

LEMMA AnswersTypeNext ==
  ASSUME TypeOK'
  PROVE  Answers' \in Seq(Response)
<1>1. inbox' \in Seq(Response) /\ tx' \in Seq(Response)
  BY DEF TypeOK
<1>2. inbox' \o tx' \in Seq(Response)
  BY <1>1, ConcatProperties
<1> QED BY <1>2 DEF Answers

LEMMA ContactBoardStep ==
  ASSUME TypeOK, AtRest, ContactInv, LoaderStep, UNCHANGED clientVars
  PROVE  ContactInv'
<1>0. Answers \in Seq(Response) /\ Answers' \in Seq(Response)
  BY BoardTypeStep, AnswersType, AnswersTypeNext
<1>1. cli' = cli /\ cur' = cur
  BY DEF clientVars
<1>a. \/ Answers' = Answers
      \/ \E m \in Nat, d \in Nat : Loses(Answers, Answers', m, d)
      \/ \E r \in Response :
           /\ Answers' = Append(Answers, r)
           /\ r.code = "ACK" => Acks
           /\ r.code = "RDY" => /\ mode = "hdr" /\ mode' = "hdr" /\ buf' = <<>>
                                /\ fifo' = fifo /\ line' = line
  BY AnswersStep
<1>2. ASSUME cli \in {"ping", "rdy"}
      PROVE  /\ cur = 1
             /\ AllTame(line') /\ AllTame(InFifo')
             /\ RdyIn(Answers') => AllTame(Stream') /\ mode' \notin Busy
             /\ NoAckBehindRdy(Answers')
  <2>1. /\ cur = 1 /\ AllTame(line) /\ AllTame(InFifo)
        /\ RdyIn(Answers) => AllTame(Stream) /\ mode \notin Busy
        /\ NoAckBehindRdy(Answers)
    BY <1>2 DEF ContactInv, Calling
  <2>2. AllTame(line') /\ AllTame(InFifo')
    BY <2>1, PartsStep
  <2>3. RdyIn(Answers) => AllTame(Stream') /\ mode' \notin Busy /\ ~ Acks
    BY <2>1, TameStep
  <2>4. ASSUME RdyIn(Answers') PROVE AllTame(Stream') /\ mode' \notin Busy
    <3>1. CASE RdyIn(Answers)
      BY <2>3, <3>1
    <3>2. CASE ~ RdyIn(Answers)
      <4>1. PICK r \in Response :
               /\ Answers' = Append(Answers, r)
               /\ r.code = "RDY" => /\ mode = "hdr" /\ mode' = "hdr" /\ buf' = <<>>
                                    /\ fifo' = fifo /\ line' = line
        BY <1>0, <1>a, <2>4, <3>2, LosesKeeps
      <4>2. r.code = "RDY"
        BY <1>0, <2>4, <3>2, <4>1, AppendKeeps
      <4>3. Stream' = <<>> \o fifo \o line /\ mode' \notin Busy /\ InFifo = fifo
        BY <4>1, <4>2 DEF Stream, InBuf, InFifo, Busy
      <4>4. line \in Seq(Unit) /\ fifo \in Seq(Unit) /\ <<>> \o fifo = fifo
        BY EmptySeq, ConcatEmptySeq DEF TypeOK
      <4>5. AllTame(fifo \o line)
        BY <2>1, <4>3, <4>4, JoinTame
      <4> QED BY <4>3, <4>4, <4>5
    <3> QED BY <3>1, <3>2
  <2>5. NoAckBehindRdy(Answers')
    <3>1. CASE Answers' = Answers
      BY <2>1, <3>1
    <3>2. CASE \E m \in Nat, d \in Nat : Loses(Answers, Answers', m, d)
      BY <1>0, <2>1, <3>2, LosesKeeps
    <3>3. CASE \E r \in Response : /\ Answers' = Append(Answers, r)
                                   /\ r.code = "ACK" => Acks
      <4>1. PICK r \in Response : /\ Answers' = Append(Answers, r)
                                  /\ r.code = "ACK" => Acks
        BY <3>3
      <4>2. r.code # "ACK" \/ ~ RdyIn(Answers)
        BY <2>3, <4>1
      <4> QED BY <1>0, <2>1, <4>1, <4>2, AppendKeeps
    <3> QED BY <1>a, <3>1, <3>2, <3>3
  <2> QED BY <2>1, <2>2, <2>4, <2>5
<1>3. ASSUME cli = "send"
      PROVE  AllTame(Stream') /\ mode' \notin Busy /\ ~ AckIn(Answers')
  <2>1. AllTame(Stream) /\ mode \notin Busy /\ ~ AckIn(Answers)
    BY <1>3 DEF ContactInv, Ready
  <2>2. AllTame(Stream') /\ mode' \notin Busy /\ ~ Acks
    BY <2>1, TameStep
  <2>3. ~ AckIn(Answers')
    BY <1>0, <1>a, <2>1, <2>2, LosesKeeps, AppendKeeps
  <2> QED BY <2>2, <2>3
<1> QED BY <1>1, <1>2, <1>3 DEF ContactInv, Calling, Ready

\* Nothing of an earlier session, nor an earlier packet, is left that could be
\* taken for an answer.
LEMMA ContactStep ==
  ASSUME ClientTypeOK, AtRest, OneHeader, ContactInv, PacketInv, [Next]_vars
  PROVE  ContactInv'
<1>0. TypeOK /\ Stream \in Seq(Unit) /\ Answers \in Seq(Response)
  BY SessionType, StreamType, AnswersType
<1>a. cli' \notin {"ping", "rdy", "send"} => ContactInv'
  BY DEF ContactInv, Calling, Ready
<1>b. AllTame(<<>>) /\ ~ RdyIn(<<>>) /\ ~ AckIn(<<>>) /\ NoAckBehindRdy(<<>>)
  BY EmptySeq DEF AllTame, RdyIn, AckIn, NoAckBehindRdy
<1>1. CASE BoardStep
  BY <1>0, <1>1, ContactBoardStep DEF BoardStep
<1>2. CASE \E j \in Jobs : StartSession(j)
  <2>1. PICK j \in Jobs : StartSession(j)
    BY <1>2
  <2>2. /\ Quiet /\ cli' = "ping" /\ cur' = 1 /\ inbox' = <<>>
        /\ line' = line /\ tx' = tx /\ mode' = mode /\ fifo' = fifo
    BY <2>1 DEF StartSession, loaderVars
  <2>3. line' = <<>> /\ Answers' = <<>>
    BY <2>2 DEF Quiet, Answers
  <2>4. AllTame(InFifo')
    <3>1. CASE fifo = <<>> \/ mode = "hung"
      BY <1>b, <2>2, <3>1 DEF InFifo
    <3>2. CASE mode = "kernel"
      <4>1. AllTame(Stream)
        BY <3>2 DEF OneHeader, Busy
      <4>2. Stream = <<>> \o fifo \o <<>> /\ fifo \in Seq(Unit)
        BY <1>0, <2>2, <3>2 DEF AtRest, Stream, InBuf, InFifo, Quiet, TypeOK
      <4>3. Stream = fifo
        BY <4>2, ConcatEmptySeq
      <4> QED BY <2>2, <3>2, <4>1, <4>3 DEF InFifo
    <3>3. \/ fifo = <<>> \/ mode \in {"hung", "kernel"}
      BY <2>2 DEF Quiet, WaitsForUnit, AtRest
    <3> QED BY <3>1, <3>2, <3>3
  <2> QED BY <1>b, <2>2, <2>3, <2>4 DEF ContactInv, Calling, Ready
<1>3. CASE SendPing
  <2> DEFINE u == HeaderUnits(PingPacket)
  <2>1. u \in Seq(Unit) /\ AllTame(u)
    <3>1. PingPacket \in Packets /\ PingPacket.type = "PING"
      BY PingAssumption DEF PingPacket
    <3> QED BY <3>1, UnitsWritten, TameWrites
  <2>2. /\ cli = "ping" /\ cli' = "rdy" /\ cur' = cur /\ mode' = mode /\ fifo' = fifo
        /\ Write(u) /\ UNCHANGED loaderVars
    BY <1>3 DEF SendPing, Write, loaderVars
  <2> HIDE DEF u
  <2>3. Stream' = Stream \o u /\ Answers' = Answers
    BY <1>0, <2>1, <2>2, WriteStep
  <2>4. line \in Seq(Unit) /\ line' = line \o u /\ InFifo' = InFifo
    BY <1>0, <2>2 DEF Write, TypeOK, InFifo
  <2>5. /\ cur = 1 /\ AllTame(line) /\ AllTame(InFifo) /\ NoAckBehindRdy(Answers)
        /\ RdyIn(Answers) => AllTame(Stream) /\ mode \notin Busy
    BY <2>2 DEF ContactInv, Calling
  <2>6. AllTame(line')
    BY <2>1, <2>4, <2>5, JoinTame
  <2>7. RdyIn(Answers') => AllTame(Stream')
    BY <1>0, <2>1, <2>3, <2>5, JoinTame
  <2> QED BY <2>2, <2>3, <2>4, <2>5, <2>6, <2>7 DEF ContactInv, Calling, Ready
<1>4. CASE RecvReady /\ cli' = "send"
  <2>1. cli = "rdy"
    BY <1>4 DEF RecvReady
  <2>2. PICK rsp \in Response : Read(rsp) /\ rsp.code = "RDY" /\ UNCHANGED loaderVars
    BY <1>4 DEF RecvReady
  <2>3. /\ Stream' = Stream /\ mode' = mode
        /\ Len(Answers) >= 1 /\ Answers[1] = rsp /\ Len(Answers') = Len(Answers) - 1
        /\ Loses(Answers, Answers', 0, 1)
    BY <1>0, <2>2, ReadStep DEF loaderVars
  <2>4. Len(Answers) \in Nat /\ 1 \in 1 .. Len(Answers)
    BY <1>0, <2>3, LenProperties
  <2>5. AllTame(Stream) /\ mode \notin Busy /\ NoAckBehindRdy(Answers)
    BY <2>1, <2>2, <2>3, <2>4 DEF ContactInv, Calling, RdyIn
  <2>6. ~ AckIn(Answers')
    <3> SUFFICES ASSUME NEW n \in 1 .. Len(Answers'), Answers'[n].code = "ACK" PROVE FALSE
      BY DEF AckIn
    <3>1. n + 1 \in 1 .. Len(Answers) /\ 1 < n + 1 /\ ~ n <= 0
      BY <2>3, <2>4
    <3>2. Answers'[n] = Answers[n + 1]
      BY <2>3, <3>1 DEF Loses
    <3> QED BY <2>2, <2>3, <2>4, <2>5, <3>1, <3>2 DEF NoAckBehindRdy
  <2> QED BY <1>4, <2>3, <2>5, <2>6 DEF ContactInv, Calling, Ready
<1>5. CASE RecvAck /\ cli' = "send"
  <2>1. cli = "ack"
    BY <1>5 DEF RecvAck
  <2>2. PICK rsp \in Response : /\ Read(rsp) /\ rsp.code = "ACK" /\ UNCHANGED loaderVars
                                /\ cli' = AfterPacket(cur + 1)
    BY <1>5 DEF RecvAck
  <2>3. /\ Stream' = Stream /\ mode' = mode
        /\ Len(Answers) >= 1 /\ Answers[1] = rsp /\ Len(Answers') = Len(Answers) - 1
    BY <1>0, <2>2, ReadStep DEF loaderVars
  <2>4. Len(Answers) \in Nat /\ 1 \in 1 .. Len(Answers)
    BY <1>0, <2>3, LenProperties
  <2>5. AckIn(Answers)
    BY <2>2, <2>3, <2>4 DEF AckIn
  <2>6. /\ buf = <<>> /\ fifo = <<>> /\ line = <<>> /\ mode \notin {"payload", "delay"}
        /\ AckLast(Answers)
    BY <2>1, <2>5 DEF PacketInv, Answered
  <2>7. ~ AckIn(Answers')
    <3>1. Len(Answers) = 1
      BY <2>2, <2>3, <2>4, <2>6 DEF AckLast
    <3> QED BY <2>3, <3>1 DEF AckIn
  <2>8. Stream = <<>>
    BY <2>6 DEF Stream, InBuf, InFifo
  <2>9. mode \notin {"exec", "kernel"}
    <3>1. ~ (cur + 1 > Len(job))
      BY <1>5, <2>2 DEF AfterPacket
    <3>2. job[cur].type = "EXEC" => cur = Len(job)
      BY <2>1, SessionType
    <3>3. job[cur].type # "EXEC"
      BY <3>1, <3>2, SessionType
    <3> QED BY <2>1, <3>3 DEF PacketInv, Working
  <2> QED BY <1>b, <1>5, <2>3, <2>6, <2>7, <2>8, <2>9
          DEF ContactInv, Calling, Ready, Busy
<1>6. CASE UNCHANGED vars
  <2>1. /\ cli' = cli /\ cur' = cur /\ mode' = mode /\ line' = line /\ InFifo' = InFifo
        /\ Stream' = Stream /\ Answers' = Answers
    BY <1>6 DEF vars, boardVars, clientVars, loaderVars, linkVars, Stream, InBuf, InFifo, Answers
  <2> QED BY <2>1 DEF ContactInv, Calling, Ready
<1>7. \/ cli' \notin {"ping", "rdy", "send"} \/ BoardStep \/ SendPing
      \/ (\E j \in Jobs : StartSession(j)) \/ UNCHANGED vars
      \/ (RecvReady /\ cli' = "send") \/ (RecvAck /\ cli' = "send")
  BY DEF Next, ClientStep, RecvReady, RecvAck, SendHeader, SendPayload, Kill,
         AfterPacket
<1> QED BY <1>a, <1>1, <1>2, <1>3, <1>4, <1>5, <1>6, <1>7

-----------------------------------------------------------------------------
(* One packet at a time *)

\* What SendHeader and SendPayload do to what is on its way.
LEMMA HeaderSent ==
  ASSUME ClientTypeOK, Ready, SendHeader
  PROVE  /\ job[cur] \in Packets /\ job' = job /\ cur' = cur /\ cli' \in {"data", "ack"}
         /\ cli' = "data" => job[cur].type = "LOAD"
         /\ AllTame(Stream) /\ Stream \in Seq(Unit)
         /\ Stream' = Stream \o HeaderUnits(job[cur]) /\ Answers' = Answers
         /\ Written' = 0 /\ ~ AckIn(Answers') /\ mode \notin Busy
         /\ UNCHANGED loaderVars
<1>1. TypeOK /\ cli = "send" /\ job[cur] \in Packets
  BY SessionType DEF SendHeader
<1>2. AllTame(Stream) /\ mode \notin Busy /\ ~ AckIn(Answers) /\ Stream \in Seq(Unit)
  BY <1>1, StreamType DEF Ready
<1>3. HeaderUnits(job[cur]) \in Seq(Unit)
  BY <1>1, UnitsWritten
<1>4. Stream' = Stream \o HeaderUnits(job[cur]) /\ Answers' = Answers
  BY <1>1, <1>3, WriteStep DEF SendHeader
<1>5. Written' = 0
  BY DEF SendHeader, Written
<1> QED BY <1>1, <1>2, <1>4, <1>5 DEF SendHeader

LEMMA PayloadSent ==
  ASSUME ClientTypeOK, PacketInv, SendPayload
  PROVE  /\ job[cur] \in Packets /\ job' = job /\ cur' = cur /\ cli = "data" /\ cli' = "ack"
         /\ job[cur].type = "LOAD" /\ Stream \in Seq(Unit)
         /\ Stream' = Stream \o PayloadUnits(job[cur]) /\ Answers' = Answers
         /\ Len(job[cur].data) \in Nat
         /\ Written = 0 /\ Written' = Len(job[cur].data)
         /\ ToCome \in Nat /\ ToCome' = ToCome + Len(job[cur].data)
         /\ UNCHANGED loaderVars
<1>1. TypeOK /\ cli = "data" /\ cli' = "ack" /\ job[cur] \in Packets
  BY SessionType DEF SendPayload
<1>2. job[cur].type = "LOAD"
  BY <1>1 DEF PacketInv, OnItsWay
<1> DEFINE u == PayloadUnits(job[cur])
<1>3. u \in Seq(Unit) /\ Len(u) = Len(job[cur].data) /\ Len(job[cur].data) \in Nat
  BY <1>1, UnitsWritten, PacketType
<1>4. Write(u) /\ UNCHANGED loaderVars /\ job' = job /\ cur' = cur
  BY DEF SendPayload
<1> HIDE DEF u
<1>5. Stream' = Stream \o u /\ Answers' = Answers /\ Stream \in Seq(Unit)
  BY <1>1, <1>3, <1>4, WriteStep, StreamType
<1>6. Written = 0 /\ Written' = Len(job[cur].data)
  BY <1>1, <1>2, <1>4 DEF Written
<1>7. ToCome \in Nat /\ ToCome' = ToCome + Len(job[cur].data)
  <2>1. line' = line \o u /\ fifo' = fifo /\ off' = off
    BY <1>4 DEF Write, loaderVars
  <2>2. line \in Seq(Unit) /\ Len(fifo) \in Nat /\ Len(line) \in Nat /\ off \in Nat
    BY <1>1, LenProperties DEF TypeOK
  <2>3. Len(line') = Len(line) + Len(u)
    BY <1>3, <2>1, <2>2, ConcatProperties
  <2>4. ToCome' = off + Len(fifo) + Len(line') /\ ToCome = off + Len(fifo) + Len(line)
    BY <2>1 DEF ToCome
  <2> DEFINE n == Len(line)
             d == Len(job[cur].data)
             f == Len(fifo)
  <2>5. n \in Nat /\ d \in Nat /\ f \in Nat /\ Len(line') = n + d
    BY <1>3, <2>2, <2>3
  <2>6. ToCome' = off + f + (n + d) /\ ToCome = off + f + n
    BY <2>4, <2>5
  <2> HIDE DEF n, d, f
  <2>7. ToCome \in Nat /\ ToCome' = ToCome + d
    BY <2>2, <2>5, <2>6
  <2> QED BY <2>7 DEF d
<1> QED BY <1>1, <1>2, <1>3, <1>4, <1>5, <1>6, <1>7 DEF u

LEMMA PacketStep ==
  ASSUME ClientTypeOK, AtRest, OneHeader, Ready, PacketInv, [Next]_vars
  PROVE  PacketInv'
<1>0. TypeOK
  BY SessionType
<1>1. CASE cli' \notin {"data", "ack"}
  BY <1>1 DEF PacketInv
<1>2. CASE BoardStep /\ cli' \in {"data", "ack"}
  <2>1. cli \in {"data", "ack"}
    BY <1>2 DEF BoardStep, clientVars
  <2> QED BY <1>2, <2>1, PacketBoardStep DEF BoardStep
<1>3. CASE SendHeader
  <2>1. /\ job[cur] \in Packets /\ job' = job /\ cur' = cur
        /\ cli' = "data" => job[cur].type = "LOAD"
        /\ AllTame(Stream) /\ Stream \in Seq(Unit)
        /\ Stream' = Stream \o HeaderUnits(job[cur])
        /\ Written' = 0 /\ ~ AckIn(Answers') /\ mode \notin Busy /\ mode' = mode
    BY <1>3, HeaderSent DEF loaderVars
  <2>2. Own(Stream', job[cur], 0)
    BY <2>1, JoinHeader
  <2>3. OnItsWay'
    BY <2>1, <2>2 DEF OnItsWay
  <2> QED BY <2>1, <2>3 DEF PacketInv, Working, Answered, StartAnswered, Busy
<1>4. CASE SendPayload
  <2>1. /\ job[cur] \in Packets /\ job' = job /\ cur' = cur
        /\ cli = "data" /\ cli' = "ack" /\ job[cur].type = "LOAD"
        /\ Stream \in Seq(Unit) /\ Stream' = Stream \o PayloadUnits(job[cur])
        /\ Answers' = Answers /\ Len(job[cur].data) \in Nat
        /\ Written = 0 /\ Written' = Len(job[cur].data)
        /\ ToCome \in Nat /\ ToCome' = ToCome + Len(job[cur].data)
        /\ mode' = mode /\ hdr' = hdr /\ buf' = buf
    BY <1>0, <1>4, PayloadSent DEF loaderVars
  <2>2. /\ Own(Stream, job[cur], 0) /\ mode \notin {"exec", "kernel"}
        /\ mode = "payload" => hdr.crc \in {job[cur].data, NoCrc} /\ ToCome <= 0
    BY <2>1 DEF PacketInv, OnItsWay, Working
  <2>3. OnItsWay'
    BY <2>1, <2>2, JoinPayload DEF OnItsWay
  <2>4. Working'
    BY <2>1, <2>2 DEF Working
  <2>5. Answered'
    <3> SUFFICES ASSUME AckIn(Answers)
                 PROVE  /\ buf' = <<>> /\ fifo' = <<>> /\ line' = <<>>
                        /\ mode' \notin {"payload", "delay"} /\ AckLast(Answers')
      BY <2>1 DEF Answered
    <3>1. /\ buf = <<>> /\ fifo = <<>> /\ line = <<>> /\ mode \notin {"payload", "delay"}
          /\ Len(job[cur].data) = 0 /\ AckLast(Answers)
      BY <2>1 DEF PacketInv, Answered
    <3>2. PayloadUnits(job[cur]) \in Seq(Unit) /\ Len(PayloadUnits(job[cur])) = 0
      BY <2>1, <3>1, UnitsWritten
    <3>3. PayloadUnits(job[cur]) = <<>>
      BY <3>2, EmptySeq
    <3>4. fifo' = fifo /\ line' = line \o PayloadUnits(job[cur])
      BY <1>4 DEF SendPayload, Write
    <3>5. line' = <<>>
      BY <3>1, <3>3, <3>4, ConcatEmptySeq, <1>0 DEF TypeOK
    <3> QED BY <2>1, <3>1, <3>4, <3>5
  <2> QED BY <2>1, <2>2, <2>3, <2>4, <2>5 DEF PacketInv, StartAnswered
<1>5. CASE UNCHANGED vars
  <2>1. /\ UNCHANGED <<cli, job, cur, mode, hdr, off, buf, fifo, line, tx, inbox, faults>>
        /\ Stream' = Stream /\ Answers' = Answers /\ Written' = Written /\ ToCome' = ToCome
    BY <1>5 DEF vars, boardVars, clientVars, loaderVars, linkVars,
                Stream, InBuf, InFifo, Answers, Written, ToCome
  <2> QED BY <2>1 DEF PacketInv, OnItsWay, Working, Answered, StartAnswered
<1>6. \/ cli' \notin {"data", "ack"} \/ (BoardStep /\ cli' \in {"data", "ack"})
      \/ SendHeader \/ SendPayload \/ UNCHANGED vars
  BY DEF Next, ClientStep, SendPing, RecvReady, RecvAck, Kill, StartSession, AfterPacket
<1> QED BY <1>1, <1>2, <1>3, <1>4, <1>5, <1>6

\* An acknowledgement comes from a step that acknowledges.
LEMMA NewAck ==
  ASSUME TypeOK, LoaderStep, ~ AckIn(Answers), AckIn(Answers')
  PROVE  Acks
<1>0. Answers \in Seq(Response) /\ Answers' \in Seq(Response)
  BY BoardTypeStep, AnswersType, AnswersTypeNext
<1>1. PICK r \in Response : Answers' = Append(Answers, r) /\ (r.code = "ACK" => Acks)
  BY <1>0, AnswersStep, LosesKeeps
<1> QED BY <1>0, <1>1, AppendKeeps

-----------------------------------------------------------------------------
(* Headers in order *)

LEMMA HeaderBoardStep ==
  ASSUME "header" \notin Noise, ClientTypeOK, AtRest, OneHeader, PacketInv, HeaderInv,
         cli \in {"data", "ack"}, LoaderStep, UNCHANGED clientVars
  PROVE  HeaderInv'
<1>0. /\ TypeOK /\ Written \in Nat /\ job[cur] \in Packets
      /\ job[cur].type # "LOAD" => Written = 0
      /\ Stream \in Seq(Unit) /\ Stream' \in Seq(Unit)
  <2>1. TypeOK /\ TypeOK'
    BY SessionType, BoardTypeStep
  <2> QED BY <2>1, WrittenType, StreamType, StreamTypeNext
<1>1. cli' = cli /\ job' = job /\ cur' = cur /\ Written' = Written
  BY DEF clientVars, Written
<1>2. /\ InOrder(Stream, job[cur], Written)
      /\ mode = "payload" => hdr = HeaderOf(job[cur]) \/ ToCome < Written
      /\ mode \in {"exec", "kernel"} \/ AckIn(Answers) => hdr = HeaderOf(job[cur])
  BY DEF HeaderInv
<1>3. InOrder(Stream', job[cur], Written)
  <2>1. PICK m \in Nat, d \in Nat : Shrinks(Stream, Stream', m, d)
    BY <1>0, StreamStep
  <2> QED BY <1>0, <1>2, <2>1, ShrinkKeepsOrder
<1>4. ASSUME mode = "hdr", Len(buf) = HdrLen,
             NEW h \in Decode(buf), h.type \notin {"PING", "UNKNOWN"}
      PROVE  /\ h = HeaderOf(job[cur]) \/ Len(fifo) + Len(line) < Written
             /\ h.type # "LOAD" => h = HeaderOf(job[cur])
  <2>1. h = HeaderOf(job[cur]) \/ Len(fifo) + Len(line) < Written
    BY <1>0, <1>2, <1>4, HeaderInOrder
  <2>2. h.type = job[cur].type /\ Len(fifo) \in Nat /\ Len(line) \in Nat
    BY <1>4, HeaderIsOwn
  <2> QED BY <1>0, <2>1, <2>2
<1>5. ASSUME mode' = "payload"
      PROVE  hdr' = HeaderOf(job[cur]) \/ ToCome' < Written
  <2>1. CASE mode = "payload"
    <3>1. hdr' = hdr /\ ToCome' <= ToCome /\ ToCome \in Nat /\ ToCome' \in Nat
      BY <1>0, <1>5, <2>1, PayloadGoesOn
    <3> QED BY <1>0, <1>2, <2>1, <3>1
  <2>2. CASE mode # "payload"
    <3>1. mode = "hdr" /\ Len(buf) = HdrLen
      BY <1>5, <2>2, ModeStep
    <3>2. PICK h \in Decode(buf) : HandleLoad(h)
      BY <1>5, <2>2, ModeStep
    <3>3. h.type = "LOAD" /\ hdr' = h /\ off' = 0 /\ fifo' = fifo /\ line' = line
      BY <3>2 DEF HandleLoad, Received, linkVars
    <3>4. h = HeaderOf(job[cur]) \/ Len(fifo) + Len(line) < Written
      BY <1>4, <3>1, <3>3
    <3>5. ToCome' = 0 + Len(fifo) + Len(line)
      BY <3>3 DEF ToCome
    <3>6. Len(fifo) \in Nat /\ Len(line) \in Nat
      BY <1>0, LenProperties DEF TypeOK
    <3> QED BY <3>3, <3>4, <3>5, <3>6
  <2> QED BY <2>1, <2>2
<1>6. ASSUME mode' \in {"exec", "kernel"} \/ AckIn(Answers')
      PROVE  hdr' = HeaderOf(job[cur])
  <2>1. CASE mode \in {"exec", "kernel"} \/ AckIn(Answers)
    <3>1. buf = <<>> /\ fifo = <<>> /\ line = <<>> /\ mode \notin {"payload", "delay"}
      BY <2>1 DEF PacketInv, Working, Answered, AtRest
    <3>2. hdr' = hdr
      BY <1>0, <3>1, EmptyStays
    <3> QED BY <1>2, <2>1, <3>2
  <2>2. CASE mode \notin {"exec", "kernel"} /\ ~ AckIn(Answers)
    <3>1. (mode = "hdr" /\ Len(buf) = HdrLen
             /\ \E h \in Decode(buf) : HandleZero(h) \/ HandleExec(h) \/ HandleReboot(h))
          \/ (CheckCrc /\ Loaded(hdr) = hdr.crc)
      <4>1. CASE mode' \in {"exec", "kernel"}
        BY <2>2, <4>1, ModeStep
      <4>2. CASE AckIn(Answers')
        BY <1>0, <2>2, <4>2, NewAck DEF Acks
      <4> QED BY <1>6, <4>1, <4>2
    <3>2. ASSUME mode = "hdr", Len(buf) = HdrLen, NEW h \in Decode(buf),
                 HandleZero(h) \/ HandleExec(h) \/ HandleReboot(h)
          PROVE  hdr' = HeaderOf(job[cur])
      <4>1. h.type \in {"ZERO", "EXEC", "REBOOT"} /\ hdr' = h
        BY <3>2 DEF HandleZero, HandleExec, HandleReboot, Received
      <4> QED BY <1>4, <3>2, <4>1
    <3>3. ASSUME CheckCrc, Loaded(hdr) = hdr.crc PROVE hdr' = HeaderOf(job[cur])
      <4>1. mode = "payload" /\ hdr' = hdr
        BY <3>3 DEF CheckCrc
      <4>2. ToCome = Len(job[cur].data) /\ Written = Len(job[cur].data)
        BY <3>3, PayloadDone
      <4>3. ~ (ToCome < Written)
        BY <1>0, <4>2
      <4> QED BY <1>2, <4>1, <4>3
    <3> QED BY <3>1, <3>2, <3>3
  <2> QED BY <2>1, <2>2
<1> QED BY <1>1, <1>3, <1>5, <1>6 DEF HeaderInv

LEMMA HeaderStep ==
  ASSUME "header" \notin Noise, ClientTypeOK, AtRest, OneHeader, Ready, PacketInv,
         HeaderInv, [Next]_vars
  PROVE  HeaderInv'
<1>1. CASE cli' \notin {"data", "ack"}
  BY <1>1 DEF HeaderInv
<1>2. CASE BoardStep /\ cli' \in {"data", "ack"}
  <2>1. cli \in {"data", "ack"}
    BY <1>2 DEF BoardStep, clientVars
  <2> QED BY <1>2, <2>1, HeaderBoardStep DEF BoardStep
<1>3. CASE SendHeader
  <2>1. /\ job[cur] \in Packets /\ job' = job /\ cur' = cur
        /\ AllTame(Stream) /\ Stream \in Seq(Unit)
        /\ Stream' = Stream \o HeaderUnits(job[cur])
        /\ Written' = 0 /\ ~ AckIn(Answers') /\ mode \notin Busy /\ mode' = mode
    BY <1>3, HeaderSent DEF loaderVars
  <2>2. InOrder(Stream', job[cur], 0)
    BY <2>1, JoinHeader
  <2> QED BY <2>1, <2>2 DEF HeaderInv, Busy
<1>4. CASE SendPayload
  <2>1. /\ job[cur] \in Packets /\ job' = job /\ cur' = cur /\ cli = "data"
        /\ Stream \in Seq(Unit) /\ Stream' = Stream \o PayloadUnits(job[cur])
        /\ Answers' = Answers /\ Written = 0 /\ Written' = Len(job[cur].data)
        /\ ToCome \in Nat /\ mode' = mode /\ hdr' = hdr
    BY <1>4, PayloadSent DEF loaderVars
  <2>2. InOrder(Stream, job[cur], 0)
    BY <2>1 DEF HeaderInv
  <2>3. InOrder(Stream', job[cur], Written')
    BY <2>1, <2>2, JoinPayload
  <2>4. mode = "payload" => hdr = HeaderOf(job[cur])
    BY <2>1 DEF HeaderInv
  <2> QED BY <2>1, <2>3, <2>4 DEF HeaderInv
<1>5. CASE UNCHANGED vars
  <2>1. /\ UNCHANGED <<cli, job, cur, mode, hdr>>
        /\ Stream' = Stream /\ Answers' = Answers /\ Written' = Written /\ ToCome' = ToCome
    BY <1>5 DEF vars, boardVars, clientVars, loaderVars, linkVars,
                Stream, InBuf, InFifo, Answers, Written, ToCome
  <2> QED BY <2>1 DEF HeaderInv
<1>6. \/ cli' \notin {"data", "ack"} \/ (BoardStep /\ cli' \in {"data", "ack"})
      \/ SendHeader \/ SendPayload \/ UNCHANGED vars
  BY DEF Next, ClientStep, SendPing, RecvReady, RecvAck, Kill, StartSession, AfterPacket
<1> QED BY <1>1, <1>2, <1>3, <1>4, <1>5, <1>6

-----------------------------------------------------------------------------
(* What a session may rely on *)

SessionInv == AtRest /\ OneHeader /\ ContactInv /\ PacketInv

LEMMA SessionStart == Init => SessionInv /\ HeaderInv /\ MemInv
<1> SUFFICES ASSUME Init PROVE SessionInv /\ HeaderInv /\ MemInv
  OBVIOUS
<1>1. /\ cli = "idle" /\ mode = "boot" /\ buf = <<>> /\ fifo = <<>> /\ line = <<>>
      /\ tx = <<>>
  BY DEF Init, BoardInit
<1>2. Stream = <<>>
  BY <1>1 DEF Stream, InBuf, InFifo
<1>3. OneFirst(<<>>)
  BY EmptySeq DEF OneFirst
<1> QED BY <1>1, <1>2, <1>3
        DEF SessionInv, AtRest, OneHeader, Busy, ContactInv, Calling, Ready, PacketInv,
            HeaderInv, MemInv

\* Whatever is lost, garbled or cut, and wherever sessions are killed: one
\* header is on its way at a time, the board obeys the packet that the session
\* is at, and only the last answer on its way is an acknowledgement.
THEOREM SessionCorrect == Spec => []SessionInv
<1>1. Init => SessionInv
  BY SessionStart
<1>2. ClientTypeOK /\ SessionInv /\ [Next]_vars => SessionInv'
  <2> SUFFICES ASSUME ClientTypeOK, SessionInv, [Next]_vars PROVE SessionInv'
    OBVIOUS
  <2>1. AtRest /\ OneHeader /\ ContactInv /\ PacketInv /\ Ready
    BY DEF SessionInv, ContactInv
  <2>2. AtRest'
    BY <2>1, AtRestStep
  <2>3. OneHeader'
    BY <2>1, OneHeaderStep
  <2>4. ContactInv'
    BY <2>1, ContactStep
  <2>5. PacketInv'
    BY <2>1, PacketStep
  <2> QED BY <2>2, <2>3, <2>4, <2>5 DEF SessionInv
<1>3. Spec => []ClientTypeOK
  BY ClientTypeCorrect
<1> QED BY <1>1, <1>2, <1>3, PTL DEF Spec

\* The answer to EXEC is in the PC's buffer when the program starts
\* ("uart_waitidle" in handle_exec), also when an earlier session was killed in
\* any of its steps and a program returned or was reset since.
THEOREM StartIsHeard == Spec => []ExecIsAnswered
<1>1. ClientTypeOK /\ SessionInv => ExecIsAnswered
  <2> SUFFICES ASSUME ClientTypeOK, SessionInv, mode = "kernel", cli = "ack", faults = 0
               PROVE  inbox # <<>>
    BY DEF ExecIsAnswered
  <2>1. AckIn(Answers) /\ ~ AckIn(tx)
    BY DEF SessionInv, PacketInv, StartAnswered, Working
  <2>2. AckIn(inbox)
    BY <2>1, SessionType, AckInParts
  <2> QED BY <2>2, EmptySeq DEF AckIn
<1>2. Spec => []ClientTypeOK /\ []SessionInv
  BY ClientTypeCorrect, SessionCorrect
<1> QED BY <1>1, <1>2, PTL

\* Without noise in headers, which have no checksum, the header that the loader
\* obeys is the one that the session wrote, or its payload never comes whole.
THEOREM HeaderCorrect ==
  ASSUME "header" \notin Noise
  PROVE  Spec => []HeaderInv
<1>1. Init => HeaderInv
  BY SessionStart
<1>2. ClientTypeOK /\ SessionInv /\ HeaderInv /\ [Next]_vars => HeaderInv'
  BY HeaderStep DEF SessionInv, ContactInv
<1>3. Spec => []ClientTypeOK /\ []SessionInv
  BY ClientTypeCorrect, SessionCorrect
<1> QED BY <1>1, <1>2, <1>3, PTL DEF Spec

LEMMA AckLeavesNothing ==
  ASSUME ClientTypeOK, SessionInv, [Next]_vars, cli = "ack", cli' \in {"send", "done"}
  PROVE  /\ AckIn(Answers)
         /\ line = <<>> /\ fifo = <<>> /\ buf = <<>> /\ mode \notin {"payload", "delay"}
         /\ tx = <<>> /\ inbox' = <<>>
<1>0. TypeOK
  BY SessionType
<1>1. RecvAck
  BY DEF Next, BoardStep, ClientStep, SendPing, RecvReady, SendHeader, SendPayload,
       Kill, StartSession, vars, clientVars
<1>2. PICK rsp \in Response : Read(rsp) /\ rsp.code = "ACK" /\ UNCHANGED loaderVars
  BY <1>1 DEF RecvAck
<1>3. Len(Answers) >= 1 /\ Answers[1] = rsp /\ Len(Answers') = Len(Answers) - 1
  BY <1>0, <1>2, ReadStep
<1>4. 1 \in 1 .. Len(Answers) /\ Len(Answers) \in Nat
  BY <1>0, <1>3, AnswersType, LenProperties
<1>5. AckIn(Answers)
  BY <1>2, <1>3, <1>4 DEF AckIn
<1>6. /\ buf = <<>> /\ fifo = <<>> /\ line = <<>> /\ mode \notin {"payload", "delay"}
      /\ AckLast(Answers)
  BY <1>5 DEF SessionInv, PacketInv, Answered
<1>7. Len(Answers) = 1
  BY <1>2, <1>3, <1>4, <1>6 DEF AckLast
<1>8. inbox # <<>> /\ inbox' = Tail(inbox) /\ tx \in Seq(Response) /\ inbox \in Seq(Response)
  BY <1>0, <1>2 DEF Read, TypeOK
<1>9. Len(inbox) >= 1 /\ Len(inbox') = Len(inbox) - 1 /\ inbox' \in Seq(Response)
  BY <1>8, HeadTailProperties, EmptySeq, LenProperties
<1>10. Len(tx) = 0 /\ Len(inbox') = 0
  BY <1>0, <1>7, <1>9, AnswersType
<1>11. tx = <<>> /\ inbox' = <<>>
  BY <1>8, <1>9, <1>10, EmptySeq
<1> QED BY <1>5, <1>6, <1>11

\* Wherever noise hits, headers included: an ACK that a session accepts is the last
\* answer, and nothing of the packet is left that the loader could take for a part of
\* the next (check_response, the flush in setup_serial).
THEOREM AcksLeaveNothing == Spec => AckInStep
<1> DEFINE InStep == cli = "ack" /\ cli' \in {"send", "done"} =>
                       /\ line = <<>> /\ fifo = <<>> /\ buf = <<>>
                       /\ mode \notin {"payload", "delay"} /\ tx = <<>> /\ inbox' = <<>>
<1>1. ClientTypeOK /\ SessionInv /\ [Next]_vars => [InStep]_vars
  BY AckLeavesNothing
<1>2. Spec => []ClientTypeOK /\ []SessionInv
  BY ClientTypeCorrect, SessionCorrect
<1> QED BY <1>1, <1>2, PTL DEF Spec, AckInStep

\* Unless noise hits a header, it is moreover the answer to the session's own packet.
THEOREM AcksAreOwn ==
  ASSUME "header" \notin Noise
  PROVE  Spec => AckIsOwn
<1> DEFINE Own1 == cli = "ack" /\ cli' \in {"send", "done"} =>
                     /\ hdr = HeaderOf(job[cur])
                     /\ line = <<>> /\ fifo = <<>> /\ buf = <<>> /\ tx = <<>>
                     /\ inbox' = <<>>
<1>1. ClientTypeOK /\ SessionInv /\ HeaderInv /\ [Next]_vars => [Own1]_vars
  BY AckLeavesNothing DEF HeaderInv
<1>2. Spec => []ClientTypeOK /\ []SessionInv /\ []HeaderInv
  BY ClientTypeCorrect, SessionCorrect, HeaderCorrect
<1> QED BY <1>1, <1>2, PTL DEF Spec, AckIsOwn

-----------------------------------------------------------------------------
(* The image in memory *)

LEMMA HoldsRest ==
  ASSUME NEW m, NEW m2, NEW j, NEW n, NEW E, NEW F, Holds(m, j, n, E), E \subseteq F,
         \A i \in 1 .. n : \A a \in Writes(j[i]) \ F : m2[a] = m[a]
  PROVE  Holds(m2, j, n, F)
BY DEF Holds

LEMMA HoldsMore ==
  ASSUME NEW m, NEW j, NEW n \in Nat, n >= 1, Holds(m, j, n - 1, Writes(j[n])),
         \A a \in Writes(j[n]) : m[a] = Wrote(j[n], a)
  PROVE  Holds(m, j, n, {})
<1> SUFFICES ASSUME NEW i \in 1 .. n, NEW a \in Writes(j[i]),
                    \A k \in i + 1 .. n : a \notin Writes(j[k])
             PROVE  m[a] = Wrote(j[i], a)
  BY DEF Holds
<1>1. CASE i = n
  BY <1>1
<1>2. CASE i # n
  <2>1. i \in 1 .. n - 1 /\ n \in i + 1 .. n
    BY <1>2
  <2>2. \A k \in i + 1 .. n - 1 : k \in i + 1 .. n
    BY <2>1
  <2>3. a \in Writes(j[i]) \ Writes(j[n])
    BY <2>1
  <2> QED BY <2>1, <2>2, <2>3 DEF Holds
<1> QED BY <1>1, <1>2

\* What a packet writes are addresses.
LEMMA WritesType ==
  ASSUME NEW p \in Packets
  PROVE  Writes(p) \subseteq Addr
<1>1. p.address \in Addr /\ p.size \in Addr
  BY PacketType
<1>2. ASSUME NEW i \in 0 .. p.size - 1 PROVE Plus(p.address, i) \in Addr
  BY <1>1, LayoutAssumption DEF Plus, Addr
<1> QED BY <1>2 DEF Writes, Cells

\* A checksum that is right says that the payload is where it belongs.
LEMMA LoadedHolds ==
  ASSUME NEW p \in Packets, p.type = "LOAD", Loaded(HeaderOf(p)) = p.data
  PROVE  \A a \in Writes(p) : mem[a] = Wrote(p, a)
<1> SUFFICES ASSUME NEW a \in Writes(p) PROVE mem[a] = Wrote(p, a)
  OBVIOUS
<1>0. p.size \in Nat
  BY PacketType, LayoutAssumption DEF Addr
<1>1. PICK i \in 0 .. p.size - 1 : a = Plus(p.address, i)
  BY DEF Writes, Cells
<1>2. i + 1 \in 1 .. p.size /\ (i + 1) - 1 = i
  BY <1>0
<1>3. \E k \in 1 .. p.size : Plus(p.address, k - 1) = a
  BY <1>1, <1>2
<1> DEFINE k == CHOOSE k \in 1 .. p.size : Plus(p.address, k - 1) = a
<1>4. k \in 1 .. p.size /\ Plus(p.address, k - 1) = a
  BY <1>3
<1>5. Wrote(p, a) = p.data[k]
  BY DEF Wrote
<1> HIDE DEF k
<1>6. Loaded(HeaderOf(p))[k] = mem[Plus(p.address, k - 1)]
  BY <1>4 DEF Loaded, HeaderOf
<1> QED BY <1>4, <1>5, <1>6

\* The steps that change memory.
LEMMA MemMoves ==
  ASSUME LoaderStep
  PROVE  \/ mem' = mem
         \/ mode = "boot" /\ mode' = "enter"
         \/ mode = "kernel"
         \/ KReadPayload
         \/ /\ mode = "hdr" /\ Len(buf) = HdrLen
            /\ \E h \in Decode(buf) : HandleZero(h)
<1>1. CASE mode = "hdr" /\ Len(buf) = HdrLen /\ Handle
  <2>1. PICK h \in Decode(buf) :
           \/ HandlePing(h)   \/ HandleLoad(h)   \/ HandleZero(h) \/ HandleExec(h)
           \/ HandleReboot(h) \/ HandleUnknown(h)
           \/ Refuse(h, "LOAD") \/ Refuse(h, "ZERO")
    BY <1>1 DEF Handle
  <2> QED BY <1>1, <2>1
          DEF HandlePing, HandleLoad, HandleExec, HandleReboot, HandleUnknown, Refuse
<1>2. CASE Startup \/ KMain \/ WdogFire \/ PowerCycle \/ Derail
  BY <1>2 DEF Startup, KMain, WdogFire, PowerCycle, Reset, Derail
<1>3. CASE KReadHdr \/ KReadPayload \/ CheckCrc \/ DrainAndReport
  BY <1>3 DEF KReadHdr, CheckCrc, DrainAndReport
<1>4. CASE Kernel \/ Link
  BY <1>4 DEF Kernel, StartKernel, KernelReturn, KernelTrash, KernelDisarm, KernelPrint,
              Link, Arrive, Deliver, MissUnit, Garble, MissResponse, loaderVars
<1> QED BY <1>1, <1>2, <1>3, <1>4 DEF LoaderStep, Commands

\* How the board comes back, and what it may do before.
LEMMA BootMoves ==
  ASSUME TypeOK, LoaderStep, mode = "boot"
  PROVE  mode' = "boot" \/ (mode' = "enter" /\ UNCHANGED <<buf, linkVars>>)
<1>1. CASE Startup
  BY <1>1 DEF Startup
<1>2. CASE Link
  BY <1>2 DEF Link, Arrive, Deliver, MissUnit, Garble, MissResponse, loaderVars
<1>3. CASE WdogFire
  BY <1>3 DEF WdogFire, Reset
<1> QED BY <1>1, <1>2, <1>3
        DEF LoaderStep, KMain, PowerCycle, Derail, Commands, KReadHdr, KReadPayload,
            CheckCrc, DrainAndReport, Kernel, StartKernel, KernelReturn, KernelTrash,
            KernelDisarm, KernelPrint

\* A session that is at a packet has its job in memory, before it ...
LEMMA MemExecStep ==
  ASSUME ClientTypeOK, AtRest, OneHeader, PacketInv, MemInv, cli \in {"data", "ack"},
         LoaderStep, mode' = "exec"
  PROVE  Holds(mem', job, cur - 1, {})
<1>1. CASE mode = "exec"
  <2>1. Holds(mem, job, cur - 1, {})
    BY <1>1 DEF MemInv
  <2>2. mem' = mem
    BY <1>1, MemMoves DEF KReadPayload
  <2> QED BY <2>1, <2>2
<1>2. CASE mode # "exec"
  <2>1. mode = "hdr" /\ Len(buf) = HdrLen
    BY <1>2, ModeStep
  <2>2. PICK h \in Decode(buf) : HandleExec(h)
    BY <1>2, ModeStep
  <2>3. h.type = "EXEC" /\ mem' = mem
    BY <2>2 DEF HandleExec, Received
  <2>4. ~ AckIn(Answers) /\ ~ AllTame(Stream)
    BY <2>1, <2>3, HeaderIsOwn
  <2>5. Holds(mem, job, cur - 1, {})
    BY <2>1, <2>4 DEF MemInv, Doomed, Unsettled
  <2> QED BY <2>3, <2>5
<1> QED BY <1>1, <1>2

\* ... and with it, when it is acknowledged.
LEMMA MemAckedStep ==
  ASSUME "header" \notin Noise, ClientTypeOK, AtRest, OneHeader, PacketInv,
         HeaderInv, MemInv, cli \in {"data", "ack"}, BoardStep, AckIn(Answers')
  PROVE  job[cur].type = "EXEC" \/ mode' = "boot" \/ Holds(mem', job, cur, {})
<1>0. /\ TypeOK /\ LoaderStep /\ UNCHANGED clientVars
      /\ cur \in Nat /\ cur >= 1 /\ job[cur] \in Packets
  BY SessionType DEF BoardStep
<1>1. CASE AckIn(Answers)
  <2>1. job[cur].type = "EXEC" \/ mode = "boot" \/ Holds(mem, job, cur, {})
    BY <1>1 DEF MemInv
  <2>2. buf = <<>> /\ fifo = <<>> /\ line = <<>> /\ mode \notin {"payload", "delay"}
    BY <1>1 DEF PacketInv, Answered
  <2>3. mem' = mem \/ mode \in {"boot", "kernel"}
    BY <1>0, <2>2, EmptyStays
  <2>4. mode = "kernel" => job[cur].type = "EXEC"
    BY DEF PacketInv, Working
  <2>5. mode = "boot" => mode' = "boot"
    <3> SUFFICES ASSUME mode = "boot", mode' = "enter" PROVE FALSE
      BY <1>0, BootMoves
    <3>1. inbox = <<>> /\ tx = <<>>
      BY DEF BoardStep, BootIsSlow
    <3>2. Answers = <<>>
      BY <3>1 DEF Answers
    <3> QED BY <1>1, <3>2, EmptySeq DEF AckIn
  <2> QED BY <2>1, <2>3, <2>4, <2>5
<1>2. CASE ~ AckIn(Answers)
  <2>1. mode = "boot" \/ Doomed \/ Holds(mem, job, cur - 1, Unsettled)
    BY <1>2 DEF MemInv
  <2>2. hdr' = HeaderOf(job[cur])
    <3>1. HeaderInv'
      BY <1>0, HeaderBoardStep
    <3> QED BY <1>0, <3>1 DEF HeaderInv, clientVars
  <2>3. Acks
    BY <1>0, <1>2, NewAck
  <2>4. ASSUME mode = "hdr", Len(buf) = HdrLen, NEW h \in Decode(buf),
               HandleZero(h) \/ HandleExec(h) \/ HandleReboot(h)
        PROVE  job[cur].type = "EXEC" \/ Holds(mem', job, cur, {})
    <3>1. h.type \in {"ZERO", "EXEC", "REBOOT"} /\ hdr' = h
      BY <2>4 DEF HandleZero, HandleExec, HandleReboot, Received
    <3>2. h.type = job[cur].type /\ ~ AllTame(Stream)
      BY <2>4, <3>1, HeaderIsOwn
    <3>3. Holds(mem, job, cur - 1, {})
      BY <2>1, <2>4, <3>2 DEF Doomed, Unsettled
    <3>4. CASE HandleZero(h)
      <4>1. /\ job[cur].type = "ZERO" /\ h = HeaderOf(job[cur])
            /\ mem' = [a \in Addr |-> IF a \notin Cells(h.address, h.size) THEN mem[a]
                                      ELSE IF "BEEF" \in h.flags THEN "beef" ELSE "zero"]
        BY <2>2, <3>1, <3>2, <3>4 DEF HandleZero, Received
      <4>2. Writes(job[cur]) = Cells(h.address, h.size) /\ h.flags = job[cur].flags
        BY <4>1 DEF Writes, HeaderOf
      <4>3. \A a \in Writes(job[cur]) : mem'[a] = Wrote(job[cur], a)
        BY <1>0, <4>1, <4>2, WritesType DEF Wrote
      <4>4. \A i \in 1 .. cur - 1 : Writes(job[i]) \subseteq Addr
        <5>1. job \in Seq(Packets) /\ cur \in 1 .. Len(job) /\ Len(job) \in Nat
          BY JobType DEF ClientTypeOK
        <5>2. \A i \in 1 .. cur - 1 : job[i] \in Packets
          BY <5>1, ElementOfSeq
        <5> QED BY <5>2, WritesType
      <4>5. \A i \in 1 .. cur - 1 : \A a \in Writes(job[i]) \ Writes(job[cur]) : mem'[a] = mem[a]
        BY <4>1, <4>2, <4>4
      <4>6. Holds(mem', job, cur - 1, Writes(job[cur]))
        BY <3>3, <4>5, HoldsRest
      <4> QED BY <1>0, <4>3, <4>6, HoldsMore
    <3>5. CASE HandleReboot(h)
      <4>1. mem' = mem /\ Writes(job[cur]) = {}
        BY <3>2, <3>5 DEF HandleReboot, Received, Writes
      <4> QED BY <1>0, <3>3, <4>1, HoldsMore
    <3>6. CASE HandleExec(h)
      BY <3>2, <3>6 DEF HandleExec, Received
    <3> QED BY <2>4, <3>4, <3>5, <3>6
  <2>5. ASSUME CheckCrc, Loaded(hdr) = hdr.crc PROVE Holds(mem', job, cur, {})
    <3>1. mode = "payload" /\ mem' = mem /\ hdr' = hdr
      BY <2>5 DEF CheckCrc
    <3>2. /\ job[cur].type = "LOAD" /\ hdr.crc = job[cur].data
          /\ ToCome = Len(job[cur].data) /\ Written = Len(job[cur].data)
      BY <2>5, PayloadDone
    <3>3. Holds(mem, job, cur - 1, Writes(job[cur]))
      <4>1. Written \in Nat
        BY WrittenType
      <4>2. ~ Doomed
        BY <3>1, <3>2, <4>1 DEF Doomed
      <4> QED BY <2>1, <3>1, <4>2 DEF Unsettled
    <3>4. \A a \in Writes(job[cur]) : mem[a] = Wrote(job[cur], a)
      BY <1>0, <2>2, <2>5, <3>1, <3>2, LoadedHolds
    <3> QED BY <1>0, <3>1, <3>3, <3>4, HoldsMore
  <2> QED BY <2>3, <2>4, <2>5 DEF Acks
<1> QED BY <1>1, <1>2

\* While it is not, what earlier packets wrote stays, or it never will be.
LEMMA MemOpenStep ==
  ASSUME "header" \notin Noise, ClientTypeOK, AtRest, OneHeader, PacketInv,
         HeaderInv, MemInv, cli \in {"data", "ack"}, BoardStep, ~ AckIn(Answers')
  PROVE  mode' = "boot" \/ Doomed' \/ Holds(mem', job, cur - 1, Unsettled')
<1> SUFFICES ASSUME mode' # "boot", ~ Doomed'
             PROVE  Holds(mem', job, cur - 1, Unsettled')
  OBVIOUS
<1>0. /\ TypeOK /\ LoaderStep /\ UNCHANGED clientVars /\ Written' = Written
      /\ cur \in Nat /\ cur >= 1 /\ job[cur] \in Packets /\ Written \in Nat
  BY SessionType, WrittenType DEF BoardStep, clientVars, Written
<1>1. Unsettled' = IF mode' = "payload" THEN Writes(job[cur]) ELSE {}
  BY <1>0 DEF clientVars, Unsettled
<1>2. CASE mode' = "exec"
  BY <1>0, <1>1, <1>2, MemExecStep
<1>3. CASE mode' # "exec"
  <2>1. AllTame(Stream) => AllTame(Stream')
    <3>1. PICK m \in Nat, d \in Nat : Shrinks(Stream, Stream', m, d)
      BY <1>0, StreamStep
    <3>2. Stream \in Seq(Unit) /\ Stream' \in Seq(Unit)
      BY <1>0, BoardTypeStep, StreamType, StreamTypeNext
    <3> QED BY <3>1, <3>2, ShrinkKeeps
  \* Less is on its way than a command needs, or the payload goes on.
  <2>2. AllTame(Stream') => mode' = "payload" /\ ~ (ToCome' < Written)
    BY <1>0, <1>3 DEF Doomed
  <2>3. AllTame(Stream) => mode = "payload" /\ ~ (ToCome < Written)
    <3> SUFFICES ASSUME AllTame(Stream)
                 PROVE  mode = "payload" /\ ~ (ToCome < Written)
      OBVIOUS
    <3>1. mode' = "payload" /\ ~ (ToCome' < Written)
      BY <2>1, <2>2
    <3>2. mode = "payload" \/ (mode = "hdr" /\ Len(buf) = HdrLen
                                 /\ \E h \in Decode(buf) : HandleLoad(h))
      BY <1>0, <3>1, ModeStep
    <3>3. ASSUME mode = "hdr" PROVE FALSE
      BY <1>0, <3>1, <3>3, TameStep DEF Busy
    <3>4. hdr' = hdr /\ ToCome' <= ToCome /\ ToCome \in Nat /\ ToCome' \in Nat
      BY <1>0, <3>1, <3>2, <3>3, PayloadGoesOn
    <3> QED BY <1>0, <3>1, <3>2, <3>3, <3>4
  <2>4. ~ AckIn(Answers)
    <3> SUFFICES ASSUME AckIn(Answers) PROVE FALSE
      OBVIOUS
    <3>1. buf = <<>> /\ fifo = <<>> /\ line = <<>> /\ mode \notin {"payload", "delay"}
      BY DEF PacketInv, Answered
    <3>2. Stream = <<>>
      BY <3>1 DEF Stream, InBuf, InFifo
    <3>3. AllTame(<<>>)
      BY EmptySeq DEF AllTame
    <3> QED BY <2>3, <3>1, <3>2, <3>3
  <2>5. mode # "boot"
    <3> SUFFICES ASSUME mode = "boot" PROVE FALSE
      OBVIOUS
    <3>1. mode' = "enter"
      BY <1>0, BootMoves
    <3>2. line = <<>> /\ buf = <<>> /\ fifo = <<>>
      BY <3>1 DEF BoardStep, BootIsSlow, AtRest
    <3>3. Stream = <<>>
      BY <3>2 DEF Stream, InBuf, InFifo
    <3>4. AllTame(<<>>)
      BY EmptySeq DEF AllTame
    <3> QED BY <2>3, <3>3, <3>4
  <2>6. Holds(mem, job, cur - 1, Unsettled)
    <3>1. ~ Doomed
      BY <2>3 DEF Doomed
    <3> QED BY <2>4, <2>5, <3>1 DEF MemInv
  <2>7. mode \notin {"exec", "kernel"}
    <3> SUFFICES ASSUME mode \in {"exec", "kernel"} PROVE FALSE
      OBVIOUS
    <3>1. AllTame(Stream)
      BY DEF OneHeader, Busy
    <3> QED BY <2>3, <3>1
  <2>8. CASE mode = "payload"
    <3>1. mode' = "payload" /\ Unsettled = Writes(job[cur]) /\ Unsettled' = Writes(job[cur])
      BY <1>1, <2>1, <2>2, <2>8 DEF OneHeader, Busy, Unsettled
    <3>2. hdr = HeaderOf(job[cur])
      BY <2>3, <2>8 DEF OneHeader, Busy, HeaderInv
    <3>3. CASE mem' = mem
      BY <2>6, <3>1, <3>3
    <3>4. CASE KReadPayload
      <4>1. /\ off < hdr.size /\ off \in Nat
            /\ mem' = [mem EXCEPT ![Plus(hdr.address, off)] = ValueOf(Head(fifo))]
        BY <1>0, <3>4 DEF KReadPayload, TypeOK
      <4>2. Plus(hdr.address, off) \in Writes(job[cur])
        <5>1. job[cur].type = "LOAD"
          BY <2>8 DEF PacketInv, Working
        <5>2. hdr.address = job[cur].address /\ hdr.size = job[cur].size
          BY <3>2 DEF HeaderOf
        <5>3. job[cur].size \in Nat
          BY <1>0, PacketType, LayoutAssumption DEF Addr
        <5>4. off \in 0 .. job[cur].size - 1
          BY <4>1, <5>2, <5>3
        <5> QED BY <5>1, <5>2, <5>4 DEF Writes, Cells
      <4>3. mem \in [Addr -> Value]
        BY <1>0 DEF TypeOK
      <4>4. \A i \in 1 .. cur - 1 : Writes(job[i]) \subseteq Addr
        <5>1. job \in Seq(Packets) /\ cur \in 1 .. Len(job) /\ Len(job) \in Nat
          BY JobType DEF ClientTypeOK
        <5>2. \A i \in 1 .. cur - 1 : job[i] \in Packets
          BY <5>1, ElementOfSeq
        <5> QED BY <5>2, WritesType
      <4>5. \A i \in 1 .. cur - 1 : \A a \in Writes(job[i]) \ Writes(job[cur]) : mem'[a] = mem[a]
        BY <4>1, <4>2, <4>3, <4>4
      <4> QED BY <2>6, <3>1, <4>5, HoldsRest
    <3> QED BY <1>0, <2>8, <3>3, <3>4, MemMoves
  <2>9. CASE mode # "payload"
    <3>1. Unsettled = {}
      BY <2>9 DEF Unsettled
    <3>2. CASE mem' = mem
      BY <2>6, <3>1, <3>2, HoldsRest
    \* Zeroes are written and acknowledged in one step.
    <3>3. CASE mode = "hdr" /\ Len(buf) = HdrLen /\ \E h \in Decode(buf) : HandleZero(h)
      <4>1. PICK h \in Decode(buf) : HandleZero(h)
        BY <3>3
      <4>2. /\ h.type = "ZERO" /\ buf' = <<>> /\ fifo' = fifo /\ line' = line
            /\ mode' = "hdr"
        BY <3>3, <4>1 DEF HandleZero, Received, Respond
      <4>3. AllTame(<<>> \o fifo \o line)
        BY <3>3, <4>2, HeaderIsOwn
      <4>4. Stream' = <<>> \o fifo \o line
        BY <4>2 DEF Stream, InBuf, InFifo
      <4> QED BY <2>2, <4>2, <4>3, <4>4
    <3> QED BY <1>0, <2>5, <2>7, <2>9, <3>2, <3>3, MemMoves DEF KReadPayload
  <2> QED BY <2>8, <2>9
<1> QED BY <1>2, <1>3

LEMMA MemBoardStep ==
  ASSUME "header" \notin Noise, ClientTypeOK, AtRest, OneHeader, Ready, PacketInv,
         HeaderInv, MemInv, BoardStep
  PROVE  MemInv'
<1>0. /\ TypeOK /\ LoaderStep /\ cli' = cli /\ job' = job /\ cur' = cur
  BY SessionType DEF BoardStep, clientVars
<1>1. ASSUME cli = "send" PROVE mode' = "boot" \/ Holds(mem', job, cur - 1, {})
  <2>1. AllTame(Stream) /\ mode \notin Busy /\ (mode = "boot" \/ Holds(mem, job, cur - 1, {}))
    BY <1>1 DEF Ready, MemInv
  <2>2. mem' = mem \/ mode = "boot"
    BY <1>0, <2>1, TameStep
  <2>3. mode = "boot" => mode' = "boot"
    BY <1>0, <1>1, BootMoves DEF BoardStep, BootIsSlow
  <2> QED BY <2>1, <2>2, <2>3
<1>2. ASSUME cli \in {"data", "ack"}
      PROVE  /\ mode' = "exec" => Holds(mem', job, cur - 1, {})
             /\ AckIn(Answers') =>
                  job[cur].type = "EXEC" \/ mode' = "boot" \/ Holds(mem', job, cur, {})
             /\ ~ AckIn(Answers') =>
                  mode' = "boot" \/ Doomed' \/ Holds(mem', job, cur - 1, Unsettled')
  BY <1>0, <1>2, MemExecStep, MemAckedStep, MemOpenStep
<1> QED BY <1>0, <1>1, <1>2 DEF MemInv

LEMMA MemStep ==
  ASSUME "header" \notin Noise, ClientTypeOK, AtRest, OneHeader, ContactInv, PacketInv,
         HeaderInv, MemInv, [Next]_vars
  PROVE  MemInv'
<1>0. TypeOK /\ Ready /\ Calling /\ cur \in Nat
  BY SessionType DEF ContactInv
<1>1. CASE cli' \notin {"send", "data", "ack"}
  BY <1>1 DEF MemInv
<1>2. CASE BoardStep
  BY <1>0, <1>2, MemBoardStep
<1>3. CASE SendHeader
  <2>1. /\ job' = job /\ cur' = cur /\ cli = "send" /\ cli' \in {"data", "ack"}
        /\ ~ AckIn(Answers') /\ mode \notin Busy /\ mode' = mode /\ mem' = mem
    BY <1>0, <1>3, HeaderSent DEF loaderVars, SendHeader
  <2>2. mode = "boot" \/ Holds(mem, job, cur - 1, {})
    BY <2>1 DEF MemInv
  <2> QED BY <2>1, <2>2 DEF MemInv, Unsettled, Busy
<1>4. CASE SendPayload
  <2>1. /\ job[cur] \in Packets /\ job' = job /\ cur' = cur
        /\ cli = "data" /\ cli' = "ack"
        /\ Stream \in Seq(Unit) /\ Stream' = Stream \o PayloadUnits(job[cur])
        /\ Answers' = Answers /\ Written = 0 /\ ToCome \in Nat
        /\ mode' = mode /\ mem' = mem
    BY <1>4, PayloadSent DEF loaderVars
  <2>2. Doomed => Doomed'
    <3> SUFFICES ASSUME Doomed PROVE Doomed'
      OBVIOUS
    <3>1. AllTame(Stream) /\ mode # "exec" /\ mode # "payload"
      BY <2>1 DEF Doomed
    <3>2. PayloadUnits(job[cur]) \in Seq(Unit) /\ AllTame(PayloadUnits(job[cur]))
      BY <2>1, UnitsWritten, TameWrites
    <3>3. AllTame(Stream')
      BY <2>1, <3>1, <3>2, JoinTame
    <3> QED BY <2>1, <3>1, <3>3 DEF Doomed
  <2>3. Unsettled' = Unsettled
    BY <2>1 DEF Unsettled
  <2> QED BY <2>1, <2>2, <2>3 DEF MemInv
<1>5. CASE RecvReady /\ cli' = "send"
  <2>1. cur = 1 /\ cur' = cur
    BY <1>0, <1>5 DEF RecvReady, Calling
  <2>2. Holds(mem', job', cur' - 1, {})
    BY <2>1 DEF Holds
  <2> QED BY <1>5, <2>2 DEF MemInv
<1>6. CASE RecvAck /\ cli' = "send"
  <2>1. cli = "ack"
    BY <1>6 DEF RecvAck
  <2>2. PICK rsp \in Response : /\ Read(rsp) /\ rsp.code = "ACK" /\ UNCHANGED loaderVars
                                /\ cli' = AfterPacket(cur + 1) /\ cur' = cur + 1 /\ job' = job
    BY <1>6 DEF RecvAck
  <2>3. Len(Answers) >= 1 /\ Answers[1] = rsp
    BY <1>0, <2>2, ReadStep
  <2>4. AckIn(Answers)
    BY <1>0, <2>2, <2>3, AnswersType DEF AckIn
  <2>5. job[cur].type = "EXEC" \/ mode = "boot" \/ Holds(mem, job, cur, {})
    BY <2>1, <2>4 DEF MemInv
  <2>6. job[cur].type # "EXEC"
    <3>1. ~ (cur + 1 > Len(job))
      BY <1>6, <2>2 DEF AfterPacket
    <3>2. job[cur].type = "EXEC" => cur = Len(job)
      BY <2>1, SessionType
    <3> QED BY <3>1, <3>2, SessionType
  <2>7. mem' = mem /\ mode' = mode /\ cur' - 1 = cur
    BY <1>0, <2>2 DEF loaderVars
  <2> QED BY <1>6, <2>2, <2>5, <2>6, <2>7 DEF MemInv
<1>7. CASE UNCHANGED vars
  <2>1. /\ UNCHANGED <<cli, job, cur, mode, mem>>
        /\ Stream' = Stream /\ Answers' = Answers /\ Written' = Written /\ ToCome' = ToCome
    BY <1>7 DEF vars, boardVars, clientVars, loaderVars, linkVars,
                Stream, InBuf, InFifo, Answers, Written, ToCome
  <2>2. Doomed' = Doomed /\ Unsettled' = Unsettled
    BY <2>1 DEF Doomed, Unsettled
  <2> QED BY <2>1, <2>2 DEF MemInv
<1>8. \/ cli' \notin {"send", "data", "ack"} \/ BoardStep
      \/ SendHeader \/ SendPayload \/ UNCHANGED vars
      \/ (RecvReady /\ cli' = "send") \/ (RecvAck /\ cli' = "send")
  BY DEF Next, ClientStep, SendPing, RecvReady, RecvAck, Kill, StartSession, AfterPacket
<1> QED BY <1>1, <1>2, <1>3, <1>4, <1>5, <1>6, <1>7, <1>8

\* The memory at the addresses of the session's packets, in every run.
THEOREM MemCorrect ==
  ASSUME "header" \notin Noise
  PROVE  Spec => []MemInv
<1>1. Init => MemInv
  BY SessionStart
<1>2. ClientTypeOK /\ SessionInv /\ HeaderInv /\ MemInv /\ [Next]_vars => MemInv'
  BY MemStep DEF SessionInv
<1>3. Spec => []ClientTypeOK /\ []SessionInv /\ []HeaderInv
  BY ClientTypeCorrect, SessionCorrect, HeaderCorrect
<1> QED BY <1>1, <1>2, <1>3, PTL DEF Spec

\* What the files asked for is what the program starts with (handle_load,
\* handle_exec): on the jump, each address the job wrote holds what the last packet
\* to write it put there, whatever was lost, garbled in a payload, cut or reset on
\* the way.
THEOREM ImageIsWhole ==
  ASSUME "header" \notin Noise
  PROVE  Spec => []ExecSeesImage
<1>1. HeaderInv /\ MemInv => ExecSeesImage
  BY DEF HeaderInv, MemInv, Holds, ExecSeesImage
<1>2. Spec => []HeaderInv
  BY HeaderCorrect
<1> QED BY <1>1, <1>2, MemCorrect, PTL

=============================================================================
