----------------------------- MODULE LoaderProofs -----------------------------
(***************************************************************************)
(* What one step of the board preserves, for every board and every PC end: *)
(* the types, and that a payload in progress never lands on the loader.    *)
(***************************************************************************)
EXTENDS Loader, SequenceTheorems, TLAPS

-----------------------------------------------------------------------------
(* Packets, units and headers *)

\* A LOAD packet's size is its payload's length, and its payload is data.
LEMMA PacketType ==
  ASSUME NEW p \in Packets
  PROVE  /\ p.type \in PktTypes /\ p.address \in Addr /\ p.size \in Addr
         /\ p.data \in Seq(Data) /\ p.flags \in SUBSET Flags
         /\ Len(p.data) \in Nat
<1>1. p \in [type : PktTypes, address : Addr, size : Addr,
             data : Seq(Data), flags : SUBSET Flags]
  BY PacketAssumption
<1> QED BY <1>1, LenProperties

\* What write() puts on the line are units.
LEMMA WriteType ==
  ASSUME NEW p \in Packets
  PROVE  HeaderUnits(p) \in Seq(Unit) /\ PayloadUnits(p) \in Seq(Unit)
<1>1. HdrLen \in Nat /\ Len(p.data) \in Nat
  BY LayoutAssumption, PacketType
<1>2. \A k \in 1 .. HdrLen + Len(p.data) : [pkt |-> p, k |-> k] \in Unit
  BY <1>1 DEF Unit, WireLen
<1>3. HeaderUnits(p) \in [1 .. HdrLen -> Unit]
  BY <1>1, <1>2 DEF HeaderUnits
<1>4. PayloadUnits(p) \in [1 .. Len(p.data) -> Unit]
  BY <1>1, <1>2 DEF PayloadUnits
<1> QED BY <1>1, <1>3, <1>4, SeqDef

\* A unit read as payload stores a value that memory can hold.
LEMMA ValueType ==
  ASSUME NEW u \in Unit
  PROVE  ValueOf(u) \in Value
<1>1. u.pkt \in Packets /\ u.k \in 0 .. HdrLen + Len(u.pkt.data) /\ HdrLen \in Nat
  BY LayoutAssumption DEF Unit, WireLen
<1>2. u.pkt.data \in Seq(Data) /\ Len(u.pkt.data) \in Nat
  BY <1>1, PacketType
<1>3. CASE u.k > HdrLen
  <2>1. u.k - HdrLen \in 1 .. Len(u.pkt.data)
    BY <1>1, <1>2, <1>3
  <2>2. u.pkt.data[u.k - HdrLen] \in Data
    BY <1>2, <2>1, ElementOfSeq
  <2> QED BY <1>3, <2>2 DEF ValueOf, Value
<1>4. CASE ~ (u.k > HdrLen)
  BY <1>4 DEF ValueOf, Value
<1> QED BY <1>3, <1>4

\* Whatever HdrLen units are read as is a header.
LEMMA DecodeType ==
  ASSUME NEW b \in Seq(Unit), Len(b) = HdrLen
  PROVE  Decode(b) \subseteq Header
<1>0. HdrLen \in Nat /\ HdrLen >= 2 /\ AddrSpace \in Nat /\ 0 \in Addr
  BY LayoutAssumption DEF Addr
<1>1. b[1] \in Unit
  BY <1>0, ElementOfSeq
<1>2. b[1].pkt \in Packets
  BY <1>1 DEF Unit
<1> DEFINE p == b[1].pkt
<1>3. p.data \in Seq(Data \cup {"nocrc"})
  <2>1. p.data \in Seq(Data)
    BY <1>2, PacketType
  <2> QED BY <2>1, SeqMonotonic
<1>4. NoCrc \in Seq(Data \cup {"nocrc"}) /\ <<>> \in Seq(Data \cup {"nocrc"})
  BY DEF NoCrc
<1>5. p.type \in Types /\ p.address \in Addr /\ p.size \in Addr /\ p.flags \in SUBSET Flags
  BY <1>2, PacketType DEF Types
<1>6. UnknownHeader \in Header
  BY <1>0, <1>4 DEF UnknownHeader, Header, Types
<1>7. HeaderOf(p) \in Header
  BY <1>3, <1>5 DEF HeaderOf, Header
<1>8. [type : {p.type}, address : Addr, size : GarbledSizes,
       crc : {p.data, NoCrc}, flags : SUBSET Flags] \subseteq Header
  BY <1>3, <1>4, <1>5, PacketAssumption DEF Header
<1> QED BY <1>6, <1>7, <1>8 DEF Decode

\* Addresses never leave the address space.
LEMMA PlusType ==
  ASSUME NEW a \in Addr, NEW n \in 0 .. AddrSpace
  PROVE  Plus(a, n) \in Addr
BY LayoutAssumption DEF Plus, Addr

-----------------------------------------------------------------------------
(* One step of the board keeps the types *)

LEMMA InitType == BoardInit => TypeOK
<1> SUFFICES ASSUME BoardInit PROVE TypeOK
  OBVIOUS
<1>1. /\ HdrLen \in Nat /\ Window \in Nat /\ MaxFaults \in Nat
      /\ AddrSpace \in Nat /\ 0 \in Addr
      /\ FwRegs \in Nat \X Nat \X Nat
  BY LayoutAssumption, BoardAssumption DEF Addr
<1>2. UnknownHeader \in Header
  BY <1>1 DEF UnknownHeader, Header, Types
<1>3. mem \in [Addr -> Value]
  BY DEF BoardInit, Value
<1> QED BY <1>1, <1>2, <1>3 DEF BoardInit, TypeOK, Modes

LEMMA StartType ==
  ASSUME TypeOK, Startup \/ KMain \/ WdogFire \/ PowerCycle \/ Derail
  PROVE  TypeOK'
<1>1. /\ HdrLen \in Nat /\ MaxFaults \in Nat /\ FwRegs \in Nat \X Nat \X Nat
      /\ faults \in Nat
  BY LayoutAssumption, BoardAssumption DEF TypeOK
<1>2. CASE Startup
  <2>1. mem' \in [Addr -> Value]
    BY <1>2 DEF Startup, Value
  <2> QED BY <1>1, <1>2, <2>1 DEF Startup, TypeOK, Modes, linkVars
<1>3. CASE KMain
  BY <1>1, <1>3 DEF KMain, SaveRegs, TypeOK, Modes, linkVars
<1>4. CASE WdogFire
  BY <1>1, <1>4 DEF WdogFire, Reset, TypeOK, Modes
<1>5. CASE PowerCycle
  BY <1>1, <1>5 DEF PowerCycle, Reset, TypeOK, Modes
<1>6. CASE Derail
  BY <1>1, <1>6 DEF Derail, TypeOK, Modes, linkVars
<1> QED BY <1>2, <1>3, <1>4, <1>5, <1>6

LEMMA LinkType ==
  ASSUME TypeOK, Link
  PROVE  TypeOK'
<1>1. /\ HdrLen \in Nat /\ MaxFaults \in Nat /\ Window \in Nat
      /\ faults \in Nat /\ dcount \in Nat
  BY LayoutAssumption, BoardAssumption DEF TypeOK
<1>2. line \in Seq(Unit) /\ fifo \in Seq(Unit) /\ tx \in Seq(Response)
  BY DEF TypeOK
<1>3. line # <<>> => Head(line) \in Unit /\ Tail(line) \in Seq(Unit)
  BY <1>2, HeadTailProperties
<1>4. tx # <<>> => Head(tx) \in Response /\ Tail(tx) \in Seq(Response)
  BY <1>2, HeadTailProperties
<1>5. CASE Arrive
  <2>0. line # <<>> /\ (fifo' = fifo \/ fifo' = Append(fifo, Head(line)))
    BY <1>5 DEF Arrive
  <2>1. fifo' \in Seq(Unit)
    <3>1. fifo \in Seq(Unit) /\ Head(line) \in Unit
      BY <1>2, <1>3, <2>0
    <3>2. Append(fifo, Head(line)) \in Seq(Unit)
      BY <3>1, AppendProperties
    <3> QED BY <2>0, <3>1, <3>2
  <2>2. dcount' \in 0 .. Window
    BY <1>1, <1>5 DEF Arrive, TypeOK
  <2> QED BY <1>3, <1>5, <2>1, <2>2 DEF Arrive, TypeOK
<1>6. CASE Deliver
  <2>1. inbox' \in Seq(Response)
    BY <1>4, <1>6 DEF Deliver, TypeOK
  <2> QED BY <1>4, <1>6, <2>1 DEF Deliver, TypeOK, loaderVars
<1>7. CASE MissUnit
  BY <1>1, <1>3, <1>7 DEF MissUnit, TypeOK, loaderVars
<1>8. CASE Garble
  <2>0. line # <<>> /\ line' = <<[Head(line) EXCEPT !.k = 0]>> \o Tail(line)
    BY <1>8 DEF Garble
  <2>1. [Head(line) EXCEPT !.k = 0] \in Unit
    <3>1. Head(line) \in [pkt : Packets, k : Nat] /\ Head(line).pkt \in Packets
      BY <1>3, <2>0 DEF Unit
    <3>2. 0 \in 0 .. WireLen(Head(line).pkt)
      BY <1>1, <3>1, PacketType DEF WireLen
    <3> QED BY <3>1, <3>2 DEF Unit
  <2>2. line' \in Seq(Unit)
    <3> DEFINE noisy == <<[Head(line) EXCEPT !.k = 0]>>
    <3>1. noisy \in Seq(Unit)
      BY <2>1
    <3> HIDE DEF noisy
    <3>2. noisy \o Tail(line) \in Seq(Unit)
      BY <1>3, <2>0, <3>1, ConcatProperties
    <3> QED BY <2>0, <3>2 DEF noisy
  <2> QED BY <1>1, <1>8, <2>2 DEF Garble, TypeOK, loaderVars
<1>9. CASE MissResponse
  BY <1>1, <1>4, <1>9 DEF MissResponse, TypeOK, loaderVars
<1> QED BY <1>5, <1>6, <1>7, <1>8, <1>9 DEF Link

\* A response that is queued is a response.
LEMMA RespondType ==
  ASSUME TypeOK,
         NEW c \in {"RDY", "ACK", "ERR", "TEXT"}, NEW d \in {"none", "CRC", "OVR", "TYPE"},
         Respond(c, d)
  PROVE  /\ tx' \in Seq(Response) /\ fifo' \in Seq(Unit) /\ line' \in Seq(Unit)
         /\ inbox' \in Seq(Response) /\ faults' \in 0 .. MaxFaults
<1>1. Rsp(c, d) \in Response
  BY DEF Rsp, Response
<1> QED BY <1>1 DEF Respond, TypeOK

LEMMA HandleType ==
  ASSUME TypeOK, mode = "hdr", Len(buf) = HdrLen, Handle
  PROVE  TypeOK'
<1>1. HdrLen \in Nat /\ Window \in Nat /\ 0 \in Nat
  BY LayoutAssumption, BoardAssumption
<1>2. PICK h \in Decode(buf) :
        \/ HandlePing(h)   \/ HandleLoad(h)   \/ HandleZero(h) \/ HandleExec(h)
        \/ HandleReboot(h) \/ HandleUnknown(h)
        \/ Refuse(h, "LOAD") \/ Refuse(h, "ZERO")
  BY DEF Handle
<1>3. h \in Header
  BY <1>2, DecodeType DEF TypeOK
<1>4. ASSUME NEW t, Received(h, t)
      PROVE  hdr' \in Header /\ buf' \in Seq(Unit) /\ Len(buf') <= HdrLen
  BY <1>1, <1>3, <1>4 DEF Received
<1>5. CASE HandlePing(h)
  BY <1>4, <1>5, RespondType DEF HandlePing, TypeOK
<1>6. CASE HandleLoad(h)
  BY <1>1, <1>4, <1>6 DEF HandleLoad, TypeOK, linkVars, Modes
<1>7. CASE HandleZero(h)
  <2>1. mem' \in [Addr -> Value]
    BY <1>7 DEF HandleZero, TypeOK, Value
  <2> QED BY <1>4, <1>7, <2>1, RespondType DEF HandleZero, TypeOK
<1>8. CASE HandleExec(h)
  BY <1>4, <1>8, RespondType DEF HandleExec, TypeOK, Modes
<1>9. CASE HandleReboot(h)
  BY <1>4, <1>9, RespondType DEF HandleReboot, TypeOK
<1>10. CASE HandleUnknown(h)
  BY <1>1, <1>4, <1>10 DEF HandleUnknown, TypeOK, linkVars, Modes
<1>11. CASE Refuse(h, "LOAD") \/ Refuse(h, "ZERO")
  BY <1>4, <1>11, RespondType DEF Refuse, TypeOK
<1> QED BY <1>2, <1>5, <1>6, <1>7, <1>8, <1>9, <1>10, <1>11

LEMMA CommandsType ==
  ASSUME TypeOK, Commands
  PROVE  TypeOK'
<1>1. HdrLen \in Nat /\ Len(buf) \in Nat /\ off \in Nat
  BY LayoutAssumption, LenProperties DEF TypeOK
<1>2. fifo # <<>> => Head(fifo) \in Unit /\ Tail(fifo) \in Seq(Unit)
  BY HeadTailProperties DEF TypeOK
<1>3. CASE mode = "hdr" /\ Len(buf) = HdrLen /\ Handle
  BY <1>3, HandleType
<1>4. CASE KReadHdr
  <2>1. buf' \in Seq(Unit) /\ Len(buf') <= HdrLen
    BY <1>1, <1>2, <1>4 DEF KReadHdr, TypeOK
  <2> QED BY <1>2, <1>4, <2>1 DEF KReadHdr, TypeOK
<1>5. CASE KReadPayload
  <2>1. ValueOf(Head(fifo)) \in Value
    BY <1>2, <1>5, ValueType DEF KReadPayload
  <2>2. mem' \in [Addr -> Value]
    BY <1>5, <2>1 DEF KReadPayload, TypeOK
  <2> QED BY <1>1, <1>2, <1>5, <2>2 DEF KReadPayload, TypeOK
<1>6. CASE CheckCrc
  <2>1. Respond("ACK", "none") \/ Respond("ERR", "CRC")
    BY <1>6 DEF CheckCrc
  <2> QED BY <1>6, <2>1, RespondType DEF CheckCrc, TypeOK, Modes
<1>7. CASE DrainAndReport
  <2>1. Rsp("ERR", "TYPE") \in Response
    BY DEF Rsp, Response
  <2> QED BY <1>7, <2>1 DEF DrainAndReport, TypeOK, Modes
<1> QED BY <1>3, <1>4, <1>5, <1>6, <1>7 DEF Commands

LEMMA KernelType ==
  ASSUME TypeOK, Kernel
  PROVE  TypeOK'
<1>1. KernelRegs \in Nat \X Nat \X Nat
  BY BoardAssumption
<1>2. CASE StartKernel
  BY <1>2 DEF StartKernel, TypeOK, Modes
<1>3. CASE KernelReturn
  BY <1>1, <1>3 DEF KernelReturn, TypeOK, Modes, linkVars
<1>4. CASE KernelDisarm
  BY <1>4 DEF KernelDisarm, TypeOK, linkVars
<1>5. CASE KernelPrint
  BY <1>5, RespondType DEF KernelPrint, TypeOK, loaderVars
<1>6. ASSUME NEW a \in Addr, KernelTrash(a)
      PROVE  TypeOK'
  <2>1. mem' \in [Addr -> Value]
    BY <1>6 DEF KernelTrash, TypeOK, Value
  <2> QED BY <1>6, <2>1 DEF KernelTrash, TypeOK, linkVars
<1> QED BY <1>2, <1>3, <1>4, <1>5, <1>6 DEF Kernel

LEMMA BoardTypeStep ==
  ASSUME TypeOK, LoaderStep
  PROVE  TypeOK'
BY StartType, CommandsType, KernelType, LinkType DEF LoaderStep

LEMMA BoardTypeStutter ==
  ASSUME TypeOK, UNCHANGED boardVars
  PROVE  TypeOK'
BY DEF TypeOK, boardVars, loaderVars, linkVars

-----------------------------------------------------------------------------
(* Transfers and the loader's own memory *)

\* validate_target_addr looks at the two ends of a range only, so that it lets one
\* pass which has all of the loader in between.
ReachesOver(addr, size) == ValidateTargetAddr(addr, size) /\ Region \subseteq Cells(addr, size)

\* That is all it misses: what else it accepts does not touch the loader, even
\* where the addition wraps.
LEMMA ValidateIsSound ==
  ASSUME NEW addr \in Addr, NEW size \in Addr,
         ValidateTargetAddr(addr, size), ~ ReachesOver(addr, size)
  PROVE  Cells(addr, size) \cap Region = {}
<1> SUFFICES ASSUME NEW i \in 0 .. size - 1, Plus(addr, i) \in Region, NEW r \in Region
             PROVE  \E j \in 0 .. size - 1 : Plus(addr, j) = r
  BY DEF Cells, ReachesOver
<1>1. /\ AddrSpace \in Nat /\ RunStart \in Nat /\ RunEnd \in Nat
      /\ RunStart < RunEnd /\ RunEnd < AddrSpace
      /\ addr \in 0 .. AddrSpace - 1 /\ size \in 0 .. AddrSpace - 1 /\ i \in Int
      /\ r \in Int /\ RunStart <= r /\ r < RunEnd
  BY LayoutAssumption DEF Addr, Region
<1>2. /\ ~ (RunStart <= addr /\ addr < RunEnd)
      /\ ~ (RunStart <= Plus(addr, size) /\ Plus(addr, size) < RunEnd)
  BY DEF ValidateTargetAddr, Covers
<1>3. RunStart <= Plus(addr, i) /\ Plus(addr, i) < RunEnd
  BY <1>1 DEF Region, Plus
<1>4. CASE addr <= r
  <2>1. r - addr \in 0 .. size - 1 /\ Plus(addr, r - addr) = r
    BY <1>1, <1>2, <1>3, <1>4 DEF Plus
  <2> QED BY <2>1
<1>5. CASE r < addr
  <2>1. r + AddrSpace - addr \in 0 .. size - 1 /\ Plus(addr, r + AddrSpace - addr) = r
    BY <1>1, <1>2, <1>3, <1>5 DEF Plus
  <2> QED BY <2>1
<1> QED BY <1>1, <1>4, <1>5

\* No transfer that can be read off the line has the loader between its ends.
NoneReachesOver ==
  /\ \A p \in Packets : p.type \in {"LOAD", "ZERO"} => ~ ReachesOver(p.address, p.size)
  /\ \A a \in Addr, s \in GarbledSizes : ~ ReachesOver(a, s)

\* Those that are no longer than the loader do not.
LEMMA SmallOnesDoNot ==
  ASSUME \A p \in Packets : p.size <= RunEnd - RunStart,
         \A s \in GarbledSizes : s <= RunEnd - RunStart
  PROVE  NoneReachesOver
<1>1. ASSUME NEW addr \in Addr, NEW size \in Addr, size <= RunEnd - RunStart
      PROVE  ~ ReachesOver(addr, size)
  <2> SUFFICES ASSUME ValidateTargetAddr(addr, size), Region \subseteq Cells(addr, size)
               PROVE  FALSE
    BY DEF ReachesOver
  <2>1. /\ AddrSpace \in Nat /\ RunStart \in Nat /\ RunEnd \in Nat
        /\ RunStart < RunEnd /\ RunEnd < AddrSpace
        /\ addr \in 0 .. AddrSpace - 1 /\ size \in 0 .. AddrSpace - 1
    BY LayoutAssumption DEF Addr
  <2>2. RunStart \in Cells(addr, size) BY <2>1 DEF Region
  <2>3. PICK i \in 0 .. size - 1 : Plus(addr, i) = RunStart BY <2>2 DEF Cells
  <2>4. /\ ~ (RunStart <= addr /\ addr < RunEnd)
        /\ ~ (RunStart <= Plus(addr, size) /\ Plus(addr, size) < RunEnd)
    BY DEF ValidateTargetAddr, Covers
  <2> QED BY <1>1, <2>1, <2>3, <2>4 DEF Plus
<1>2. \A p \in Packets : p.address \in Addr /\ p.size \in Addr
  BY PacketAssumption
<1>3. GarbledSizes \subseteq Addr BY PacketAssumption
<1> QED BY <1>1, <1>2, <1>3 DEF NoneReachesOver

\* The invariant: a payload in progress is one that validate_target_addr let
\* pass, and it goes nowhere near the loader.
PayloadElsewhere ==
  mode = "payload" => Cells(hdr.address, hdr.size) \cap Region = {}

LEMMA DecodedReach ==
  ASSUME NoneReachesOver, NEW b \in Seq(Unit), Len(b) = HdrLen, NEW h \in Decode(b),
         h.type \in {"LOAD", "ZERO"}
  PROVE  ~ ReachesOver(h.address, h.size)
<1>0. HdrLen \in Nat /\ HdrLen >= 2
  BY LayoutAssumption
<1>1. b[1] \in Unit
  BY <1>0, ElementOfSeq
<1>2. b[1].pkt \in Packets
  BY <1>1 DEF Unit
<1>3. h # UnknownHeader
  BY DEF UnknownHeader
<1>4. CASE h = HeaderOf(b[1].pkt)
  BY <1>2, <1>4 DEF HeaderOf, NoneReachesOver
<1>5. CASE h \in [type : {b[1].pkt.type}, address : Addr, size : GarbledSizes,
                  crc : {b[1].pkt.data, NoCrc}, flags : SUBSET Flags]
  BY <1>5 DEF NoneReachesOver
<1> QED BY <1>3, <1>4, <1>5 DEF Decode

\* What handle_load and handle_zero accept lies elsewhere.
LEMMA AcceptedElsewhere ==
  ASSUME TypeOK, NoneReachesOver, Len(buf) = HdrLen,
         NEW h \in Decode(buf), h.type \in {"LOAD", "ZERO"}, ~ Overwrites(h)
  PROVE  Cells(h.address, h.size) \cap Region = {}
<1>1. buf \in Seq(Unit) /\ h \in Header
  BY DecodeType DEF TypeOK
<1>2. h.address \in Addr /\ h.size \in Addr /\ ~ ReachesOver(h.address, h.size)
  BY <1>1, DecodedReach DEF Header
<1> QED BY <1>2, ValidateIsSound DEF Overwrites

LEMMA PayloadElsewhereStep ==
  ASSUME TypeOK, NoneReachesOver, PayloadElsewhere, LoaderStep
  PROVE  PayloadElsewhere'
<1>1. CASE mode = "hdr" /\ Len(buf) = HdrLen /\ Handle
  <2>1. PICK h \in Decode(buf) :
          \/ HandlePing(h)   \/ HandleLoad(h)   \/ HandleZero(h) \/ HandleExec(h)
          \/ HandleReboot(h) \/ HandleUnknown(h)
          \/ Refuse(h, "LOAD") \/ Refuse(h, "ZERO")
    BY <1>1 DEF Handle
  <2>2. CASE HandleLoad(h)
    <3>1. hdr' = h /\ h.type = "LOAD" /\ ~ Overwrites(h)
      BY <2>2 DEF HandleLoad, Received
    <3> QED BY <1>1, <3>1, AcceptedElsewhere DEF PayloadElsewhere
  <2>3. CASE ~ HandleLoad(h)
    <3>1. mode' # "payload"
      BY <1>1, <2>1, <2>3 DEF HandlePing, HandleZero, HandleExec, HandleReboot,
                              HandleUnknown, Refuse
    <3> QED BY <3>1 DEF PayloadElsewhere
  <2> QED BY <2>2, <2>3
<1>2. CASE KReadHdr \/ KReadPayload \/ CheckCrc \/ DrainAndReport
  BY <1>2 DEF KReadHdr, KReadPayload, CheckCrc, DrainAndReport, PayloadElsewhere
<1>3. CASE Startup \/ KMain \/ WdogFire \/ PowerCycle \/ Derail
  BY <1>3 DEF Startup, KMain, WdogFire, PowerCycle, Reset, Derail, PayloadElsewhere
<1>4. CASE Kernel
  <2>1. mode' # "payload"
    BY <1>4 DEF Kernel, StartKernel, KernelReturn, KernelTrash, KernelDisarm,
                KernelPrint, loaderVars
  <2> QED BY <2>1 DEF PayloadElsewhere
<1>5. CASE Link
  <2>1. mode' = mode /\ hdr' = hdr
    BY <1>5 DEF Link, Arrive, Deliver, MissUnit, Garble, MissResponse, loaderVars
  <2> QED BY <2>1 DEF PayloadElsewhere
<1> QED BY <1>1, <1>2, <1>3, <1>4, <1>5 DEF LoaderStep, Commands

\* No step but the start-up and the started program's own changes the loader.
LEMMA KeepsItselfStep ==
  ASSUME TypeOK, NoneReachesOver, PayloadElsewhere, LoaderStep,
         NEW a \in Region, mem'[a] # mem[a]
  PROVE  mode \in {"boot", "kernel"}
<1>1. CASE mode = "hdr" /\ Len(buf) = HdrLen /\ Handle
  <2>1. PICK h \in Decode(buf) :
          \/ HandlePing(h)   \/ HandleLoad(h)   \/ HandleZero(h) \/ HandleExec(h)
          \/ HandleReboot(h) \/ HandleUnknown(h)
          \/ Refuse(h, "LOAD") \/ Refuse(h, "ZERO")
    BY <1>1 DEF Handle
  <2>2. CASE HandleZero(h)
    <3>1. a \notin Cells(h.address, h.size)
      BY <1>1, <2>2, AcceptedElsewhere DEF HandleZero, Received
    <3>2. a \in Addr
      BY LayoutAssumption DEF Region, Addr
    <3>3. mem'[a] = mem[a]
      BY <2>2, <3>1, <3>2 DEF HandleZero
    <3> QED BY <3>3
  <2>3. CASE ~ HandleZero(h)
    <3>1. mem' = mem
      BY <2>1, <2>3 DEF HandlePing, HandleLoad, HandleExec, HandleReboot,
                        HandleUnknown, Refuse
    <3> QED BY <3>1
  <2> QED BY <2>2, <2>3
<1>2. CASE KReadPayload
  <2>1. off \in 0 .. hdr.size - 1 /\ mode = "payload"
    BY <1>2, SMTT(30) DEF KReadPayload, TypeOK, Header, Addr
  <2>2. Plus(hdr.address, off) \in Cells(hdr.address, hdr.size)
    BY <2>1 DEF Cells
  <2>3. a # Plus(hdr.address, off)
    BY <2>1, <2>2 DEF PayloadElsewhere
  <2>4. mem'[a] = mem[a]
    BY <1>2, <2>3 DEF KReadPayload, TypeOK
  <2> QED BY <2>4
<1>3. CASE KReadHdr \/ CheckCrc \/ DrainAndReport
  BY <1>3 DEF KReadHdr, CheckCrc, DrainAndReport
<1>4. CASE Startup \/ KMain \/ WdogFire \/ PowerCycle \/ Derail
  BY <1>4 DEF Startup, KMain, WdogFire, PowerCycle, Reset, Derail
<1>5. CASE Kernel
  BY <1>5 DEF Kernel, StartKernel, KernelReturn, KernelTrash, KernelDisarm,
              KernelPrint, loaderVars
<1>6. CASE Link
  BY <1>6 DEF Link, Arrive, Deliver, MissUnit, Garble, MissResponse, loaderVars
<1> QED BY <1>1, <1>2, <1>3, <1>4, <1>5, <1>6 DEF LoaderStep, Commands

-----------------------------------------------------------------------------
(* The watchdog *)

LEMMA WatchdogStep ==
  ASSUME WatchdogIsForPrograms, LoaderStep
  PROVE  WatchdogIsForPrograms'
<1>1. CASE Startup \/ KMain \/ WdogFire \/ PowerCycle \/ Derail
  BY <1>1 DEF Startup, KMain, WdogFire, PowerCycle, Reset, Derail, WatchdogIsForPrograms
<1>2. CASE Link
  BY <1>2 DEF Link, Arrive, Deliver, MissUnit, Garble, MissResponse, loaderVars,
              WatchdogIsForPrograms
<1>3. CASE Kernel
  BY <1>3 DEF Kernel, StartKernel, KernelReturn, KernelDisarm, KernelPrint, KernelTrash,
              loaderVars, WatchdogIsForPrograms
<1>4. CASE KReadHdr \/ KReadPayload \/ CheckCrc \/ DrainAndReport
  BY <1>4 DEF KReadHdr, KReadPayload, CheckCrc, DrainAndReport, WatchdogIsForPrograms
<1>5. ASSUME mode = "hdr", NEW h \in Decode(buf),
             \/ HandlePing(h) \/ HandleLoad(h) \/ HandleZero(h) \/ HandleUnknown(h)
             \/ Refuse(h, "LOAD") \/ Refuse(h, "ZERO")
      PROVE  WatchdogIsForPrograms'
  BY <1>5 DEF HandlePing, HandleLoad, HandleZero, HandleUnknown, Refuse, WatchdogIsForPrograms
<1>6. ASSUME mode = "hdr", NEW h \in Decode(buf), HandleExec(h) \/ HandleReboot(h)
      PROVE  WatchdogIsForPrograms'
  BY <1>6 DEF HandleExec, HandleReboot, Received, WatchdogIsForPrograms
<1> QED BY <1>1, <1>2, <1>3, <1>4, <1>5, <1>6 DEF LoaderStep, Commands, Handle

=============================================================================
