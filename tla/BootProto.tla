------------------------------ MODULE BootProto ------------------------------
(***************************************************************************)
(* The wire protocol of common/bootproto.h as both ends use it, and the    *)
(* address arithmetic of the loader (raspi/bootrpi.c, raspi/link.ld).      *)
(*                                                                         *)
(* Bytes are grouped into units.  A packet header (struct bp_hdr) is       *)
(* HdrLen units: the first one carries p_type, the others address, size,   *)
(* crc32 and flags.  One unit of payload fills one address.                *)
(***************************************************************************)
EXTENDS Integers, Sequences

CONSTANTS
  AddrSpace,      \* number of addresses: arithmetic on them wraps there
  RunStart,       \* start of the loader's stack page, run_addr - 4096
  RunAddr,        \* run_addr: the loader's first word, the "magic"
  RunEnd,         \* run_end: the first address behind the loader
  HdrLen,         \* units of a header
  Data,           \* the values a payload unit can carry
  Packets,        \* the packets the PC side may send
  GarbledSizes    \* what <size> may read as in a header cut by a lost unit

Addr  == 0 .. AddrSpace - 1
Flags == {"NOWD", "BEEF"}
PktTypes == {"PING", "LOAD", "ZERO", "EXEC", "REBOOT"}
Types == PktTypes \cup {"UNKNOWN"}

ASSUME LayoutAssumption ==
  /\ AddrSpace \in Nat /\ RunStart \in Nat /\ RunAddr \in Nat /\ RunEnd \in Nat
  /\ RunStart < RunAddr /\ RunAddr < RunEnd /\ RunEnd < AddrSpace
  /\ HdrLen \in Nat /\ HdrLen >= 2

\* Values that memory can hold besides payload data: zeros and the pattern
\* 0xDEADBEEF written by memset32, the loader itself, and anything else.
ASSUME DataAssumption == Data \cap {"zero", "beef", "ldr", "junk", "nocrc"} = {}

Value == Data \cup {"zero", "beef", "ldr", "junk"}

\* A LOAD packet carries its payload; the other packets carry none.
ASSUME PacketAssumption ==
  /\ Packets \subseteq [type : PktTypes, address : Addr, size : Addr,
                        data : Seq(Data), flags : SUBSET Flags]
  /\ \A p \in Packets : p.type = "LOAD" => Len(p.data) = p.size
  /\ GarbledSizes \subseteq Addr

-----------------------------------------------------------------------------
(* Bytes in flight *)

WireLen(p) == HdrLen + Len(p.data)

\* Unit k of what write() puts on the line for packet p; 0 marks a unit that
\* noise has changed.
Unit == {u \in [pkt : Packets, k : Nat] : u.k \in 0 .. WireLen(u.pkt)}

HeaderUnits(p)  == [k \in 1 .. HdrLen |-> [pkt |-> p, k |-> k]]
PayloadUnits(p) == [i \in 1 .. Len(p.data) |-> [pkt |-> p, k |-> HdrLen + i]]

\* The value a unit stores when it is read as payload.
ValueOf(u) == IF u.k > HdrLen THEN u.pkt.data[u.k - HdrLen] ELSE "junk"

-----------------------------------------------------------------------------
(* Headers as the loader sees them.  The checksum is ideal: the crc field of *)
(* a LOAD header is the payload it was computed from.                        *)

NoCrc == <<"nocrc">>

Header == [type : Types, address : Addr, size : Addr,
           crc : Seq(Data \cup {"nocrc"}), flags : SUBSET Flags]

HeaderOf(p) == [type |-> p.type, address |-> p.address, size |-> p.size,
                crc |-> p.data, flags |-> p.flags]

UnknownHeader == [type |-> "UNKNOWN", address |-> 0, size |-> 0,
                  crc |-> <<>>, flags |-> {}]

Whole(b) == \A k \in 1 .. HdrLen : b[k] = [pkt |-> b[1].pkt, k |-> k]

\* What HdrLen units read as one struct bp_hdr can mean.  A first unit that is
\* no first unit of a packet is no known p_type; a header that lost or garbled
\* a later unit keeps its type, and its other fields may read as anything.
Decode(b) ==
  IF b[1].k # 1 THEN {UnknownHeader}
  ELSE IF Whole(b) THEN {HeaderOf(b[1].pkt)}
  ELSE [type : {b[1].pkt.type}, address : Addr, size : GarbledSizes,
        crc : {b[1].pkt.data, NoCrc}, flags : SUBSET Flags]

\* TEXT stands for what the started program prints.
Response == [code : {"RDY", "ACK", "ERR", "TEXT"}, data : {"none", "CRC", "OVR", "TYPE"}]
Rsp(c, d) == [code |-> c, data |-> d]

-----------------------------------------------------------------------------
(* Addresses *)

\* Addition of uintptr_t.
Plus(a, n) == IF a + n >= AddrSpace THEN a + n - AddrSpace ELSE a + n

\* The loader's own memory: stack page, text, data and bss.
Region == RunStart .. RunEnd - 1

Covers(lo, hi, a) == lo <= a /\ a < hi

ValidateStartOnly(addr, size) == ~ Covers(RunStart, RunEnd, addr)

\* validate_target_addr: only the two ends of the range are looked at.
ValidateTargetAddr(addr, size) ==
  /\ ~ Covers(RunStart, RunEnd, addr)
  /\ ~ Covers(RunStart, RunEnd, Plus(addr, size))

\* The addresses a transfer writes.
Cells(addr, size) == {Plus(addr, i) : i \in 0 .. size - 1}

\* The addresses a packet writes, and what memory must hold at a after it.
Writes(p) == IF p.type \in {"LOAD", "ZERO"} THEN Cells(p.address, p.size) ELSE {}

Wrote(p, a) ==
  IF p.type = "LOAD" THEN p.data[CHOOSE i \in 1 .. p.size : Plus(p.address, i - 1) = a]
  ELSE IF "BEEF" \in p.flags THEN "beef" ELSE "zero"

=============================================================================
