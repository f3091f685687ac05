----------------------------- MODULE SplitBinary -----------------------------
(***************************************************************************)
(* How piboot uploads a plain binary file (client/binary_loader.c):        *)
(* split_binary cuts it into parts, one turn of its loop at a time, and    *)
(* load_binary sends a LOAD or ZERO packet for each.                       *)
(*                                                                         *)
(* A cell of memory is one 32 bit word; sizes of parts are in words.       *)
(***************************************************************************)
EXTENDS Integers, Sequences

CONSTANTS
  AddrSpace,    \* words of board memory
  LoadAddr,     \* e_load before the file
  Binaries,     \* the files: their whole words, and their size in bytes
  MinZeros,     \* 512 bytes: a shorter run of zeros is not worth a packet
  InitParts     \* 8: elements of the first array of parts

Addr == 0 .. AddrSpace - 1
Old  == -1      \* what memory held before
Beef == -2      \* 0xDEADBEEF
Null == -1
Cell == Nat \cup {Old, Beef}

ASSUME SplitAssumption ==
  /\ AddrSpace \in Nat /\ LoadAddr \in Nat
  /\ Binaries \subseteq [words : Seq(Nat), size : Nat]
  /\ \A b \in Binaries : /\ Len(b.words) = b.size \div 4
                         /\ LoadAddr + Len(b.words) <= AddrSpace
  /\ MinZeros \in Nat \ {0} /\ InitParts \in Nat \ {0}

VARIABLES
  stage,     \* "split", then "upload", then "loaded"
  file,      \* the file, as sdata and data_size
  data_idx,
  parts,     \* the elements of the array that have been written
  part_size, \* the elements it has room for
  zero,
  i,         \* of the upload loop
  e_load,
  mem        \* board memory

fileVars  == <<stage, file, data_idx, parts, part_size, zero, i>>
splitVars == <<fileVars, e_load, mem>>

\* addr is NULL, or where in sdata the part begins.  from is history: where a
\* part without an addr begins.
Part == [addr : Nat \cup {Null}, size : Nat, from : Nat]

FirstPart == [addr |-> 0, size |-> 0, from |-> 0]

\* load_binary is about to enter the loop of split_binary.
Loading(b) ==
  /\ stage = "split" /\ file = b /\ data_idx = 0 /\ zero = FALSE /\ i = 1
  /\ parts = <<FirstPart>> /\ part_size = InitParts

SplitInit == /\ \E b \in Binaries : Loading(b)
             /\ e_load = LoadAddr /\ mem = [a \in Addr |-> Old]

-----------------------------------------------------------------------------
(* split_binary *)

Word    == file.words[data_idx + 1]
Current == parts[Len(parts)]

GrowLate(new_count, size) == IF new_count <= size + 1 THEN size ELSE 2 * size

\* allocate_parts
Grow(new_count, size) == IF new_count < size THEN size ELSE 2 * size

AddPart(addr, n) ==
  /\ parts' = Append(parts, [addr |-> addr, size |-> n, from |-> data_idx])
  /\ part_size' = Grow(Len(parts) + 1, part_size)

\* Part m, with which s ends from now on, grows by n words.
Longer(p, n) == [p EXCEPT !.size = @ + n]
GrowPart(s, m, n) == [SubSeq(s, 1, m) EXCEPT ![m] = Longer(@, n)]

InLoop == stage = "split" /\ data_idx < Len(file.words)

NextWord == data_idx' = data_idx + 1 /\ UNCHANGED <<stage, file, i, e_load, mem>>

\* Nothing to switch: the current part grows.
Extend ==
  /\ InLoop /\ zero = (Word = 0)
  /\ parts' = GrowPart(parts, Len(parts), 1)
  /\ UNCHANGED <<part_size, zero>> /\ NextWord

BeginZeros ==
  /\ InLoop /\ ~zero /\ Word = 0
  /\ AddPart(Null, 1) /\ zero' = TRUE /\ NextWord

DropInto(before) ==
  /\ parts' = GrowPart(parts, before, 1)
  /\ zero' = FALSE /\ UNCHANGED part_size

MergeInto(before) ==
  /\ parts' = GrowPart(parts, before, Current.size + 1)
  /\ zero' = FALSE /\ UNCHANGED part_size

MergeManyZeros ==
  /\ InLoop /\ zero /\ Word # 0 /\ Current.size <= MinZeros
  /\ MergeInto(Len(parts) - 1) /\ NextWord

\* "zero part was too small, switch back to previous non-zero"
MergeZeros ==
  /\ InLoop /\ zero /\ Word # 0 /\ Current.size < MinZeros
  /\ MergeInto(Len(parts) - 1) /\ NextWord

\* "there was enough zeros, create new non-zero part"
KeepZeros ==
  /\ InLoop /\ zero /\ Word # 0 /\ Current.size >= MinZeros
  /\ AddPart(data_idx, 1) /\ zero' = FALSE /\ NextWord

\* "add terminating part"
Terminate ==
  /\ stage = "split" /\ data_idx = Len(file.words)
  /\ AddPart(Null, 0) /\ stage' = "upload"
  /\ UNCHANGED <<file, data_idx, zero, i, e_load, mem>>

Split == Extend \/ BeginZeros \/ MergeZeros \/ KeepZeros \/ Terminate

-----------------------------------------------------------------------------
(* load_binary *)

\* What a part puts at offset k of itself; fill is what a ZERO packet writes.
Content(p, k, fill) == IF p.addr = Null THEN fill ELSE file.words[p.addr + k + 1]

\* load_buffer or zero_section, acknowledged.
UploadPart(fill) ==
  /\ stage = "upload" /\ parts[i].size > 0
  /\ mem' = [a \in Addr |-> IF a \in e_load .. e_load + parts[i].size - 1
                            THEN Content(parts[i], a - e_load, fill) ELSE mem[a]]
  /\ e_load' = e_load + parts[i].size
  /\ i' = i + 1
  /\ UNCHANGED <<stage, file, data_idx, parts, part_size, zero>>

\* The loop ends at the first part that is empty.
EndUpload ==
  /\ stage = "upload" /\ parts[i].size = 0
  /\ stage' = "loaded"
  /\ UNCHANGED <<file, data_idx, parts, part_size, zero, i, e_load, mem>>

SplitNext == Split \/ UploadPart(0) \/ EndUpload

SplitSpec == SplitInit /\ [][SplitNext]_splitVars

-----------------------------------------------------------------------------
(* Properties *)

PartsTypeOK ==
  /\ stage \in {"split", "upload", "loaded"}
  /\ file \in Binaries /\ data_idx \in 0 .. Len(file.words)
  /\ parts \in Seq(Part) /\ Len(parts) > 0
  /\ part_size \in Nat /\ zero \in BOOLEAN
  /\ i \in 1 .. Len(parts)

SplitTypeOK == PartsTypeOK /\ e_load \in Nat /\ mem \in [Addr -> Cell]

\* "allocate_parts(parts, current_part+1, ...)": every element that is written
\* lies inside the array, however often that is grown.
PartsFit == Len(parts) <= part_size

\* The parts that describe the file: all but the terminator.
Pieces == IF stage = "split" THEN Len(parts) ELSE Len(parts) - 1

Begins(n) == parts[n].from
Ends(n)   == parts[n].from + parts[n].size

\* The parts of split_binary are the words read so far: in order, with no word
\* left out or twice, those without an address being zeros.
PartsAreFile ==
  /\ Begins(1) = 0 /\ Ends(Pieces) = data_idx
  /\ \A n \in 1 .. Pieces - 1 : Ends(n) = Begins(n + 1)
  /\ \A n \in 1 .. Pieces :
       IF parts[n].addr = Null THEN \A k \in Begins(n) + 1 .. Ends(n) : file.words[k] = 0
                               ELSE parts[n].addr = Begins(n)

\* "look for big chunks of zeros in binary streams and upload them using special
\* command" (README): no MinZeros zeros in a row are inside a part that is sent
\* as data.
BigZerosAreCommands ==
  stage # "split" =>
    \A n \in 1 .. Pieces : parts[n].addr # Null =>
      \A k \in Begins(n) + 1 .. Ends(n) - MinZeros + 1 :
        \E j \in k .. k + MinZeros - 1 : file.words[j] # 0

\* A file that has something else than zeros in its first MinZeros words, or no words.
\* (A file of fewer words, all zeros, does not.)
BeginsWithData ==
  file.words = <<>> \/ \E k \in 1 .. MinZeros : k <= Len(file.words) /\ file.words[k] # 0

\* None of these words is sent as a zero: there is no chunk of zeros, nor do they end
\* with one (zeros at the end of a file are not merged into what is before them).
AllData(ws) ==
  /\ \A k \in 1 .. Len(ws) - MinZeros + 1 : \E j \in k .. k + MinZeros - 1 : ws[j] # 0
  /\ ws = <<>> \/ ws[Len(ws)] # 0

Holds(ws, at) ==
  \A a \in Addr : mem[a] = IF a \in at .. at + Len(ws) - 1 THEN ws[a - at + 1] ELSE Old

\* When load_binary returns, memory holds the words of the file at the address
\* asked for, and nothing else has changed.  The loop stops at the first empty part,
\* which must be the terminator: of a file that does not begin with data, whose
\* first part is empty, nothing at all is uploaded.
UploadIsFile ==
  stage = "loaded" => Holds(IF BeginsWithData THEN file.words ELSE <<>>, LoadAddr)

\* README, Intelligent upload: big chunks of zeros are uploaded too, wherever
\* in the file they are.
ZerosAreUploaded == stage = "loaded" => Holds(file.words, LoadAddr)

=============================================================================
