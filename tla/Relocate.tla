------------------------------- MODULE Relocate -------------------------------
(***************************************************************************)
(* How the loader moves itself out of the way: raspi/start.S up to the     *)
(* jump to _start, with the symbols that raspi/link.ld computes and the    *)
(* image that raspi/Makefile.in makes of the sections.  Module Loader has  *)
(* this as the one step Startup.                                           *)
(*                                                                         *)
(* Addresses are those of bytes; memory is read and written by words of 4. *)
(***************************************************************************)
EXTENDS Integers

CONSTANTS
  LoadAddr, RunAddr,  \* load_addr, run_addr
  StartupSize,        \* SIZEOF(.startup)
  Sizes,              \* what SIZEOF may be of .text, .rodata, .data and .bss
  AddrSpace           \* addresses wrap there

Words == {n \in Nat : n % 4 = 0}

Total(s) == s.text + s.rodata + s.data + s.bss

\* All of the loader is made of words (no strings, no packed data), so that the
\* sections follow each other without padding; and the image ends well below the
\* running address.
ASSUME SectionsAssumption ==
  /\ {LoadAddr, RunAddr, StartupSize, AddrSpace} \subseteq Words
  /\ Sizes \subseteq [text : Words, rodata : Words, data : Words, bss : Words]
  /\ \A s \in Sizes : /\ LoadAddr + StartupSize + Total(s) <= RunAddr
                      /\ RunAddr + Total(s) < AddrSpace

VARIABLES
  size,        \* of the sections of this build
  ram,         \* its words
  r3, r4, r5,
  reloc        \* start, move (_move_loop), or run (at _start)

relocateVars == <<size, ram, r3, r4, r5, reloc>>

WordAddr == {a \in 0 .. AddrSpace - 1 : a % 4 = 0}

\* Words: the loader's own are numbered, .bss is zeros.
Junk == -1
Zero == 0

-----------------------------------------------------------------------------
(* link.ld *)

LoadedTextStart == LoadAddr + StartupSize

LoadedEndNoBss(s) == LoadedTextStart + s.text + s.rodata + s.data

LoadedEnd(s) == LoadedTextStart + s.text + s.rodata + s.data + s.bss

RunEnd(s) == RunAddr + s.text + s.rodata + s.data + s.bss

\* loader.bin: .bss is part of it (--set-section-flags .bss=alloc,load,contents).
LoaderBin(s, o) == IF o < Total(s) - s.bss THEN 1 + o \div 4 ELSE Zero

-----------------------------------------------------------------------------
(* start.S *)

\* The firmware has put kernel.img (startup.bin and loader.bin) at load_addr.
RelocateInit ==
  /\ size \in Sizes /\ reloc = "start"
  /\ ram = [a \in WordAddr |->
              IF LoadedTextStart <= a /\ a < LoadedTextStart + Total(size)
              THEN LoaderBin(size, a - LoadedTextStart) ELSE Junk]
  /\ r3 = 0 /\ r4 = 0 /\ r5 = 0

\* _startup up to the loop.
Startup ==
  /\ reloc = "start" /\ reloc' = "move"
  /\ r3' = LoadedTextStart /\ r4' = LoadedEnd(size) /\ r5' = RunAddr
  /\ UNCHANGED <<size, ram>>

Add(r, n) == IF r + n < AddrSpace THEN r + n ELSE r + n - AddrSpace

MoveLoopByTwo ==
  /\ reloc = "move" /\ r3 # r4
  /\ ram' = [ram EXCEPT ![r5] = ram[r3], ![Add(r5, 4)] = ram[Add(r3, 4)]]
  /\ r3' = Add(r3, 8) /\ r5' = Add(r5, 8)
  /\ UNCHANGED <<size, r4, reloc>>

\* The branch at the top of _move_loop looks for equality only.
MoveLoop ==
  /\ reloc = "move" /\ r3 # r4
  /\ ram' = [ram EXCEPT ![r5] = ram[r3]]
  /\ r3' = Add(r3, 4) /\ r5' = Add(r5, 4)
  /\ UNCHANGED <<size, r4, reloc>>

MoveDone == reloc = "move" /\ r3 = r4 /\ reloc' = "run" /\ UNCHANGED <<size, ram, r3, r4, r5>>

RelocateNext == Startup \/ MoveLoop \/ MoveDone

RelocateSpec == RelocateInit /\ [][RelocateNext]_relocateVars

-----------------------------------------------------------------------------
(* Properties *)

RelocateTypeOK ==
  /\ size \in Sizes /\ reloc \in {"start", "move", "run"}
  /\ ram \in [WordAddr -> Int]
  /\ {r3, r4, r5} \subseteq WordAddr

\* When _start is entered, all of the loader is where it was linked to run, its
\* .bss zeroed although nothing else clears it (saved_r1 relies on that), and
\* that is just the range validate_target_addr protects: nothing outside of it
\* was written ("the bootloader first relocates itself").
Relocated ==
  reloc = "run" => \A a \in WordAddr :
    IF RunAddr <= a /\ a < RunEnd(size) THEN ram[a] = LoaderBin(size, a - RunAddr)
    ELSE a >= LoadedTextStart + Total(size) => ram[a] = Junk

\* The loop comes to its end, though it looks for equality (_move_loop).
StartsRunning == <>(reloc = "run")

=============================================================================
