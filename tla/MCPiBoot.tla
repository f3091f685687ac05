------------------------------- MODULE MCPiBoot -------------------------------
(* Command lines and files for TLC, on a board of 16 words, default address 4 *)
EXTENDS PiBoot

o(x)    == [opt |-> x, arg |-> 0]
l(x, a) == [opt |-> x, arg |-> a]

Bin(ws)  == [kind |-> "binary", binary |-> [words |-> ws, size |-> 4 * Len(ws)]]
Elf(e, s) == [kind |-> "elf", valid |-> TRUE, entry |-> e, segments |-> s]
Seg(a, d, m) == [type |-> "LOAD", paddr |-> a, data |-> d, memsz |-> m]
Note     == [type |-> "NOTE", paddr |-> 0, data |-> <<9>>, memsz |-> 1]

Hello == Bin(<<1, 2>>)
Holes == Bin(<<3, 0, 4, 0, 0, 5>>)
Hole  == Bin(<<1, 0, 3>>)
Empty == Bin(<<>>)
\* Text with bss behind it, and a segment that overlaps it and has data only.
Prog   == Elf(5, <<Seg(4, <<6, 7>>, 4), Note, Seg(6, <<8>>, 1)>>)
\* A bss of its own (an empty LOAD), at the end of the address space.
Bss    == Elf(9, <<Seg(14, <<>>, 2), Seg(9, <<2>>, 2)>>)
NotArm == [Prog EXCEPT !.valid = FALSE]

FileLists == {<<>>, <<Hello>>, <<Hello, Holes>>, <<Holes, Prog>>, <<Prog, Bss, Hello>>, <<Bss, Prog>>,
              <<Empty, Hello>>, <<Prog, Hello, Empty>>, <<NotArm>>, <<Hello, Missing>>}

Plain == {<<o("p")>> \o os : os \in {<<>>, <<l("l", 6)>>, <<l("x", 7), o("w")>>, <<o("s")>>,
            <<l("l", 2), l("x", 3), l("l", 8)>>, <<o("m"), o("v")>>, <<o("r")>>, <<o("s"), o("r"), o("w")>>,
            <<o("v"), o("r")>>, <<o("h")>>, <<o("bad")>>}} \cup {<<>>, <<o("w")>>, <<o("r"), o("p")>>}

\* All files of up to 8 words that begin with data (with 2 zeros, nothing is
\* uploaded); word n is 0 or n, so that a word in a wrong place shows.
Small == {Bin(<<1>> \o [n \in 1 .. Len(bits) |-> (n + 1) * bits[n]]) : bits \in BoundedSeq({0, 1}, 7)}

\* Ten packets.
Many == <<Holes, Prog, Holes>>

SoundLines == [options : Plain, files : FileLists]
            \cup [options : {<<o("b"), o("p")>>}, files : {<<Hello>>, <<Hole>>, <<Prog, Bss>>, <<Bss, Prog, Hello>>}]
            \cup [options : {<<o("p")>>}, files : {<<f>> : f \in Small}]
            \cup [options : {<<o("p")>>, <<o("v"), o("p")>>}, files : {Many}]

\* Command lines that are not sound, most of them: an empty file behind an ELF file, a
\* segment with a memsz below its data, zeros at the start of a binary, and -b with
\* zeros in a binary.
Zeros   == Bin(<<0, 0, 6>>)
Wrapped == Elf(2, <<Seg(3, <<1, 2>>, 1)>>)
OddOptions == {<<o("p")>> \o os : os \in {<<>>, <<l("x", 7), o("w")>>, <<o("s")>>, <<o("b")>>, <<o("r")>>}}
OddFiles == {<<Prog, Empty>>, <<Bss, Empty, Empty>>, <<Empty, Bss, Empty, Prog>>, <<Bss, Hello, Empty>>,
             <<Bss, Empty, Holes>>, <<Wrapped>>, <<Zeros, Bss>>, <<Prog, Holes>>, <<Zeros>>}
OddLines == [options : OddOptions, files : OddFiles]

AllLines == SoundLines \cup OddLines

BeefLines  == [options : {<<o("p"), o("b")>>}, files : {<<Holes>>}]

\* Nothing to load, data over the program, and a bss that wraps.
MCGarbage == {Note, Seg(5, <<3>>, 1), Seg(14, <<3, 3>>, 1)}

MCBinaries == {f.binary : f \in Small \cup {Hello, Holes, Empty, Zeros}}

=============================================================================
