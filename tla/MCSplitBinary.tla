---------------------------- MODULE MCSplitBinary ----------------------------
(* Files that begin with a big chunk of zeros, MinZeros words, and have up to  *)
(* 5 words behind it.                                                          *)
EXTENDS SplitBinary, SequencesExt

Chunk == [n \in 1 .. MinZeros |-> 0]

\* Word n behind the chunk is 0 or n, so that a word in a wrong place shows.
ZeroFiles ==
  {[words |-> Chunk \o [n \in 1 .. Len(bits) |-> n * bits[n]], size |-> 4 * (MinZeros + Len(bits))] :
     bits \in BoundedSeq({0, 1}, 5)}

=============================================================================
