------------------------------ MODULE MCDrivers ------------------------------
(* Builds with sections of zero to three words, at 8 and 64 in 112 addresses;  *)
(* programs that leave the loader's own fields, their neighbours and the       *)
(* watchdog's mode at the values that a careless write would mix up.           *)
EXTENDS Drivers

Build(t, r, d, b) == [text |-> t, rodata |-> r, data |-> d, bss |-> b]
MCSizes == {Build(4, 0, 0, 0), Build(8, 4, 0, 4), Build(4, 12, 4, 8), Build(8, 0, 4, 0)}

MCLeft == [fsel1 : {{}, {12, 13, 14}, {11, 13, 16, 18, 20, 21}},
           fsel4 : {{}, {20, 22, 23, 24}},
           latch : {{}, {15, 16, 47}},
           rstc  : {{1, 8}, {4, 8}}]

=============================================================================
