------------------------------ MODULE MCPiUpload ------------------------------
(* A small board for TLC: 8 addresses, the loader at 5..6 (stack page 5).    *)
EXTENDS PiUpload

MCFwRegs == <<0, 3138, 256>>
MCKernelRegs == <<60, 76, 7>>

Pkt(t, a, n, d, f) == [type |-> t, address |-> a, size |-> n, data |-> d, flags |-> f]

Reboot == Pkt("REBOOT", 0, 0, <<>>, {})
Exec   == Pkt("EXEC", 2, 0, <<>>, {})
Text   == Pkt("LOAD", 2, 2, <<"d1", "d2">>, {})
Patch  == Pkt("LOAD", 3, 1, <<"d1">>, {})
Bss    == Pkt("ZERO", 7, 1, <<>>, {})
Beef   == Pkt("ZERO", 1, 2, <<>>, {"BEEF"})
Empty  == Pkt("LOAD", 1, 0, <<>>, {})

MCPackets == {PingPacket, Reboot, Exec, Text, Patch, Bss, Beef, Empty}

\* Files that overlap, so that the order of the packets counts, with and
\* without a start; a reboot; and a run without files.
MCJobs == {<<Beef, Text, Exec>>, <<Text, Patch, Exec>>, <<Bss, Empty, Reboot>>, <<>>}

=============================================================================
