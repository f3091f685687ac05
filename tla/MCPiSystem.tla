------------------------------ MODULE MCPiSystem ------------------------------
(* A small board for TLC's liveness: 6 addresses, the loader at 3..4.        *)
EXTENDS PiSystem

MCFwRegs == <<0, 3138, 256>>
MCKernelRegs == <<60, 76, 7>>

Pkt(t, a, n, d, f) == [type |-> t, address |-> a, size |-> n, data |-> d, flags |-> f]

Code == Pkt("LOAD", 0, 2, <<"d1", "d1">>, {})
Run  == Pkt("EXEC", 0, 0, <<>>, {})

RecoveryPackets == {PingPacket, Code, Run}
RecoveryJobs    == {<<Code, Run>>}

=============================================================================
