------------------------------ MODULE MCAnyHost ------------------------------
(* Small boards for TLC: 6 addresses, the loader at 3..4 (stack page 3), or 8, *)
(* the loader at 4..5.                                                       *)
EXTENDS AnyHost

MCFwRegs == <<0, 3138, 256>>
MCKernelRegs == <<60, 76, 7>>

Pkt(t, a, n, d, f) == [type |-> t, address |-> a, size |-> n, data |-> d, flags |-> f]

Ping   == Pkt("PING", 0, 0, <<>>, {})
Reboot == Pkt("REBOOT", 0, 0, <<>>, {})

Exec     == Pkt("EXEC", 2, 0, <<>>, {})
ExecNoWd == Pkt("EXEC", 2, 0, <<>>, {"NOWD"})

\* Programs only: started with and without the watchdog, in any order with reboots.
StartPackets == {Reboot, Exec, ExecNoWd}

\* On a board of 6 addresses with the loader at 3..4: transfers that do not have it
\* between their ends, one below it, one that would run into it, and one from above it
\* that wraps at the end of the address space and ends below it; and programs, in
\* any order with them and with reboots.
AnyPackets ==
  {Ping, Reboot, Pkt("EXEC", 0, 0, <<>>, {}), Pkt("EXEC", 0, 0, <<>>, {"NOWD"}),
   Pkt("LOAD", 0, 2, <<"d1", "d1">>, {}), Pkt("LOAD", 2, 2, <<"d1", "d1">>, {}),
   Pkt("ZERO", 5, 3, <<>>, {"BEEF"})}

\* A block of zeros longer than the loader's memory, all around it.
LongPackets == {Pkt("ZERO", 3, 4, <<>>, {})}

\* A transfer the loader refuses, with more payload than arrives in the delay.
RefusedPackets == {Pkt("LOAD", 5, 7, <<"d1", "d1", "d1", "d1", "d1", "d1", "d1">>, {})}

=============================================================================
