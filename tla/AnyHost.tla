-------------------------------- MODULE AnyHost --------------------------------
(***************************************************************************)
(* The loader driven by an arbitrary PC: any packet at any time, whatever  *)
(* the loader answers.  The loader's own promises must hold against it.    *)
(***************************************************************************)
EXTENDS Loader

CONSTANT MaxSends      \* bound on the packets sent

ASSUME SendsAssumption == MaxSends \in Nat

VARIABLE sent

vars == <<boardVars, sent>>

HostTypeOK == TypeOK /\ sent \in 0 .. MaxSends

\* write() of a packet: its header, and its payload after it.
HostSend(p) ==
  /\ sent < MaxSends /\ sent' = sent + 1
  /\ line' = line \o HeaderUnits(p) \o PayloadUnits(p)
  /\ UNCHANGED <<loaderVars, fifo, tx, inbox, faults>>

HostRead ==
  /\ inbox # <<>> /\ inbox' = Tail(inbox)
  /\ UNCHANGED <<loaderVars, fifo, line, tx, faults, sent>>

Init == BoardInit /\ sent = 0

Next == \/ LoaderStep /\ UNCHANGED sent
        \/ HostRead
        \/ \E p \in Packets : HostSend(p)

Spec == Init /\ [][Next]_vars

FairSpec == Spec /\ LoaderFairness /\ WF_boardVars(Startup) /\ WF_vars(HostRead)

=============================================================================
