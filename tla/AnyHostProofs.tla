---------------------------- MODULE AnyHostProofs -----------------------------
(***************************************************************************)
(* The loader's promises against an arbitrary PC, for every board.         *)
(***************************************************************************)
EXTENDS AnyHost, LoaderProofs

LEMMA HostTypeInit == Init => HostTypeOK
BY InitType, SendsAssumption DEF Init, HostTypeOK

LEMMA HostTypeStep == HostTypeOK /\ [Next]_vars => HostTypeOK'
<1> SUFFICES ASSUME HostTypeOK, [Next]_vars PROVE HostTypeOK'
  OBVIOUS
<1>1. TypeOK /\ sent \in 0 .. MaxSends /\ MaxSends \in Nat
  BY SendsAssumption DEF HostTypeOK
<1>2. CASE LoaderStep /\ UNCHANGED sent
  BY <1>1, <1>2, BoardTypeStep DEF HostTypeOK
<1>3. CASE HostRead
  <2>1. inbox' \in Seq(Response)
    BY <1>1, <1>3, HeadTailProperties DEF HostRead, TypeOK
  <2> QED BY <1>1, <1>3, <2>1 DEF HostRead, HostTypeOK, TypeOK, loaderVars
<1>4. ASSUME NEW p \in Packets, HostSend(p)
      PROVE  HostTypeOK'
  <2>1. line' \in Seq(Unit)
    <3>1. line \in Seq(Unit) /\ HeaderUnits(p) \in Seq(Unit) /\ PayloadUnits(p) \in Seq(Unit)
      BY <1>1, WriteType DEF TypeOK
    <3>2. line \o HeaderUnits(p) \in Seq(Unit)
      BY <3>1, ConcatProperties
    <3> QED BY <1>4, <3>1, <3>2, ConcatProperties DEF HostSend
  <2>2. sent' \in 0 .. MaxSends
    BY <1>1, <1>4 DEF HostSend
  <2> QED BY <1>1, <1>4, <2>1, <2>2 DEF HostSend, HostTypeOK, TypeOK, loaderVars
<1>5. CASE UNCHANGED vars
  BY <1>1, <1>5, BoardTypeStutter DEF vars, HostTypeOK
<1> QED BY <1>2, <1>3, <1>4, <1>5 DEF Next

\* The type invariant of the board under an arbitrary PC.
THEOREM HostTypeCorrect == Spec => []HostTypeOK
<1>1. Init => HostTypeOK
  BY HostTypeInit
<1>2. HostTypeOK /\ [Next]_vars => HostTypeOK'
  BY HostTypeStep
<1> QED BY <1>1, <1>2, PTL DEF Spec

-----------------------------------------------------------------------------

\* The PC's own steps leave the loader's variables alone.
LEMMA HostLeavesLoader ==
  ASSUME HostRead \/ (\E p \in Packets : HostSend(p)) \/ UNCHANGED vars
  PROVE  UNCHANGED loaderVars
BY DEF HostRead, HostSend, vars, boardVars

LEMMA ElsewhereStep ==
  ASSUME NoneReachesOver
  PROVE  HostTypeOK /\ PayloadElsewhere /\ [Next]_vars => PayloadElsewhere'
<1> SUFFICES ASSUME HostTypeOK, PayloadElsewhere, [Next]_vars PROVE PayloadElsewhere'
  OBVIOUS
<1>1. CASE LoaderStep
  BY <1>1, PayloadElsewhereStep DEF HostTypeOK
<1>2. CASE ~ LoaderStep
  <2>1. UNCHANGED loaderVars
    BY <1>2, HostLeavesLoader DEF Next
  <2> QED BY <2>1 DEF loaderVars, PayloadElsewhere
<1> QED BY <1>1, <1>2

\* Whatever a PC sends and the link loses or garbles, to addresses that wrap or lie
\* next to the loader: validate_target_addr protects it from every transfer but one
\* that has all of the loader between its ends.
THEOREM LoaderIsSafe ==
  ASSUME NoneReachesOver
  PROVE  Spec => LoaderKeepsItself
<1> DEFINE Kept == (\E a \in Region : mem'[a] # mem[a]) => mode \in {"boot", "kernel"}
<1>1. Init => PayloadElsewhere
  BY DEF Init, BoardInit, PayloadElsewhere
<1>2. HostTypeOK /\ PayloadElsewhere /\ [Next]_vars => PayloadElsewhere'
  BY ElsewhereStep
<1>3. HostTypeOK /\ PayloadElsewhere /\ [Next]_vars => [Kept]_mem
  <2> SUFFICES ASSUME HostTypeOK, PayloadElsewhere, [Next]_vars PROVE [Kept]_mem
    OBVIOUS
  <2>1. CASE LoaderStep
    BY <2>1, KeepsItselfStep DEF HostTypeOK
  <2>2. CASE ~ LoaderStep
    BY <2>2, HostLeavesLoader DEF Next, loaderVars
  <2> QED BY <2>1, <2>2
<1>4. Spec => []HostTypeOK
  BY HostTypeCorrect
<1> QED BY <1>1, <1>2, <1>3, <1>4, PTL DEF Spec, LoaderKeepsItself

\* Whatever a PC sends, programs do and the link loses: the watchdog is on while a
\* program runs that was started with it and did not disable it, and never while
\* the loader reads commands, unless one was a REBOOT (wdog_start in handle_exec,
\* wdog_stop in kmain).
THEOREM WatchdogIsRight == Spec => []WatchdogIsForPrograms
<1>1. Init => WatchdogIsForPrograms
  BY DEF Init, BoardInit, WatchdogIsForPrograms
<1>2. WatchdogIsForPrograms /\ [Next]_vars => WatchdogIsForPrograms'
  <2> SUFFICES ASSUME WatchdogIsForPrograms, [Next]_vars PROVE WatchdogIsForPrograms'
    OBVIOUS
  <2>1. CASE LoaderStep
    BY <2>1, WatchdogStep
  <2>2. CASE ~ LoaderStep
    <3>1. UNCHANGED loaderVars
      BY <2>2, HostLeavesLoader DEF Next
    <3> QED BY <3>1 DEF loaderVars, WatchdogIsForPrograms
  <2> QED BY <2>1, <2>2
<1> QED BY <1>1, <1>2, PTL DEF Spec

=============================================================================
