----------------------------- MODULE PiBootProofs -----------------------------
(***************************************************************************)
(* Proofs about PiBoot: for every command line, every file and every board *)
(* that answers or not.                                                    *)
(***************************************************************************)
EXTENDS PiBoot, SplitBinaryProofs, FiniteSetTheorems

USE DEF splitVars, fileVars, optionVars, elfVars, seenVars, printVars

-----------------------------------------------------------------------------
(* The operands *)

LEMMA OperandKinds ==
  ASSUME NEW f \in Operands
  PROVE  /\ f.kind \in {"missing", "elf", "binary"}
         /\ f.kind = "binary" => f.binary \in Binaries
         /\ f.kind = "elf" => f.entry \in Addr /\ f.segments \in Seq(Segment)
BY DEF Operands, Missing

\* The file piboot is at, and those behind it.
LEMMA NextFile ==
  ASSUME files \in Seq(Operands), files # <<>>
  PROVE  Head(files) \in Operands /\ Tail(files) \in Seq(Operands)
BY HeadTailProperties

LEMMA NextOption ==
  ASSUME opts \in Seq(Options), opts # <<>>
  PROVE  Head(opts) \in Options /\ Tail(opts) \in Seq(Options)
BY HeadTailProperties

LEMMA CommandLineType ==
  ASSUME NEW c \in CommandLines
  PROVE  c.options \in Seq(Options) /\ c.files \in Seq(Operands)
BY PiBootAssumption

\* The segment load_elf is at.
LEMMA NextSegment ==
  ASSUME PiBootTypeOK, InElf
  PROVE  /\ files # <<>> /\ ph_ents \in Seq(Segment) /\ pi \in 1 .. Len(ph_ents)
         /\ Ph \in Segment /\ Ph.paddr \in Addr /\ Ph.memsz \in Addr /\ Ph.data \in Seq(Nat)
         /\ Ph.type \in {"LOAD", "NOTE"} /\ Len(Ph.data) \in Nat
<1>1. files # <<>> /\ ph_ents \in Seq(Segment) /\ pi \in Nat \ {0} /\ pi <= Len(ph_ents)
  BY DEF PiBootTypeOK, InElf
<1>3. Len(ph_ents) \in Nat BY <1>1, LenProperties
<1>4. pi \in 1 .. Len(ph_ents) BY <1>1, <1>3
<1>5. Ph \in Segment BY <1>1, <1>4, ElementOfSeq DEF Ph
<1>6. Ph.paddr \in Addr /\ Ph.memsz \in Addr /\ Ph.data \in Seq(Nat) /\ Ph.type \in {"LOAD", "NOTE"}
  BY <1>5 DEF Segment
<1>7. Len(Ph.data) \in Nat BY <1>6, LenProperties
<1> QED BY <1>1, <1>4, <1>5, <1>6, <1>7

\* An ELF header is one of an operand, and not NotElf.
LEMMA HeaderIs ==
  /\ NotElf \notin Headers
  /\ \A h \in Headers : h.entry \in Addr
  /\ \A f \in Operands : f.kind = "elf" => HeaderRead(f) \in Headers /\ HeaderRead(f).entry = f.entry
<1>1. ASSUME NEW h \in Headers PROVE h.entry \in Addr BY DEF Headers
<1>2. -1 \notin Addr BY SplitAssumption DEF Addr
<1>3. NotElf.entry = -1 BY DEF NotElf
<1>4. NotElf \notin Headers BY <1>1, <1>2, <1>3
<1>5. ASSUME NEW f \in Operands, f.kind = "elf"
      PROVE  HeaderRead(f) \in Headers /\ HeaderRead(f).entry = f.entry
  <2>1. f.entry \in Addr /\ f.segments \in Seq(Segment) BY <1>5, OperandKinds
  <2>2. Len(f.segments) \in Nat BY <2>1, LenProperties
  <2>3. f.valid \in BOOLEAN BY <1>5 DEF Operands, Missing
  <2> QED BY <1>5, <2>1, <2>2, <2>3 DEF HeaderRead, Headers
<1> QED BY <1>1, <1>4, <1>5

LEMMA SegmentsAre ==
  ASSUME NEW f \in Operands, f.kind = "elf" \/ e_hdr \in Headers, NEW s \in SegmentsRead(f)
  PROVE  s \in Seq(Segment)
<1>1. CASE f.kind = "elf" BY <1>1, OperandKinds DEF SegmentsRead
<1>2. CASE f.kind # "elf"
  <2>1. e_hdr.phnum \in Nat BY <1>2 DEF Headers
  <2>2. s \in [1 .. e_hdr.phnum -> Segment] BY <1>2, PiBootAssumption DEF SegmentsRead
  <2> QED BY <2>1, <2>2, IsASeq
<1> QED BY <1>1, <1>2

-----------------------------------------------------------------------------
(* What is printed *)

LEMMA TwoTexts ==
  ASSUME NEW S, NEW p \in S, NEW r \in S
  PROVE  Append(<<p>>, r) = <<p, r>>
<1>1. <<p>> \in Seq(S) /\ Len(<<p>>) = 1 /\ <<p>>[1] = p OBVIOUS
<1>2. <<p, r>> \in Seq(S) /\ Len(<<p, r>>) = 2 /\ <<p, r>>[1] = p /\ <<p, r>>[2] = r OBVIOUS
<1>3. Append(<<p>>, r) \in Seq(S) /\ Len(Append(<<p>>, r)) = 2 BY <1>1, AppendProperties
<1>4. Append(<<p>>, r)[1] = p /\ Append(<<p>>, r)[2] = r BY <1>1, AppendProperties
<1>5. ASSUME NEW s \in Seq(S), NEW t \in Seq(S), Len(s) = 2, Len(t) = 2, s[1] = t[1], s[2] = t[2]
      PROVE  s = t
  <2>1. \A k \in 1 .. 2 : k = 1 \/ k = 2 OBVIOUS
  <2>2. \A k \in 1 .. Len(s) : s[k] = t[k] BY <1>5, <2>1
  <2> QED BY <1>5, <2>2, SeqEqual
<1> QED BY <1>2, <1>3, <1>4, <1>5

\* What is in out_buffer is one packet and its outcome, and out_ptr is back at
\* its start.
ScreenInv ==
  /\ screen \in Screen /\ screen.ptr = 0
  /\ \/ screen.buffer = <<>>
     \/ \E r \in Reason : screen.buffer = <<r>>
     \/ \E p \in Announce, r \in Reason : screen.buffer = <<p, r>>

Pair(p, r) == IF p = "EXEC" THEN <<r>> ELSE <<p, r>>

LEMMA Told ==
  ASSUME screen \in Screen, screen.ptr = 0, NEW p \in Announce, NEW r \in Reason, Tells(p, r)
  PROVE  /\ ScreenInv' /\ verbose_mode' = verbose_mode
         /\ screen'.out = IF verbose_mode THEN screen.out \o <<p, r>>
                          ELSE IF r # "OK" THEN screen.out \o Pair(p, r) ELSE screen.out
<1> DEFINE out1 == IF verbose_mode THEN Append(screen.out, p) ELSE screen.out
           out2 == IF verbose_mode THEN screen.out \o <<p, r>>
                   ELSE IF r # "OK" THEN screen.out \o Pair(p, r) ELSE screen.out
<1>0. screen.buffer \in Seq(Text) /\ screen.out \in Seq(Text) /\ p \in Text /\ r \in Text
  BY DEF Screen, Text
<1>1. SubSeq(screen.buffer, 1, 0) = <<>> /\ SubSeq(<<p>>, 1, 0) = <<>> BY <1>0, SubSeqEmpty
<1>2. SubSeq(<<p>>, 1, 1) = <<p>>
  <2>1. <<p>> \in Seq(Text) /\ Len(<<p>>) = 1 BY <1>0
  <2> QED BY <2>1, SubSeqFull
<1>3. Append(<<>>, p) = <<p>> /\ Append(<<>>, r) = <<r>> BY <1>0
<1>4. Append(<<p>>, r) = <<p, r>> BY <1>0, TwoTexts
<1>5. Append(Append(screen.out, p), r) = screen.out \o <<p, r>> BY <1>0, SMTT(30)
<1>6. out2 \in Seq(Text)
  <2>1. <<r>> \in Seq(Text) /\ <<p, r>> \in Seq(Text) BY <1>0
  <2>2. Pair(p, r) \in Seq(Text) BY <2>1 DEF Pair
  <2> QED BY <1>0, <2>1, <2>2, ConcatProperties
<1>7. screen' = [buffer |-> Pair(p, r), ptr |-> 0, out |-> out2]
  <2>1. CASE p = "EXEC"
    <3>1. vm_print_e(screen, FALSE, p) = [buffer |-> <<p>>, ptr |-> 0, out |-> out1]
      BY <1>1, <1>3 DEF vm_print_e, Held
    <3> DEFINE s == [buffer |-> <<p>>, ptr |-> 0, out |-> out1]
    <3>2. screen' = vm_print_e(s, r # "OK", r) BY <2>1, <3>1 DEF Tells, Announced
    <3> HIDE DEF out1
    <3>3. s.buffer = <<p>> /\ s.ptr = 0 /\ s.out = out1 OBVIOUS
    <3> HIDE DEF s
    <3>4. Held(s, r) = <<r>> BY <1>1, <1>3, <3>3 DEF Held
    <3>5. screen' = [buffer |-> <<r>>, ptr |-> 0,
                     out |-> IF verbose_mode THEN Append(s.out, r)
                             ELSE IF r # "OK" THEN s.out \o <<r>> ELSE s.out]
      BY <3>2, <3>4 DEF vm_print_e
    <3>6. Pair(p, r) = <<r>> BY <2>1 DEF Pair
    <3> QED BY <1>5, <3>3, <3>5, <3>6 DEF out1
  <2>2. CASE p # "EXEC"
    <3>1. vm_print_s(screen, p) = [buffer |-> <<p>>, ptr |-> 1, out |-> out1]
      <4>1. Held(screen, p) = <<p>> BY <1>1, <1>3 DEF Held
      <4>2. screen.ptr + 1 = 1 OBVIOUS
      <4> HIDE DEF out2
      <4> QED BY <4>1, <4>2 DEF vm_print_s
    <3> DEFINE s == [buffer |-> <<p>>, ptr |-> 1, out |-> out1]
    <3>2. screen' = vm_print_e(s, r # "OK", r) BY <2>2, <3>1 DEF Tells, Announced
    <3> HIDE DEF out1
    <3>3. s.buffer = <<p>> /\ s.ptr = 1 /\ s.out = out1 OBVIOUS
    <3> HIDE DEF s
    <3>4. Held(s, r) = <<p, r>> BY <1>2, <1>4, <3>3 DEF Held
    <3>5. screen' = [buffer |-> <<p, r>>, ptr |-> 0,
                     out |-> IF verbose_mode THEN Append(s.out, r)
                             ELSE IF r # "OK" THEN s.out \o <<p, r>> ELSE s.out]
      BY <3>2, <3>4 DEF vm_print_e
    <3>6. Pair(p, r) = <<p, r>> BY <2>2 DEF Pair
    <3> QED BY <1>5, <3>3, <3>5, <3>6 DEF out1
  <2> QED BY <2>1, <2>2
<1> HIDE DEF out1, out2
<1>8. screen'.buffer = Pair(p, r) /\ screen'.ptr = 0 /\ screen'.out = out2 BY ONLY <1>7
<1>9. Pair(p, r) \in Seq(Text)
  <2>1. <<r>> \in Seq(Text) /\ <<p, r>> \in Seq(Text) BY <1>0
  <2> QED BY <2>1 DEF Pair
<1>10. screen' \in Screen BY <1>6, <1>7, <1>9 DEF Screen
<1>11. ScreenInv' BY <1>8, <1>10 DEF ScreenInv, Pair
<1> QED BY <1>8, <1>11 DEF Tells, out2

-----------------------------------------------------------------------------
(* Types *)

ControlType ==
  /\ at \in {"parse", "serial", "ping", "files", "elf", "binary", "monitor", "exit"}
  /\ end \in {"none", "ok", "options", "serial", "ping", "response", "file"}
  /\ (end = "none") = (at # "exit")
  /\ tty \in {"open", "gone"} /\ half \in {"load", "zero"} /\ pi \in Nat \ {0}

LineType == cmd \in CommandLines /\ opts \in Seq(Options) /\ files \in Seq(Operands)

FlagType ==
  /\ loader_action \in {"EXEC", "NONE", "USAGE", "REBOOT"}
  /\ {run_monitor, beef_bss, port, no_watchdog, contact, rebooted, verbose_mode} \subseteq BOOLEAN

HeadersType == e_hdr \in Headers \cup {NotElf} /\ ph_ents \in Seq(Segment)

HereType ==
  /\ at \in {"elf", "binary"} => files # <<>>
  /\ at = "binary" => Head(files).kind = "binary" /\ e_hdr = NotElf
  /\ at = "elf" => e_hdr # NotElf /\ pi <= Len(ph_ents) + 1
  /\ at \notin {"elf", "exit"} => ph_ents = <<>>

StartType == e_entry \in Addr /\ started \in [entry : Addr, nowd : BOOLEAN] \cup {None}

LEMMA TypeParts ==
  PiBootTypeOK <=> /\ ControlType /\ LineType /\ FlagType /\ HeadersType /\ HereType
                   /\ SplitTypeOK /\ StartType /\ screen \in Screen
BY Zenon DEF PiBootTypeOK, ControlType, LineType, FlagType, HeadersType, HereType, StartType

LEMMA ControlStep == PiBootTypeOK /\ [Next]_vars => ControlType'
<1> SUFFICES ASSUME PiBootTypeOK, [Next]_vars PROVE ControlType' OBVIOUS
<1>0. ControlType BY TypeParts
<1>1. CASE SetOption \/ ReturnAtOnce \/ BadOption \/ EndOfOptions \/ SetupSerial \/ Ping \/ HangUp
  BY <1>0, <1>1 DEF ControlType, SetOption, ReturnAtOnce, BadOption, EndOfOptions, SetupSerial, Ping, HangUp, Exit
<1>2. CASE OpenFile
  BY <1>0, <1>2 DEF ControlType, OpenFile, Exit
<1>3. CASE LoadBinary
  BY <1>0, <1>3 DEF ControlType, LoadBinary, CloseFile, Exit
<1>4. CASE SkipSegment \/ LoadSection \/ ZeroSection \/ EndElf
  BY <1>0, <1>4 DEF ControlType, SkipSegment, LoadSection, ZeroSection, EndElf, InElf, CloseFile
<1>5. CASE Refused \/ TakeAction
  BY <1>0, <1>5 DEF ControlType, Refused, TakeAction, AfterAction, Exit
<1>6. CASE UNCHANGED vars BY <1>0, <1>6 DEF ControlType, vars
<1> QED BY <1>1, <1>2, <1>3, <1>4, <1>5, <1>6 DEF Next, Step

LEMMA LineStep == PiBootTypeOK /\ [Next]_vars => LineType'
<1> SUFFICES ASSUME PiBootTypeOK, [Next]_vars PROVE LineType' OBVIOUS
<1>0. LineType BY TypeParts
<1>1. CASE SetOption BY <1>0, <1>1, NextOption DEF LineType, SetOption
<1>2. CASE ReturnAtOnce
  <2> DEFINE rest == [n \in 1 .. Len(opts) - 1 |-> Missing]
  <2>1. opts # <<>> /\ files' = rest \o files /\ opts' = <<>> /\ cmd' = cmd BY <1>2 DEF ReturnAtOnce
  <2>2. Len(opts) - 1 \in Nat
    <3>1. Len(opts) \in Nat /\ Len(opts) # 0 BY <1>0, <2>1, EmptySeq, LenProperties DEF LineType
    <3> QED BY <3>1
  <2>3. Missing \in Operands BY DEF Operands
  <2>4. rest \in Seq(Operands) BY <2>2, <2>3, IsASeq
  <2> HIDE DEF rest
  <2>5. files' \in Seq(Operands) BY <1>0, <2>1, <2>4, ConcatProperties DEF LineType
  <2> QED BY <1>0, <2>1, <2>5 DEF LineType
<1>3. CASE UNCHANGED <<cmd, opts, files>> BY <1>0, <1>3 DEF LineType
<1>4. CASE files # <<>> /\ CloseFile /\ UNCHANGED <<cmd, opts>>
  BY <1>0, <1>4, NextFile DEF LineType, CloseFile
<1>5. \/ SetOption \/ ReturnAtOnce \/ UNCHANGED <<cmd, opts, files>>
      \/ at \in {"elf", "binary"} /\ CloseFile /\ UNCHANGED <<cmd, opts>>
  BY DEF Next, Step, BadOption, EndOfOptions, SetupSerial, HangUp, Ping, OpenFile, LoadBinary,
         SkipSegment, LoadSection, ZeroSection, EndElf, Refused, TakeAction, AfterAction, vars
<1>6. at \in {"elf", "binary"} => files # <<>> BY TypeParts DEF HereType
<1> QED BY <1>1, <1>2, <1>3, <1>4, <1>5, <1>6

LEMMA FlagStep == PiBootTypeOK /\ [Next]_vars => FlagType'
<1> SUFFICES ASSUME PiBootTypeOK, [Next]_vars PROVE FlagType' OBVIOUS
<1>0. FlagType BY TypeParts
<1>1. CASE SetOption
  <2>1. loader_action' \in {"EXEC", "NONE", "USAGE", "REBOOT"} BY <1>0, <1>1 DEF FlagType, SetOption
  <2>2. {run_monitor, beef_bss, port, no_watchdog, verbose_mode}' \subseteq BOOLEAN
    BY <1>1 DEF SetOption
  <2> QED BY <1>0, <1>1, <2>1, <2>2 DEF FlagType, SetOption
<1>2. CASE ReturnAtOnce BY <1>0, <1>2 DEF FlagType, ReturnAtOnce
<1>3. CASE Ping BY <1>0, <1>3 DEF FlagType, Ping, Tells
<1>4. CASE TakeAction
  <2>1. verbose_mode' = verbose_mode BY <1>4 DEF TakeAction, Acknowledged, Tells
  <2>2. rebooted' \in BOOLEAN BY <1>4 DEF TakeAction
  <2> QED BY <1>0, <1>4, <2>1, <2>2 DEF FlagType, TakeAction
<1>5. CASE UNCHANGED <<optionVars, contact, rebooted, verbose_mode>> BY <1>0, <1>5 DEF FlagType
<1>6. \/ SetOption \/ ReturnAtOnce \/ Ping \/ TakeAction
      \/ UNCHANGED <<optionVars, contact, rebooted, verbose_mode>>
  BY DEF Next, Step, BadOption, EndOfOptions, SetupSerial, HangUp, OpenFile, LoadBinary,
         SkipSegment, LoadSection, ZeroSection, EndElf, Refused, Acknowledged, Tells, vars
<1> QED BY <1>1, <1>2, <1>3, <1>4, <1>5, <1>6

LEMMA HeadersStep == PiBootTypeOK /\ [Next]_vars => HeadersType'
<1> SUFFICES ASSUME PiBootTypeOK, [Next]_vars PROVE HeadersType' OBVIOUS
<1>0. HeadersType /\ LineType BY TypeParts
<1>1. CASE OpenFile
  <2>1. PICK f : f = Head(files) OBVIOUS
  <2>2. f \in Operands BY <1>0, <1>1, <2>1, NextFile DEF OpenFile, LineType
  <2>3. HeaderRead(f) \in Headers \cup {NotElf} BY <1>0, <2>2, HeaderIs DEF HeadersType, HeaderRead
  <2>4. CASE UNCHANGED elfVars BY <1>0, <2>4 DEF HeadersType
  <2>5. CASE e_hdr' = HeaderRead(f) /\ UNCHANGED ph_ents BY <1>0, <2>3, <2>5 DEF HeadersType
  <2>6. CASE f.kind # "missing" /\ e_hdr' = HeaderRead(f) /\ e_hdr' # NotElf /\ ph_ents' \in SegmentsRead(f)
    <3>1. f.kind = "elf" \/ e_hdr \in Headers BY <1>0, <2>6 DEF HeadersType, HeaderRead
    <3>2. ph_ents' \in Seq(Segment) BY <2>2, <2>6, <3>1, SegmentsAre
    <3> QED BY <2>3, <2>6, <3>2 DEF HeadersType
  <2> QED BY <1>1, <2>1, <2>4, <2>5, <2>6 DEF OpenFile
<1>2. CASE EndElf BY <1>0, <1>2 DEF HeadersType, EndElf
<1>3. CASE UNCHANGED <<e_hdr, ph_ents>> BY <1>0, <1>3 DEF HeadersType
<1>4. OpenFile \/ EndElf \/ UNCHANGED <<e_hdr, ph_ents>>
  BY DEF Next, Step, SetOption, ReturnAtOnce, BadOption, EndOfOptions, SetupSerial, HangUp, Ping,
         LoadBinary, SkipSegment, LoadSection, ZeroSection, Refused, TakeAction, vars
<1> QED BY <1>1, <1>2, <1>3, <1>4

LEMMA HereStep == PiBootTypeOK /\ [Next]_vars => HereType'
<1> SUFFICES ASSUME PiBootTypeOK, [Next]_vars PROVE HereType' OBVIOUS
<1>0. HereType /\ LineType /\ HeadersType BY TypeParts
<1>1. CASE OpenFile
  <2>1. PICK f : f = Head(files) OBVIOUS
  <2>2. at = "files" /\ files # <<>> /\ files' = files /\ f \in Operands
    BY <1>0, <1>1, <2>1, NextFile DEF OpenFile, LineType
  <2>3. CASE at' = "exit" BY <2>3 DEF HereType
  <2>4. CASE at' = "binary" /\ f.kind # "missing" /\ e_hdr' = NotElf /\ e_hdr' = HeaderRead(f)
             /\ UNCHANGED ph_ents
    <3>1. f.kind = "binary" BY <2>2, <2>4, HeaderIs, OperandKinds
    <3>2. ph_ents' = <<>> BY <1>0, <2>2, <2>4 DEF HereType
    <3> QED BY <2>1, <2>2, <2>4, <3>1, <3>2 DEF HereType
  <2>5. CASE at' = "elf" /\ e_hdr' # NotElf /\ pi' = 1
    <3>1. HeadersType' BY HeadersStep
    <3>2. Len(ph_ents') \in Nat BY <3>1, LenProperties DEF HeadersType
    <3>3. pi' <= Len(ph_ents') + 1 BY <2>5, <3>2
    <3> QED BY <2>2, <2>5, <3>3 DEF HereType
  <2>6. \/ at' = "exit"
        \/ at' = "binary" /\ f.kind # "missing" /\ e_hdr' = NotElf /\ e_hdr' = HeaderRead(f)
           /\ UNCHANGED ph_ents
        \/ at' = "elf" /\ e_hdr' # NotElf /\ pi' = 1
    BY <1>1, <2>1 DEF OpenFile, Exit
  <2> QED BY <2>3, <2>4, <2>5, <2>6
<1>2. CASE InElf /\ UNCHANGED <<at, files, e_hdr, ph_ents>> /\ pi' \in {pi, pi + 1}
  <2>1. pi \in 1 .. Len(ph_ents) BY <1>2, NextSegment
  <2>2. Len(ph_ents) \in Nat BY <1>2, NextSegment, LenProperties
  <2>3. pi' <= Len(ph_ents') + 1 BY <1>2, <2>1, <2>2
  <2>4. at = "elf" BY <1>2 DEF InElf
  <2> QED BY <1>0, <1>2, <2>3, <2>4 DEF HereType
<1>3. CASE at' \notin {"elf", "binary"} /\ (at' = "exit" \/ ph_ents' = <<>>) BY <1>3 DEF HereType
<1>4. CASE UNCHANGED <<at, files, elfVars>> BY <1>0, <1>4 DEF HereType
<1>5. \/ OpenFile
      \/ InElf /\ UNCHANGED <<at, files, e_hdr, ph_ents>> /\ pi' \in {pi, pi + 1}
      \/ at' \notin {"elf", "binary"} /\ (at' = "exit" \/ ph_ents' = <<>>)
      \/ UNCHANGED <<at, files, elfVars>>
  <2>1. CASE ReturnAtOnce \/ BadOption \/ EndOfOptions \/ SetupSerial \/ Ping
    <3>1. at \notin {"elf", "exit"} /\ ph_ents' = ph_ents /\ at' \notin {"elf", "binary"}
      BY <2>1 DEF ReturnAtOnce, BadOption, EndOfOptions, SetupSerial, Ping, Exit
    <3>2. ph_ents' = <<>> BY <1>0, <3>1 DEF HereType
    <3> QED BY <3>1, <3>2
  <2>5. CASE SetOption \/ HangUp \/ UNCHANGED vars
    <3>1. UNCHANGED <<at, files, elfVars>> BY <2>5, Zenon DEF SetOption, HangUp, vars
    <3> QED BY <3>1
  <2>2. CASE LoadBinary
    <3>1. at = "binary" /\ UNCHANGED elfVars /\ (UNCHANGED <<at, files>> \/ at' = "files")
      BY <2>2 DEF LoadBinary, CloseFile
    <3>2. ph_ents = <<>> BY <1>0, <3>1 DEF HereType
    <3> QED BY <3>1, <3>2
  <2>3. CASE SkipSegment \/ LoadSection \/ ZeroSection
    <3>1. InElf /\ UNCHANGED <<at, files, e_hdr, ph_ents>>
      BY <2>3, Zenon DEF SkipSegment, LoadSection, ZeroSection
    <3>2. pi' \in {pi, pi + 1} BY <2>3 DEF SkipSegment, LoadSection, ZeroSection
    <3> QED BY <3>1, <3>2
  <2>6. CASE EndElf BY <2>6 DEF EndElf, CloseFile
  <2>4. CASE Refused \/ TakeAction
    <3>1. CASE Refused BY <3>1 DEF Refused, Exit
    <3>2. CASE TakeAction
      <4>1. at = "files" /\ UNCHANGED elfVars /\ at' \in {"monitor", "exit"}
        BY <3>2 DEF TakeAction, AfterAction, Exit
      <4>2. ph_ents = <<>> BY <1>0, <4>1 DEF HereType
      <4> QED BY <4>1, <4>2
    <3> QED BY <2>4, <3>1, <3>2
  <2> QED BY <2>1, <2>2, <2>3, <2>4, <2>5, <2>6 DEF Next, Step
<1> QED BY <1>1, <1>2, <1>3, <1>4, <1>5

LEMMA StartStep == PiBootTypeOK /\ [Next]_vars => StartType'
<1> SUFFICES ASSUME PiBootTypeOK, [Next]_vars PROVE StartType' OBVIOUS
<1>0. StartType /\ LineType /\ FlagType /\ HereType /\ HeadersType BY TypeParts
<1>1. CASE SetOption
  <2>1. Head(opts) \in Options BY <1>0, <1>1, NextOption DEF LineType, SetOption
  <2>2. Head(opts).arg \in Addr BY <2>1 DEF Options
  <2>3. e_entry' \in Addr BY <1>0, <1>1, <2>2 DEF StartType, SetOption
  <2> QED BY <1>0, <1>1, <2>3 DEF StartType, SetOption
<1>2. CASE EndElf
  <2>1. e_hdr \in Headers BY <1>0, <1>2 DEF HereType, HeadersType, EndElf
  <2>2. e_hdr.entry \in Addr BY <2>1, HeaderIs
  <2> QED BY <1>0, <1>2, <2>2 DEF StartType, EndElf
<1>3. CASE TakeAction
  <2>1. no_watchdog \in BOOLEAN BY <1>0 DEF FlagType
  <2>2. started' \in [entry : Addr, nowd : BOOLEAN] \cup {None}
    BY <1>0, <1>3, <2>1 DEF StartType, TakeAction
  <2> QED BY <1>0, <1>3, <2>2 DEF StartType, TakeAction
<1>4. CASE UNCHANGED <<e_entry, started>> BY <1>0, <1>4 DEF StartType
<1>5. SetOption \/ EndElf \/ TakeAction \/ UNCHANGED <<e_entry, started>>
  BY DEF Next, Step, ReturnAtOnce, BadOption, EndOfOptions, SetupSerial, HangUp, Ping, OpenFile,
         LoadBinary, SkipSegment, LoadSection, ZeroSection, Refused, vars
<1> QED BY <1>1, <1>2, <1>3, <1>4, <1>5

\* Each step prints nothing or tells one packet and its outcome.
LEMMA Prints ==
  PiBootTypeOK /\ [Next]_vars =>
    UNCHANGED screen \/ \E p \in Announce, r \in Reason : Tells(p, r)
<1> SUFFICES ASSUME PiBootTypeOK, [Next]_vars
             PROVE  UNCHANGED screen \/ \E p \in Announce, r \in Reason : Tells(p, r)
  OBVIOUS
<1>0. LineType /\ FlagType /\ HereType BY TypeParts
<1>1. PacketDue => NextPacket \in Announce
  <2>1. files = <<>> /\ PacketDue => loader_action \in {"EXEC", "REBOOT"}
    BY <1>0 DEF PacketDue, HereType, InElf
  <2> QED BY <2>1 DEF NextPacket, Announce
<1>2. CASE Ping BY <1>2 DEF Ping, Announce, Reason
<1>3. CASE Refused
  <2>1. BadOutcomes \subseteq Reason BY DEF BadOutcomes, Reason
  <2> QED BY <1>1, <1>3, <2>1 DEF Refused
<1>4. CASE PacketDue /\ Acknowledged BY <1>1, <1>4 DEF Acknowledged, Reason
<1>5. Ping \/ Refused \/ (PacketDue /\ Acknowledged) \/ UNCHANGED screen
  <2>1. CASE TakeAction BY <2>1 DEF TakeAction
  <2>2. CASE LoadBinary BY <2>2 DEF LoadBinary, PacketDue, UploadPart
  <2>3. CASE LoadSection \/ ZeroSection BY <2>3 DEF LoadSection, ZeroSection, PacketDue
  <2>4. CASE \/ SetOption \/ ReturnAtOnce \/ BadOption \/ EndOfOptions \/ SetupSerial \/ HangUp
             \/ OpenFile \/ SkipSegment \/ EndElf \/ UNCHANGED vars
    <3>1. UNCHANGED screen
      BY <2>4, Zenon DEF SetOption, ReturnAtOnce, BadOption, EndOfOptions, SetupSerial, HangUp,
                         OpenFile, SkipSegment, EndElf, vars
    <3> QED BY <3>1
  <2> QED BY <2>1, <2>2, <2>3, <2>4, <1>2, <1>3 DEF Next, Step
<1> QED BY <1>2, <1>3, <1>4, <1>5

\* Each step is one of split_binary or load_binary, or begins the next binary, or
\* is no matter of a binary.
LEMMA FileStep ==
  PiBootTypeOK /\ [Next]_vars => [PartsNext]_fileVars \/ (\E b \in Binaries : Loading(b))'
<1> SUFFICES ASSUME PiBootTypeOK, [Next]_vars
             PROVE  [PartsNext]_fileVars \/ (\E b \in Binaries : Loading(b))'
  OBVIOUS
<1>0. LineType /\ HereType' BY TypeParts, HereStep
<1>1. CASE LoadBinary
  <2>1. Split \/ NextPart \/ EndUpload BY <1>1 DEF LoadBinary, UploadPart, NextPart
  <2> QED BY <2>1 DEF PartsNext
<1>2. CASE OpenFile
  <2> DEFINE f == Head(files)
  <2>1. f \in Operands BY <1>0, <1>2, NextFile DEF OpenFile, LineType
  <2>2. UNCHANGED fileVars \/ (at' = "binary" /\ files' = files /\ ReadBinary(f.binary))
    BY <1>2, Zenon DEF OpenFile
  <2>5. at' = "binary" /\ files' = files => f.kind = "binary" BY <1>0 DEF HereType
  <2>3. f.kind = "binary" => f.binary \in Binaries BY <2>1, OperandKinds
  <2>4. ASSUME NEW b \in Binaries, ReadBinary(b) PROVE (\E x \in Binaries : Loading(x))'
    BY <2>4 DEF ReadBinary, Loading
  <2> HIDE DEF f
  <2> QED BY <2>2, <2>3, <2>4, <2>5
<1>3. LoadBinary \/ OpenFile \/ UNCHANGED fileVars
  <2>1. CASE \/ SetOption \/ ReturnAtOnce \/ BadOption \/ EndOfOptions \/ SetupSerial \/ Ping
             \/ HangUp \/ SkipSegment \/ LoadSection \/ ZeroSection \/ EndElf \/ Refused
             \/ TakeAction \/ UNCHANGED vars
    <3>1. UNCHANGED fileVars
      BY <2>1, Zenon DEF SetOption, ReturnAtOnce, BadOption, EndOfOptions, SetupSerial, Ping,
           HangUp, SkipSegment, LoadSection, ZeroSection, EndElf, Refused, TakeAction, vars
    <3> QED BY <3>1
  <2> QED BY <2>1 DEF Next, Step
<1> QED BY <1>1, <1>2, <1>3

LEMMA FilesStep ==
  PiBootTypeOK /\ PartsInv /\ ChunkInv /\ [Next]_vars => PartsInv' /\ ChunkInv'
<1>1. (\E b \in Binaries : Loading(b))' => PartsInv' /\ ChunkInv' BY LoadingParts, LoadingChunks, PTL
<1> QED BY <1>1, FileStep, StepParts, StepChunks

\* A part puts words of the file and what fills into memory.
LEMMA ContentType ==
  ASSUME PartsInv, stage = "upload", NEW fill \in Cell, NEW k \in 0 .. parts[i].size - 1
  PROVE  Content(parts[i], k, fill) \in Cell
<1>0. PartsTypeOK BY DEF PartsInv
<1>1. file.words \in Seq(Nat) /\ Len(file.words) \in Nat /\ parts[i].size \in Nat BY <1>0, Facts
<1>2. CASE parts[i].addr = Null BY <1>2 DEF Content
<1>3. CASE parts[i].addr # Null
  <2>1. Content(parts[i], k, fill) = Content(parts[i], k, 0) BY <1>3 DEF Content
  <2>2. parts[i].size > 0 BY <1>1
  <2>3. /\ Begins(i) \in Nat /\ Begins(i) + parts[i].size <= Len(file.words)
        /\ Content(parts[i], k, 0) = file.words[Begins(i) + k + 1]
    BY <2>2, PartIsWords
  <2>4. Begins(i) + k + 1 \in 1 .. Len(file.words) BY <1>1, <2>3, SMTT(30)
  <2>5. file.words[Begins(i) + k + 1] \in Nat BY <1>1, <2>4, ElementOfSeq
  <2> QED BY <2>1, <2>3, <2>5 DEF Cell
<1> QED BY <1>2, <1>3

LEMMA SplitStep ==
  PiBootTypeOK /\ PartsInv /\ ChunkInv /\ [Next]_vars => SplitTypeOK'
<1> SUFFICES ASSUME PiBootTypeOK, PartsInv, ChunkInv, [Next]_vars PROVE SplitTypeOK' OBVIOUS
<1>0. LineType /\ SplitTypeOK /\ PartsTypeOK BY TypeParts DEF SplitTypeOK
<1>1. PartsTypeOK' BY FilesStep DEF PartsInv
<1>2. Fill \in Cell /\ 0 \in Cell BY DEF Fill, Cell
<1>4. CASE LoadBinary
  <2>1. CASE UploadPart(Fill)
    <3>1. parts[i].size \in Nat /\ e_load \in Nat /\ stage = "upload"
      BY <1>0, <2>1, Facts DEF SplitTypeOK, UploadPart
    <3>2. ASSUME NEW a \in Addr, a \in e_load .. e_load + parts[i].size - 1
          PROVE  Content(parts[i], a - e_load, Fill) \in Cell
      <4>1. a \in Nat BY SplitAssumption DEF Addr
      <4>2. a - e_load \in 0 .. parts[i].size - 1 BY <3>1, <3>2, <4>1
      <4> QED BY <1>2, <3>1, <4>2, ContentType
    <3>3. mem' \in [Addr -> Cell] BY <1>0, <2>1, <3>2 DEF UploadPart, SplitTypeOK
    <3>4. e_load' \in Nat BY <2>1, <3>1 DEF UploadPart
    <3> QED BY <1>1, <3>3, <3>4 DEF SplitTypeOK
  <2>2. CASE UNCHANGED <<e_load, mem>> BY <1>0, <1>1, <2>2 DEF SplitTypeOK
  <2> QED BY <1>4, <2>1, <2>2 DEF LoadBinary, Split, Extend, BeginZeros, MergeZeros, KeepZeros,
                                  Terminate, NextWord, EndUpload
<1>5. CASE LoadSection
  <2>1. Ph.paddr \in Addr /\ Ph.data \in Seq(Nat) /\ Len(Ph.data) \in Nat
    BY <1>5, NextSegment DEF LoadSection
  <2>2. ASSUME NEW a \in Addr,
               (a - Ph.paddr + AddrSpace) % AddrSpace < Len(Ph.data)
        PROVE  Ph.data[((a - Ph.paddr + AddrSpace) % AddrSpace) + 1] \in Cell
    <3> DEFINE k == (a - Ph.paddr + AddrSpace) % AddrSpace
    <3>1. AddrSpace \in Nat /\ AddrSpace > 0 /\ a - Ph.paddr + AddrSpace \in Nat
      BY <2>1, SplitAssumption DEF Addr
    <3>2. k \in Nat BY <3>1
    <3> HIDE DEF k
    <3>3. k < Len(Ph.data) BY <2>2 DEF k
    <3>4. k + 1 \in 1 .. Len(Ph.data) BY <2>1, <3>2, <3>3
    <3>5. Ph.data[k + 1] \in Nat BY <2>1, <3>4, ElementOfSeq
    <3> QED BY <3>5 DEF k, Cell
  <2>3. mem' \in [Addr -> Cell] BY <1>0, <1>5, <2>2 DEF LoadSection, SplitTypeOK
  <2> QED BY <1>0, <1>1, <1>5, <2>3 DEF LoadSection, SplitTypeOK
<1>6. CASE ZeroSection
  <2>1. mem' \in [Addr -> Cell] BY <1>0, <1>2, <1>6 DEF ZeroSection, SplitTypeOK
  <2> QED BY <1>0, <1>1, <1>6, <2>1 DEF ZeroSection, SplitTypeOK
<1>7. CASE SetOption
  <2>1. Head(opts) \in Options BY <1>0, <1>7, NextOption DEF LineType, SetOption
  <2>2. Head(opts).arg \in Nat BY <2>1, SplitAssumption DEF Options, Addr
  <2>3. e_load' \in Nat BY <1>0, <1>7, <2>2 DEF SplitTypeOK, SetOption
  <2>4. mem' = mem BY <1>7, Zenon DEF SetOption
  <2> QED BY <1>0, <1>1, <2>3, <2>4 DEF SplitTypeOK
<1>8. CASE UNCHANGED <<e_load, mem>> BY <1>0, <1>1, <1>8 DEF SplitTypeOK
<1>9. LoadBinary \/ LoadSection \/ ZeroSection \/ SetOption \/ UNCHANGED <<e_load, mem>>
  <2>1. CASE \/ ReturnAtOnce \/ BadOption \/ EndOfOptions \/ SetupSerial \/ Ping \/ OpenFile
             \/ HangUp \/ SkipSegment \/ EndElf \/ Refused \/ TakeAction \/ UNCHANGED vars
    <3>1. UNCHANGED <<e_load, mem>>
      BY <2>1, Zenon DEF ReturnAtOnce, BadOption, EndOfOptions, SetupSerial, Ping, OpenFile,
           HangUp, SkipSegment, EndElf, Refused, TakeAction, vars
    <3> QED BY <3>1
  <2> QED BY <2>1 DEF Next, Step
<1> QED BY <1>4, <1>5, <1>6, <1>7, <1>8, <1>9

-----------------------------------------------------------------------------
(* The invariant of types, parts and texts *)

BootInv == PiBootTypeOK /\ ScreenInv /\ PartsInv /\ ChunkInv

LEMMA ScreenStep == PiBootTypeOK /\ ScreenInv /\ [Next]_vars => ScreenInv'
<1> SUFFICES ASSUME PiBootTypeOK, ScreenInv, [Next]_vars PROVE ScreenInv' OBVIOUS
<1>1. CASE UNCHANGED screen BY <1>1 DEF ScreenInv
<1>2. CASE \E p \in Announce, r \in Reason : Tells(p, r) BY <1>2, Told DEF ScreenInv
<1> QED BY <1>1, <1>2, Prints

LEMMA InitBoot == Init => BootInv
<1> SUFFICES ASSUME Init PROVE BootInv OBVIOUS
<1>1. NoFile \in Binaries BY PiBootAssumption
<1>2. PartsInv /\ ChunkInv /\ PartsTypeOK
  <2>1. \E b \in Binaries : Loading(b) BY <1>1 DEF Init
  <2> QED BY <2>1, LoadingParts, LoadingChunks DEF PartsInv
<1>3. ControlType BY DEF Init, ControlType
<1>4. LineType BY CommandLineType DEF Init, LineType
<1>5. FlagType BY DEF Init, FlagType
<1>6. HereType BY DEF Init, HereType
<1>11. HeadersType BY DEF Init, HeadersType
<1>7. LoadAddr \in Addr /\ LoadAddr \in Nat BY PiBootAssumption, SplitAssumption
<1>8. StartType BY <1>7 DEF Init, StartType
<1>9. SplitTypeOK
  <2>1. mem \in [Addr -> Cell] BY DEF Init, Cell
  <2>2. e_load \in Nat BY <1>7 DEF Init
  <2> QED BY <1>2, <2>1, <2>2 DEF SplitTypeOK
<1>10. ScreenInv
  <2>1. <<>> \in Seq(Text) OBVIOUS
  <2>2. screen = EmptyScreen BY DEF Init
  <2> QED BY <2>1, <2>2 DEF ScreenInv, EmptyScreen, Screen
<1> QED BY <1>2, <1>3, <1>4, <1>5, <1>6, <1>8, <1>9, <1>10, <1>11, TypeParts DEF BootInv, ScreenInv

LEMMA StepBoot == BootInv /\ [Next]_vars => BootInv'
<1> SUFFICES ASSUME BootInv, [Next]_vars PROVE BootInv' OBVIOUS
<1>1. ControlType' /\ LineType' /\ FlagType' /\ HeadersType' /\ HereType' /\ StartType'
  BY ControlStep, LineStep, FlagStep, HeadersStep, HereStep, StartStep DEF BootInv
<1>2. SplitTypeOK' /\ PartsInv' /\ ChunkInv' BY SplitStep, FilesStep DEF BootInv
<1>3. ScreenInv' BY ScreenStep DEF BootInv
<1>4. (screen \in Screen)' BY <1>3 DEF ScreenInv
<1>5. PiBootTypeOK' BY <1>1, <1>2, <1>4, TypeParts, PTL
<1> QED BY <1>2, <1>3, <1>5 DEF BootInv

LEMMA BootInvariant == Spec => []BootInv
BY InitBoot, StepBoot, PTL DEF Spec

-----------------------------------------------------------------------------
(* Types, parts and texts *)

\* Every variable of a run stays in its type, piboot only being where a file of
\* that kind, or a segment, is left; check_response lets no run go on that has an
\* error (parse_cmdline, main, load_elf).
THEOREM PiBootTypeCorrect == Spec => []PiBootTypeOK
<1>1. BootInv => PiBootTypeOK BY DEF BootInv
<1> QED BY <1>1, BootInvariant, PTL

\* For each file of a run, allocate_parts makes room for every element of the array
\* before it is written.
THEOREM ArrayHoldsInRun == Spec => []PartsFit
<1>1. BootInv => PartsFit BY DEF BootInv, PartsInv
<1> QED BY <1>1, BootInvariant, PTL

\* The parts split_binary makes of the file a run is at are its words.
THEOREM PartsAreEachFile == Spec => []PartsAreFile
<1>1. BootInv => PartsAreFile BY PartsDescribeFile DEF BootInv
<1> QED BY <1>1, BootInvariant, PTL

\* Of no file of a run, whatever -b says, are MinZeros zeros in a row sent as data.
THEOREM BigZerosAreSentInRun == Spec => []BigZerosAreCommands
<1>1. BootInv => BigZerosAreCommands BY ChunksAreCommands DEF BootInv
<1> QED BY <1>1, BootInvariant, PTL

-----------------------------------------------------------------------------
(* What out_buffer holds *)

\* The characters of text k of a buffer.
LEMMA CharsOf ==
  ASSUME NEW k \in Nat, NEW n \in Nat
  PROVE  IsFiniteSet({k} \X (1 .. n)) /\ Cardinality({k} \X (1 .. n)) = n
<1>1. IsFiniteSet({k}) /\ Cardinality({k}) = 1 BY FS_Singleton
<1>2. IsFiniteSet(1 .. n) /\ Cardinality(1 .. n) = n
  <2>1. IsFiniteSet(1 .. n) /\ Cardinality(1 .. n) = IF 1 > n THEN 0 ELSE n - 1 + 1 BY FS_Interval
  <2> QED BY <2>1
<1>3. IsFiniteSet({k} \X (1 .. n)) /\ Cardinality({k} \X (1 .. n)) = Cardinality({k}) * Cardinality(1 .. n)
  BY <1>1, <1>2, FS_Product, Zenon
<1>4. Cardinality({k}) * Cardinality(1 .. n) = n
  <2>1. 1 * n = n OBVIOUS
  <2> QED BY <1>1, <1>2, <2>1
<1> QED BY <1>3, <1>4

LEMMA BufferOfInv ==
  ASSUME ScreenInv, BufferSize >= 53
  PROVE  BufferHolds
<1>0. BufferSize \in Nat BY VerbosePrintAssumption
<1>1. /\ \A r \in Reason : Length[r] \in Nat /\ Length[r] <= 18
      /\ \A p \in Announce : Length[p] \in Nat /\ Length[p] <= 34
  BY DEF Length, Reason, Announce
<1>2. CASE screen.buffer = <<>>
  <2>1. Chars(screen.buffer) = {} BY <1>2 DEF Chars
  <2> QED BY <1>0, <2>1, FS_EmptySet DEF BufferHolds
<1>3. ASSUME NEW r \in Reason, screen.buffer = <<r>> PROVE BufferHolds
  <2>1. Len(screen.buffer) = 1 /\ screen.buffer[1] = r BY <1>3
  <2>2. 1 .. 1 = {1} OBVIOUS
  <2>3. Chars(screen.buffer) = {1} \X (1 .. Length[r]) BY <2>1, <2>2 DEF Chars
  <2>4. Length[r] \in Nat /\ Length[r] <= 18 /\ 1 \in Nat BY <1>1
  <2>5. Cardinality({1} \X (1 .. Length[r])) = Length[r] BY <2>4, CharsOf
  <2> QED BY <1>0, <2>3, <2>4, <2>5 DEF BufferHolds
<1>4. ASSUME NEW p \in Announce, NEW r \in Reason, screen.buffer = <<p, r>> PROVE BufferHolds
  <2> DEFINE S == {1} \X (1 .. Length[p])
             T == {2} \X (1 .. Length[r])
  <2>1. Len(screen.buffer) = 2 /\ screen.buffer[1] = p /\ screen.buffer[2] = r BY <1>4
  <2>2. 1 .. 2 = {1, 2} OBVIOUS
  <2>3. Chars(screen.buffer) = S \cup T BY <2>1, <2>2 DEF Chars
  <2>4. Length[p] \in Nat /\ Length[p] <= 34 /\ Length[r] \in Nat /\ Length[r] <= 18 BY <1>1
  <2>5. IsFiniteSet(S) /\ Cardinality(S) = Length[p] BY <2>4, CharsOf
  <2>6. IsFiniteSet(T) /\ Cardinality(T) = Length[r] BY <2>4, CharsOf
  <2> HIDE DEF S, T
  <2>7. Cardinality(S \cup T) = Cardinality(S) + Cardinality(T) - Cardinality(S \cap T)
        /\ Cardinality(S \cap T) \in Nat
    BY <2>5, <2>6, FS_Union, FS_Intersection, FS_CardinalityType
  <2> QED BY <1>0, <2>3, <2>4, <2>5, <2>6, <2>7 DEF BufferHolds
<1> QED BY <1>2, <1>3, <1>4 DEF ScreenInv

\* However many packets a run sends and whichever fail, out_buffer never has to hold
\* more than one of them and its outcome: 53 bytes would do (vm_print_s, vm_print_e).
THEOREM BufferIsNeverOverrun == ASSUME BufferSize >= 53 PROVE Spec => []BufferHolds
<1>1. BootInv => BufferHolds BY BufferOfInv DEF BootInv
<1> QED BY <1>1, BootInvariant, PTL

-----------------------------------------------------------------------------
(* Nothing without contact *)

Untouched == started = None /\ ~rebooted /\ \A a \in Addr : mem[a] = Old

\* Only past ping, and past it only on a board that has answered or whose cable is
\* out, which ends the run at its next packet.
ContactInv ==
  /\ at \in {"parse", "serial", "ping"} \/ ~contact => Untouched
  /\ ~contact => tty = "gone" \/ at \in {"parse", "serial", "ping", "exit"}

LEMMA InitContact == Init => ContactInv
BY DEF Init, ContactInv, Untouched

LEMMA ContactStep == BootInv /\ ContactInv /\ [Next]_vars => ContactInv'
<1> SUFFICES ASSUME BootInv, ContactInv, [Next]_vars PROVE ContactInv' OBVIOUS
<1>0. contact \in BOOLEAN /\ rebooted \in BOOLEAN BY TypeParts DEF BootInv, FlagType
<1>1. CASE SetOption \/ HangUp \/ UNCHANGED vars
  <2>1. UNCHANGED <<at, contact, started, rebooted, mem>> /\ (tty' = tty \/ tty' = "gone")
    BY <1>1, Zenon DEF SetOption, HangUp, vars
  <2> QED BY <2>1 DEF ContactInv, Untouched
<1>2. CASE ReturnAtOnce \/ BadOption \/ EndOfOptions \/ SetupSerial
  <2>1. UNCHANGED <<contact, started, rebooted, mem, tty>> /\ at' \in {"serial", "ping", "exit"}
        /\ at \in {"parse", "serial"}
    BY <1>2 DEF ReturnAtOnce, BadOption, EndOfOptions, SetupSerial, Exit
  <2> QED BY <2>1 DEF ContactInv, Untouched
<1>3. CASE Ping
  <2>1. UNCHANGED <<started, rebooted, mem, tty>> /\ at = "ping"
    BY <1>3 DEF Ping
  <2>2. (~contact => ~contact') => (~contact' => tty = "gone" \/ at' = "exit")
    BY <1>3 DEF Ping, Exit
  <2> QED BY <2>1, <2>2, <1>3, <1>0 DEF ContactInv, Untouched, Ping, Exit
<1>4. CASE Acknowledged /\ at \notin {"parse", "serial", "ping", "exit"} /\ contact' = contact
           /\ at' \notin {"parse", "serial", "ping"}
  BY <1>4 DEF Acknowledged, ContactInv
<1>5. CASE UNCHANGED <<contact, started, rebooted, mem, tty>> /\ at \notin {"parse", "serial", "ping", "exit"}
           /\ at' \notin {"parse", "serial", "ping"}
  BY <1>5 DEF ContactInv, Untouched
<1>6. CASE OpenFile \/ SkipSegment \/ EndElf \/ Refused
  <2>1. UNCHANGED <<contact, started, rebooted, mem, tty>>
    BY <1>6, Zenon DEF OpenFile, SkipSegment, EndElf, Refused
  <2>2. at \notin {"parse", "serial", "ping", "exit"} /\ at' \notin {"parse", "serial", "ping"}
    BY <1>6 DEF OpenFile, SkipSegment, EndElf, Refused, Exit, InElf, CloseFile, PacketDue
  <2> QED BY <1>5, <2>1, <2>2
<1>7. CASE LoadBinary
  <2>1. at = "binary" /\ at' \in {"binary", "files"} /\ contact' = contact
    BY <1>7 DEF LoadBinary, CloseFile
  <2>2. Acknowledged \/ UNCHANGED <<contact, started, rebooted, mem, tty>>
    BY <1>7 DEF LoadBinary, Split, Extend, BeginZeros, MergeZeros, KeepZeros, Terminate, NextWord, EndUpload
  <2> QED BY <1>4, <1>5, <2>1, <2>2
<1>8. CASE LoadSection \/ ZeroSection
  BY <1>4, <1>8 DEF LoadSection, ZeroSection, InElf
<1>9. CASE TakeAction
  <2>1. at = "files" /\ at' \in {"exit", "monitor"} /\ contact' = contact
    BY <1>9 DEF TakeAction, AfterAction, Exit
  <2>2. CASE PacketDue BY <1>4, <1>9, <2>1, <2>2 DEF TakeAction
  <2>3. CASE ~PacketDue
    <3>1. loader_action \notin {"EXEC", "REBOOT"} BY <1>9, <2>3 DEF TakeAction, PacketDue
    <3>2. started' = None /\ ~rebooted' /\ mem' = mem /\ tty' = tty BY <1>9, <3>1 DEF TakeAction
    <3> QED BY <2>1, <3>2 DEF ContactInv, Untouched
  <2> QED BY <2>2, <2>3
<1> QED BY <1>1, <1>2, <1>3, <1>6, <1>7, <1>8, <1>9 DEF Next, Step

\* As long as the board has not answered the ping, nothing is started, rebooted or
\* written, although ping goes on when it has read nothing and the stack held an
\* RDY (ping, check_response).
THEOREM NothingUnanswered == Spec => []NothingWithoutContact
<1>1. ContactInv => NothingWithoutContact BY DEF ContactInv, Untouched, NothingWithoutContact
<1> QED BY <1>1, InitContact, ContactStep, BootInvariant, PTL DEF Spec

-----------------------------------------------------------------------------
(* What is printed in a run *)

Early == {"parse", "serial", "ping"}

\* Nothing is printed before the ping, nothing started before the end.
SilentInv ==
  /\ at \in Early => screen.out = <<>>
  /\ at \notin {"exit", "monitor"} => started = None

\* A step that prints nothing does not end the run for a packet and starts nothing.
SaysNothing ==
  /\ UNCHANGED <<screen, verbose_mode, started>>
  /\ at # "exit" /\ end' \notin {"ping", "response"}

\* A step that tells a packet ends the run if the outcome is bad, which is then that
\* of the ping, or of the packet that is still due.
SaysPacket(p, r) ==
  /\ Tells(p, r) /\ at # "exit"
  /\ end' \in {"ping", "response"} <=> r # "OK"
  /\ end' = "ping" => p = "PING" /\ r = "ERROR"
  /\ end' = "response" => p = NextPacket' /\ r \in Reason \ {"OK", "ERROR"}
  /\ started' # None <=> p = "EXEC" /\ r = "OK"

LEMMA NextPacketKinds ==
  PiBootTypeOK /\ PacketDue =>
    /\ files = <<>> => at = "files" /\ NextPacket = loader_action /\ loader_action \in {"EXEC", "REBOOT"}
    /\ files # <<>> => NextPacket \in {"LOAD", "ZERO"}
BY TypeParts DEF PacketDue, HereType, InElf, NextPacket

LEMMA Says ==
  BootInv /\ SilentInv /\ [Next]_vars =>
    \/ UNCHANGED vars
    \/ SetOption
    \/ SaysNothing
    \/ \E p \in Announce, r \in Reason : SaysPacket(p, r)
<1> SUFFICES ASSUME BootInv, SilentInv, Next
             PROVE  SetOption \/ SaysNothing \/ \E p \in Announce, r \in Reason : SaysPacket(p, r)
  OBVIOUS
<1>0. PiBootTypeOK /\ ControlType /\ LineType /\ HereType BY TypeParts DEF BootInv
<1>1. end = "none" <=> at # "exit" BY <1>0 DEF ControlType
<1>2. CASE ReturnAtOnce \/ BadOption \/ EndOfOptions \/ SetupSerial \/ HangUp \/ OpenFile
           \/ SkipSegment \/ EndElf
  <2>1. UNCHANGED <<screen, verbose_mode, started>>
    BY <1>2, Zenon DEF ReturnAtOnce, BadOption, EndOfOptions, SetupSerial, HangUp, OpenFile,
                       SkipSegment, EndElf
  <2>2. at # "exit" /\ (end' = end \/ end' \in {"options", "serial", "file"})
    BY <1>2 DEF ReturnAtOnce, BadOption, EndOfOptions, SetupSerial, HangUp, OpenFile, Exit,
                SkipSegment, EndElf, InElf
  <2> QED BY <1>1, <2>1, <2>2 DEF SaysNothing
<1>3. CASE Ping
  <2>1. at = "ping" /\ started' = started BY <1>3 DEF Ping
  <2>2. started' = None BY <2>1 DEF SilentInv
  <2>3. \/ Tells("PING", "OK") /\ end' = end
        \/ Tells("PING", "ERROR") /\ end' = "ping"
    BY <1>3 DEF Ping, Exit
  <2>4. SaysPacket("PING", "OK") \/ SaysPacket("PING", "ERROR")
    BY <1>1, <2>1, <2>2, <2>3 DEF SaysPacket
  <2> QED BY <2>4 DEF Announce, Reason
<1>4. CASE Refused
  <2>1. PICK why \in BadOutcomes : Tells(NextPacket, why) BY <1>4 DEF Refused
  <2>2. why \in Reason \ {"OK", "ERROR"} BY DEF BadOutcomes, Reason
  <2>3. NextPacket' = NextPacket BY <1>4 DEF Refused, NextPacket
  <2>4. NextPacket \in Announce BY <1>0, <1>4, NextPacketKinds DEF Refused, Announce
  <2>5. at \notin {"exit", "monitor"} /\ started' = None
    BY <1>4 DEF Refused, PacketDue, InElf, SilentInv
  <2>6. end' = "response" BY <1>4 DEF Refused, Exit
  <2>7. SaysPacket(NextPacket, why) BY <2>1, <2>2, <2>3, <2>5, <2>6 DEF SaysPacket
  <2> QED BY <2>2, <2>4, <2>7
<1>5. CASE LoadBinary \/ LoadSection \/ ZeroSection
  <2>1. at \in {"elf", "binary"} /\ end' = end /\ started' = started
    BY <1>5 DEF LoadBinary, LoadSection, ZeroSection, InElf
  <2>2. files # <<>> /\ started = None /\ end' = "none" /\ at # "exit"
    BY <1>0, <1>1, <2>1 DEF HereType, SilentInv
  <2>3. UNCHANGED <<screen, verbose_mode>> \/ (PacketDue /\ Acknowledged)
    BY <1>5 DEF LoadBinary, LoadSection, ZeroSection, PacketDue, UploadPart
  <2>4. CASE PacketDue /\ Acknowledged
    <3>1. NextPacket \in {"LOAD", "ZERO"} BY <1>0, <2>2, <2>4, NextPacketKinds
    <3>2. SaysPacket(NextPacket, "OK") BY <2>1, <2>2, <2>4, <3>1 DEF SaysPacket, Acknowledged
    <3> QED BY <3>1, <3>2 DEF Announce, Reason
  <2>5. CASE UNCHANGED <<screen, verbose_mode>> BY <2>1, <2>2, <2>5 DEF SaysNothing
  <2> QED BY <2>3, <2>4, <2>5
<1>6. CASE TakeAction
  <2>1. at = "files" /\ files = <<>> /\ end' \in {end, "ok"} /\ end' \notin {"ping", "response"}
    BY <1>1, <1>6 DEF TakeAction, AfterAction, Exit
  <2>2. started = None BY <2>1 DEF SilentInv
  <2>3. CASE PacketDue
    <3>1. NextPacket = loader_action /\ loader_action \in {"EXEC", "REBOOT"}
      BY <1>0, <2>1, <2>3, NextPacketKinds
    <3>2. started' # None <=> loader_action = "EXEC"
      <4>1. e_entry \in Nat BY <1>0, TypeParts, SplitAssumption DEF StartType, Addr
      <4>2. [entry |-> e_entry, nowd |-> no_watchdog] # None
        <5>1. [entry |-> e_entry, nowd |-> no_watchdog].entry # -1 BY <4>1
        <5>2. None.entry = -1 BY DEF None
        <5> QED BY <5>1, <5>2
      <4> QED BY <1>6, <4>2 DEF TakeAction
    <3>3. Tells(NextPacket, "OK") BY <1>6, <2>3 DEF TakeAction, Acknowledged
    <3>4. SaysPacket(NextPacket, "OK") BY <2>1, <3>1, <3>2, <3>3 DEF SaysPacket
    <3> QED BY <3>1, <3>4 DEF Announce, Reason
  <2>4. CASE ~PacketDue
    <3>1. loader_action # "EXEC" BY <2>1, <2>4 DEF PacketDue
    <3>2. started' = None /\ UNCHANGED printVars BY <1>6, <2>4, <3>1 DEF TakeAction
    <3> QED BY <2>1, <2>2, <3>2 DEF SaysNothing
  <2> QED BY <2>3, <2>4
<1> QED BY <1>2, <1>3, <1>4, <1>5, <1>6 DEF Next, Step

LEMMA SilentStep == SilentInv /\ [Next]_vars => SilentInv'
<1> SUFFICES ASSUME SilentInv, [Next]_vars PROVE SilentInv' OBVIOUS
<1>1. CASE SetOption \/ HangUp \/ UNCHANGED vars
  <2>1. UNCHANGED <<at, started, screen>> BY <1>1, Zenon DEF SetOption, HangUp, vars
  <2> QED BY <2>1 DEF SilentInv
<1>2. CASE ReturnAtOnce \/ BadOption \/ EndOfOptions \/ SetupSerial
  <2>1. UNCHANGED <<started, screen>>
    BY <1>2, Zenon DEF ReturnAtOnce, BadOption, EndOfOptions, SetupSerial
  <2>2. at \in Early
    BY <1>2 DEF ReturnAtOnce, BadOption, EndOfOptions, SetupSerial, Early
  <2> QED BY <2>1, <2>2 DEF SilentInv, Early
<1>3. CASE Ping \/ OpenFile \/ LoadBinary \/ SkipSegment \/ LoadSection \/ ZeroSection \/ EndElf \/ Refused
  <2>1. started' = started
    BY <1>3, Zenon DEF Ping, OpenFile, LoadBinary, SkipSegment, LoadSection, ZeroSection, EndElf, Refused
  <2>2. at \notin {"exit", "monitor"} /\ at' \notin Early
    BY <1>3 DEF Ping, OpenFile, LoadBinary, SkipSegment, LoadSection, ZeroSection, EndElf, Refused,
                PacketDue, InElf, Exit, CloseFile, Early
  <2> QED BY <2>1, <2>2 DEF SilentInv
<1>4. CASE TakeAction BY <1>4 DEF TakeAction, AfterAction, Exit, SilentInv, Early
<1> QED BY <1>1, <1>2, <1>3, <1>4 DEF Next, Step

LEMMA InitSilent == Init => SilentInv
BY DEF Init, SilentInv, EmptyScreen

LEMMA QuietStep ==
  BootInv /\ SilentInv /\ QuietUnlessFailed /\ [Next]_vars => QuietUnlessFailed'
<1> SUFFICES ASSUME BootInv, SilentInv, QuietUnlessFailed, [Next]_vars, ~verbose_mode'
             PROVE  CASE end' = "ping"     -> screen'.out = <<"PING", "ERROR">>
                      [] end' = "response" -> \E why \in Reason \ {"OK", "ERROR"} :
                           screen'.out = IF NextPacket' = "EXEC" THEN <<why>> ELSE <<NextPacket', why>>
                      [] OTHER             -> screen'.out = <<>>
  BY DEF QuietUnlessFailed
<1>0. ControlType /\ screen \in Screen /\ screen.ptr = 0 BY TypeParts DEF BootInv, ScreenInv
<1>1. at # "exit" /\ ~verbose_mode => end = "none" /\ screen.out = <<>>
  BY <1>0 DEF ControlType, QuietUnlessFailed
<1>2. CASE SetOption
  <2>1. UNCHANGED <<screen, end>> /\ at = "parse" BY <1>2, Zenon DEF SetOption
  <2>2. screen.out = <<>> BY <2>1 DEF SilentInv, Early
  <2>3. end = "none" BY <1>0, <2>1 DEF ControlType
  <2> QED BY <2>1, <2>2, <2>3
<1>3. CASE SaysNothing BY <1>1, <1>3 DEF SaysNothing
<1>4. ASSUME NEW p \in Announce, NEW r \in Reason, SaysPacket(p, r)
      PROVE  CASE end' = "ping"     -> screen'.out = <<"PING", "ERROR">>
               [] end' = "response" -> \E why \in Reason \ {"OK", "ERROR"} :
                    screen'.out = IF NextPacket' = "EXEC" THEN <<why>> ELSE <<NextPacket', why>>
               [] OTHER             -> screen'.out = <<>>
  <2>1. Tells(p, r) /\ at # "exit" BY <1>4 DEF SaysPacket
  <2>2. verbose_mode' = verbose_mode
        /\ screen'.out = IF verbose_mode THEN screen.out \o <<p, r>>
                         ELSE IF r # "OK" THEN screen.out \o Pair(p, r) ELSE screen.out
    BY <1>0, <2>1, Told
  <2>3. screen.out = <<>> BY <1>1, <2>1, <2>2
  <2>4. Pair(p, r) \in Seq(Text)
    <3>1. p \in Text /\ r \in Text BY DEF Text
    <3>2. <<r>> \in Seq(Text) /\ <<p, r>> \in Seq(Text) BY <3>1
    <3> QED BY <3>2 DEF Pair
  <2>5. screen'.out = IF r # "OK" THEN Pair(p, r) ELSE <<>>
    <3>1. <<>> \o Pair(p, r) = Pair(p, r) BY <2>4, ConcatEmptySeq
    <3> QED BY <2>2, <2>3, <3>1
  <2>6. CASE r = "OK" BY <1>4, <2>5, <2>6 DEF SaysPacket
  <2>7. CASE r # "OK" /\ end' = "ping" BY <1>4, <2>5, <2>7 DEF SaysPacket, Pair
  <2>8. CASE r # "OK" /\ end' = "response"
    <3>1. p = NextPacket' /\ r \in Reason \ {"OK", "ERROR"} BY <1>4, <2>8 DEF SaysPacket
    <3>2. screen'.out = IF NextPacket' = "EXEC" THEN <<r>> ELSE <<NextPacket', r>>
      BY <2>5, <2>8, <3>1 DEF Pair
    <3> QED BY <2>8, <3>1, <3>2
  <2> QED BY <1>4, <2>6, <2>7, <2>8 DEF SaysPacket
<1>5. CASE UNCHANGED vars
  <2>1. UNCHANGED <<screen, verbose_mode, end>> /\ NextPacket' = NextPacket
    BY <1>5 DEF vars, NextPacket
  <2> QED BY <2>1 DEF QuietUnlessFailed
<1> QED BY <1>2, <1>3, <1>4, <1>5, Says

LEMMA InitQuiet == Init => QuietUnlessFailed
BY DEF Init, QuietUnlessFailed, EmptyScreen

\* Without -v a run is silent as long as every packet is acknowledged, and names the
\* packet that was not and why, however many were held back before it (vm_print_s,
\* vm_print_e, check_response).
THEOREM SilentUnlessFailed == Spec => []QuietUnlessFailed
<1>1. BootInv /\ SilentInv /\ QuietUnlessFailed /\ [Next]_vars => SilentInv' /\ QuietUnlessFailed'
  BY SilentStep, QuietStep
<1> QED BY <1>1, InitSilent, InitQuiet, BootInvariant, PTL DEF Spec

\* The texts of packets whose outcomes were good, but for the last.
Turns(out) ==
  /\ Len(out) % 2 = 0
  /\ \A k \in 1 .. Len(out) : out[k] \in (IF k % 2 = 1 THEN Announce ELSE Reason)
  /\ \A k \in 1 .. Len(out) - 1 : out[k] \notin Reason \ {"OK"}

LEMMA OneMoreTurn ==
  ASSUME NEW out \in Seq(Text), Turns(out), Len(out) > 0 => out[Len(out)] = "OK",
         NEW p \in Announce, NEW r \in Reason
  PROVE  LET t == out \o <<p, r>>
         IN  /\ Turns(t) /\ Len(t) = Len(out) + 2
             /\ t[Len(t) - 1] = p /\ t[Len(t)] = r
<1> DEFINE two == <<p, r>>
           t == out \o two
           n == Len(out)
<1>1. p \in Text /\ r \in Text BY DEF Text
<1>2. two \in Seq(Text) /\ Len(two) = 2 /\ two[1] = p /\ two[2] = r BY <1>1
<1>3. n \in Nat /\ n % 2 = 0 BY LenProperties DEF Turns
<1> HIDE DEF two
<1>4. Len(t) = n + 2 /\ \A k \in 1 .. n + 2 : t[k] = IF k <= n THEN out[k] ELSE two[k - n]
  <2>1. /\ Len(t) = Len(out) + Len(two)
        /\ \A k \in 1 .. Len(out) + Len(two) :
             t[k] = IF k <= Len(out) THEN out[k] ELSE two[k - Len(out)]
    BY <1>2, ConcatProperties
  <2> QED BY <1>2, <2>1
<1> HIDE DEF t
<1>5. \A k \in 1 .. n : t[k] = out[k] BY <1>3, <1>4
<1>6. t[n + 1] = p
  <2>1. n + 1 \in 1 .. n + 2 /\ ~(n + 1 <= n) /\ (n + 1) - n = 1 BY <1>3
  <2> QED BY <1>2, <1>4, <2>1
<1>7. t[n + 2] = r
  <2>1. n + 2 \in 1 .. n + 2 /\ ~(n + 2 <= n) /\ (n + 2) - n = 2 BY <1>3
  <2> QED BY <1>2, <1>4, <2>1
<1>8. (n + 1) % 2 = 1 /\ (n + 2) % 2 = 0 BY <1>3
<1>9. \A k \in 1 .. n + 2 : k \in 1 .. n \/ k = n + 1 \/ k = n + 2 BY <1>3
<1>10. \A k \in 1 .. n : out[k] \in (IF k % 2 = 1 THEN Announce ELSE Reason) BY DEF Turns
<1>11. \A k \in 1 .. n + 2 : t[k] \in (IF k % 2 = 1 THEN Announce ELSE Reason)
  <2> SUFFICES ASSUME NEW k \in 1 .. n + 2
               PROVE  t[k] \in (IF k % 2 = 1 THEN Announce ELSE Reason)
    OBVIOUS
  <2>1. CASE k \in 1 .. n BY <1>5, <1>10, <2>1
  <2>2. CASE k = n + 1 BY <1>6, <1>8, <2>2
  <2>3. CASE k = n + 2 BY <1>7, <1>8, <2>3
  <2> QED BY <1>9, <2>1, <2>2, <2>3
<1>12. \A k \in 1 .. n + 1 : t[k] \notin Reason \ {"OK"}
  <2> SUFFICES ASSUME NEW k \in 1 .. n + 1 PROVE t[k] \notin Reason \ {"OK"} OBVIOUS
  <2>1. CASE k \in 1 .. n - 1
    <3>1. k \in 1 .. n BY <1>3, <2>1
    <3>2. out[k] \notin Reason \ {"OK"} BY <2>1 DEF Turns
    <3> QED BY <1>5, <3>1, <3>2
  <2>2. CASE k = n
    <3>1. n > 0 /\ n \in 1 .. n BY <1>3, <2>2
    <3> QED BY <1>5, <2>2, <3>1
  <2>3. CASE k = n + 1 BY <1>6, <2>3 DEF Announce, Reason
  <2>4. k \in 1 .. n - 1 \/ k = n \/ k = n + 1 BY <1>3
  <2> QED BY <2>1, <2>2, <2>3, <2>4
<1>13. (n + 2) - 1 = n + 1 BY <1>3
<1>14. Turns(t) BY <1>4, <1>8, <1>11, <1>12, <1>13 DEF Turns
<1> QED BY <1>4, <1>6, <1>7, <1>13, <1>14 DEF t, two

SaysOnce(out, ended, did) ==
  /\ Turns(out)
  /\ ended \in {"ping", "response"} <=> Len(out) > 0 /\ out[Len(out)] # "OK"
  /\ did # None <=> Len(out) > 0 /\ out[Len(out) - 1] = "EXEC" /\ out[Len(out)] = "OK"

LEMMA VerboseIs == VerboseSaysOnce <=> (verbose_mode => SaysOnce(screen.out, end, started))
BY DEF VerboseSaysOnce, SaysOnce, Turns

LEMMA VerboseStep ==
  BootInv /\ SilentInv /\ VerboseSaysOnce /\ [Next]_vars => VerboseSaysOnce'
<1> SUFFICES ASSUME BootInv, SilentInv, VerboseSaysOnce, [Next]_vars, verbose_mode'
             PROVE  SaysOnce(screen'.out, end', started')
  BY DEF VerboseSaysOnce, SaysOnce, Turns
<1>0. ControlType /\ screen \in Screen /\ screen.ptr = 0 BY TypeParts DEF BootInv, ScreenInv
<1>1. screen.out \in Seq(Text) BY <1>0 DEF Screen
<1>2. at # "exit" => end \notin {"ping", "response"} BY <1>0 DEF ControlType
<1>3. CASE SetOption
  <2>1. UNCHANGED <<screen, end, started>> /\ at = "parse" BY <1>3, Zenon DEF SetOption
  <2>2. screen.out = <<>> /\ started = None BY <2>1 DEF SilentInv, Early
  <2>3. Len(<<>>) = 0 /\ 0 % 2 = 0 OBVIOUS
  <2>4. Turns(<<>>) BY <2>3 DEF Turns
  <2> QED BY <1>2, <2>1, <2>2, <2>3, <2>4 DEF SaysOnce
<1>4. CASE SaysNothing
  <2>1. SaysOnce(screen.out, end, started) BY <1>4, VerboseIs DEF SaysNothing
  <2> QED BY <1>2, <1>4, <2>1 DEF SaysNothing, SaysOnce
<1>5. ASSUME NEW p \in Announce, NEW r \in Reason, SaysPacket(p, r)
      PROVE  SaysOnce(screen'.out, end', started')
  <2> DEFINE out == screen.out
             t == out \o <<p, r>>
  <2>1. Tells(p, r) /\ at # "exit" BY <1>5 DEF SaysPacket
  <2>2. verbose_mode /\ screen'.out = t BY <1>0, <2>1, Told
  <2>3. SaysOnce(out, end, started) BY <2>2, VerboseIs
  <2>4. Turns(out) /\ (Len(out) > 0 => out[Len(out)] = "OK") BY <1>2, <2>1, <2>3 DEF SaysOnce
  <2>5. Turns(t) /\ Len(t) = Len(out) + 2 /\ t[Len(t) - 1] = p /\ t[Len(t)] = r
    BY <1>1, <2>4, OneMoreTurn
  <2>6. Len(t) > 0 BY <1>1, <2>5, LenProperties
  <2> HIDE DEF t, out
  <2> QED BY <1>5, <2>2, <2>5, <2>6 DEF SaysOnce, SaysPacket
<1>6. CASE UNCHANGED vars
  <2>1. UNCHANGED <<screen, verbose_mode, end, started>> BY <1>6 DEF vars
  <2> QED BY <2>1, VerboseIs
<1> QED BY <1>3, <1>4, <1>5, <1>6, Says

LEMMA InitVerbose == Init => VerboseSaysOnce
BY DEF Init, VerboseSaysOnce

\* With -v a run prints each packet and its outcome once and in turn, stops at the
\* first bad outcome, and has started the program exactly if the last it says is that
\* of an EXEC, acknowledged (vm_print_s, vm_print_e, exec_program).
THEOREM VerboseSaysAll == Spec => []VerboseSaysOnce
<1>1. BootInv /\ SilentInv /\ VerboseSaysOnce /\ [Next]_vars => SilentInv' /\ VerboseSaysOnce'
  BY SilentStep, VerboseStep
<1> QED BY <1>1, InitSilent, InitVerbose, BootInvariant, PTL DEF Spec

-----------------------------------------------------------------------------
(* What a command line asks for, one option, file and segment at a time *)

\* v, and what is below where v leaves memory alone.
Over(v, below) == IF v # Old THEN v ELSE below

Among(n, o) == \E k \in 1 .. n : cmd.options[k].opt = o

\* The argument of the last o among the first n options.
ArgAmong(n, o) ==
  LET ns == {k \in 1 .. n : cmd.options[k].opt = o}
  IN  IF ns = {} THEN LoadAddr ELSE cmd.options[Max(ns)].arg

\* The entry of the last ELF file among the first n files.
EntryAmong(n) ==
  LET ns == {k \in 1 .. n : cmd.files[k].kind = "elf"}
  IN  IF ns = {} THEN LastArg("x") ELSE cmd.files[Max(ns)].entry

\* What the first n files leave at a.
CellAmong(n, a) ==
  LET ns == {k \in 1 .. n : FromFile(k, a) # Old}
  IN  IF ns = {} THEN Old ELSE FromFile(Max(ns), a)

Offset(a, ph) == (a - ph.paddr + AddrSpace) % AddrSpace

SegmentCell(ph, a) ==
  IF Offset(a, ph) < Len(ph.data) THEN ph.data[Offset(a, ph) + 1]
  ELSE IF Given("b") THEN Beef ELSE 0

\* What the first n segments of an ELF file leave at a.
ElfCell(f, n, a) ==
  LET ns == {k \in 1 .. n : InSegment(f.segments[k], a)}
  IN  IF ns = {} THEN Old ELSE SegmentCell(f.segments[Max(ns)], a)

LEMMA LastIsMax ==
  ASSUME NEW n \in Nat, NEW S, S \subseteq 1 .. n + 1, n + 1 \in S
  PROVE  Max(S) = n + 1
<1>1. \A y \in S : y \in Nat /\ n + 1 >= y OBVIOUS
<1>2. \E x \in S : \A y \in S : x >= y BY <1>1
<1> DEFINE m == Max(S)
<1>3. m \in S /\ \A y \in S : m >= y BY <1>2, Zenon DEF Max
<1> HIDE DEF m
<1>4. m \in Nat /\ n + 1 >= m /\ m >= n + 1 BY <1>1, <1>3
<1>5. m = n + 1 BY <1>4
<1> QED BY <1>5 DEF m

LEMMA OneMoreOption ==
  ASSUME NEW n \in Nat, NEW o
  PROVE  /\ ArgAmong(n + 1, o) = IF cmd.options[n + 1].opt = o THEN cmd.options[n + 1].arg
                                 ELSE ArgAmong(n, o)
         /\ Among(n + 1, o) <=> Among(n, o) \/ cmd.options[n + 1].opt = o
<1> DEFINE S == {k \in 1 .. n + 1 : cmd.options[k].opt = o}
           T == {k \in 1 .. n : cmd.options[k].opt = o}
<1>0. \A k : k \in 1 .. n + 1 <=> k \in 1 .. n \/ k = n + 1 OBVIOUS
<1>1. CASE cmd.options[n + 1].opt = o
  <2>1. n + 1 \in S /\ S \subseteq 1 .. n + 1 BY <1>0, <1>1
  <2>2. Max(S) = n + 1 BY <2>1, LastIsMax
  <2>3. S # {} BY <2>1
  <2> QED BY <1>1, <1>0, <2>2, <2>3 DEF ArgAmong, Among
<1>2. CASE cmd.options[n + 1].opt # o
  <2>1. S = T BY <1>0, <1>2
  <2>2. ArgAmong(n + 1, o) = ArgAmong(n, o) BY <2>1, Zenon DEF ArgAmong
  <2> QED BY <1>0, <1>2, <2>2 DEF Among
<1> QED BY <1>1, <1>2

LEMMA OneMoreEntry ==
  ASSUME NEW n \in Nat
  PROVE  EntryAmong(n + 1) = IF cmd.files[n + 1].kind = "elf" THEN cmd.files[n + 1].entry
                             ELSE EntryAmong(n)
<1> DEFINE S == {k \in 1 .. n + 1 : cmd.files[k].kind = "elf"}
           T == {k \in 1 .. n : cmd.files[k].kind = "elf"}
<1>0. \A k : k \in 1 .. n + 1 <=> k \in 1 .. n \/ k = n + 1 OBVIOUS
<1>1. CASE cmd.files[n + 1].kind = "elf"
  <2>1. n + 1 \in S /\ S \subseteq 1 .. n + 1 BY <1>0, <1>1
  <2>2. Max(S) = n + 1 BY <2>1, LastIsMax
  <2>3. S # {} BY <2>1
  <2> QED BY <1>1, <2>2, <2>3 DEF EntryAmong
<1>2. CASE cmd.files[n + 1].kind # "elf"
  <2>1. S = T BY <1>0, <1>2
  <2> QED BY <1>2, <2>1, Zenon DEF EntryAmong
<1> QED BY <1>1, <1>2

LEMMA OneMoreFile ==
  ASSUME NEW n \in Nat, NEW a
  PROVE  CellAmong(n + 1, a) = Over(FromFile(n + 1, a), CellAmong(n, a))
<1> DEFINE S == {k \in 1 .. n + 1 : FromFile(k, a) # Old}
           T == {k \in 1 .. n : FromFile(k, a) # Old}
<1>0. \A k : k \in 1 .. n + 1 <=> k \in 1 .. n \/ k = n + 1 OBVIOUS
<1>1. CASE FromFile(n + 1, a) # Old
  <2>1. n + 1 \in S /\ S \subseteq 1 .. n + 1 BY <1>0, <1>1
  <2>2. Max(S) = n + 1 BY <2>1, LastIsMax
  <2>3. S # {} BY <2>1
  <2> QED BY <1>1, <2>2, <2>3 DEF CellAmong, Over
<1>2. CASE FromFile(n + 1, a) = Old
  <2>1. S = T BY <1>0, <1>2
  <2>2. CellAmong(n + 1, a) = CellAmong(n, a) BY <2>1, Zenon DEF CellAmong
  <2> QED BY <1>2, <2>2 DEF Over
<1> QED BY <1>1, <1>2

LEMMA OneMoreSegment ==
  ASSUME NEW n \in Nat, NEW f, NEW a
  PROVE  ElfCell(f, n + 1, a) = IF InSegment(f.segments[n + 1], a) THEN SegmentCell(f.segments[n + 1], a)
                                ELSE ElfCell(f, n, a)
<1> DEFINE S == {k \in 1 .. n + 1 : InSegment(f.segments[k], a)}
           T == {k \in 1 .. n : InSegment(f.segments[k], a)}
<1>0. \A k : k \in 1 .. n + 1 <=> k \in 1 .. n \/ k = n + 1 OBVIOUS
<1>1. CASE InSegment(f.segments[n + 1], a)
  <2>1. n + 1 \in S /\ S \subseteq 1 .. n + 1 BY <1>0, <1>1
  <2>2. Max(S) = n + 1 BY <2>1, LastIsMax
  <2>3. S # {} BY <2>1
  <2> QED BY <1>1, <2>2, <2>3 DEF ElfCell
<1>2. CASE ~InSegment(f.segments[n + 1], a)
  <2>1. S = T BY <1>0, <1>2
  <2> QED BY <1>2, <2>1, Zenon DEF ElfCell
<1> QED BY <1>1, <1>2

\* The words of the binaries before file n + 1, those of file n behind them.
LEMMA OneMoreBase ==
  ASSUME NEW n \in Nat, n > 0, IsFiniteSet(WordsBefore(n)), BinaryWords(cmd.files[n]) \in Nat,
         LastArg("l") \in Nat
  PROVE  /\ IsFiniteSet(WordsBefore(n + 1))
         /\ BaseOf(n + 1) = BaseOf(n) + BinaryWords(cmd.files[n])
<1> DEFINE S == WordsBefore(n)
           T == {n} \X (1 .. BinaryWords(cmd.files[n]))
<1>1. \A k : k \in 1 .. (n + 1) - 1 <=> k \in 1 .. n - 1 \/ k = n OBVIOUS
<1>2. WordsBefore(n + 1) = S \cup T
  <2>1. \A x : x \in WordsBefore(n + 1) <=>
               \E k \in 1 .. (n + 1) - 1 : x \in {k} \X (1 .. BinaryWords(cmd.files[k]))
    BY DEF WordsBefore
  <2>2. \A x : x \in WordsBefore(n) <=>
               \E k \in 1 .. n - 1 : x \in {k} \X (1 .. BinaryWords(cmd.files[k]))
    BY DEF WordsBefore
  <2>3. \A x : x \in WordsBefore(n + 1) <=> x \in S \/ x \in T BY <1>1, <2>1, <2>2
  <2> QED BY <2>3
<1>3. S \cap T = {}
  <2> SUFFICES ASSUME NEW x \in S, x \in T PROVE FALSE OBVIOUS
  <2>1. PICK k \in 1 .. n - 1 : x \in {k} \X (1 .. BinaryWords(cmd.files[k])) BY DEF WordsBefore
  <2>2. x[1] = k /\ x[1] = n BY <2>1
  <2> QED BY <2>2
<1>4. IsFiniteSet(T) /\ Cardinality(T) = BinaryWords(cmd.files[n]) BY CharsOf
<1> HIDE DEF S, T
<1>5. IsFiniteSet(S \cup T) /\ Cardinality(S \cup T) = Cardinality(S) + Cardinality(T) - Cardinality(S \cap T)
  BY <1>4, FS_Union DEF S
<1>6. Cardinality(S \cap T) = 0 BY <1>3, FS_EmptySet
<1>7. Cardinality(S) \in Nat BY FS_CardinalityType DEF S
<1> DEFINE s == Cardinality(S)
           b == BinaryWords(cmd.files[n])
           l == LastArg("l")
<1>8. Cardinality(WordsBefore(n + 1)) = s + b - 0 BY <1>2, <1>4, <1>5, <1>6
<1>9. s \in Nat /\ b \in Nat /\ l \in Nat BY <1>7
<1>10. BaseOf(n + 1) = l + (s + b - 0) /\ BaseOf(n) = l + s BY <1>8 DEF BaseOf, S
<1> HIDE DEF s, b, l
<1>11. BaseOf(n + 1) = BaseOf(n) + b BY <1>9, <1>10
<1> QED BY <1>2, <1>5, <1>11 DEF b

\* Addresses wrap around at most once.
LEMMA Wrap ==
  ASSUME NEW x \in Nat, x < 2 * AddrSpace
  PROVE  /\ x % AddrSpace = IF x < AddrSpace THEN x ELSE x - AddrSpace
         /\ AddrSpace \in Nat /\ AddrSpace > 0
<1>1. AddrSpace \in Nat BY SplitAssumption
<1>2. LoadAddr \in 0 .. AddrSpace - 1 BY PiBootAssumption DEF Addr
<1>3. AddrSpace > 0 BY <1>1, <1>2
<1>4. CASE x < AddrSpace BY <1>1, <1>3, <1>4
<1>5. CASE x >= AddrSpace
  <2>1. x - AddrSpace \in 0 .. AddrSpace - 1 BY <1>1, <1>5
  <2>2. x = 1 * AddrSpace + (x - AddrSpace) BY <1>1
  <2> QED BY <1>1, <1>3, <1>5, <2>1, <2>2
<1> QED BY <1>1, <1>3, <1>4, <1>5

LEMMA OffsetIs ==
  ASSUME NEW a \in Addr, NEW ph, ph.paddr \in Addr
  PROVE  /\ Offset(a, ph) = IF a >= ph.paddr THEN a - ph.paddr ELSE a - ph.paddr + AddrSpace
         /\ Offset(a, ph) \in 0 .. AddrSpace - 1
<1> DEFINE p == ph.paddr
           x == a - p + AddrSpace
<1>1. AddrSpace \in Nat /\ a \in Nat /\ p \in Nat /\ a < AddrSpace /\ p < AddrSpace
  BY SplitAssumption DEF Addr
<1>2. Offset(a, ph) = x % AddrSpace BY DEF Offset
<1> HIDE DEF p
<1>3. x \in Nat /\ x < 2 * AddrSpace /\ (x < AddrSpace <=> a < p) BY <1>1
<1>4. x % AddrSpace = IF x < AddrSpace THEN x ELSE x - AddrSpace BY <1>3, Wrap
<1>5. Offset(a, ph) = IF a >= p THEN a - p ELSE a - p + AddrSpace BY <1>1, <1>2, <1>3, <1>4
<1> QED BY <1>1, <1>5 DEF p

\* An address lies in a span of a segment if its offset does.
LEMMA InSpan ==
  ASSUME NEW a \in Addr, NEW ph, ph.paddr \in Addr, NEW from \in Nat, NEW n \in Nat,
         from + n <= AddrSpace
  PROVE  a \in Span(ph.paddr + from, n) <=> from <= Offset(a, ph) /\ Offset(a, ph) < from + n
<1> DEFINE p == ph.paddr
           d == Offset(a, ph)
<1>1. AddrSpace \in Nat /\ a \in Nat /\ p \in Nat /\ a < AddrSpace /\ p < AddrSpace
  BY SplitAssumption DEF Addr
<1>2. d = (IF a >= p THEN a - p ELSE a - p + AddrSpace) /\ d \in 0 .. AddrSpace - 1 BY OffsetIs
<1> HIDE DEF d, p
<1>3. ASSUME NEW k \in 0 .. n - 1, a = (p + from + k) % AddrSpace PROVE d = from + k
  <2> DEFINE x == p + from + k
  <2>1. x \in Nat /\ x < 2 * AddrSpace BY <1>1
  <2>2. a = x % AddrSpace BY <1>3
  <2> HIDE DEF x
  <2>3. a = IF x < AddrSpace THEN x ELSE x - AddrSpace BY <2>1, <2>2, Wrap
  <2>4. CASE x < AddrSpace
    <3>1. a = p + from + k BY <2>3, <2>4 DEF x
    <3> QED BY <1>1, <1>2, <3>1
  <2>5. CASE ~(x < AddrSpace)
    <3>1. a = x - AddrSpace BY <2>3, <2>5
    <3>2. a = p + from + k - AddrSpace BY <1>1, <3>1 DEF x
    <3>3. a < p BY <1>1, <3>2
    <3> QED BY <1>1, <1>2, <3>2, <3>3
  <2> QED BY <2>4, <2>5
<1>4. ASSUME from <= d, d < from + n PROVE \E k \in 0 .. n - 1 : a = (p + from + k) % AddrSpace
  <2>1. d - from \in 0 .. n - 1 /\ p + from + (d - from) = p + d BY <1>1, <1>2, <1>4
  <2> DEFINE x == p + d
  <2>2. x \in Nat /\ x < 2 * AddrSpace /\ a = IF x < AddrSpace THEN x ELSE x - AddrSpace
    BY <1>1, <1>2
  <2>3. p + from + (d - from) = x BY <2>1
  <2> HIDE DEF x
  <2>4. x % AddrSpace = a BY <2>2, Wrap
  <2> QED BY <2>1, <2>3, <2>4
<1>5. a \in Span(p + from, n) <=> \E k \in 0 .. n - 1 : a = (p + from + k) % AddrSpace
  BY DEF Span
<1>6. ASSUME a \in Span(p + from, n) PROVE from <= d /\ d < from + n
  <2>1. PICK k \in 0 .. n - 1 : a = (p + from + k) % AddrSpace BY <1>5, <1>6
  <2>2. d = from + k BY <1>3, <2>1
  <2> QED BY <2>2
<1> QED BY <1>4, <1>5, <1>6 DEF d, p

\* A segment's memory is its data and then what is zeroed behind it.
LEMMA SegmentSpans ==
  ASSUME NEW ph \in Segment, ph.type = "LOAD", Len(ph.data) <= ph.memsz, NEW a \in Addr
  PROVE  /\ Offset(a, ph) \in Nat
         /\ ZSize(ph) = ph.memsz - Len(ph.data)
         /\ InSegment(ph, a) <=> Offset(a, ph) < ph.memsz
         /\ a \in ZeroTail(ph) <=> Len(ph.data) <= Offset(a, ph) /\ Offset(a, ph) < ph.memsz
<1> DEFINE l == Len(ph.data)
           m == ph.memsz
           d == Offset(a, ph)
<1>1. ph.paddr \in Addr /\ m \in Addr /\ ph.data \in Seq(Nat) BY DEF Segment
<1>2. l \in Nat BY <1>1, LenProperties
<1>3. AddrSpace \in Nat /\ m \in Nat /\ m < AddrSpace /\ ph.paddr \in Nat
  BY <1>1, SplitAssumption DEF Addr
<1>4. d \in 0 .. AddrSpace - 1 BY <1>1, OffsetIs
<1>5. l <= m OBVIOUS
<1>6. ZSize(ph) = (m - l + AddrSpace) % AddrSpace BY DEF ZSize
<1>7. ZeroTail(ph) = Span(ph.paddr + l, ZSize(ph)) BY DEF ZeroTail
<1>8. InSegment(ph, a) <=> a \in Span(ph.paddr, m) BY DEF InSegment
<1> HIDE DEF l, m, d
<1>9. ZSize(ph) = m - l
  <2> DEFINE x == m - l + AddrSpace
  <2>1. x \in Nat /\ x < 2 * AddrSpace /\ ~(x < AddrSpace) /\ x - AddrSpace = m - l
    BY <1>2, <1>3, <1>5
  <2>2. ZSize(ph) = x % AddrSpace BY <1>6
  <2> HIDE DEF x
  <2>3. x % AddrSpace = x - AddrSpace BY <2>1, Wrap
  <2> QED BY <2>1, <2>2, <2>3
<1>10. a \in Span(ph.paddr + l, m - l) <=> l <= d /\ d < l + (m - l)
  <2>1. m - l \in Nat /\ l + (m - l) <= AddrSpace BY <1>2, <1>3, <1>5
  <2> QED BY <1>1, <1>2, <2>1, InSpan DEF d
<1>11. a \in Span(ph.paddr + 0, m) <=> 0 <= d /\ d < 0 + m
  <2>1. 0 \in Nat /\ 0 + m <= AddrSpace BY <1>3
  <2> QED BY <1>1, <1>3, <2>1, InSpan DEF d
<1>12. ph.paddr + 0 = ph.paddr /\ l + (m - l) = m /\ 0 + m = m BY <1>2, <1>3
<1>13. d \in Nat BY <1>3, <1>4
<1>14. InSegment(ph, a) <=> d < m BY <1>8, <1>11, <1>12, <1>13
<1>15. a \in ZeroTail(ph) <=> l <= d /\ d < m BY <1>7, <1>9, <1>10, <1>12
<1> QED BY <1>9, <1>13, <1>14, <1>15 DEF l, m, d

-----------------------------------------------------------------------------
(* How far a run has come *)

ReadOptions == Len(cmd.options) - Len(opts)
Done        == Len(cmd.files) - Len(files)

\* The settings are those of the first n options, none of which ends the options.
OptionsAre(n) ==
  /\ beef_bss <=> Among(n, "b")
  /\ no_watchdog <=> Among(n, "w")
  /\ loader_action = IF Among(n, "s") THEN "NONE" ELSE "EXEC"
  /\ ~Among(n, "h") /\ ~Among(n, "r")

Parsing ==
  /\ files = cmd.files /\ mem = [a \in Addr |-> Old] /\ e_hdr = NotElf
  /\ Len(opts) <= Len(cmd.options)
  /\ \A k \in 1 .. Len(opts) : opts[k] = cmd.options[ReadOptions + k]
  /\ OptionsAre(ReadOptions)
  /\ e_load = ArgAmong(ReadOptions, "l") /\ e_entry = ArgAmong(ReadOptions, "x")

\* The segments before pi, and the data of this one if its zeros are next, lie over
\* what the files before have left.
ElfWritten ==
  /\ half = "zero" => InElf /\ Ph.type = "LOAD"
  /\ \A a \in Addr :
       mem[a] = IF half = "zero" /\ Offset(a, Ph) < Len(Ph.data) THEN Ph.data[Offset(a, Ph) + 1]
                ELSE Over(ElfCell(Head(files), pi - 1, a), CellAmong(Done, a))

\* The words before part i lie over what the files before have left.
BinaryWritten ==
  /\ file = Head(files).binary
  /\ e_load = BaseOf(Done + 1) + Begins(i)
  /\ \A a \in Addr :
       mem[a] = IF a >= BaseOf(Done + 1) /\ a < BaseOf(Done + 1) + Begins(i)
                THEN file.words[a - BaseOf(Done + 1) + 1] ELSE CellAmong(Done, a)

FilesLeft ==
  /\ Len(files) <= Len(cmd.files)
  /\ \A k \in 1 .. Len(files) : files[k] = cmd.files[Done + k]

\* The header read last is that of the ELF file piboot is at, or of the one before
\* the file that is next, and the segments are those of the file.
HeaderHere ==
  /\ at = "elf" => /\ Head(files).kind = "elf" /\ e_hdr.entry = Head(files).entry
                   /\ ph_ents = Head(files).segments
  /\ at # "elf" /\ e_hdr # NotElf => Done > 0 /\ cmd.files[Done].kind = "elf"

Working ==
  /\ OptionsAre(Len(cmd.options)) /\ FilesLeft /\ HeaderHere
  /\ e_entry = EntryAmong(Done)
  /\ LastArg("l") \in Nat /\ IsFiniteSet(WordsBefore(Done + 1))
  /\ at # "binary" => e_load = BaseOf(Done + 1)
  /\ at \notin {"elf", "binary"} => \A a \in Addr : mem[a] = CellAmong(Done, a)
  /\ at = "elf" => ElfWritten
  /\ at = "binary" => BinaryWritten

InWork == at \in {"serial", "ping", "files", "elf", "binary"} /\ loader_action \notin {"USAGE", "REBOOT"}

SoundStarted == EntryIsAsked /\ MemoryIsAsked

AskedInv ==
  SoundLine => /\ at = "parse" => Parsing
               /\ InWork => Working
               /\ SoundStarted

\* The command line stays, and with it what it asks for.
LEMMA SameOptions ==
  ASSUME UNCHANGED cmd
  PROVE  /\ \A o : Given(o)' <=> Given(o)
         /\ \A o : LastArg(o)' = LastArg(o)
         /\ \A n, o : Among(n, o)' <=> Among(n, o)
         /\ \A n, o : ArgAmong(n, o)' = ArgAmong(n, o)
BY DEF Given, LastArg, Among, ArgAmong

BinaryCell(n, a) ==
  LET ws == cmd.files[n].binary.words
  IN  IF a \in Span(BaseOf(n), Len(ws)) THEN ws[a - BaseOf(n) + 1] ELSE Old

LEMMA FromFileIs ==
  \A n, a : FromFile(n, a) = IF cmd.files[n].kind = "binary" THEN BinaryCell(n, a)
                             ELSE ElfCell(cmd.files[n], Len(cmd.files[n].segments), a)
BY Zenon DEF FromFile, BinaryCell, ElfCell, SegmentCell, Offset

LEMMA SameFiles ==
  ASSUME UNCHANGED cmd
  PROVE  /\ \A n : WordsBefore(n)' = WordsBefore(n) /\ BaseOf(n)' = BaseOf(n)
         /\ \A n : EntryAmong(n)' = EntryAmong(n)
         /\ \A n, a : FromFile(n, a)' = FromFile(n, a)
         /\ \A n, a : CellAmong(n, a)' = CellAmong(n, a)
         /\ \A f, n, a : ElfCell(f, n, a)' = ElfCell(f, n, a)
         /\ SoundLine' <=> SoundLine
<1>1. \A n : WordsBefore(n)' = WordsBefore(n) BY DEF WordsBefore
<1>2. \A n : BaseOf(n)' = BaseOf(n) BY <1>1, SameOptions DEF BaseOf
<1>3. \A n : EntryAmong(n)' = EntryAmong(n) BY SameOptions DEF EntryAmong
<1>4. \A ph, a : SegmentCell(ph, a)' = SegmentCell(ph, a) BY SameOptions DEF SegmentCell
<1>5. \A f, n, a : ElfCell(f, n, a)' = ElfCell(f, n, a) BY <1>4 DEF ElfCell
<1>6. \A n, a : BinaryCell(n, a)' = BinaryCell(n, a) BY <1>2 DEF BinaryCell
<1>7. \A n, a : FromFile(n, a)' = FromFile(n, a)
  <2>1. \A n, a : FromFile(n, a)' = IF cmd.files[n].kind = "binary" THEN BinaryCell(n, a)'
                                    ELSE ElfCell(cmd.files[n], Len(cmd.files[n].segments), a)'
    <3>1. (\A n, a : FromFile(n, a) = IF cmd.files[n].kind = "binary" THEN BinaryCell(n, a)
                             ELSE ElfCell(cmd.files[n], Len(cmd.files[n].segments), a))'
      BY FromFileIs, PTL
    <3> QED BY <3>1
  <2> QED BY <1>5, <1>6, <2>1, FromFileIs
<1>8. \A n, a : CellAmong(n, a)' = CellAmong(n, a) BY <1>7 DEF CellAmong
<1>9. SoundLine' <=> SoundLine
  <2>1. \A n : SentAsItIs(n)' <=> SentAsItIs(n) BY <1>2, SameOptions DEF SentAsItIs
  <2>2. \A n : OwnHeader(n)' <=> OwnHeader(n) BY DEF OwnHeader
  <2> QED BY <2>1, <2>2 DEF SoundLine, FullSegments
<1> QED BY <1>1, <1>2, <1>3, <1>7, <1>8, <1>5, <1>9

LEMMA InitParsing == Init => Parsing
<1> SUFFICES ASSUME Init PROVE Parsing OBVIOUS
<1>1. at = "parse" /\ started = None /\ files = cmd.files /\ opts = cmd.options
      /\ mem = [a \in Addr |-> Old]
  BY DEF Init
<1>2. cmd.options \in Seq(Options) /\ Len(cmd.options) \in Nat
  BY CommandLineType, LenProperties DEF Init
<1>3. ReadOptions = 0 BY <1>1, <1>2 DEF ReadOptions
<1>4. \A o : ~Among(0, o) BY DEF Among
<1>5. \A o : ArgAmong(0, o) = LoadAddr BY DEF ArgAmong
<1>6. OptionsAre(0) BY <1>4 DEF OptionsAre, Init
<1>7. \A k \in 1 .. Len(opts) : 0 + k = k BY <1>1, <1>2
<1> QED BY <1>1, <1>2, <1>3, <1>5, <1>6, <1>7 DEF Parsing, Init

LEMMA InitAsked == Init => AskedInv
<1> SUFFICES ASSUME Init PROVE AskedInv OBVIOUS
<1>1. at = "parse" /\ started = None BY DEF Init
<1> QED BY <1>1, InitParsing DEF AskedInv, InWork, SoundStarted, MemoryIsAsked, EntryIsAsked

LEMMA OptionAsked ==
  ASSUME BootInv, Parsing, SetOption
  PROVE  Parsing'
<1> DEFINE h == Head(opts)
<1>0. LineType /\ FlagType /\ UNCHANGED cmd /\ opts' = Tail(opts) /\ opts # <<>>
  BY TypeParts DEF BootInv, SetOption
<1>1. opts \in Seq(Options) /\ cmd.options \in Seq(Options) BY <1>0, CommandLineType DEF LineType
<1>2. Len(opts) \in Nat /\ Len(cmd.options) \in Nat /\ Len(opts) > 0
  BY <1>0, <1>1, LenProperties, EmptySeq
<1>3. PICK n \in Nat : n = ReadOptions /\ n + Len(opts) = Len(cmd.options)
  <2>1. ReadOptions \in Nat /\ ReadOptions + Len(opts) = Len(cmd.options)
    BY <1>2 DEF Parsing, ReadOptions
  <2> QED BY <2>1
<1>4. /\ Len(Tail(opts)) = Len(opts) - 1 /\ h = opts[1]
      /\ \A k \in 1 .. Len(opts) - 1 : Tail(opts)[k] = opts[k + 1]
  BY <1>0, <1>1, HeadTailProperties
<1>5. ReadOptions' = n + 1 BY <1>0, <1>2, <1>3, <1>4 DEF ReadOptions
<1>6. h = cmd.options[n + 1] BY <1>2, <1>3, <1>4 DEF Parsing
<1>7. \A k \in 1 .. Len(opts') : opts'[k] = cmd'.options[(n + 1) + k]
  <2> SUFFICES ASSUME NEW k \in 1 .. Len(opts) - 1 PROVE Tail(opts)[k] = cmd.options[(n + 1) + k]
    BY <1>0, <1>4
  <2>1. k + 1 \in 1 .. Len(opts) /\ n + (k + 1) = (n + 1) + k BY <1>2, <1>3
  <2>2. opts[k + 1] = cmd.options[n + (k + 1)] BY <1>3, <2>1 DEF Parsing
  <2> QED BY <1>4, <2>1, <2>2
<1> HIDE DEF h
<1>8. \A o : /\ Among(n + 1, o)' <=> Among(n, o) \/ h.opt = o
             /\ ArgAmong(n + 1, o)' = IF h.opt = o THEN h.arg ELSE ArgAmong(n, o)
  <2> SUFFICES ASSUME NEW o
               PROVE  /\ Among(n + 1, o)' <=> Among(n, o) \/ h.opt = o
                      /\ ArgAmong(n + 1, o)' = IF h.opt = o THEN h.arg ELSE ArgAmong(n, o)
    OBVIOUS
  <2>1. /\ Among(n + 1, o)' <=> Among(n + 1, o)
        /\ ArgAmong(n + 1, o)' = ArgAmong(n + 1, o)
    BY <1>0, SameOptions
  <2>2. /\ Among(n + 1, o) <=> Among(n, o) \/ h.opt = o
        /\ ArgAmong(n + 1, o) = IF h.opt = o THEN h.arg ELSE ArgAmong(n, o)
    BY <1>3, <1>6, OneMoreOption
  <2> QED BY <2>1, <2>2
<1>9. /\ h.opt \notin {"h", "r", "bad"}
      /\ beef_bss'     = (beef_bss \/ h.opt = "b")
      /\ no_watchdog'  = (no_watchdog \/ h.opt = "w")
      /\ e_load'  = IF h.opt = "l" THEN h.arg ELSE e_load
      /\ e_entry' = IF h.opt = "x" THEN h.arg ELSE e_entry
      /\ loader_action' = IF h.opt = "s" THEN "NONE" ELSE loader_action
      /\ UNCHANGED <<mem, files, cmd, e_hdr>>
  BY Zenon DEF SetOption, h
<1>10. OptionsAre(n) /\ e_load = ArgAmong(n, "l") /\ e_entry = ArgAmong(n, "x")
  BY <1>3 DEF Parsing
<1>11. OptionsAre(n + 1)'
  <2>1. beef_bss' <=> Among(n + 1, "b")' BY <1>8, <1>9, <1>10, Zenon DEF OptionsAre
  <2>2. no_watchdog' <=> Among(n + 1, "w")' BY <1>8, <1>9, <1>10, Zenon DEF OptionsAre
  <2>3. loader_action' = IF Among(n + 1, "s")' THEN "NONE" ELSE "EXEC"
    BY <1>8, <1>9, <1>10 DEF OptionsAre
  <2>4. ~Among(n + 1, "h")' /\ ~Among(n + 1, "r")' BY <1>8, <1>9, <1>10 DEF OptionsAre
  <2> QED BY <2>1, <2>2, <2>3, <2>4 DEF OptionsAre
<1>12. e_load' = ArgAmong(n + 1, "l")' /\ e_entry' = ArgAmong(n + 1, "x")'
  BY <1>8, <1>9, <1>10
<1>13. files' = cmd'.files /\ mem' = [a \in Addr |-> Old] /\ e_hdr' = NotElf BY <1>9 DEF Parsing
<1>14. Len(opts') <= Len(cmd'.options) BY <1>0, <1>2, <1>4 DEF Parsing
<1> QED BY <1>5, <1>7, <1>11, <1>12, <1>13, <1>14 DEF Parsing

LEMMA EndOfOptionsAsked ==
  ASSUME BootInv, Parsing, EndOfOptions
  PROVE  Working'
<1>0. LineType /\ opts = <<>> /\ at' = "serial"
      /\ UNCHANGED <<cmd, files, e_load, mem, e_entry, e_hdr, loader_action, beef_bss, no_watchdog>>
  BY TypeParts DEF BootInv, EndOfOptions
<1>1. cmd.options \in Seq(Options) /\ cmd.files \in Seq(Operands) BY <1>0, CommandLineType DEF LineType
<1>2. Len(cmd.options) \in Nat /\ Len(cmd.files) \in Nat BY <1>1, LenProperties
<1>3. ReadOptions = Len(cmd.options) /\ Done = 0
  BY <1>0, <1>2 DEF ReadOptions, Done, Parsing
<1>4. e_load = LastArg("l") /\ e_entry = LastArg("x")
  BY <1>3, Zenon DEF Parsing, ArgAmong, LastArg
<1>5. WordsBefore(1) = {} BY DEF WordsBefore
<1>6. IsFiniteSet(WordsBefore(1)) /\ BaseOf(1) = e_load /\ LastArg("l") \in Nat
  <2>1. e_load \in Nat BY TypeParts DEF BootInv, SplitTypeOK
  <2> QED BY <1>4, <1>5, <2>1, FS_EmptySet DEF BaseOf
<1>7. e_entry = EntryAmong(0) BY <1>4 DEF EntryAmong
<1>8. \A a \in Addr : mem[a] = CellAmong(0, a) BY DEF Parsing, CellAmong
<1>9. FilesLeft
  <2>1. \A k \in 1 .. Len(files) : 0 + k = k /\ files[k] = cmd.files[k]
    BY <1>2 DEF Parsing
  <2> QED BY <1>2, <1>3, <2>1 DEF FilesLeft, Parsing
<1>10. Done' = 0 /\ FilesLeft' BY <1>0, <1>3, <1>9 DEF Done, FilesLeft
<1>11. OptionsAre(Len(cmd.options))'
  <2>1. OptionsAre(Len(cmd.options)) BY <1>3 DEF Parsing
  <2> QED BY <1>0, <2>1, SameOptions DEF OptionsAre
<1>12. 0 + 1 = 1 OBVIOUS
<1>13. HeaderHere' BY <1>0 DEF Parsing, HeaderHere
<1> QED BY <1>0, <1>6, <1>7, <1>8, <1>10, <1>11, <1>12, <1>13, SameFiles, SameOptions DEF Working

\* The file piboot is at is the first that is not done.
LEMMA AtFile ==
  ASSUME BootInv, FilesLeft
  PROVE  /\ Done \in Nat /\ Done + Len(files) = Len(cmd.files)
         /\ files # <<>> => /\ Done + 1 \in 1 .. Len(cmd.files)
                            /\ Head(files) = cmd.files[Done + 1] /\ Head(files) \in Operands
<1>0. LineType BY TypeParts DEF BootInv
<1>1. files \in Seq(Operands) /\ cmd.files \in Seq(Operands) BY <1>0, CommandLineType DEF LineType
<1>2. Len(files) \in Nat /\ Len(cmd.files) \in Nat /\ (files # <<>> => Len(files) > 0)
  BY <1>1, LenProperties, EmptySeq
<1>3. Done \in Nat /\ Done + Len(files) = Len(cmd.files) BY <1>2 DEF Done, FilesLeft
<1>4. ASSUME files # <<>>
      PROVE  /\ Done + 1 \in 1 .. Len(cmd.files)
             /\ Head(files) = cmd.files[Done + 1] /\ Head(files) \in Operands
  <2>1. 1 \in 1 .. Len(files) /\ Done + 1 \in 1 .. Len(cmd.files) BY <1>2, <1>3, <1>4
  <2>2. Head(files) = files[1] BY <1>1, <1>4, HeadTailProperties
  <2> QED BY <1>1, <1>4, <2>1, <2>2, NextFile DEF FilesLeft
<1> QED BY <1>3, <1>4

LEMMA NextIsAt ==
  ASSUME BootInv, FilesLeft, files # <<>>, CloseFile, UNCHANGED cmd
  PROVE  FilesLeft' /\ Done' = Done + 1
<1>0. LineType BY TypeParts DEF BootInv
<1>1. files \in Seq(Operands) /\ cmd.files \in Seq(Operands) BY <1>0, CommandLineType DEF LineType
<1>2. Len(files) \in Nat /\ Len(cmd.files) \in Nat /\ Len(files) > 0
  BY <1>1, LenProperties, EmptySeq
<1>3. /\ files' = Tail(files) /\ Len(files') = Len(files) - 1
      /\ \A k \in 1 .. Len(files) - 1 : files'[k] = files[k + 1]
  BY <1>1, HeadTailProperties DEF CloseFile
<1>4. PICK d \in Nat : d = Done /\ d + Len(files) = Len(cmd.files) BY AtFile
<1>5. Done' = d + 1 BY <1>2, <1>3, <1>4 DEF Done
<1>6. ASSUME NEW k \in 1 .. Len(files) - 1 PROVE files'[k] = cmd.files[(d + 1) + k]
  <2>1. k + 1 \in 1 .. Len(files) /\ d + (k + 1) = (d + 1) + k BY <1>2, <1>4
  <2>2. files[k + 1] = cmd.files[d + (k + 1)] BY <1>4, <2>1 DEF FilesLeft
  <2> QED BY <1>3, <2>1, <2>2
<1>7. Len(files') <= Len(cmd'.files) BY <1>2, <1>3 DEF FilesLeft
<1>8. \A k \in 1 .. Len(files') : files'[k] = cmd'.files[(d + 1) + k] BY <1>3, <1>6
<1> QED BY <1>4, <1>5, <1>7, <1>8 DEF FilesLeft

\* Steps that leave the files, the settings and memory alone.
SameWork == UNCHANGED <<cmd, files, beef_bss, no_watchdog, loader_action, e_entry>>

LEMMA WorkGoesOn ==
  ASSUME Working, SameWork
  PROVE  /\ OptionsAre(Len(cmd.options))' /\ FilesLeft' /\ Done' = Done
         /\ (LastArg("l") \in Nat)'
         /\ \A n : n = Done => e_entry' = EntryAmong(n)' /\ IsFiniteSet(WordsBefore(n + 1))'
         /\ UNCHANGED <<e_hdr, ph_ents>> /\ (at = "elf" <=> at' = "elf") => HeaderHere'
<1>0. UNCHANGED cmd BY DEF SameWork
<1>1. OptionsAre(Len(cmd.options))' BY <1>0, SameOptions DEF Working, SameWork, OptionsAre
<1>2. FilesLeft' /\ Done' = Done BY DEF Working, SameWork, FilesLeft, Done
<1>3. (LastArg("l") \in Nat)' BY <1>0, SameOptions DEF Working
<1>4. \A n : n = Done => e_entry' = EntryAmong(n)' /\ IsFiniteSet(WordsBefore(n + 1))'
  BY <1>0, SameFiles DEF Working, SameWork
<1>5. UNCHANGED <<e_hdr, ph_ents>> /\ (at = "elf" <=> at' = "elf") => HeaderHere'
  BY <1>0, <1>2 DEF Working, SameWork, HeaderHere
<1> QED BY <1>1, <1>2, <1>3, <1>4, <1>5

LEMMA IdleAsked ==
  ASSUME Working, SameWork, UNCHANGED <<e_load, mem, e_hdr, ph_ents>>,
         at \notin {"elf", "binary"}, at' \notin {"elf", "binary"}
  PROVE  Working'
<1>0. UNCHANGED cmd BY DEF SameWork
<1>1. PICK d : d = Done OBVIOUS
<1>2. e_load' = BaseOf(d + 1)' BY <1>0, <1>1, SameFiles DEF Working
<1>3. \A a \in Addr : mem'[a] = CellAmong(d, a)' BY <1>0, <1>1, SameFiles DEF Working
<1> QED BY <1>1, <1>2, <1>3, WorkGoesOn DEF Working

LEMMA OpenFileAsked ==
  ASSUME BootInv, SoundLine, Working, OpenFile, at' # "exit"
  PROVE  Working'
<1>0. SameWork /\ UNCHANGED <<e_load, mem, cmd, files>> /\ at = "files" /\ files # <<>>
  BY DEF OpenFile, SameWork
<1>1. PICK d : d = Done /\ d = Done' BY WorkGoesOn, <1>0
<1>2. e_load' = BaseOf(d + 1)' BY <1>0, <1>1, SameFiles DEF Working
<1>3. \A a \in Addr : mem'[a] = CellAmong(d, a)' BY <1>0, <1>1, SameFiles DEF Working
<1>6. HeaderHere'
  <2>1. PICK f : f = Head(files) OBVIOUS
  <2>2. d \in Nat /\ d + 1 \in 1 .. Len(cmd.files) /\ f = cmd.files[d + 1] /\ f \in Operands
    BY <1>0, <1>1, <2>1, AtFile DEF Working
  <2>3. f.kind # "missing" /\ e_hdr' = HeaderRead(f)
        /\ (at' = "binary" => e_hdr' = NotElf) /\ at' \in {"elf", "binary"}
        /\ (at' = "elf" => e_hdr' # NotElf /\ ph_ents' \in SegmentsRead(f))
    BY <2>1 DEF OpenFile, Exit
  <2>4. CASE at' = "binary" BY <2>3, <2>4 DEF HeaderHere
  <2>5. CASE at' = "elf"
    <3>1. f.kind = "elf"
      <4> SUFFICES ASSUME f.kind = "binary" PROVE FALSE BY <2>2, <2>3, OperandKinds
      <4>1. e_hdr # NotElf /\ ~(f.binary.size > 0) BY <2>3, <2>5 DEF HeaderRead
      <4>2. f.binary.size = 0 BY <2>2, <4>1, OperandKinds, SplitAssumption
      <4>3. d > 0 /\ cmd.files[d].kind = "elf" BY <1>0, <1>1, <4>1 DEF Working, HeaderHere
      <4>4. Len(cmd.files) \in Nat BY TypeParts, CommandLineType, LenProperties DEF BootInv, LineType
      <4>5. d \in 1 .. Len(cmd.files) BY <2>2, <4>3, <4>4
      <4> QED BY <2>2, <4>2, <4>3, <4>5 DEF SoundLine, OwnHeader
    <3>2. e_hdr'.entry = f.entry /\ ph_ents' = f.segments BY <2>2, <2>3, <2>5, <3>1, HeaderIs DEF SegmentsRead
    <3> QED BY <1>0, <2>1, <2>5, <3>1, <3>2 DEF HeaderHere
  <2> QED BY <2>3, <2>4, <2>5
<1>4. CASE at' = "elf"
  <2>1. pi' = 1 /\ half' = "load" BY <1>4 DEF OpenFile, Exit
  <2>2. \A f, a : ElfCell(f, 0, a)' = Old BY DEF ElfCell
  <2>3. \A a \in Addr : mem'[a] = Over(ElfCell(Head(files), pi - 1, a), CellAmong(d, a))'
    BY <1>3, <2>1, <2>2 DEF Over
  <2>4. ElfWritten' BY <1>1, <2>1, <2>3 DEF ElfWritten
  <2> QED BY <1>0, <1>1, <1>2, <1>4, <1>6, <2>4, WorkGoesOn DEF Working
<1>5. CASE at' = "binary"
  <2>1. file' = Head(files).binary /\ i' = 1 /\ parts' = <<FirstPart>>
    BY <1>5 DEF OpenFile, ReadBinary, Exit
  <2>2. Begins(i)' = 0 BY <2>1 DEF Begins, FirstPart
  <2>3. e_load \in Nat BY TypeParts DEF BootInv, SplitTypeOK
  <2>4. e_load' = BaseOf(d + 1)' + Begins(i)' BY <1>0, <1>2, <2>2, <2>3
  <2>5. \A a \in Addr : ~(a >= BaseOf(d + 1)' /\ a < BaseOf(d + 1)' + Begins(i)')
    <3>1. \A a \in Addr : a \in Nat BY SplitAssumption DEF Addr
    <3>2. BaseOf(d + 1)' \in Nat BY <1>0, <1>2, <2>3
    <3> QED BY <2>2, <3>1, <3>2
  <2>6. BinaryWritten' BY <1>0, <1>1, <1>3, <2>1, <2>4, <2>5 DEF BinaryWritten
  <2> QED BY <1>0, <1>1, <1>2, <1>5, <1>6, <2>6, WorkGoesOn DEF Working
<1> QED BY <1>4, <1>5 DEF OpenFile, Exit

-----------------------------------------------------------------------------
(* load_elf *)

\* What the segment at pi puts into memory, over what is there.
LEMMA SegmentPuts ==
  ASSUME BootInv, SoundLine, FilesLeft, HeaderHere, OptionsAre(Len(cmd.options)),
         InElf, Ph.type = "LOAD", NEW a \in Addr
  PROVE  /\ InSegment(Ph, a) <=> Offset(a, Ph) < Ph.memsz
         /\ a \in ZeroTail(Ph) <=> Len(Ph.data) <= Offset(a, Ph) /\ Offset(a, Ph) < Ph.memsz
         /\ ZSize(Ph) = Ph.memsz - Len(Ph.data)
         /\ Offset(a, Ph) \in Nat /\ Len(Ph.data) \in Nat /\ Ph.memsz \in Nat
         /\ Len(Ph.data) <= Ph.memsz
         /\ SegmentCell(Ph, a) = IF Offset(a, Ph) < Len(Ph.data) THEN Ph.data[Offset(a, Ph) + 1] ELSE Fill
         /\ SegmentCell(Ph, a) # Old
<1>0. PiBootTypeOK BY DEF BootInv
<1>1. /\ files # <<>> /\ pi \in 1 .. Len(ph_ents)
      /\ Ph \in Segment /\ Ph.memsz \in Addr /\ Ph.data \in Seq(Nat) /\ Len(Ph.data) \in Nat
  BY <1>0, NextSegment
<1>2. Head(files) = cmd.files[Done + 1] /\ Done + 1 \in 1 .. Len(cmd.files) BY <1>1, AtFile
<1>3. Head(files).kind = "elf" /\ ph_ents = Head(files).segments BY DEF HeaderHere, InElf
<1>4. Len(Ph.data) <= Ph.memsz BY <1>1, <1>2, <1>3 DEF SoundLine, FullSegments, Ph
<1>5. /\ Offset(a, Ph) \in Nat
      /\ ZSize(Ph) = Ph.memsz - Len(Ph.data)
      /\ InSegment(Ph, a) <=> Offset(a, Ph) < Ph.memsz
      /\ a \in ZeroTail(Ph) <=> Len(Ph.data) <= Offset(a, Ph) /\ Offset(a, Ph) < Ph.memsz
  BY <1>1, <1>4, SegmentSpans
<1>6. beef_bss <=> Given("b") BY Zenon DEF OptionsAre, Among, Given
<1>7. SegmentCell(Ph, a) = IF Offset(a, Ph) < Len(Ph.data) THEN Ph.data[Offset(a, Ph) + 1] ELSE Fill
  BY <1>6, Zenon DEF SegmentCell, Fill
<1>8. Fill # Old BY DEF Fill, Beef, Old
<1>9. Offset(a, Ph) < Len(Ph.data) => Ph.data[Offset(a, Ph) + 1] # Old
  <2> DEFINE k == Offset(a, Ph)
             data == Ph.data
  <2>1. k \in Nat /\ data \in Seq(Nat) /\ Len(data) \in Nat BY <1>1, <1>5
  <2> HIDE DEF k, data
  <2>2. ASSUME k < Len(data) PROVE data[k + 1] \in Nat
    <3>1. k + 1 \in 1 .. Len(data) BY <2>1, <2>2
    <3> QED BY <2>1, <3>1, ElementOfSeq
  <2> QED BY <2>2 DEF Old, k, data
<1>10. SegmentCell(Ph, a) # Old BY <1>7, <1>8, <1>9
<1>11. Ph.memsz \in Nat BY <1>1, SplitAssumption DEF Addr
<1> QED BY <1>1, <1>4, <1>5, <1>7, <1>10, <1>11

\* Once a segment is in memory, the next one is looked at.
LEMMA SegmentDone ==
  ASSUME BootInv, Working, SameWork, InElf, UNCHANGED <<at, e_load, e_hdr, ph_ents>>,
         half' = "load", pi' = pi + 1,
         \A a \in Addr : mem'[a] = IF InSegment(Ph, a) THEN SegmentCell(Ph, a)
                                   ELSE Over(ElfCell(Head(files), pi - 1, a), CellAmong(Done, a)),
         \A a \in Addr : InSegment(Ph, a) => SegmentCell(Ph, a) # Old
  PROVE  Working'
<1>0. PiBootTypeOK /\ at = "elf" BY DEF BootInv, InElf
<1>1. UNCHANGED <<cmd, files>> BY DEF SameWork
<1>2. PICK d : d = Done /\ d = Done' BY WorkGoesOn
<1>3. PICK p \in Nat : p = pi - 1 /\ p + 1 = pi /\ p + 1 = pi' - 1
  <2>1. pi \in Nat /\ pi > 0 BY <1>0 DEF PiBootTypeOK
  <2>2. pi - 1 \in Nat /\ (pi - 1) + 1 = pi /\ (pi - 1) + 1 = pi' - 1 BY <2>1
  <2> QED BY <2>2
<1>4. PICK f : f = Head(files) /\ f = Head(files)' BY <1>1
<1>5. ASSUME NEW a \in Addr
      PROVE  mem'[a] = Over(ElfCell(f, p + 1, a)', CellAmong(d, a)')
  <2>1. Ph = f.segments[p + 1] BY <1>0, <1>3, <1>4 DEF Ph, Working, HeaderHere
  <2>2. ElfCell(f, p + 1, a) = IF InSegment(Ph, a) THEN SegmentCell(Ph, a) ELSE ElfCell(f, p, a)
    BY <2>1, OneMoreSegment
  <2>3. mem'[a] = IF InSegment(Ph, a) THEN SegmentCell(Ph, a)
                  ELSE Over(ElfCell(f, p, a), CellAmong(d, a))
    BY <1>2, <1>3, <1>4
  <2>4. mem'[a] = Over(ElfCell(f, p + 1, a), CellAmong(d, a)) BY <2>2, <2>3 DEF Over
  <2> QED BY <1>1, <2>4, SameFiles
<1>6. ElfWritten' BY <1>2, <1>3, <1>4, <1>5 DEF ElfWritten, Over
<1>7. e_load' = BaseOf(d + 1)' BY <1>0, <1>1, <1>2, SameFiles DEF Working
<1> QED BY <1>0, <1>2, <1>6, <1>7, WorkGoesOn DEF Working

LEMMA SkipSegmentAsked ==
  ASSUME BootInv, Working, SkipSegment
  PROVE  Working'
<1>0. InElf /\ SameWork /\ UNCHANGED <<at, e_load, mem, half, e_hdr, ph_ents>>
      /\ pi' = pi + 1 /\ Ph.type # "LOAD"
  BY DEF SkipSegment, SameWork
<1>1. ElfWritten /\ half = "load"
  <2>1. ElfWritten BY <1>0 DEF Working, InElf
  <2>2. half \in {"load", "zero"} BY DEF BootInv, PiBootTypeOK
  <2> QED BY <1>0, <2>1, <2>2 DEF ElfWritten
<1>2. \A a \in Addr : mem[a] = Over(ElfCell(Head(files), pi - 1, a), CellAmong(Done, a))
  BY <1>1 DEF ElfWritten
<1>3. \A a \in Addr : ~InSegment(Ph, a) BY <1>0 DEF InSegment
<1> QED BY <1>0, <1>1, <1>2, <1>3, SegmentDone

LEMMA LoadSectionAsked ==
  ASSUME BootInv, SoundLine, Working, LoadSection
  PROVE  Working'
<1>0. InElf /\ SameWork /\ UNCHANGED <<at, e_load, e_hdr, ph_ents>> /\ Ph.type = "LOAD"
      /\ half = "load" /\ at = "elf"
  BY DEF LoadSection, SameWork, InElf
<1>1. ElfWritten /\ FilesLeft /\ HeaderHere /\ OptionsAre(Len(cmd.options)) BY <1>0 DEF Working
<1>2. \A a \in Addr : mem[a] = Over(ElfCell(Head(files), pi - 1, a), CellAmong(Done, a))
  BY <1>0, <1>1 DEF ElfWritten
<1>3. ASSUME NEW a \in Addr
      PROVE  mem'[a] = IF Offset(a, Ph) < Len(Ph.data) THEN Ph.data[Offset(a, Ph) + 1] ELSE mem[a]
  BY DEF LoadSection, Offset
<1>4. CASE ZSize(Ph) > 0
  <2>1. half' = "zero" /\ pi' = pi BY <1>4 DEF LoadSection
  <2>2. PICK d : d = Done /\ d = Done' BY <1>0, WorkGoesOn
  <2>3. UNCHANGED <<cmd, files>> BY <1>0 DEF SameWork
  <2>4. PICK f, p : f = Head(files) /\ f = Head(files)' /\ p = pi - 1 /\ p = pi' - 1 BY <2>1, <2>3
  <2>5. PICK ph : ph = Ph /\ ph = Ph' BY <1>0, <2>1 DEF Ph
  <2>6. InElf' BY <1>0, <2>1, <2>3 DEF InElf
  <2>7. ASSUME NEW a \in Addr
        PROVE  mem'[a] = IF Offset(a, ph) < Len(ph.data) THEN ph.data[Offset(a, ph) + 1]
                         ELSE Over(ElfCell(f, p, a)', CellAmong(d, a)')
    <3>1. ElfCell(f, p, a)' = ElfCell(f, p, a) /\ CellAmong(d, a)' = CellAmong(d, a)
      BY <2>3, SameFiles
    <3> QED BY <1>2, <1>3, <2>2, <2>4, <2>5, <3>1
  <2>8. ElfWritten' BY <1>0, <2>1, <2>2, <2>4, <2>5, <2>6, <2>7 DEF ElfWritten, Over
  <2>9. e_load' = BaseOf(d + 1)' BY <1>0, <2>2, <2>3, SameFiles DEF Working
  <2> QED BY <1>0, <2>2, <2>8, <2>9, WorkGoesOn DEF Working
<1>5. CASE ~(ZSize(Ph) > 0)
  <2>1. half' = "load" /\ pi' = pi + 1 BY <1>0, <1>5 DEF LoadSection
  <2>2. ASSUME NEW a \in Addr
        PROVE  /\ InSegment(Ph, a) => SegmentCell(Ph, a) # Old
               /\ mem'[a] = IF InSegment(Ph, a) THEN SegmentCell(Ph, a)
                            ELSE Over(ElfCell(Head(files), pi - 1, a), CellAmong(Done, a))
    <3>1. /\ InSegment(Ph, a) <=> Offset(a, Ph) < Ph.memsz
          /\ ZSize(Ph) = Ph.memsz - Len(Ph.data)
          /\ Len(Ph.data) \in Nat /\ Ph.memsz \in Nat /\ Len(Ph.data) <= Ph.memsz
          /\ SegmentCell(Ph, a) = IF Offset(a, Ph) < Len(Ph.data) THEN Ph.data[Offset(a, Ph) + 1] ELSE Fill
          /\ SegmentCell(Ph, a) # Old
      BY <1>0, <1>1, SegmentPuts
    <3>2. Ph.memsz = Len(Ph.data)
      <4> DEFINE m == Ph.memsz
                 l == Len(Ph.data)
      <4>1. m \in Nat /\ l \in Nat /\ l <= m /\ ~(m - l > 0) BY <1>5, <3>1
      <4> HIDE DEF m, l
      <4>2. m = l BY <4>1
      <4> QED BY <4>2 DEF m, l
    <3> QED BY <1>2, <1>3, <3>1, <3>2
  <2> QED BY <1>0, <2>1, <2>2, SegmentDone
<1> QED BY <1>4, <1>5

LEMMA ZeroSectionAsked ==
  ASSUME BootInv, SoundLine, Working, ZeroSection
  PROVE  Working'
<1>0. InElf /\ SameWork /\ UNCHANGED <<at, e_load, e_hdr, ph_ents>> /\ Ph.type = "LOAD"
      /\ half = "zero" /\ at = "elf"
      /\ half' = "load" /\ pi' = pi + 1
  BY DEF ZeroSection, SameWork, InElf
<1>1. ElfWritten /\ FilesLeft /\ HeaderHere /\ OptionsAre(Len(cmd.options)) BY <1>0 DEF Working
<1>2. ASSUME NEW a \in Addr
      PROVE  /\ InSegment(Ph, a) => SegmentCell(Ph, a) # Old
             /\ mem'[a] = IF InSegment(Ph, a) THEN SegmentCell(Ph, a)
                          ELSE Over(ElfCell(Head(files), pi - 1, a), CellAmong(Done, a))
  <2>1. mem[a] = IF Offset(a, Ph) < Len(Ph.data) THEN Ph.data[Offset(a, Ph) + 1]
                 ELSE Over(ElfCell(Head(files), pi - 1, a), CellAmong(Done, a))
    BY <1>0, <1>1 DEF ElfWritten
  <2>2. mem'[a] = IF a \in ZeroTail(Ph) THEN Fill ELSE mem[a] BY DEF ZeroSection
  <2>3. /\ InSegment(Ph, a) <=> Offset(a, Ph) < Ph.memsz
        /\ a \in ZeroTail(Ph) <=> Len(Ph.data) <= Offset(a, Ph) /\ Offset(a, Ph) < Ph.memsz
        /\ Offset(a, Ph) \in Nat /\ Len(Ph.data) \in Nat /\ Ph.memsz \in Nat /\ Len(Ph.data) <= Ph.memsz
        /\ SegmentCell(Ph, a) = IF Offset(a, Ph) < Len(Ph.data) THEN Ph.data[Offset(a, Ph) + 1] ELSE Fill
        /\ SegmentCell(Ph, a) # Old
    BY <1>0, <1>1, SegmentPuts
  <2> DEFINE k == Offset(a, Ph)
             l == Len(Ph.data)
             m == Ph.memsz
  <2>4. k \in Nat /\ l \in Nat /\ m \in Nat /\ l <= m BY <2>3
  <2>5. CASE k < l
    <3>1. InSegment(Ph, a) /\ a \notin ZeroTail(Ph) BY <2>3, <2>4, <2>5
    <3> QED BY <2>1, <2>2, <2>3, <2>5, <3>1
  <2>6. CASE ~(k < l) /\ k < m
    <3>1. InSegment(Ph, a) /\ a \in ZeroTail(Ph) BY <2>3, <2>4, <2>6
    <3> QED BY <2>2, <2>3, <2>6, <3>1
  <2>7. CASE ~(k < m)
    <3>1. ~InSegment(Ph, a) /\ a \notin ZeroTail(Ph) /\ ~(k < l) BY <2>3, <2>4, <2>7
    <3> QED BY <2>1, <2>2, <2>3, <3>1
  <2> QED BY <2>5, <2>6, <2>7
<1> QED BY <1>0, <1>2, SegmentDone

\* A file is done: what it has put lies over what was there.
LEMMA FileDone ==
  ASSUME BootInv, Working, files # <<>>, CloseFile,
         UNCHANGED <<cmd, beef_bss, no_watchdog, loader_action>>,
         NEW d \in Nat, d = Done,
         e_entry' = EntryAmong(d + 1),
         e_hdr' # NotElf => cmd.files[d + 1].kind = "elf",
         BinaryWords(cmd.files[d + 1]) \in Nat,
         e_load' = BaseOf(d + 1) + BinaryWords(cmd.files[d + 1]),
         \A a \in Addr : mem'[a] = Over(FromFile(d + 1, a), CellAmong(d, a))
  PROVE  Working'
<1>0. UNCHANGED cmd OBVIOUS
<1>1. FilesLeft' /\ Done' = d + 1 BY NextIsAt DEF Working
<1>2. OptionsAre(Len(cmd.options))' BY <1>0, SameOptions DEF Working, OptionsAre
<1>3. (LastArg("l") \in Nat)' BY <1>0, SameOptions DEF Working
<1>4. e_entry' = EntryAmong(d + 1)' BY <1>0, SameFiles
<1>5. IsFiniteSet(WordsBefore((d + 1) + 1)) /\ e_load' = BaseOf((d + 1) + 1)
  <2>1. d + 1 \in Nat /\ d + 1 > 0 OBVIOUS
  <2>2. IsFiniteSet(WordsBefore(d + 1)) /\ LastArg("l") \in Nat BY DEF Working
  <2> QED BY <2>1, <2>2, OneMoreBase
<1>6. IsFiniteSet(WordsBefore((d + 1) + 1))' /\ e_load' = BaseOf((d + 1) + 1)'
  BY <1>0, <1>5, SameFiles
<1>7. \A a \in Addr : mem'[a] = CellAmong(d + 1, a)' BY <1>0, OneMoreFile, SameFiles
<1>8. at' = "files" BY DEF CloseFile
<1>9. HeaderHere' BY <1>1, <1>8 DEF HeaderHere
<1> QED BY <1>1, <1>2, <1>3, <1>4, <1>6, <1>7, <1>8, <1>9 DEF Working

LEMMA EndElfAsked ==
  ASSUME BootInv, Working, EndElf
  PROVE  Working'
<1>0. /\ at = "elf" /\ ~InElf /\ CloseFile /\ e_entry' = e_hdr.entry
      /\ UNCHANGED <<cmd, beef_bss, no_watchdog, loader_action, e_load, mem>>
  BY DEF EndElf
<1>1. files # <<>> /\ LineType BY <1>0, TypeParts DEF BootInv, HereType
<1>10. /\ Head(files).kind = "elf" /\ e_hdr.entry = Head(files).entry
       /\ ph_ents = Head(files).segments
  BY <1>0 DEF Working, HeaderHere
<1>2. PICK d \in Nat : d = Done /\ Head(files) = cmd.files[d + 1] /\ Head(files) \in Operands
  BY <1>1, AtFile DEF Working
<1>3. PICK f : f = Head(files) OBVIOUS
<1>4. pi - 1 = Len(f.segments)
  <2>1. Len(f.segments) \in Nat BY <1>2, <1>3, <1>10, OperandKinds, LenProperties
  <2>2. pi \in Nat /\ pi <= Len(f.segments) + 1 /\ ~(pi <= Len(f.segments))
    BY <1>0, <1>3, <1>10 DEF BootInv, PiBootTypeOK, InElf
  <2> QED BY <2>1, <2>2
<1>5. half # "zero" /\ ElfWritten BY <1>0 DEF Working, ElfWritten
<1>6. \A a \in Addr : mem'[a] = Over(FromFile(d + 1, a), CellAmong(d, a))
  <2>1. \A a : FromFile(d + 1, a) = ElfCell(f, Len(f.segments), a)
    BY <1>2, <1>3, <1>10, FromFileIs
  <2> QED BY <1>0, <1>2, <1>3, <1>4, <1>5, <2>1 DEF ElfWritten
<1>7. e_entry' = EntryAmong(d + 1) BY <1>0, <1>2, <1>10, OneMoreEntry
<1>8. BinaryWords(cmd.files[d + 1]) = 0 BY <1>2, <1>10 DEF BinaryWords
<1>9. e_load' = BaseOf(d + 1) + 0
  <2>1. e_load \in Nat BY TypeParts DEF BootInv, SplitTypeOK
  <2>2. e_load = BaseOf(d + 1) BY <1>0, <1>2 DEF Working
  <2> QED BY <1>0, <2>1, <2>2
<1> QED BY <1>0, <1>1, <1>2, <1>6, <1>7, <1>8, <1>9, <1>10, FileDone

-----------------------------------------------------------------------------
(* load_binary *)

\* What SoundLine says of the binary piboot is at.
LEMMA SoundFile ==
  ASSUME BootInv, SoundLine, Working, at = "binary"
  PROVE  /\ Done \in Nat /\ files # <<>> /\ cmd.files[Done + 1] = Head(files) /\ Head(files).kind = "binary"
         /\ file = Head(files).binary /\ file.words \in Seq(Nat) /\ Len(file.words) \in Nat
         /\ BaseOf(Done + 1) \in Nat /\ BaseOf(Done + 1) + Len(file.words) <= AddrSpace
         /\ BeginsWithData
         /\ Fill = 0 \/ AllData(file.words)
<1>0. BinaryWritten /\ FilesLeft /\ OptionsAre(Len(cmd.options)) BY DEF Working
<1>1. files # <<>> /\ Head(files).kind = "binary" BY TypeParts DEF BootInv, HereType
<1>2. /\ Done \in Nat /\ Done + 1 \in 1 .. Len(cmd.files) /\ Head(files) = cmd.files[Done + 1]
  BY <1>0, <1>1, AtFile
<1>3. file = Head(files).binary BY <1>0 DEF BinaryWritten
<1>4. file.words \in Seq(Nat) /\ Len(file.words) \in Nat BY Facts DEF BootInv, PartsInv
<1>5. /\ file.words = <<>> \/ \E k \in 1 .. MinZeros : k <= Len(file.words) /\ file.words[k] # 0
      /\ BaseOf(Done + 1) + Len(file.words) <= AddrSpace
      /\ Given("b") => AllData(file.words)
  BY <1>1, <1>2, <1>3 DEF SoundLine, SentAsItIs
<1>6. beef_bss <=> Given("b") BY <1>0, Zenon DEF OptionsAre, Among, Given
<1>7. Fill = 0 \/ AllData(file.words) BY <1>5, <1>6 DEF Fill
<1>8. BaseOf(Done + 1) \in Nat
  <2>1. LastArg("l") \in Nat /\ IsFiniteSet(WordsBefore(Done + 1)) BY DEF Working
  <2>2. Cardinality(WordsBefore(Done + 1)) \in Nat BY <2>1, FS_CardinalityType
  <2> QED BY <2>1, <2>2 DEF BaseOf
<1> QED BY <1>1, <1>2, <1>3, <1>4, <1>5, <1>7, <1>8 DEF BeginsWithData

LEMMA SplitAsked ==
  ASSUME BootInv, Working, at = "binary", Split, SameWork, UNCHANGED <<at, e_hdr, ph_ents>>
  PROVE  Working'
<1>0. BinaryWritten /\ PartsInv BY DEF Working, BootInv
<1>1. UNCHANGED <<e_load, mem, file, i>> /\ stage = "split" /\ UNCHANGED <<cmd, files>>
  BY DEF Split, Extend, BeginZeros, MergeZeros, KeepZeros, Terminate, NextWord, InLoop, SameWork
<1>2. i = 1 /\ i' = 1 BY <1>0, <1>1 DEF PartsInv, Loop
<1>3. PartsInv' BY <1>0, StepParts DEF PartsNext
<1>4. Begins(i) = 0 /\ Begins(i)' = 0
  <2>1. Begins(1) = 0 /\ Begins(1)' = 0 BY <1>0, <1>3 DEF PartsInv, Follow
  <2> QED BY <1>2, <2>1 DEF Begins
<1>5. PICK d : d = Done /\ d = Done' BY WorkGoesOn
<1>6. BaseOf(d + 1)' = BaseOf(d + 1) /\ \A a : CellAmong(d, a)' = CellAmong(d, a)
  BY <1>1, SameFiles
<1>7. BinaryWritten' BY <1>0, <1>1, <1>4, <1>5, <1>6 DEF BinaryWritten
<1> QED BY <1>5, <1>7, WorkGoesOn DEF Working

LEMMA UploadAsked ==
  ASSUME BootInv, SoundLine, Working, at = "binary", UploadPart(Fill), SameWork, UNCHANGED <<at, e_hdr, ph_ents>>
  PROVE  Working'
<1>0. BinaryWritten /\ PartsInv BY DEF Working, BootInv
<1>1. UNCHANGED <<file, cmd, files>> BY DEF SameWork, UploadPart
<1>2. PICK d : d = Done /\ d = Done' BY WorkGoesOn
<1>3. BaseOf(d + 1)' = BaseOf(d + 1) /\ \A a : CellAmong(d, a)' = CellAmong(d, a)
  BY <1>1, SameFiles
<1>4. PICK base \in Nat : base = BaseOf(d + 1) BY <1>2, SoundFile
<1>5. e_load = base + Begins(i) BY <1>0, <1>2, <1>4 DEF BinaryWritten
<1>6. Fill = 0 \/ AllData(file.words) BY SoundFile
<1>7. /\ e_load' = base + Begins(i')
      /\ Begins(i) <= Begins(i') /\ Begins(i) \in Nat /\ Begins(i') \in Nat
      /\ \A a \in Addr :
           mem'[a] = IF a \in base + Begins(i) .. base + Begins(i') - 1
                     THEN file.words[a - base + 1] ELSE mem[a]
  BY <1>0, <1>4, <1>5, <1>6, UploadedPart
<1>8. Begins(i)' = Begins(i') BY DEF UploadPart, Begins
<1>9. ASSUME NEW a \in Addr
      PROVE  mem'[a] = IF a >= base /\ a < base + Begins(i') THEN file.words[a - base + 1]
                       ELSE CellAmong(d, a)
  <2> DEFINE from == Begins(i)
             to == Begins(i')
  <2>1. a \in Nat /\ from \in Nat /\ to \in Nat /\ from <= to BY <1>7, SplitAssumption DEF Addr
  <2>2. mem[a] = IF a >= base /\ a < base + from THEN file.words[a - base + 1] ELSE CellAmong(d, a)
    BY <1>0, <1>2, <1>4 DEF BinaryWritten
  <2>3. mem'[a] = IF a \in base + from .. base + to - 1 THEN file.words[a - base + 1] ELSE mem[a]
    BY <1>7
  <2> HIDE DEF from, to
  <2>4. a \in base + from .. base + to - 1 <=> a >= base + from /\ a < base + to BY <2>1
  <2>5. CASE a < base + from
    <3>1. a \notin base + from .. base + to - 1 /\ a < base + to BY <2>1, <2>5
    <3> QED BY <2>2, <2>3, <2>5, <3>1 DEF to
  <2>6. CASE ~(a < base + from) /\ a < base + to
    <3>1. a \in base + from .. base + to - 1 /\ a >= base BY <2>1, <2>6
    <3> QED BY <2>3, <2>6, <3>1 DEF to
  <2>7. CASE ~(a < base + to)
    <3>1. a \notin base + from .. base + to - 1 /\ ~(a < base + from) BY <2>1, <2>7
    <3> QED BY <2>2, <2>3, <2>7, <3>1 DEF to
  <2> QED BY <2>5, <2>6, <2>7
<1>10. BinaryWritten'
  <2>1. file' = Head(files)'.binary BY <1>0, <1>1 DEF BinaryWritten
  <2>2. BaseOf(Done + 1)' = base BY <1>2, <1>3, <1>4
  <2>3. \A a \in Addr : CellAmong(Done, a)' = CellAmong(d, a) BY <1>2, <1>3
  <2>4. e_load' = BaseOf(Done + 1)' + Begins(i)' BY <1>7, <1>8, <2>2
  <2>5. \A a \in Addr : mem'[a] = IF a >= BaseOf(Done + 1)' /\ a < BaseOf(Done + 1)' + Begins(i)'
                                  THEN file'.words[a - BaseOf(Done + 1)' + 1] ELSE CellAmong(Done, a)'
    BY <1>1, <1>8, <1>9, <2>2, <2>3
  <2> QED BY <2>1, <2>4, <2>5 DEF BinaryWritten
<1> QED BY <1>2, <1>10, WorkGoesOn DEF Working

LEMMA EndUploadAsked ==
  ASSUME BootInv, SoundLine, Working, at = "binary", EndUpload, CloseFile,
         UNCHANGED <<cmd, beef_bss, no_watchdog, loader_action, e_entry, e_hdr>>
  PROVE  Working'
<1>0. BinaryWritten /\ PartsInv BY DEF Working, BootInv
<1>1. UNCHANGED <<e_load, mem>> /\ stage = "upload" /\ parts[i].size = 0 BY DEF EndUpload
<1>2. PICK d \in Nat : d = Done BY SoundFile
<1>3. /\ files # <<>> /\ cmd.files[d + 1] = Head(files) /\ Head(files).kind = "binary"
      /\ file = Head(files).binary /\ file.words \in Seq(Nat) /\ Len(file.words) \in Nat
      /\ BaseOf(d + 1) \in Nat /\ BaseOf(d + 1) + Len(file.words) <= AddrSpace
      /\ BeginsWithData
  BY <1>2, SoundFile
<1>4. Begins(i) = Len(file.words) BY <1>0, <1>1, <1>3, AllUploaded
<1>5. BinaryWords(cmd.files[d + 1]) = Len(file.words) BY <1>3 DEF BinaryWords
<1>6. e_load' = BaseOf(d + 1) + BinaryWords(cmd.files[d + 1])
  BY <1>0, <1>1, <1>2, <1>4, <1>5 DEF BinaryWritten
<1>7. e_entry' = EntryAmong(d + 1)
  <2>1. e_entry = EntryAmong(d) BY <1>2 DEF Working
  <2> QED BY <1>3, <2>1, OneMoreEntry
<1>8. ASSUME NEW a \in Addr PROVE mem'[a] = Over(FromFile(d + 1, a), CellAmong(d, a))
  <2> DEFINE base == BaseOf(d + 1)
             n == Len(file.words)
  <2>1. mem'[a] = IF a >= base /\ a < base + n THEN file.words[a - base + 1] ELSE CellAmong(d, a)
    BY <1>0, <1>1, <1>2, <1>4 DEF BinaryWritten
  <2>2. FromFile(d + 1, a) = IF a \in Span(base, n) THEN file.words[a - base + 1] ELSE Old
    BY <1>3, FromFileIs DEF BinaryCell
  <2>3. base \in Nat /\ n \in Nat /\ base + n <= AddrSpace /\ a \in Nat /\ a < AddrSpace /\ AddrSpace \in Nat
    BY <1>3, SplitAssumption DEF Addr
  <2> HIDE DEF base, n
  <2>4. a \in Span(base, n) <=> a >= base /\ a < base + n
    <3>1. a \in Span(base, n) <=> \E k \in 0 .. n - 1 : a = (base + k) % AddrSpace BY DEF Span
    <3>2. \A k \in 0 .. n - 1 : (base + k) % AddrSpace = base + k BY <2>3
    <3>3. (\E k \in 0 .. n - 1 : a = base + k) <=> a >= base /\ a < base + n
      <4>1. a >= base /\ a < base + n => a - base \in 0 .. n - 1 /\ a = base + (a - base) BY <2>3
      <4> QED BY <2>3, <4>1
    <3> QED BY <3>1, <3>2, <3>3
  <2>5. a >= base /\ a < base + n => file.words[a - base + 1] # Old
    <3> SUFFICES ASSUME a >= base, a < base + n PROVE file.words[a - base + 1] # Old OBVIOUS
    <3>1. a - base + 1 \in 1 .. n BY <2>3
    <3>2. file.words[a - base + 1] \in Nat BY <1>3, <3>1, ElementOfSeq DEF n
    <3> QED BY <3>2 DEF Old
  <2> QED BY <2>1, <2>2, <2>4, <2>5 DEF Over
<1>9. e_hdr' = NotElf BY TypeParts DEF BootInv, HereType
<1> QED BY <1>2, <1>3, <1>5, <1>6, <1>7, <1>8, <1>9, FileDone

-----------------------------------------------------------------------------
(* From the command line to the program that is started *)

\* The cable is pulled out in the middle of the work.
LEMMA HangUpAsked ==
  ASSUME Working, UNCHANGED <<splitVars, at, cmd, files, optionVars, e_entry, elfVars>>
  PROVE  Working'
<1>0. SameWork /\ UNCHANGED <<at, e_load, mem, cmd, files, e_hdr, ph_ents, pi, half, i, parts, file>>
  BY DEF SameWork
<1>1. PICK d : d = Done /\ d = Done' BY <1>0, WorkGoesOn
<1>2. BaseOf(d + 1)' = BaseOf(d + 1) /\ (\A a : CellAmong(d, a)' = CellAmong(d, a))
      /\ \A f, n, a : ElfCell(f, n, a)' = ElfCell(f, n, a)
  BY <1>0, SameFiles
<1>3. at = "elf" => ElfWritten'
  <2> SUFFICES ASSUME at = "elf" PROVE ElfWritten' OBVIOUS
  <2>1. ElfWritten BY DEF Working
  <2>2. half' = "zero" => InElf' /\ Ph'.type = "LOAD" BY <1>0, <2>1 DEF ElfWritten, InElf, Ph
  <2>3. PICK ph : ph = Ph /\ ph = Ph' BY <1>0 DEF Ph
  <2>4. PICK f, n : f = Head(files) /\ f = Head(files)' /\ n = pi - 1 /\ n = (pi - 1)' BY <1>0
  <2>5. \A a : Over(ElfCell(f, n, a), CellAmong(d, a))' = Over(ElfCell(f, n, a), CellAmong(d, a))
    BY <1>2 DEF Over
  <2>6. \A a : Offset(a, ph)' = Offset(a, ph) BY DEF Offset
  <2>7. \A a \in Addr :
          mem'[a] = IF half' = "zero" /\ Offset(a, ph) < Len(ph.data) THEN ph.data[Offset(a, ph) + 1]
                    ELSE Over(ElfCell(f, n, a), CellAmong(d, a))
    BY <1>0, <1>1, <2>1, <2>3, <2>4 DEF ElfWritten
  <2>8. \A a \in Addr :
          mem'[a] = IF half' = "zero" /\ Offset(a, ph)' < Len(ph.data) THEN ph.data[Offset(a, ph)' + 1]
                    ELSE Over(ElfCell(f, n, a), CellAmong(d, a))'
    BY <2>5, <2>6, <2>7
  <2> QED BY <1>1, <2>2, <2>3, <2>4, <2>8 DEF ElfWritten
<1>4. at = "binary" => BinaryWritten'
  BY <1>0, <1>1, <1>2 DEF Working, BinaryWritten, Begins
<1>5. e_load' = e_load /\ mem' = mem /\ at' = at BY <1>0
<1>6. at' # "binary" => e_load' = BaseOf(d + 1)' BY <1>1, <1>2, <1>5 DEF Working
<1>7. at' \notin {"elf", "binary"} => \A a \in Addr : mem'[a] = CellAmong(d, a)'
  BY <1>1, <1>2, <1>5 DEF Working
<1> QED BY <1>0, <1>1, <1>3, <1>4, <1>5, <1>6, <1>7, WorkGoesOn DEF Working

\* EXEC asks for the entry that is left behind the last file, and for the options.
LEMMA EntryStarted ==
  ASSUME BootInv, TakeAction,
         InWork => OptionsAre(Len(cmd.options)) /\ e_entry = EntryAmong(Done)
  PROVE  EntryIsAsked'
<1>0. /\ at = "files" /\ files = <<>> /\ UNCHANGED cmd
      /\ started' = IF loader_action = "EXEC" THEN [entry |-> e_entry, nowd |-> no_watchdog] ELSE None
  BY DEF TakeAction
<1> SUFFICES ASSUME loader_action = "EXEC" PROVE EntryIsAsked' BY <1>0 DEF EntryIsAsked
<1>1. OptionsAre(Len(cmd.options)) /\ e_entry = EntryAmong(Done) BY <1>0 DEF InWork
<1>2. LineType BY TypeParts DEF BootInv
<1>3. cmd.files \in Seq(Operands) /\ Len(cmd.files) \in Nat
  BY <1>2, CommandLineType, LenProperties DEF LineType
<1>4. Done = Len(cmd.files) BY <1>0, <1>3 DEF Done
<1>5. e_entry = AskedEntry BY <1>1, <1>4 DEF EntryAmong, AskedEntry, Elfs
<1>6. \A o : Among(Len(cmd.options), o) <=> Given(o) BY Zenon DEF Among, Given
<1>7. ~Given("s") /\ ~Given("h") /\ ~Given("r") BY <1>1, <1>6 DEF OptionsAre
<1>8. no_watchdog = Given("w")
  <2>1. no_watchdog \in BOOLEAN BY TypeParts DEF BootInv, FlagType
  <2>2. Given("w") \in BOOLEAN BY DEF Given
  <2>3. no_watchdog <=> Given("w") BY <1>1, <1>6, Zenon DEF OptionsAre
  <2> QED BY <2>1, <2>2, <2>3
<1>9. AskedEntry' = AskedEntry BY <1>0, SameOptions DEF AskedEntry, Elfs
<1>10. started' = [entry |-> AskedEntry', nowd |-> Given("w")']
  <2>1. Given("w")' = Given("w") BY <1>0 DEF Given
  <2> QED BY <1>0, <1>5, <1>8, <1>9, <2>1
<1>11. ~Given("s")' /\ ~Given("h")' /\ ~Given("r")' BY <1>0, <1>7, SameOptions
<1> QED BY <1>10, <1>11 DEF EntryIsAsked

LEMMA EntryStays ==
  ASSUME EntryIsAsked, UNCHANGED <<cmd, started>>
  PROVE  EntryIsAsked'
<1>1. AskedEntry' = AskedEntry BY SameOptions DEF AskedEntry, Elfs
<1>2. Given("w")' = Given("w") BY DEF Given
<1>3. \A o : Given(o)' <=> Given(o) BY SameOptions
<1> QED BY <1>1, <1>2, <1>3 DEF EntryIsAsked

LEMMA TakeActionAsked ==
  ASSUME BootInv, InWork => Working, TakeAction
  PROVE  SoundStarted'
<1>0. at = "files" /\ files = <<>> /\ UNCHANGED <<cmd, mem>> BY DEF TakeAction
<1>1. EntryIsAsked' BY EntryStarted DEF Working
<1> SUFFICES ASSUME loader_action = "EXEC" PROVE SoundStarted'
  <2>1. loader_action # "EXEC" => started' = None BY DEF TakeAction
  <2> QED BY <1>1, <2>1 DEF SoundStarted, MemoryIsAsked
<1>2. Working BY <1>0 DEF InWork
<1>3. cmd.files \in Seq(Operands) /\ Len(cmd.files) \in Nat
  BY TypeParts, CommandLineType, LenProperties DEF BootInv, LineType
<1>4. Done = Len(cmd.files) BY <1>0, <1>3 DEF Done
<1>5. \A a \in Addr : mem[a] = AskedCell(a) BY <1>0, <1>2, <1>4 DEF Working, CellAmong, AskedCell
<1>6. \A a \in Addr : AskedCell(a)' = AskedCell(a) BY <1>0, SameFiles DEF AskedCell
<1>7. \A a \in Addr : mem'[a] = AskedCell(a)' BY <1>0, <1>5, <1>6
<1> QED BY <1>1, <1>7 DEF SoundStarted, MemoryIsAsked

\* Where the run has ended, what it started stays.
LEMMA AskedStays ==
  ASSUME SoundStarted, UNCHANGED <<cmd, mem, started>>
  PROVE  SoundStarted'
<1>1. \A a \in Addr : AskedCell(a)' = AskedCell(a) BY SameFiles DEF AskedCell
<1>2. (\A a \in Addr : mem[a] = AskedCell(a)) => \A a \in Addr : mem'[a] = AskedCell(a)' BY <1>1
<1>3. EntryIsAsked' BY EntryStays DEF SoundStarted
<1> QED BY <1>2, <1>3 DEF SoundStarted, MemoryIsAsked

\* Up to the ping.
LEMMA EarlyAsked ==
  ASSUME BootInv, SoundLine, at = "parse" => Parsing, InWork => Working,
         SetOption \/ ReturnAtOnce \/ BadOption \/ EndOfOptions \/ SetupSerial \/ Ping
  PROVE  (at = "parse" => Parsing)' /\ (InWork => Working)'
<1>1. CASE SetOption
  <2>1. at = "parse" /\ at' = "parse" BY <1>1, Zenon DEF SetOption
  <2> QED BY <1>1, <2>1, OptionAsked DEF InWork
<1>2. CASE ReturnAtOnce
  <2>1. at' = "serial" /\ loader_action' \in {"USAGE", "REBOOT"} BY <1>2 DEF ReturnAtOnce
  <2> QED BY <2>1 DEF InWork
<1>3. CASE BadOption
  <2>1. at' = "exit" BY <1>3 DEF BadOption, Exit
  <2> QED BY <2>1 DEF InWork
<1>4. CASE EndOfOptions
  <2>1. at = "parse" /\ at' = "serial" BY <1>4 DEF EndOfOptions
  <2> QED BY <1>4, <2>1, EndOfOptionsAsked DEF InWork
<1>5. CASE SetupSerial \/ Ping
  <2>1. at \in {"serial", "ping"} /\ at' \in {"ping", "files", "exit"}
    BY <1>5 DEF SetupSerial, Ping, Exit
  <2>2. SameWork /\ UNCHANGED <<e_load, mem, e_hdr, ph_ents>>
    BY <1>5, Zenon DEF SetupSerial, Ping, SameWork
  <2>3. InWork' => InWork BY <2>1, <2>2 DEF InWork, SameWork
  <2>4. Working => Working' BY <2>1, <2>2, IdleAsked
  <2> QED BY <2>1, <2>3, <2>4
<1> QED BY <1>1, <1>2, <1>3, <1>4, <1>5

\* The files.
LEMMA FilesAsked ==
  ASSUME BootInv, SoundLine, InWork => Working,
         OpenFile \/ LoadBinary \/ SkipSegment \/ LoadSection \/ ZeroSection \/ EndElf
  PROVE  (at = "parse" => Parsing)' /\ (InWork => Working)'
<1>1. /\ at \in {"files", "elf", "binary"} /\ at' # "parse"
      /\ UNCHANGED <<cmd, beef_bss, no_watchdog, loader_action>>
  <2>1. at \in {"files", "elf", "binary"} /\ at' # "parse"
    BY DEF OpenFile, LoadBinary, SkipSegment, LoadSection, ZeroSection, EndElf, InElf, Exit, CloseFile
  <2>2. UNCHANGED <<cmd, beef_bss, no_watchdog, loader_action>>
    BY Zenon DEF OpenFile, LoadBinary, SkipSegment, LoadSection, ZeroSection, EndElf
  <2> QED BY <2>1, <2>2
<1> SUFFICES ASSUME InWork' PROVE Working' BY <1>1
<1>2. Working /\ at' # "exit" BY <1>1 DEF InWork
<1>3. CASE LoadBinary
  <2>1. at = "binary" /\ UNCHANGED <<e_entry, e_hdr, ph_ents>> BY <1>3, Zenon DEF LoadBinary
  <2>2. CASE Split /\ UNCHANGED <<at, files, printVars>>
    BY <1>1, <1>2, <2>1, <2>2, SplitAsked DEF SameWork
  <2>3. CASE Acknowledged /\ UploadPart(Fill) /\ UNCHANGED <<at, files>>
    BY <1>1, <1>2, <2>1, <2>3, UploadAsked DEF SameWork
  <2>4. CASE EndUpload /\ CloseFile /\ UNCHANGED printVars
    BY <1>1, <1>2, <2>1, <2>4, EndUploadAsked
  <2> QED BY <1>3, <2>2, <2>3, <2>4 DEF LoadBinary
<1> QED BY <1>2, <1>3, OpenFileAsked, SkipSegmentAsked, LoadSectionAsked, ZeroSectionAsked, EndElfAsked

LEMMA AskedStep == BootInv /\ SilentInv /\ AskedInv /\ [Next]_vars => AskedInv'
<1> SUFFICES ASSUME BootInv, SilentInv, AskedInv, [Next]_vars PROVE AskedInv' OBVIOUS
<1>1. UNCHANGED cmd
  <2>1. CASE Step
    BY <2>1, Zenon DEF Step, SetOption, ReturnAtOnce, BadOption, EndOfOptions, SetupSerial, Ping, OpenFile,
       LoadBinary, SkipSegment, LoadSection, ZeroSection, EndElf, Refused, TakeAction
  <2> QED BY <2>1, Zenon DEF Next, HangUp, vars
<1>2. SoundLine' <=> SoundLine BY <1>1, SameFiles
<1> SUFFICES ASSUME SoundLine
             PROVE  (at = "parse" => Parsing)' /\ (InWork => Working)' /\ SoundStarted'
  BY <1>2 DEF AskedInv
<1>3. (at = "parse" => Parsing) /\ (InWork => Working) /\ SoundStarted BY DEF AskedInv
<1>4. ASSUME started' = None PROVE SoundStarted' BY <1>4 DEF SoundStarted, MemoryIsAsked, EntryIsAsked
<1>5. CASE SetOption \/ ReturnAtOnce \/ BadOption \/ EndOfOptions \/ SetupSerial \/ Ping
  <2>1. at \in Early /\ started' = started
    <3>1. at \in Early
      BY <1>5 DEF SetOption, ReturnAtOnce, BadOption, EndOfOptions, SetupSerial, Ping, Early
    <3>2. started' = started
      BY <1>5, Zenon DEF SetOption, ReturnAtOnce, BadOption, EndOfOptions, SetupSerial, Ping
    <3> QED BY <3>1, <3>2
  <2>2. started' = None BY <2>1 DEF SilentInv, Early
  <2> QED BY <1>3, <1>4, <1>5, <2>2, EarlyAsked
<1>6. CASE OpenFile \/ LoadBinary \/ SkipSegment \/ LoadSection \/ ZeroSection \/ EndElf
  <2>1. at \in {"files", "elf", "binary"}
    BY <1>6 DEF OpenFile, LoadBinary, SkipSegment, LoadSection, ZeroSection, EndElf, InElf
  <2>2. started' = started
    BY <1>6, Zenon DEF OpenFile, LoadBinary, SkipSegment, LoadSection, ZeroSection, EndElf
  <2>3. started' = None BY <2>1, <2>2 DEF SilentInv
  <2> QED BY <1>3, <1>4, <1>6, <2>3, FilesAsked
<1>7. CASE Refused
  <2>1. at' = "exit" /\ UNCHANGED <<cmd, mem, started>> BY <1>7 DEF Refused, Exit
  <2> QED BY <1>3, <2>1, AskedStays DEF InWork
<1>8. CASE TakeAction
  <2>1. at' \in {"monitor", "exit"} BY <1>8 DEF TakeAction, AfterAction, Exit
  <2> QED BY <1>3, <1>8, <2>1, TakeActionAsked DEF InWork
<1>9. CASE HangUp \/ UNCHANGED vars
  <2>1. UNCHANGED <<splitVars, at, cmd, opts, files, optionVars, e_entry, elfVars, started>>
    BY <1>9, Zenon DEF HangUp, vars
  <2>2. SoundStarted' BY <1>3, <2>1, AskedStays
  <2>3. InWork' <=> InWork BY <2>1 DEF InWork
  <2>4. Working => Working' BY <2>1, HangUpAsked
  <2>5. Parsing => Parsing'
    BY <2>1, SameOptions DEF Parsing, OptionsAre, ReadOptions
  <2> QED BY <1>3, <2>1, <2>2, <2>3, <2>4, <2>5
<1> QED BY <1>5, <1>6, <1>7, <1>8, <1>9 DEF Next, Step

-----------------------------------------------------------------------------
(* The entry, for every command line *)

\* The entry is that of the files that are done; a header that was read is that of
\* the last ELF file up to the one piboot is at.
Entered ==
  /\ OptionsAre(Len(cmd.options)) /\ FilesLeft /\ e_entry = EntryAmong(Done)
  /\ at = "elf" => e_hdr.entry = EntryAmong(Done + 1)
  /\ at # "elf" /\ e_hdr # NotElf => e_hdr.entry = EntryAmong(Done)

EntryInv ==
  /\ at = "parse" => Parsing
  /\ InWork => Entered
  /\ EntryIsAsked

LEMMA EnteredGoesOn ==
  ASSUME Entered, UNCHANGED <<cmd, files, beef_bss, no_watchdog, loader_action, e_entry, e_hdr>>,
         at = "elf" <=> at' = "elf"
  PROVE  Entered'
<1>1. OptionsAre(Len(cmd.options))' BY SameOptions DEF Entered, OptionsAre
<1>2. FilesLeft' /\ Done' = Done BY DEF Entered, FilesLeft, Done
<1>3. \A n : EntryAmong(n)' = EntryAmong(n) BY SameFiles
<1> QED BY <1>1, <1>2, <1>3 DEF Entered

LEMMA OpenFileEntered ==
  ASSUME BootInv, Entered, OpenFile, at' # "exit"
  PROVE  Entered'
<1>0. /\ UNCHANGED <<cmd, files, beef_bss, no_watchdog, loader_action, e_entry>>
      /\ at = "files" /\ files # <<>>
  BY DEF OpenFile
<1>1. OptionsAre(Len(cmd.options))' BY <1>0, SameOptions DEF Entered, OptionsAre
<1>2. FilesLeft' /\ Done' = Done BY <1>0 DEF Entered, FilesLeft, Done
<1>3. \A n : EntryAmong(n)' = EntryAmong(n) BY <1>0, SameFiles
<1>4. PICK d \in Nat : d = Done BY AtFile DEF Entered
<1>5. PICK f \in Operands : f = Head(files) /\ f = cmd.files[d + 1]
  BY <1>0, <1>4, AtFile DEF Entered
<1>6. /\ f.kind # "missing" /\ e_hdr' = HeaderRead(f) /\ at' \in {"elf", "binary"}
      /\ at' = "elf" <=> e_hdr' # NotElf
  BY <1>5 DEF OpenFile, Exit
<1>7. e_hdr' # NotElf => e_hdr'.entry = EntryAmong(d + 1)
  <2>1. CASE f.kind = "elf" BY <1>4, <1>5, <1>6, <2>1, HeaderIs, OneMoreEntry
  <2>2. CASE f.kind # "elf"
    <3>1. e_hdr' \in {NotElf, e_hdr} BY <1>6, <2>2 DEF HeaderRead
    <3>2. EntryAmong(d + 1) = EntryAmong(d) BY <1>4, <1>5, <2>2, OneMoreEntry
    <3> QED BY <1>0, <1>4, <3>1, <3>2 DEF Entered
  <2> QED BY <2>1, <2>2
<1>8. e_entry' = EntryAmong(d) BY <1>0, <1>4 DEF Entered
<1> QED BY <1>1, <1>2, <1>3, <1>4, <1>6, <1>7, <1>8 DEF Entered

\* A file is done, and with an ELF file the entry is that of the header.
LEMMA FileEntered ==
  ASSUME BootInv, Entered, at \in {"elf", "binary"}, CloseFile,
         UNCHANGED <<cmd, beef_bss, no_watchdog, loader_action, e_hdr>>,
         e_entry' = IF at = "elf" THEN e_hdr.entry ELSE e_entry
  PROVE  Entered'
<1>0. files # <<>> /\ (at = "binary" => Head(files).kind = "binary" /\ e_hdr = NotElf)
  BY TypeParts DEF BootInv, HereType
<1>1. OptionsAre(Len(cmd.options))' BY SameOptions DEF Entered, OptionsAre
<1>2. PICK d \in Nat : d = Done /\ Head(files) = cmd.files[d + 1] BY <1>0, AtFile DEF Entered
<1>3. FilesLeft' /\ Done' = d + 1 BY <1>0, <1>2, NextIsAt DEF Entered
<1>4. \A n : EntryAmong(n)' = EntryAmong(n) BY SameFiles
<1>5. CASE at = "elf"
  <2>1. at' = "files" BY DEF CloseFile
  <2> QED BY <1>1, <1>2, <1>3, <1>4, <1>5, <2>1 DEF Entered
<1>6. CASE at = "binary"
  <2>1. EntryAmong(d + 1) = EntryAmong(d) BY <1>0, <1>2, <1>6, OneMoreEntry
  <2>2. at' = "files" BY DEF CloseFile
  <2> QED BY <1>0, <1>1, <1>2, <1>3, <1>4, <1>6, <2>1, <2>2 DEF Entered
<1> QED BY <1>5, <1>6

LEMMA EntryStep == BootInv /\ SilentInv /\ EntryInv /\ [Next]_vars => EntryInv'
<1> SUFFICES ASSUME BootInv, SilentInv, EntryInv, [Next]_vars PROVE EntryInv' OBVIOUS
<1>0. ASSUME UNCHANGED <<cmd, started>> PROVE EntryIsAsked' BY <1>0, EntryStays DEF EntryInv
<1>1. CASE SetOption
  <2>1. at = "parse" /\ at' = "parse" /\ UNCHANGED <<cmd, started>> BY <1>1, Zenon DEF SetOption
  <2>2. Parsing' BY <1>1, <2>1, OptionAsked DEF EntryInv
  <2> QED BY <1>0, <2>1, <2>2 DEF EntryInv, InWork
<1>2. CASE ReturnAtOnce \/ BadOption
  <2>1. UNCHANGED <<cmd, started>> BY <1>2, Zenon DEF ReturnAtOnce, BadOption
  <2>2. at' = "exit" \/ (at' = "serial" /\ loader_action' \in {"USAGE", "REBOOT"})
    BY <1>2 DEF ReturnAtOnce, BadOption, Exit
  <2> QED BY <1>0, <2>1, <2>2 DEF EntryInv, InWork
<1>3. CASE EndOfOptions
  <2>1. at = "parse" /\ at' = "serial" BY <1>3 DEF EndOfOptions
  <2>2. UNCHANGED <<cmd, started, e_hdr>> BY <1>3, Zenon DEF EndOfOptions
  <2>3. Parsing BY <2>1 DEF EntryInv
  <2>4. Entered'
    <3>1. Working' BY <1>3, <2>3, EndOfOptionsAsked
    <3>2. e_hdr' = NotElf BY <2>2, <2>3 DEF Parsing
    <3> QED BY <2>1, <3>1, <3>2 DEF Working, Entered
  <2> QED BY <1>0, <2>1, <2>2, <2>4 DEF EntryInv
<1>4. CASE SetupSerial \/ Ping \/ SkipSegment \/ LoadSection \/ ZeroSection
  <2>1. /\ UNCHANGED <<cmd, started, files, beef_bss, no_watchdog, loader_action, e_entry, e_hdr>>
    BY <1>4, Zenon DEF SetupSerial, Ping, SkipSegment, LoadSection, ZeroSection
  <2>2. /\ at \in {"serial", "ping", "elf"} /\ at' \in {"ping", "files", "elf", "exit"}
        /\ at = "elf" <=> at' = "elf"
    BY <1>4 DEF SetupSerial, Ping, SkipSegment, LoadSection, ZeroSection, InElf, Exit
  <2>3. InWork' => Entered' BY <2>1, <2>2, EnteredGoesOn DEF EntryInv, InWork
  <2> QED BY <1>0, <2>1, <2>2, <2>3 DEF EntryInv
<1>5. CASE OpenFile
  <2>1. UNCHANGED <<cmd, started, loader_action>> BY <1>5, Zenon DEF OpenFile
  <2>2. at = "files" /\ at' \in {"elf", "binary", "exit"} BY <1>5 DEF OpenFile, Exit
  <2>3. InWork' => Entered' BY <1>5, <2>1, <2>2, OpenFileEntered DEF EntryInv, InWork
  <2> QED BY <1>0, <2>1, <2>2, <2>3 DEF EntryInv
<1>6. CASE LoadBinary \/ EndElf
  <2>1. /\ UNCHANGED <<cmd, started, beef_bss, no_watchdog, loader_action, e_hdr>>
    BY <1>6, Zenon DEF LoadBinary, EndElf
  <2>2. /\ at \in {"elf", "binary"} /\ e_entry' = IF at = "elf" THEN e_hdr.entry ELSE e_entry
        /\ CloseFile \/ (at = "binary" /\ UNCHANGED <<at, files>>)
    BY <1>6 DEF LoadBinary, EndElf
  <2>3. at' # "parse" BY <2>2 DEF CloseFile
  <2>4. InWork' => Entered BY <2>1, <2>2 DEF EntryInv, InWork
  <2>5. CASE CloseFile
    <3>1. Entered => Entered' BY <2>1, <2>2, <2>5, FileEntered
    <3> QED BY <1>0, <2>1, <2>3, <2>4, <3>1 DEF EntryInv
  <2>6. CASE at = "binary" /\ UNCHANGED <<at, files>>
    <3>1. Entered => Entered' BY <2>1, <2>2, <2>6, EnteredGoesOn
    <3> QED BY <1>0, <2>1, <2>3, <2>4, <3>1 DEF EntryInv
  <2> QED BY <2>2, <2>5, <2>6
<1>7. CASE Refused
  <2>1. at' = "exit" /\ UNCHANGED <<cmd, started>> BY <1>7 DEF Refused, Exit
  <2> QED BY <1>0, <2>1 DEF EntryInv, InWork
<1>8. CASE TakeAction
  <2>1. at' \in {"monitor", "exit"} BY <1>8 DEF TakeAction, AfterAction, Exit
  <2>2. EntryIsAsked' BY <1>8, EntryStarted DEF EntryInv, Entered
  <2> QED BY <2>1, <2>2 DEF EntryInv, InWork
<1>9. CASE HangUp \/ UNCHANGED vars
  <2>1. UNCHANGED <<splitVars, at, cmd, opts, files, optionVars, e_entry, elfVars, started>>
    BY <1>9, Zenon DEF HangUp, vars
  <2>2. Entered => Entered' BY <2>1, EnteredGoesOn
  <2>3. Parsing => Parsing' BY <2>1, SameOptions DEF Parsing, OptionsAre, ReadOptions
  <2> QED BY <1>0, <2>1, <2>2, <2>3 DEF EntryInv, InWork
<1> QED BY <1>1, <1>2, <1>3, <1>4, <1>5, <1>6, <1>7, <1>8, <1>9 DEF Next, Step

LEMMA InitEntry == Init => EntryInv
<1> SUFFICES ASSUME Init PROVE EntryInv OBVIOUS
<1>1. at = "parse" /\ started = None BY DEF Init
<1>2. Parsing BY <1>1, InitParsing
<1> QED BY <1>1, <1>2 DEF EntryInv, InWork, EntryIsAsked

\* For every command line and all files: what is started is entered where the last
\* ELF file says, else -x, else at the default, with the watchdog as asked, and
\* nothing is started with -s, -h or -r; also when an empty file is loaded with the
\* header of the file before it (elf.c:64) and whatever that uploads.
THEOREM EntryIsWhatWasAsked == Spec => []EntryIsAsked
<1>1. EntryInv => EntryIsAsked BY DEF EntryInv
<1>2. Spec => []SilentInv BY InitSilent, SilentStep, PTL DEF Spec
<1> QED BY <1>1, <1>2, InitEntry, EntryStep, BootInvariant, PTL DEF Spec

\* And if the command line is a sound one, memory is what its files say, one after the
\* other (bootpc.c, elf.c, binary_loader.c).  With each of the things that SoundLine
\* leaves out, memory may be another: see there.
THEOREM StartedIsWhatWasAsked == Spec => []StartedIsAsked
<1>1. AskedInv => (SoundLine => MemoryIsAsked) BY DEF AskedInv, SoundStarted
<1>2. Spec => []SilentInv BY InitSilent, SilentStep, PTL DEF Spec
<1>3. EntryIsAsked /\ (SoundLine => MemoryIsAsked) => StartedIsAsked BY DEF StartedIsAsked
<1> QED BY <1>1, <1>2, <1>3, EntryIsWhatWasAsked, InitAsked, AskedStep, BootInvariant, PTL DEF Spec

-----------------------------------------------------------------------------
(* A run comes to an end *)

LeftInv ==
  /\ PartOfMain \in Nat /\ Len(opts) \in Nat /\ Len(files) \in Nat
  /\ PartOfFile \in Nat /\ TurnsLeft \in Nat

Shorter ==
  \/ PartOfMain' < PartOfMain
  \/ PartOfMain' = PartOfMain /\ Len(opts') < Len(opts)
  \/ PartOfMain' = PartOfMain /\ Len(opts') = Len(opts) /\ Len(files') < Len(files)
  \/ /\ PartOfMain' = PartOfMain /\ Len(opts') = Len(opts) /\ Len(files') = Len(files)
     /\ PartOfFile' < PartOfFile \/ (PartOfFile' = PartOfFile /\ TurnsLeft' < TurnsLeft)

LEMMA LeftNumbers == PiBootTypeOK => LeftInv
<1> SUFFICES ASSUME PiBootTypeOK PROVE LeftInv OBVIOUS
<1>0. ControlType /\ LineType /\ HeadersType /\ HereType /\ PartsTypeOK BY TypeParts DEF SplitTypeOK
<1>1. Len(opts) \in Nat /\ Len(files) \in Nat BY <1>0, LenProperties DEF LineType
<1>2. PartOfMain \in Nat /\ PartOfFile \in Nat BY DEF PartOfMain, PartOfFile
<1>3. CASE at = "elf"
  <2> DEFINE n == Len(ph_ents)
  <2>1. n \in Nat BY <1>0, LenProperties DEF HeadersType
  <2>2. pi \in Nat /\ pi <= n + 1 BY <1>0, <1>3 DEF ControlType, HereType
  <2>3. TurnsLeft = 2 * (n + 1 - pi) + (IF half = "load" THEN 1 ELSE 0)
    BY <1>3 DEF TurnsLeft
  <2> HIDE DEF n
  <2>4. n + 1 - pi \in Nat BY <2>1, <2>2
  <2>5. TurnsLeft \in Nat BY <2>3, <2>4
  <2> QED BY <1>1, <1>2, <2>5 DEF LeftInv
<1>4. CASE at = "binary"
  <2>1. Len(file.words) \in Nat /\ data_idx \in Nat /\ data_idx <= Len(file.words)
    BY <1>0, Facts DEF PartsTypeOK
  <2>2. Len(parts) \in Nat /\ i \in Nat /\ i <= Len(parts)
    BY <1>0, Facts DEF PartsTypeOK
  <2>3. TurnsLeft \in {Len(file.words) - data_idx, Len(parts) - i, 0}
    BY <1>4 DEF TurnsLeft
  <2>4. TurnsLeft \in Nat BY <2>1, <2>2, <2>3
  <2> QED BY <1>1, <1>2, <2>4 DEF LeftInv
<1>5. CASE at \notin {"elf", "binary"}
  <2>1. TurnsLeft = 0 BY <1>5 DEF TurnsLeft
  <2> QED BY <1>1, <1>2, <2>1 DEF LeftInv
<1> QED BY <1>3, <1>4, <1>5

LEMMA LeftIs ==
  LeftInv => /\ Left \in [1 .. 5 -> Nat]
             /\ Left[1] = PartOfMain /\ Left[2] = Len(opts) /\ Left[3] = Len(files)
             /\ Left[4] = PartOfFile /\ Left[5] = TurnsLeft
BY DEF LeftInv, Left

LEMMA ShorterIsBelow ==
  ASSUME LeftInv, LeftInv', Shorter
  PROVE  Below(Left', Left)
<1> DEFINE Is(t, a, b, c, d, e) ==
      t[1] = a /\ t[2] = b /\ t[3] = c /\ t[4] = d /\ t[5] = e
<1>1. Is(Left, PartOfMain, Len(opts), Len(files), PartOfFile, TurnsLeft) BY LeftIs
<1>2. Is(Left', PartOfMain', Len(opts'), Len(files'), PartOfFile', TurnsLeft')
  <2>1. Is(Left, PartOfMain, Len(opts), Len(files), PartOfFile, TurnsLeft)'
    BY LeftIs, PTL
  <2> QED BY <2>1
<1> QED BY <1>1, <1>2 DEF Shorter, Below

\* What is taken off a sequence shortens it.
LEMMA TailShorter ==
  ASSUME NEW S, NEW s \in Seq(S), s # <<>>
  PROVE  Len(Tail(s)) < Len(s)
<1>1. Len(s) \in Nat /\ Len(s) # 0 BY EmptySeq, LenProperties
<1>2. Len(Tail(s)) = Len(s) - 1 BY HeadTailProperties
<1> QED BY <1>1, <1>2

\* Closing a file leaves one file less.
LEMMA CloseIsShorter ==
  ASSUME PiBootTypeOK, at \in {"elf", "binary"}, CloseFile, UNCHANGED opts
  PROVE  Shorter
<1>1. files \in Seq(Operands) /\ files # <<>> BY TypeParts DEF LineType, HereType
<1>2. files' = Tail(files) /\ at' = "files" BY DEF CloseFile
<1>3. Len(files') < Len(files) BY <1>1, <1>2, TailShorter
<1>4. PartOfMain = 1 /\ PartOfMain' = 1 BY <1>2 DEF PartOfMain
<1> QED BY <1>3, <1>4 DEF Shorter

LEMMA BinaryIsShorter ==
  ASSUME BootInv, LoadBinary
  PROVE  Shorter
<1>0. PiBootTypeOK /\ PartsTypeOK /\ at = "binary" /\ opts' = opts
  BY TypeParts DEF BootInv, SplitTypeOK, LoadBinary
<1>1. CASE EndUpload /\ CloseFile BY <1>0, <1>1, CloseIsShorter
<1>2. CASE ~ (EndUpload /\ CloseFile)
  <2>0. /\ at' = at /\ files' = files /\ (Split \/ UploadPart(Fill))
        /\ PartOfMain = 1 /\ PartOfMain' = 1
    BY <1>0, <1>2 DEF LoadBinary, PartOfMain
  <2>1. CASE Extend \/ BeginZeros \/ MergeZeros \/ KeepZeros
    <3>1. /\ data_idx' = data_idx + 1 /\ stage = "split" /\ stage' = "split" /\ file' = file
      BY <2>1 DEF Extend, BeginZeros, MergeZeros, KeepZeros, InLoop, NextWord
    <3>2. PartOfFile = 2 /\ PartOfFile' = 2 BY <1>0, <2>0, <3>1 DEF PartOfFile
    <3>3. TurnsLeft = Len(file.words) - data_idx /\ TurnsLeft' = Len(file.words) - data_idx'
      BY <1>0, <2>0, <3>1 DEF TurnsLeft
    <3>4. Len(file.words) \in Nat /\ data_idx \in Nat BY <1>0, Facts DEF PartsTypeOK
    <3>5. TurnsLeft' < TurnsLeft BY <3>1, <3>3, <3>4
    <3> QED BY <1>0, <2>0, <3>2, <3>5 DEF Shorter
  <2>2. CASE Terminate
    <3>1. stage = "split" /\ stage' = "upload" BY <2>2 DEF Terminate
    <3>2. PartOfFile = 2 /\ PartOfFile' = 1 BY <1>0, <2>0, <3>1 DEF PartOfFile
    <3> QED BY <1>0, <2>0, <3>2 DEF Shorter
  <2>3. CASE UploadPart(Fill)
    <3>1. i' = i + 1 /\ parts' = parts /\ stage = "upload" /\ stage' = "upload"
      BY <2>3 DEF UploadPart
    <3>2. PartOfFile = 1 /\ PartOfFile' = 1 BY <1>0, <2>0, <3>1 DEF PartOfFile
    <3>3. TurnsLeft = Len(parts) - i /\ TurnsLeft' = Len(parts) - i'
      BY <1>0, <2>0, <3>1 DEF TurnsLeft
    <3>4. Len(parts) \in Nat /\ i \in Nat BY <1>0, Facts DEF PartsTypeOK
    <3>5. TurnsLeft' < TurnsLeft BY <3>1, <3>3, <3>4
    <3> QED BY <1>0, <2>0, <3>2, <3>5 DEF Shorter
  <2> QED BY <2>0, <2>1, <2>2, <2>3 DEF Split
<1> QED BY <1>1, <1>2

LEMMA ElfIsShorter ==
  ASSUME PiBootTypeOK, SkipSegment \/ LoadSection \/ ZeroSection
  PROVE  Shorter
<1>1. InElf /\ UNCHANGED <<at, opts, files, ph_ents>>
  BY DEF SkipSegment, LoadSection, ZeroSection
<1>2. at = "elf" /\ ph_ents \in Seq(Segment) /\ pi \in 1 .. Len(ph_ents)
  BY <1>1, NextSegment DEF InElf
<1> DEFINE n == Len(ph_ents)
           one == IF half = "load" THEN 1 ELSE 0
           one1 == IF half' = "load" THEN 1 ELSE 0
<1>3. n \in Nat /\ pi \in Nat BY <1>2, LenProperties
<1>4. TurnsLeft = 2 * (n + 1 - pi) + one BY <1>2 DEF TurnsLeft
<1>5. TurnsLeft' = 2 * (n + 1 - pi') + one1 BY <1>1, <1>2 DEF TurnsLeft
<1>6. \/ pi' = pi + 1 /\ one1 = one
      \/ pi' = pi /\ one = 1 /\ one1 = 0
      \/ pi' = pi + 1 /\ one = 0 /\ one1 = 1
  BY DEF SkipSegment, LoadSection, ZeroSection
<1>7. one \in {0, 1} OBVIOUS
<1>8. PartOfMain' = PartOfMain /\ PartOfFile' = PartOfFile
  BY <1>1, <1>2 DEF PartOfMain, PartOfFile
<1> HIDE DEF n, one, one1
<1>9. TurnsLeft' < TurnsLeft BY <1>3, <1>4, <1>5, <1>6, <1>7
<1> QED BY <1>1, <1>8, <1>9 DEF Shorter

LEMMA StepIsShorter ==
  ASSUME BootInv, Step
  PROVE  Shorter
<1>0. PiBootTypeOK /\ ControlType /\ LineType BY TypeParts DEF BootInv
<1>1. CASE SetOption
  <2>1. at' = at /\ opts # <<>> /\ opts' = Tail(opts) BY <1>1, Zenon DEF SetOption
  <2>2. Len(opts') < Len(opts) BY <1>0, <2>1, TailShorter DEF LineType
  <2>3. PartOfMain' = PartOfMain BY <2>1 DEF PartOfMain
  <2> QED BY <2>2, <2>3 DEF Shorter
<1>2. CASE ReturnAtOnce \/ BadOption \/ EndOfOptions
  <2>1. at = "parse" /\ at' \in {"serial", "exit"}
    BY <1>2 DEF ReturnAtOnce, BadOption, EndOfOptions, Exit
  <2> QED BY <2>1 DEF Shorter, PartOfMain
<1>3. CASE SetupSerial \/ Ping
  <2>1. \/ at = "serial" /\ at' \in {"ping", "exit"}
        \/ at = "ping" /\ at' \in {"files", "exit"}
    BY <1>3 DEF SetupSerial, Ping, Exit
  <2> QED BY <2>1 DEF Shorter, PartOfMain
<1>4. CASE OpenFile
  <2>1. /\ at = "files" /\ opts' = opts /\ files' = files
        /\ \/ at' = "exit" \/ at' = "elf"
           \/ at' = "binary" /\ stage' = "split"
    BY <1>4 DEF OpenFile, ReadBinary, Exit
  <2>2. CASE at' = "exit" BY <2>1, <2>2 DEF Shorter, PartOfMain
  <2>3. CASE at' # "exit"
    <3>1. PartOfMain = 1 /\ PartOfMain' = 1 BY <2>1, <2>3 DEF PartOfMain
    <3>2. PartOfFile = 3 /\ PartOfFile' \in {1, 2} BY <2>1, <2>3 DEF PartOfFile
    <3> QED BY <2>1, <3>1, <3>2 DEF Shorter
  <2> QED BY <2>2, <2>3
<1>5. CASE LoadBinary BY <1>5, BinaryIsShorter
<1>6. CASE SkipSegment \/ LoadSection \/ ZeroSection BY <1>0, <1>6, ElfIsShorter
<1>7. CASE EndElf
  <2>1. at = "elf" /\ CloseFile /\ opts' = opts BY <1>7 DEF EndElf
  <2> QED BY <1>0, <2>1, CloseIsShorter
<1>8. CASE Refused \/ TakeAction
  <2>1. at \in {"files", "elf", "binary"} /\ at' \in {"exit", "monitor"}
    BY <1>8 DEF Refused, PacketDue, InElf, TakeAction, AfterAction, Exit
  <2> QED BY <2>1 DEF Shorter, PartOfMain
<1> QED BY <1>1, <1>2, <1>3, <1>4, <1>5, <1>6, <1>7, <1>8 DEF Step

\* For every command line and all files, whatever is answered: each step of piboot
\* brings the end of the run nearer in an order in which nothing gets nearer for ever;
\* only pulling the cable out takes a step and leaves it where it is, once. With
\* a step that is always possible before the end (RunEnds), every run ends.
THEOREM RunsGetShorter == Spec => StepsComeToAnEnd
<1> DEFINE Nearer == /\ Left \in [1 .. 5 -> Nat]
                     /\ Below(Left', Left) \/ (tty' # tty /\ Left' = Left)
<1>1. BootInv /\ BootInv' /\ [Next]_vars => [Nearer]_vars
  <2> SUFFICES ASSUME BootInv, BootInv', Next PROVE Nearer OBVIOUS
  <2>1. LeftInv BY LeftNumbers DEF BootInv
  <2>2. LeftInv'
    <3>1. PiBootTypeOK' BY DEF BootInv
    <3> QED BY <3>1, LeftNumbers, PTL
  <2>3. Left \in [1 .. 5 -> Nat] BY <2>1, LeftIs
  <2>4. CASE Step BY <2>1, <2>2, <2>3, <2>4, StepIsShorter, ShorterIsBelow
  <2>5. CASE HangUp
    <3>1. tty' # tty BY <2>5 DEF HangUp
    <3>2. UNCHANGED <<at, opts, files, stage, file, data_idx, parts, i, ph_ents, pi, half>>
      BY <2>5, Zenon DEF HangUp
    <3>3. PartOfMain' = PartOfMain /\ PartOfFile' = PartOfFile /\ TurnsLeft' = TurnsLeft
      BY <3>2 DEF PartOfMain, PartOfFile, TurnsLeft
    <3>4. Left' = Left BY <3>2, <3>3 DEF Left
    <3> QED BY <2>3, <3>1, <3>4
  <2> QED BY <2>4, <2>5 DEF Next
<1> QED BY <1>1, BootInvariant, PTL DEF Spec, StepsComeToAnEnd

=============================================================================
