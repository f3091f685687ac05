----------------------------- MODULE DriversProofs -----------------------------
(***************************************************************************)
(* Proofs about Relocate, Timer and Drivers.  First the move loop and the   *)
(* delay by themselves: for every size of the sections the loader is moved *)
(* whole, for every range of the counter a delay is as long as asked for.  *)
(* Then the whole: each step of Drivers is one of Relocate, of Timer and   *)
(* of Registers, or leaves them alone, so that what is proved of the parts *)
(* holds of it; and the registers, for any program that was at them.       *)
(***************************************************************************)
EXTENDS Drivers, TLAPS

-----------------------------------------------------------------------------
(* The move loop.  The words behind r3 are in place, those before it still  *)
(* in the image.                                                            *)

\* The image is untouched; what lies below r5 has been moved to where it runs.
Image == \A a \in WordAddr :
  LoadedTextStart <= a /\ a < LoadedTextStart + Total(size)
    => ram[a] = LoaderBin(size, a - LoadedTextStart)

Moved == \A a \in WordAddr :
  a >= LoadedTextStart + Total(size) =>
    ram[a] = IF RunAddr <= a /\ a < r5 THEN LoaderBin(size, a - RunAddr) ELSE Junk

Pointers ==
  reloc # "start" => /\ r4 = LoadedTextStart + Total(size)
                  /\ LoadedTextStart <= r3 /\ r3 <= r4
                  /\ r5 = RunAddr + (r3 - LoadedTextStart)

LoopInv == /\ RelocateTypeOK /\ Image /\ Pointers
           /\ (reloc = "start" => r5 <= RunAddr) /\ Moved
           /\ (reloc = "run" => r3 = r4)

\* Sums of multiples of 4, and the smallest step between two of them.
LEMMA SumOfWords ==
  ASSUME NEW x \in Words, NEW y \in Words
  PROVE  x + y \in Words /\ (x < y => x + 4 <= y)
<1>1. x \in Nat /\ y \in Nat /\ x % 4 = 0 /\ y % 4 = 0 BY DEF Words
<1>2. (x + y) % 4 = 0 BY <1>1
<1>3. x < y => x + 4 <= y BY <1>1
<1> QED BY <1>1, <1>2, <1>3 DEF Words

\* The symbols of link.ld for one build: where the image and the loader end.
LEMMA Layout ==
  ASSUME NEW s \in Sizes
  PROVE  /\ Total(s) \in Nat /\ Total(s) % 4 = 0
         /\ LoadedTextStart \in Nat /\ LoadedTextStart % 4 = 0
         /\ LoadAddr \in Nat /\ RunAddr \in Nat /\ RunAddr % 4 = 0
         /\ AddrSpace \in Nat /\ AddrSpace % 4 = 0
         /\ LoadedEnd(s) = LoadedTextStart + Total(s)
         /\ RunEnd(s) = RunAddr + Total(s)
         /\ LoadedTextStart + Total(s) <= RunAddr
         /\ RunAddr + Total(s) < AddrSpace
<1>1. s.text \in Words /\ s.rodata \in Words /\ s.data \in Words /\ s.bss \in Words
  BY SectionsAssumption
<1>2. LoadAddr \in Words /\ RunAddr \in Words /\ StartupSize \in Words /\ AddrSpace \in Words
  BY SectionsAssumption
<1>3. LoadAddr + StartupSize + Total(s) <= RunAddr /\ RunAddr + Total(s) < AddrSpace
  BY SectionsAssumption
<1>4. Total(s) \in Words
  <2>1. s.text + s.rodata \in Words BY <1>1, SumOfWords
  <2>2. s.text + s.rodata + s.data \in Words BY <1>1, <2>1, SumOfWords
  <2> QED BY <1>1, <2>2, SumOfWords DEF Total
<1>5. LoadedTextStart \in Words BY <1>2, SumOfWords DEF LoadedTextStart
<1> QED BY <1>1, <1>2, <1>3, <1>4, <1>5 DEF Words, LoadedTextStart, LoadedEnd, RunEnd, Total

\* The words of loader.bin are numbers.
LEMMA BinType ==
  ASSUME NEW s \in Sizes, NEW o \in Nat
  PROVE  LoaderBin(s, o) \in Int
BY DEF LoaderBin, Zero

\* What the firmware loads satisfies the invariant.
LEMMA InitLoop == RelocateInit => LoopInv
<1> SUFFICES ASSUME RelocateInit PROVE LoopInv OBVIOUS
<1>0. size \in Sizes BY DEF RelocateInit
<1>1. Total(size) \in Nat /\ LoadedTextStart \in Nat /\ RunAddr \in Nat /\ AddrSpace \in Nat
      /\ LoadedTextStart + Total(size) <= RunAddr /\ RunAddr + Total(size) < AddrSpace
  BY <1>0, Layout
<1>2. \A a \in WordAddr : a \in Nat /\ a >= 0 BY <1>1 DEF WordAddr
<1>3. ram \in [WordAddr -> Int]
  <2>1. \A a \in WordAddr : LoadedTextStart <= a => LoaderBin(size, a - LoadedTextStart) \in Int
    BY <1>0, <1>1, <1>2, BinType
  <2> QED BY <2>1 DEF RelocateInit, Junk
<1>4. 0 \in WordAddr BY <1>1 DEF WordAddr
<1>5. RelocateTypeOK BY <1>0, <1>3, <1>4 DEF RelocateTypeOK, RelocateInit
<1>6. Image BY DEF Image, RelocateInit
<1>7. Moved BY <1>1, <1>2 DEF Moved, RelocateInit
<1> QED BY <1>1, <1>5, <1>6, <1>7 DEF LoopInv, RelocateInit, Pointers

\* Every step of start.S keeps it.
LEMMA StepLoop == LoopInv /\ [RelocateNext]_relocateVars => LoopInv'
<1> SUFFICES ASSUME LoopInv, [RelocateNext]_relocateVars PROVE LoopInv' OBVIOUS
<1>0. size \in Sizes /\ RelocateTypeOK BY DEF LoopInv, RelocateTypeOK
<1>1. /\ Total(size) \in Nat /\ Total(size) % 4 = 0
      /\ LoadedTextStart \in Nat /\ LoadedTextStart % 4 = 0
      /\ RunAddr \in Nat /\ RunAddr % 4 = 0 /\ AddrSpace \in Nat /\ AddrSpace % 4 = 0
      /\ LoadedEnd(size) = LoadedTextStart + Total(size)
      /\ LoadedTextStart + Total(size) <= RunAddr /\ RunAddr + Total(size) < AddrSpace
  BY <1>0, Layout
<1>2. \A a \in WordAddr : a \in Nat /\ a < AddrSpace /\ a % 4 = 0 BY <1>1 DEF WordAddr
<1>3. CASE Startup
  <2>1. LoadedTextStart \in WordAddr /\ LoadedTextStart + Total(size) \in WordAddr
        /\ RunAddr \in WordAddr
    <3>1. LoadedTextStart + Total(size) \in Words BY <1>1, SumOfWords DEF Words
    <3> QED BY <1>1, <3>1 DEF WordAddr, Words
  <2>2. RelocateTypeOK' BY <1>0, <1>1, <1>3, <2>1 DEF RelocateTypeOK, Startup
  <2>3. Image' BY <1>3 DEF LoopInv, Image, Startup
  <2>4. Pointers' BY <1>1, <1>3 DEF Pointers, Startup
  <2>5. Moved'
    <3>1. r5 \in Nat /\ r5 <= RunAddr
      BY <1>0, <1>2, <1>3 DEF LoopInv, RelocateTypeOK, Startup
    <3>2. size' = size /\ ram' = ram /\ r5' = RunAddr BY <1>3 DEF Startup
    <3>3. ASSUME NEW a \in WordAddr, a >= LoadedTextStart + Total(size)
          PROVE  ram[a] = Junk /\ ~ (RunAddr <= a /\ a < RunAddr)
      BY <1>1, <1>2, <3>1, <3>3 DEF LoopInv, Moved
    <3> QED BY <3>2, <3>3 DEF Moved
  <2> QED BY <1>3, <2>2, <2>3, <2>4, <2>5 DEF LoopInv, Startup
<1>4. CASE MoveLoop
  <2>0. r4 = LoadedTextStart + Total(size) /\ LoadedTextStart <= r3 /\ r3 < r4
        /\ r5 = RunAddr + (r3 - LoadedTextStart) /\ r3 \in WordAddr /\ r5 \in WordAddr
    BY <1>0, <1>1, <1>2, <1>4 DEF LoopInv, Pointers, MoveLoop, RelocateTypeOK
  <2>1. r3 \in Nat /\ r3 % 4 = 0 /\ r4 \in Nat /\ r4 % 4 = 0 /\ r5 \in Nat /\ r5 % 4 = 0
    BY <1>1, <1>2, <2>0
  <2>2. r3 + 4 <= r4 /\ r3 + 4 < AddrSpace /\ r5 + 4 < AddrSpace
        /\ r5 + 4 = RunAddr + ((r3 + 4) - LoadedTextStart)
    BY <1>1, <2>0, <2>1
  <2>3. r3' = r3 + 4 /\ r5' = r5 + 4 /\ r4' = r4 /\ size' = size /\ reloc' = "move"
        /\ ram' = [ram EXCEPT ![r5] = ram[r3]]
    BY <1>1, <1>4, <2>1, <2>2 DEF MoveLoop, Add
  <2>4. ram[r3] = LoaderBin(size, r3 - LoadedTextStart)
    BY <2>0 DEF LoopInv, Image
  <2>5. r3 + 4 \in WordAddr /\ r5 + 4 \in WordAddr
    BY <1>1, <2>1, <2>2 DEF WordAddr
  <2>6. RelocateTypeOK' BY <1>0, <1>4, <2>0, <2>3, <2>5 DEF RelocateTypeOK
  <2>7. Image'
    <3> SUFFICES ASSUME NEW a \in WordAddr, LoadedTextStart <= a, a < LoadedTextStart + Total(size)
                 PROVE  ram'[a] = LoaderBin(size, a - LoadedTextStart)
      BY <2>3 DEF Image
    <3>1. a # r5 BY <1>1, <1>2, <2>0
    <3>2. ram'[a] = ram[a] BY <1>0, <2>3, <3>1 DEF RelocateTypeOK
    <3> QED BY <3>2 DEF LoopInv, Image
  <2>8. Pointers' BY <1>1, <2>0, <2>1, <2>2, <2>3 DEF Pointers
  <2>9. Moved'
    <3> SUFFICES ASSUME NEW a \in WordAddr, a >= LoadedTextStart + Total(size)
                 PROVE  ram'[a] = IF RunAddr <= a /\ a < r5 + 4 THEN LoaderBin(size, a - RunAddr) ELSE Junk
      BY <2>3 DEF Moved
    <3>0. a \in Nat /\ a % 4 = 0 BY <1>2
    <3>1. CASE a = r5
      <4>1. ram'[a] = ram[r3] BY <1>0, <2>0, <2>3, <3>1 DEF RelocateTypeOK
      <4>2. a - RunAddr = r3 - LoadedTextStart BY <1>1, <2>0, <2>1, <3>1
      <4>3. RunAddr <= a /\ a < r5 + 4 BY <1>1, <2>0, <2>1, <3>1
      <4> QED BY <2>4, <4>1, <4>2, <4>3
    <3>2. CASE a # r5
      <4>1. ram'[a] = ram[a] BY <1>0, <2>3, <3>2 DEF RelocateTypeOK
      <4>2. a < r5 + 4 <=> a < r5 BY <2>1, <3>0, <3>2
      <4> QED BY <4>1, <4>2 DEF LoopInv, Moved
    <3> QED BY <3>1, <3>2
  <2> QED BY <2>3, <2>6, <2>7, <2>8, <2>9 DEF LoopInv
<1>5. CASE MoveDone
  BY <1>5 DEF MoveDone, LoopInv, RelocateTypeOK, Image, Pointers, Moved
<1>6. CASE UNCHANGED relocateVars
  BY <1>6 DEF relocateVars, LoopInv, RelocateTypeOK, Image, Pointers, Moved
<1> QED BY <1>3, <1>4, <1>5, <1>6 DEF RelocateNext

\* The invariant of the loop, throughout.
LEMMA LoopInvariant == RelocateSpec => []LoopInv
BY InitLoop, StepLoop, PTL DEF RelocateSpec

\* When _start is entered, all of the loader has arrived, its .bss zeroed, and
\* memory behind the image is otherwise as it was (_move_loop), for every size
\* of the sections that is a multiple of 4.
THEOREM LoaderIsMoved == RelocateSpec => []Relocated
<1>1. LoopInv => Relocated
  <2> SUFFICES ASSUME LoopInv, reloc = "run", NEW a \in WordAddr
               PROVE  IF RunAddr <= a /\ a < RunEnd(size)
                      THEN ram[a] = LoaderBin(size, a - RunAddr)
                      ELSE a >= LoadedTextStart + Total(size) => ram[a] = Junk
    BY DEF Relocated
  <2>1. size \in Sizes BY DEF LoopInv, RelocateTypeOK
  <2>2. /\ Total(size) \in Nat /\ LoadedTextStart \in Nat /\ RunAddr \in Nat /\ AddrSpace \in Nat
        /\ RunEnd(size) = RunAddr + Total(size) /\ LoadedTextStart + Total(size) <= RunAddr
    BY <2>1, Layout
  <2>3. a \in Nat BY <2>2 DEF WordAddr
  <2>4. r5 = RunEnd(size) BY <2>2 DEF LoopInv, Pointers
  <2> QED BY <2>2, <2>3, <2>4 DEF LoopInv, Moved
<1> QED BY <1>1, LoopInvariant, PTL

-----------------------------------------------------------------------------
(* The delay.  The invariant ties the counter to the time that has passed,  *)
(* and remembers that the loop was still waiting at its last look.          *)

\* Time passed since prev_cnt was read is what Waits computes.
Counted == Sub(counter, prev_cnt) = elapsed

\* The last reading of the counter, gap microseconds ago, found it too early, or
\* was the one that prev_cnt was taken from.
StillWaiting == gap <= elapsed /\ (elapsed - gap < micros \/ elapsed = gap)

DelayInv ==
  /\ TimerTypeOK
  /\ delay \in {"boot", "idle"} => elapsed = 0 /\ gap = 0
  /\ delay = "wait" => Counted /\ StillWaiting /\ micros \in Delays
  /\ DelayIsExact

\* The assumption on the constants, delay by delay.
LEMMA Range ==
  ASSUME NEW d \in Delays \cup {0}
  PROVE  /\ CounterRange \in Nat /\ CounterRange > 0 /\ MaxGap \in Nat /\ MaxGap > 0
         /\ (d \in Delays => d \in Nat /\ d + MaxGap < CounterRange)
         /\ d \in Nat
BY TimerAssumption

\* One tick moves an unsigned difference by one, wherever the counter wraps.
LEMMA IncSub ==
  ASSUME NEW a \in Counts, NEW b \in Counts, CounterRange \in Nat, CounterRange > 0
  PROVE  /\ Inc(a) \in Counts /\ Sub(a, b) \in Counts /\ Sub(a, a) = 0
         /\ Sub(a, b) + 1 < CounterRange => Sub(Inc(a), b) = Sub(a, b) + 1
BY DEF Counts, Inc, Sub

\* Every step keeps the invariant.
LEMMA StepDelay == DelayInv /\ [TimerNext]_timerVars => DelayInv'
<1> SUFFICES ASSUME DelayInv, [TimerNext]_timerVars PROVE DelayInv' OBVIOUS
<1>0. TimerTypeOK BY DEF DelayInv
<1>1. /\ CounterRange \in Nat /\ CounterRange > 0 /\ MaxGap \in Nat /\ MaxGap > 0
      /\ micros \in Nat /\ elapsed \in Nat /\ gap \in Nat /\ gap <= MaxGap
      /\ elapsed < CounterRange
  BY <1>0, Range DEF TimerTypeOK, Counts
<1>2. CASE TimerInit
  BY <1>1, <1>2 DEF TimerInit, callVars, DelayInv, TimerTypeOK, DelayIsExact
<1>3. ASSUME NEW m \in Delays, Enter(m) PROVE DelayInv'
  <2>1. Sub(counter, counter) = 0 BY <1>0, <1>1, IncSub DEF TimerTypeOK
  <2>2. m \in Nat BY Range
  <2> QED BY <1>1, <1>3, <2>1, <2>2
          DEF Enter, DelayInv, TimerTypeOK, Counts, Counted, StillWaiting, DelayIsExact
<1>4. CASE Tick
  <2>1. Inc(counter) \in Counts BY <1>0, <1>1, IncSub DEF TimerTypeOK
  <2>2. CASE delay = "wait"
    <3>1. gap < MaxGap /\ counter' = Inc(counter) /\ elapsed' = elapsed + 1 /\ gap' = gap + 1
          /\ prev_cnt' = prev_cnt /\ micros' = micros /\ delay' = delay /\ running' = running
      BY <1>4, <2>2 DEF Tick
    <3>2. Counted /\ StillWaiting BY <2>2 DEF DelayInv
    <3>3. elapsed + 1 < CounterRange
      <4>1. micros + MaxGap < CounterRange BY <2>2, Range DEF DelayInv
      <4> QED BY <1>1, <3>1, <3>2, <4>1 DEF StillWaiting
    <3>4. Sub(counter', prev_cnt') = elapsed'
      BY <1>0, <1>1, <3>1, <3>2, <3>3, IncSub DEF TimerTypeOK, Counted
    <3>5. StillWaiting' BY <1>1, <3>1, <3>2 DEF StillWaiting
    <3>6. TimerTypeOK' BY <1>0, <1>1, <2>1, <3>1, <3>3 DEF TimerTypeOK, Counts
    <3> QED BY <2>2, <3>1, <3>4, <3>5, <3>6 DEF DelayInv, Counted, DelayIsExact
  <2>3. CASE delay # "wait"
    BY <1>1, <1>4, <2>1, <2>3 DEF Tick, DelayInv, TimerTypeOK, DelayIsExact
  <2> QED BY <2>2, <2>3
<1>5. CASE Poll
  BY <1>1, <1>5 DEF Poll, DelayInv, TimerTypeOK, Counted, StillWaiting, DelayIsExact, Waits
<1>6. CASE Return
  BY <1>1, <1>6, TimerAssumption DEF Return, DelayInv, TimerTypeOK, Counts, DelayIsExact
<1>7. CASE ProgramReturns
  BY <1>1, <1>7 DEF ProgramReturns, callVars, DelayInv, TimerTypeOK, DelayIsExact
<1>8. CASE UNCHANGED timerVars
  BY <1>8 DEF timerVars, callVars, DelayInv, TimerTypeOK, Counted, StillWaiting, DelayIsExact
<1> QED BY <1>2, <1>3, <1>4, <1>5, <1>6, <1>7, <1>8 DEF TimerNext

\* The invariant of a delay, throughout.
LEMMA DelayInvariant == TimerSpec => []DelayInv
<1>1. TimerStart => DelayInv
  BY Range, TimerAssumption DEF TimerStart, DelayInv, TimerTypeOK, Counts, DelayIsExact
<1> QED BY <1>1, StepDelay, PTL DEF TimerSpec

\* Whatever the counter stands at when it begins, and however it wraps, the delay
\* lasts as long as asked for and at most one look at the counter longer
\* (timer_delay), for every range of the counter and every delay that leaves the
\* counter room to be looked at.
THEOREM DelayIsRight == TimerSpec => []DelayIsExact
<1>1. DelayInv => DelayIsExact BY DEF DelayInv
<1> QED BY <1>1, DelayInvariant, PTL

-----------------------------------------------------------------------------
(* The whole *)

\* A step of kmain or of the started program, as the registers see it.
RegistersNext ==
  OkledInit \/ UartInit \/ WdogStop \/ WaitForHeader \/ Received
  \/ Serve \/ HandleReboot \/ HandleExec \/ KernelLeaves

LEMMA Parts ==
  [Next]_vars => /\ [RelocateNext]_relocateVars /\ [TimerNext]_timerVars
                 /\ [RegistersNext]_registerVars
<1> SUFFICES ASSUME [Next]_vars
             PROVE  /\ [RelocateNext]_relocateVars /\ [TimerNext]_timerVars
                    /\ [RegistersNext]_registerVars
  OBVIOUS
<1>1. CASE StartUp BY <1>1 DEF StartUp
<1>2. CASE Time BY <1>2 DEF Time, TimerNext
<1>3. CASE Look BY <1>3 DEF Look, TimerNext
<1>4. CASE KMain
  <2>1. UNCHANGED relocateVars BY <1>4 DEF KMain
  <2>2. CASE (OkledInit \/ UartInit) /\ UNCHANGED timerVars BY <2>1, <2>2 DEF RegistersNext
  <2>3. CASE TimerInit /\ UNCHANGED registerVars BY <2>1, <2>3 DEF TimerNext
  <2>4. CASE (WdogStop \/ WaitForHeader \/ Received) /\ UNCHANGED timerVars
    BY <2>1, <2>4 DEF RegistersNext
  <2>5. CASE Command BY <2>1, <2>5 DEF Command, RegistersNext, TimerNext
  <2> QED BY <1>4, <2>2, <2>3, <2>4, <2>5 DEF KMain
<1>5. CASE Program BY <1>5 DEF Program, RegistersNext, TimerNext
<1>6. CASE UNCHANGED vars BY <1>6 DEF vars
<1> QED BY <1>1, <1>2, <1>3, <1>4, <1>5, <1>6 DEF Next

\* A run of the whole is one of start.S and one of the timer.
LEMMA SpecOfParts == Spec => RelocateSpec /\ TimerSpec
<1>1. Init => RelocateInit /\ TimerStart BY DEF Init
<1> QED BY <1>1, Parts, PTL DEF Spec, RelocateSpec, TimerSpec

\* The loader is moved whole before kmain begins, and stays there whatever kmain
\* does with the hardware (_move_loop), for every size of the sections.
THEOREM LoaderStaysMoved == Spec => []Relocated
BY SpecOfParts, LoaderIsMoved

\* A delay of handle_unknown is as long as asked for, however often the loader was
\* entered before and whatever programs did to the timer (timer_delay).
THEOREM DelaysAreRight == Spec => []DelayIsExact
BY SpecOfParts, DelayIsRight

-----------------------------------------------------------------------------
(* Registers *)

\* A field that is set has its new value, and others keep theirs.
LEMMA FieldIsSet ==
  ASSUME NEW reg, NEW off \in Nat, NEW value \in SUBSET (0 .. 2)
  PROVE  Field(SetField(reg, off, value), off) = value
<1>1. ASSUME NEW k \in 0 .. 2
      PROVE  off + k \in SetField(reg, off, value) <=> k \in value
  <2>1. off + k \in off .. off + 2 OBVIOUS
  <2>2. \A j \in value : off + j = off + k => j = k OBVIOUS
  <2> QED BY <2>1, <2>2 DEF SetField
<1> QED BY <1>1 DEF Field

LEMMA FieldIsKept ==
  ASSUME NEW reg, NEW off \in Nat, NEW other \in Nat, NEW value \in SUBSET (0 .. 2),
         off + 2 < other \/ other + 2 < off
  PROVE  Field(SetField(reg, off, value), other) = Field(reg, other)
<1>1. ASSUME NEW k \in 0 .. 2
      PROVE  other + k \in SetField(reg, off, value) <=> other + k \in reg
  <2>1. other + k \notin off .. off + 2 OBVIOUS
  <2>2. \A j \in value : off + j # other + k OBVIOUS
  <2> QED BY <2>1, <2>2 DEF SetField
<1> QED BY <1>1 DEF Field

LedField == IF board = "rpi" THEN Field(fsel1, FSEL16OFF) ELSE Field(fsel4, FSEL47OFF)

\* What each step of kmain has achieved when the next begins.
RegistersInv ==
  /\ board \in {"rpi", "rpi2"}
  /\ at \in {"enter", "led", "uart", "line", "wait", "serve", "kernel"}
  /\ at \in {"led", "uart", "line", "wait", "serve"} => LedField = Output
  /\ at \in {"uart", "line", "wait", "serve"} =>
       Field(fsel1, FSEL14OFF) = Alt0 /\ Field(fsel1, FSEL15OFF) = Alt0
  /\ at \in {"line", "wait", "serve"} => rstc \cap WRCFG \in {{}, FullReset}
  /\ LedShowsWaiting

LEMMA StepRegisters == RegistersInv /\ [RegistersNext]_registerVars => RegistersInv'
<1> SUFFICES ASSUME RegistersInv, [RegistersNext]_registerVars PROVE RegistersInv' OBVIOUS
<1>0. Output \in SUBSET (0 .. 2) /\ Alt0 \in SUBSET (0 .. 2) BY DEF Output, Alt0
<1>1. CASE OkledInit
  <2>1. board = "rpi" => Field(fsel1', FSEL16OFF) = Output
    BY <1>0, <1>1, FieldIsSet DEF OkledInit, FSEL16OFF
  <2>2. board # "rpi" => Field(fsel4', FSEL47OFF) = Output
    BY <1>0, <1>1, FieldIsSet DEF OkledInit, FSEL47OFF
  <2> QED BY <1>1, <2>1, <2>2 DEF OkledInit, RegistersInv, LedField, LedShowsWaiting
<1>2. CASE UartInit
  <2> DEFINE one == SetField(fsel1, FSEL14OFF, Alt0)
  <2>0. FSEL14OFF = 12 /\ FSEL15OFF = 15 /\ FSEL16OFF = 18 BY DEF FSEL14OFF, FSEL15OFF, FSEL16OFF
  <2>1. fsel1' = SetField(one, FSEL15OFF, Alt0) BY <1>2 DEF UartInit
  <2>2. Field(fsel1', FSEL15OFF) = Alt0 BY <1>0, <2>0, <2>1, FieldIsSet
  <2>3. Field(fsel1', FSEL14OFF) = Field(one, FSEL14OFF) BY <1>0, <2>0, <2>1, FieldIsKept
  <2>4. Field(one, FSEL14OFF) = Alt0 BY <1>0, <2>0, FieldIsSet
  <2>5. Field(fsel1', FSEL16OFF) = Field(one, FSEL16OFF) BY <1>0, <2>0, <2>1, FieldIsKept
  <2>6. Field(one, FSEL16OFF) = Field(fsel1, FSEL16OFF) BY <1>0, <2>0, FieldIsKept
  <2> HIDE DEF one
  <2>7. LedField' = LedField BY <1>2, <2>5, <2>6 DEF UartInit, LedField
  <2> QED BY <1>2, <2>2, <2>3, <2>4, <2>7 DEF UartInit, RegistersInv, LedShowsWaiting
<1>3. CASE WdogStop
  <2>1. rstc' \cap WRCFG = {} BY <1>3 DEF WdogStop, RSTC_RESET, WRCFG
  <2> QED BY <1>3, <2>1 DEF WdogStop, RegistersInv, LedField, LedShowsWaiting
<1>4. CASE WaitForHeader
  BY <1>4 DEF WaitForHeader, OkledSwitch, LedPin, RegistersInv, LedField, LedShowsWaiting
<1>5. CASE Received
  BY <1>5 DEF Received, OkledSwitch, LedPin, RegistersInv, LedField, LedShowsWaiting
<1>6. CASE Serve
  BY <1>6 DEF Serve, RegistersInv, LedField, LedShowsWaiting
<1>7. CASE HandleReboot
  <2>1. rstc' \cap WRCFG = FullReset BY <1>7 DEF HandleReboot, WdogStart, WRCFG, FullReset
  <2> QED BY <1>7, <2>1 DEF HandleReboot, RegistersInv, LedField, LedShowsWaiting
<1>8. CASE HandleExec
  BY <1>8 DEF HandleExec, RegistersInv, LedField, LedShowsWaiting
<1>9. CASE KernelLeaves
  BY <1>9 DEF KernelLeaves, RegistersInv, LedField, LedShowsWaiting
<1>10. CASE UNCHANGED registerVars
  BY <1>10 DEF registerVars, RegistersInv, LedField, LedShowsWaiting, LedPin
<1> QED BY <1>1, <1>2, <1>3, <1>4, <1>5, <1>6, <1>7, <1>8, <1>9, <1>10 DEF RegistersNext

LEMMA RegistersAreRight == Spec => []RegistersInv
<1>1. Init => RegistersInv
  BY RegistersAssumption DEF Init, RegistersInit, RegistersInv, LedShowsWaiting
<1> QED BY <1>1, Parts, StepRegisters, PTL DEF Spec

\* The UART and the LED have their pins whenever commands are read (okled_init,
\* uart_init), on either board and whatever a program left in the registers.
THEOREM PinsStayOurs == Spec => []PinsAreOurs
<1>1. RegistersInv => PinsAreOurs BY DEF RegistersInv, LedField, PinsAreOurs
<1> QED BY <1>1, RegistersAreRight, PTL

\* The LED is lit just while the loader waits (okled_switch), on either board.
THEOREM LedIsRight == Spec => []LedShowsWaiting
<1>1. RegistersInv => LedShowsWaiting BY DEF RegistersInv
<1> QED BY <1>1, RegistersAreRight, PTL

\* What a program wrote to the watchdog's control never mixes with the loader's
\* (wdog_stop, wdog_start).
THEOREM ResetStaysFull == Spec => []ResetIsFull
<1>1. RegistersInv => ResetIsFull BY DEF RegistersInv, ResetIsFull
<1> QED BY <1>1, RegistersAreRight, PTL

-----------------------------------------------------------------------------
(* The bits of the registers *)

RegistersTypeOK ==
  /\ at \in {"enter", "led", "uart", "line", "wait", "serve", "kernel"}
  /\ fsel1 \cup fsel4 \subseteq 0 .. 29 /\ latch \subseteq 0 .. 53 /\ rstc \subseteq 0 .. 23

\* A field that is set stays inside its register, and touches no bit beside it.
LEMMA OtherBitsKept ==
  ASSUME NEW reg, NEW off \in Nat, NEW value \in SUBSET (0 .. 2),
         NEW n, n \notin off .. off + 2
  PROVE  n \in SetField(reg, off, value) <=> n \in reg
BY DEF SetField

\* What a step of kmain writes to the two registers of pin functions.
LEMMA PinsWritten ==
  [RegistersNext]_registerVars /\ at # "kernel" =>
    /\ fsel1' \ (FSEL14OFF .. FSEL16OFF + 2) = fsel1 \ (FSEL14OFF .. FSEL16OFF + 2)
    /\ fsel4' \ (FSEL47OFF .. FSEL47OFF + 2) = fsel4 \ (FSEL47OFF .. FSEL47OFF + 2)
    /\ fsel1' \subseteq fsel1 \cup (FSEL14OFF .. FSEL16OFF + 2)
    /\ fsel4' \subseteq fsel4 \cup (FSEL47OFF .. FSEL47OFF + 2)
<1> SUFFICES ASSUME [RegistersNext]_registerVars, at # "kernel"
             PROVE  /\ fsel1' \ (12 .. 20) = fsel1 \ (12 .. 20)
                    /\ fsel4' \ (21 .. 23) = fsel4 \ (21 .. 23)
                    /\ fsel1' \subseteq fsel1 \cup (12 .. 20)
                    /\ fsel4' \subseteq fsel4 \cup (21 .. 23)
  BY DEF FSEL14OFF, FSEL16OFF, FSEL47OFF
<1>0. Output \in SUBSET (0 .. 2) /\ Alt0 \in SUBSET (0 .. 2) BY DEF Output, Alt0
<1>1. CASE OkledInit
  <2>1. \/ fsel1' = SetField(fsel1, 18, Output) /\ fsel4' = fsel4
        \/ fsel4' = SetField(fsel4, 21, Output) /\ fsel1' = fsel1
    BY <1>1 DEF OkledInit, FSEL16OFF, FSEL47OFF
  <2>2. \A n : n \notin 12 .. 20 => (n \in SetField(fsel1, 18, Output) <=> n \in fsel1)
    BY <1>0, OtherBitsKept
  <2>3. \A n : n \notin 21 .. 23 => (n \in SetField(fsel4, 21, Output) <=> n \in fsel4)
    BY <1>0, OtherBitsKept
  <2> QED BY <2>1, <2>2, <2>3
<1>2. CASE UartInit
  <2> DEFINE one == SetField(fsel1, 12, Alt0)
  <2>1. fsel1' = SetField(one, 15, Alt0) /\ fsel4' = fsel4
    BY <1>2 DEF UartInit, FSEL14OFF, FSEL15OFF
  <2>2. \A n : n \notin 12 .. 20 => (n \in one <=> n \in fsel1)
    BY <1>0, OtherBitsKept
  <2> HIDE DEF one
  <2>3. \A n : n \notin 12 .. 20 => (n \in SetField(one, 15, Alt0) <=> n \in one)
    BY <1>0, OtherBitsKept
  <2> QED BY <2>1, <2>2, <2>3
<1>3. CASE fsel1' = fsel1 /\ fsel4' = fsel4
  BY <1>3
<1>4. OkledInit \/ UartInit \/ (fsel1' = fsel1 /\ fsel4' = fsel4)
  BY DEF RegistersNext, registerVars, WdogStop, WaitForHeader, Received, Serve, HandleReboot,
         HandleExec, KernelLeaves
<1> QED BY <1>1, <1>2, <1>3, <1>4

LEMMA RegistersType == RegistersTypeOK /\ [RegistersNext]_registerVars => RegistersTypeOK'
<1> SUFFICES ASSUME RegistersTypeOK, [RegistersNext]_registerVars PROVE RegistersTypeOK' OBVIOUS
<1>1. CASE KernelLeaves
  BY <1>1, RegistersAssumption DEF KernelLeaves, Leave, RegistersTypeOK
<1>2. CASE ~ KernelLeaves
  <2>1. at' \in {"enter", "led", "uart", "line", "wait", "serve", "kernel"}
    BY <1>2 DEF RegistersTypeOK, RegistersNext, registerVars, OkledInit, UartInit, WdogStop,
                WaitForHeader, Received, Serve, HandleReboot, HandleExec
  <2>2. fsel1' \subseteq 0 .. 29 /\ fsel4' \subseteq 0 .. 29
    <3>1. CASE at # "kernel"
      <4>1. fsel1' \subseteq fsel1 \cup (12 .. 20) /\ fsel4' \subseteq fsel4 \cup (21 .. 23)
        BY <3>1, PinsWritten DEF FSEL14OFF, FSEL16OFF, FSEL47OFF
      <4> QED BY <4>1 DEF RegistersTypeOK
    <3>2. CASE at = "kernel"
      BY <1>2, <3>2 DEF RegistersTypeOK, RegistersNext, registerVars, OkledInit, UartInit, WdogStop,
                        WaitForHeader, Received, Serve, HandleReboot, HandleExec
    <3> QED BY <3>1, <3>2
  <2>3. latch' \subseteq 0 .. 53
    <3>1. latch' \subseteq latch \cup {15, 16, 47}
      BY <1>2 DEF RegistersNext, registerVars, OkledInit, UartInit, WdogStop, WaitForHeader,
                  Received, Serve, HandleReboot, HandleExec, OkledSwitch, LedPin
    <3> QED BY <3>1 DEF RegistersTypeOK
  <2>4. rstc' \subseteq 0 .. 23
    <3>1. rstc' \subseteq rstc \cup {1, 5, 8}
      BY <1>2 DEF RegistersNext, registerVars, OkledInit, UartInit, WdogStop, WaitForHeader,
                  Received, Serve, HandleReboot, HandleExec, WdogStart, RSTC_RESET, FullReset
    <3> QED BY <3>1 DEF RegistersTypeOK
  <2> QED BY <2>1, <2>2, <2>3, <2>4 DEF RegistersTypeOK
<1> QED BY <1>1, <1>2

\* Memory, timer and registers hold what they can hold, throughout (start.S,
\* timer.c, okled.c, uart.c, wdog.c): r3 and r5 stay addresses in memory, and
\* no bit is set beside those that a register has.
THEOREM DriversTypeCorrect == Spec => []DriversTypeOK
<1>1. Init => RegistersTypeOK
  BY RegistersAssumption DEF Init, RegistersInit, RegistersTypeOK
<1>2. Spec => []RegistersTypeOK
  BY <1>1, Parts, RegistersType, PTL DEF Spec
<1>3. LoopInv /\ DelayInv /\ RegistersTypeOK => DriversTypeOK
  BY DEF LoopInv, DelayInv, RegistersTypeOK, DriversTypeOK
<1> QED BY <1>2, <1>3, SpecOfParts, LoopInvariant, DelayInvariant, PTL

\* kmain never changes the function of a pin that is not the loader's, on any
\* path and however often it is entered (okled_init, uart_init).
THEOREM OthersKeepTheirPins == Spec => OtherPinsKept
<1>1. [Next]_vars =>
        [at # "kernel" =>
           /\ fsel1' \ (FSEL14OFF .. FSEL16OFF + 2) = fsel1 \ (FSEL14OFF .. FSEL16OFF + 2)
           /\ fsel4' \ (FSEL47OFF .. FSEL47OFF + 2) = fsel4 \ (FSEL47OFF .. FSEL47OFF + 2)]_registerVars
  BY Parts, PinsWritten
<1> QED BY <1>1, PTL DEF Spec, OtherPinsKept

=============================================================================
