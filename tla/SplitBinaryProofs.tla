--------------------------- MODULE SplitBinaryProofs ---------------------------
(***************************************************************************)
(* Proofs about SplitBinary: for every file, every least size of a chunk   *)
(* of zeros and every first size of the array, the parts are the file and  *)
(* what is uploaded is the file.                                           *)
(***************************************************************************)
EXTENDS SplitBinary, SequenceTheorems, TLAPS

-----------------------------------------------------------------------------
(* The invariant *)

\* The parts, and the terminator behind them, follow each other through the words
\* read so far.
Follow ==
  /\ parts[1].addr = 0 /\ Begins(1) = 0
  /\ Ends(Len(parts)) = data_idx
  /\ \A n \in 1 .. Len(parts) - 1 : Ends(n) = Begins(n + 1)
  /\ \A n \in 1 .. Len(parts) : Ends(n) <= data_idx

Describe ==
  \A n \in 1 .. Len(parts) :
    IF parts[n].addr = Null THEN \A k \in Begins(n) + 1 .. Ends(n) : file.words[k] = 0
                            ELSE parts[n].addr = Begins(n)

\* Only the first part may be empty, and then zeros come next.
Sizes ==
  /\ \A n \in 2 .. Pieces : parts[n].size > 0
  /\ parts[1].size = 0 /\ Len(parts) > 1 => parts[2].addr = Null
  /\ \A n \in 2 .. Pieces - 1 : parts[n].addr = Null => parts[n].size >= MinZeros

\* What the loop of split_binary knows: zeros come behind a part with data.
Loop ==
  /\ zero = (Current.addr = Null)
  /\ zero => Len(parts) > 1 /\ parts[Len(parts) - 1].addr # Null
  /\ i = 1

Terminated ==
  /\ data_idx = Len(file.words) /\ Len(parts) > 1
  /\ Current.addr = Null /\ Current.size = 0

PartsInv ==
  /\ PartsTypeOK /\ PartsFit /\ part_size > 0
  /\ Follow /\ Describe /\ Sizes
  /\ stage = "split" => Loop
  /\ stage # "split" => Terminated
  /\ stage = "loaded" => parts[i].size = 0

\* The words before part i are uploaded.
Uploaded ==
  /\ e_load = LoadAddr + Begins(i)
  /\ Holds(SubSeq(file.words, 1, Begins(i)), LoadAddr)

SplitInv == PartsInv /\ SplitTypeOK /\ Uploaded

-----------------------------------------------------------------------------
(* The array of parts *)

\* The array has room for one more element once allocate_parts has run.
LEMMA GrowFits ==
  ASSUME NEW n \in Nat, NEW m \in Nat, m > 0, n <= m
  PROVE  Grow(n + 1, m) \in Nat /\ n + 1 <= Grow(n + 1, m) /\ Grow(n + 1, m) > 0
BY DEF Grow

\* A part is added at the end.
LEMMA AddedPart ==
  ASSUME NEW s \in Seq(Part), NEW p \in Part
  PROVE  LET t == Append(s, p)
         IN  /\ t \in Seq(Part) /\ Len(t) = Len(s) + 1
             /\ t[Len(s) + 1] = p /\ \A n \in 1 .. Len(s) : t[n] = s[n]
BY AppendProperties

\* A part that grows stays where it is.
LEMMA LongerPart ==
  ASSUME NEW p \in Part, NEW k \in Nat
  PROVE  /\ Longer(p, k) \in Part /\ Longer(p, k).size = p.size + k
         /\ Longer(p, k).addr = p.addr /\ Longer(p, k).from = p.from
<1>1. p.addr \in Nat \cup {Null} /\ p.size \in Nat /\ p.from \in Nat BY DEF Part
<1>2. p.size + k \in Nat BY <1>1
<1> QED BY <1>1, <1>2 DEF Part, Longer

\* The last part of the first m grows by k words, the others go.
LEMMA GrownPart ==
  ASSUME NEW s \in Seq(Part), NEW m \in 1 .. Len(s), NEW k \in Nat
  PROVE  LET t == GrowPart(s, m, k)
         IN  /\ t \in Seq(Part) /\ Len(t) = m
             /\ \A n \in 1 .. m : t[n].addr = s[n].addr /\ t[n].from = s[n].from
             /\ t[m].size = s[m].size + k
             /\ \A n \in 1 .. m - 1 : t[n].size = s[n].size
<1> DEFINE t == GrowPart(s, m, k)
           u == SubSeq(s, 1, m)
<1>0. Len(s) \in Nat /\ m \in Nat /\ m >= 1 /\ m <= Len(s) BY LenProperties
<1>1. u \in Seq(Part) /\ Len(u) = m /\ \A n \in 1 .. m : u[n] = s[n]
  BY <1>0, SubSeqProperties
<1>2. t = [u EXCEPT ![m] = Longer(u[m], k)] BY DEF GrowPart
<1> HIDE DEF t, u
<1>3. m \in 1 .. Len(u) /\ u[m] \in Part /\ s[m] \in Part /\ u[m] = s[m]
  BY <1>0, <1>1, ElementOfSeq
<1>4. Longer(u[m], k) \in Part BY <1>3, LongerPart
<1>5. t \in Seq(Part) /\ Len(t) = m BY <1>1, <1>2, <1>3, <1>4, ExceptSeq
<1>6. t[m] = Longer(s[m], k) /\ \A n \in 1 .. m - 1 : t[n] = s[n]
  BY <1>0, <1>1, <1>2, <1>3, ExceptSeq
<1>7. \A n \in 1 .. m : n \in 1 .. m - 1 \/ n = m BY <1>0
<1>8. t[m].size = s[m].size + k /\ t[m].addr = s[m].addr /\ t[m].from = s[m].from
  BY <1>3, <1>6, LongerPart, ZenonT(30)
<1>9. \A n \in 1 .. m : t[n].addr = s[n].addr /\ t[n].from = s[n].from
  BY <1>6, <1>7, <1>8
<1>10. \A n \in 1 .. m - 1 : t[n].size = s[n].size BY <1>6
<1> QED BY <1>5, <1>8, <1>9, <1>10 DEF t

-----------------------------------------------------------------------------
(* split_binary *)

\* What the types say, number by number.
LEMMA Facts ==
  ASSUME PartsTypeOK
  PROVE  /\ file.words \in Seq(Nat) /\ Len(file.words) \in Nat
         /\ data_idx \in Nat /\ data_idx <= Len(file.words)
         /\ Len(parts) \in Nat /\ Len(parts) > 0 /\ i \in Nat /\ i >= 1 /\ i <= Len(parts)
         /\ part_size \in Nat /\ LoadAddr \in Nat /\ AddrSpace \in Nat
         /\ LoadAddr + Len(file.words) <= AddrSpace
         /\ MinZeros \in Nat /\ MinZeros > 0
         /\ \A n \in 1 .. Len(parts) : /\ parts[n] \in Part /\ parts[n].size \in Nat
                                       /\ parts[n].from \in Nat
<1>1. file \in Binaries /\ file.words \in Seq(Nat) BY SplitAssumption DEF PartsTypeOK
<1>2. \A n \in 1 .. Len(parts) : parts[n] \in Part BY ElementOfSeq DEF PartsTypeOK
<1>3. Len(parts) \in Nat /\ Len(file.words) \in Nat BY <1>1, LenProperties DEF PartsTypeOK
<1>4. LoadAddr + Len(file.words) <= AddrSpace BY <1>1, SplitAssumption
<1>5. \A n \in 1 .. Len(parts) : parts[n].size \in Nat /\ parts[n].from \in Nat
  BY <1>2 DEF Part
<1>6. data_idx \in Nat /\ data_idx <= Len(file.words) /\ Len(parts) > 0
      /\ i \in Nat /\ i >= 1 /\ i <= Len(parts) /\ part_size \in Nat
  BY <1>3 DEF PartsTypeOK
<1>7. LoadAddr \in Nat /\ AddrSpace \in Nat /\ MinZeros \in Nat /\ MinZeros > 0
  BY SplitAssumption
<1> QED BY <1>1, <1>2, <1>3, <1>4, <1>5, <1>6, <1>7

\* The loop takes in word data_idx by growing part m, the parts behind it given up.
LEMMA GrowStep ==
  ASSUME PartsInv, InLoop, NextWord,
         NEW m \in 1 .. Len(parts), NEW k \in Nat, k > 0,
         parts' = GrowPart(parts, m, k),
         part_size' = part_size, Ends(m) + k = data_idx + 1,
         parts[m].addr = Null => \A j \in Ends(m) + 1 .. data_idx + 1 : file.words[j] = 0,
         zero' = (parts[m].addr = Null),
         zero' => m = Len(parts)
  PROVE  PartsInv'
<1>0. PartsTypeOK /\ PartsFit /\ part_size > 0 /\ Follow /\ Describe /\ Sizes /\ Loop
      /\ stage = "split" /\ data_idx < Len(file.words)
  BY DEF PartsInv, InLoop
<1>1. /\ data_idx' = data_idx + 1 /\ stage' = stage /\ file' = file /\ i' = i
  BY DEF NextWord
<1>2. /\ data_idx \in Nat /\ Len(file.words) \in Nat /\ Len(parts) \in Nat /\ part_size \in Nat
      /\ m \in Nat /\ m >= 1 /\ m <= Len(parts)
      /\ \A n \in 1 .. Len(parts) : parts[n].size \in Nat /\ parts[n].from \in Nat
  <2>1. PartsTypeOK /\ m \in 1 .. Len(parts) BY <1>0
  <2>2. /\ data_idx \in Nat /\ Len(file.words) \in Nat /\ Len(parts) \in Nat /\ part_size \in Nat
        /\ \A n \in 1 .. Len(parts) : parts[n].size \in Nat /\ parts[n].from \in Nat
    BY ONLY <2>1, Facts
  <2> QED BY ONLY <2>1, <2>2
<1>3. /\ parts' \in Seq(Part) /\ Len(parts') = m
      /\ \A n \in 1 .. m : parts'[n].addr = parts[n].addr /\ parts'[n].from = parts[n].from
      /\ parts'[m].size = parts[m].size + k
      /\ \A n \in 1 .. m - 1 : parts'[n].size = parts[n].size
  <2>1. parts \in Seq(Part) BY <1>0 DEF PartsTypeOK
  <2>2. parts' = GrowPart(parts, m, k) OBVIOUS
  <2>3. m \in 1 .. Len(parts) /\ k \in Nat OBVIOUS
  <2> QED BY ONLY <2>1, <2>2, <2>3, GrownPart
<1>4. PartsTypeOK'
  <2>1. zero' \in BOOLEAN OBVIOUS
  <2>2. i' \in 1 .. Len(parts') BY <1>0, <1>1, <1>2, <1>3 DEF Loop
  <2>3. data_idx' \in 0 .. Len(file'.words) BY <1>0, <1>1, <1>2
  <2> QED BY <1>0, <1>1, <1>2, <1>3, <2>1, <2>2, <2>3 DEF PartsTypeOK
<1>5. PartsFit' /\ (part_size > 0)' BY <1>0, <1>2, <1>3 DEF PartsFit
<1>6. Follow'
  <2>1. parts'[1].addr = 0 /\ parts'[1].from = 0 BY <1>0, <1>2, <1>3 DEF Follow, Begins
  <2>2. parts'[m].from + parts'[m].size = data_idx + 1
    <3>1. parts[m].size \in Nat /\ parts[m].from \in Nat /\ m \in 1 .. m BY <1>2
    <3> QED BY <1>2, <1>3, <3>1 DEF Ends
  <2>3. \A n \in 1 .. m - 1 : parts'[n].from + parts'[n].size = parts'[n + 1].from
    <3> TAKE n \in 1 .. m - 1
    <3>1. n \in 1 .. Len(parts) - 1 /\ n \in 1 .. m /\ n + 1 \in 1 .. m BY <1>2
    <3> QED BY <1>0, <1>3, <3>1 DEF Follow, Begins, Ends
  <2>4. ASSUME NEW n \in 1 .. m PROVE parts'[n].from + parts'[n].size <= data_idx + 1
    <3>1. CASE n = m BY <1>2, <2>2, <3>1
    <3>2. CASE n # m
      <4>1. n \in 1 .. m - 1 /\ n \in 1 .. Len(parts) BY <1>2, <3>2
      <4>2. parts[n].from + parts[n].size <= data_idx BY <1>0, <4>1 DEF Follow, Ends
      <4>3. parts'[n].from = parts[n].from /\ parts'[n].size = parts[n].size BY <1>3, <4>1
      <4> QED BY <1>2, <4>1, <4>2, <4>3
    <3> QED BY <3>1, <3>2
  <2> QED BY <1>1, <1>3, <2>1, <2>2, <2>3, <2>4 DEF Follow, Begins, Ends
<1>7. Describe'
  <2> SUFFICES ASSUME NEW n \in 1 .. m
               PROVE  IF parts[n].addr = Null
                      THEN \A j \in parts[n].from + 1 .. parts[n].from + parts'[n].size :
                             file.words[j] = 0
                      ELSE parts[n].addr = parts[n].from
    BY <1>1, <1>3 DEF Describe, Begins, Ends
  <2>1. n \in 1 .. Len(parts) BY <1>2
  <2>2. CASE n = m
    <3>1. parts[n].from \in Nat /\ parts[n].size \in Nat BY <1>2, <2>1
    <3>2. parts[n].from + parts'[n].size = data_idx + 1 BY <1>2, <1>3, <2>2 DEF Ends
    <3>3. ASSUME parts[n].addr = Null, NEW j \in parts[n].from + 1 .. data_idx + 1
          PROVE  file.words[j] = 0
      <4>1. CASE j <= parts[n].from + parts[n].size
        BY <1>0, <1>2, <2>1, <3>1, <3>3, <4>1 DEF Describe, Begins, Ends
      <4>2. CASE j > parts[n].from + parts[n].size
        BY <1>2, <2>2, <3>1, <3>3, <4>2, SMTT(30) DEF Ends
      <4> QED BY <3>1, <4>1, <4>2
    <3>4. parts[n].addr # Null => parts[n].addr = parts[n].from
      BY <1>0, <2>1 DEF Describe, Begins
    <3> QED BY <3>2, <3>3, <3>4
  <2>3. CASE n # m
    <3>1. n \in 1 .. m - 1 BY <1>2, <2>3
    <3>2. parts'[n].size = parts[n].size BY <1>3, <3>1
    <3> QED BY <1>0, <2>1, <3>2 DEF Describe, Begins, Ends
  <2> QED BY <2>2, <2>3
<1>8. Sizes'
  <2>0. Pieces = Len(parts) /\ Pieces' = m BY <1>0, <1>1, <1>3 DEF Pieces
  <2>1. ASSUME NEW n \in 2 .. m PROVE parts'[n].size > 0
    <3>1. CASE n = m BY <1>2, <1>3, <3>1
    <3>2. CASE n # m
      <4>1. n \in 1 .. m - 1 /\ n \in 2 .. Len(parts) BY <1>2, <3>2
      <4> QED BY <1>0, <1>3, <2>0, <4>1 DEF Sizes
    <3> QED BY <3>1, <3>2
  <2>2. parts'[1].size = 0 /\ m > 1 => parts'[2].addr = Null
    <3> SUFFICES ASSUME parts'[1].size = 0, m > 1 PROVE parts'[2].addr = Null OBVIOUS
    <3>1. 1 \in 1 .. m - 1 /\ 2 \in 1 .. m BY <1>2
    <3>2. parts[1].size = 0 BY <1>3, <3>1
    <3> QED BY <1>0, <1>2, <1>3, <3>1, <3>2 DEF Sizes
  <2>3. ASSUME NEW n \in 2 .. m - 1, parts'[n].addr = Null PROVE parts'[n].size >= MinZeros
    <3>1. n \in 1 .. m /\ n \in 1 .. m - 1 /\ n \in 2 .. Len(parts) - 1 BY <1>2
    <3> QED BY <1>0, <1>3, <2>0, <2>3, <3>1 DEF Sizes
  <2> QED BY <1>3, <2>0, <2>1, <2>2, <2>3 DEF Sizes
<1>9. Loop'
  <2>1. zero' = (parts'[Len(parts')].addr = Null) BY <1>2, <1>3
  <2>2. zero' => Len(parts') > 1 /\ parts'[Len(parts') - 1].addr # Null
    <3> SUFFICES ASSUME zero' PROVE m > 1 /\ parts'[m - 1].addr # Null BY <1>3
    <3>1. m = Len(parts) OBVIOUS
    <3>2. zero BY <1>0, <3>1 DEF Loop, Current
    <3>3. m > 1 /\ parts[m - 1].addr # Null BY <1>0, <3>1, <3>2 DEF Loop
    <3>4. m - 1 \in 1 .. m BY <1>2, <3>3
    <3> QED BY <1>3, <3>3, <3>4
  <2> QED BY <1>0, <1>1, <2>1, <2>2 DEF Loop, Current
<1> QED BY <1>0, <1>1, <1>4, <1>5, <1>6, <1>7, <1>8, <1>9 DEF PartsInv

\* A part of n words is added behind the others.
LEMMA AddStep ==
  ASSUME PartsInv, stage = "split", NEW ad \in Nat \cup {Null}, NEW n \in {0, 1},
         AddPart(ad, n), UNCHANGED <<file, i>>, zero' \in BOOLEAN,
         data_idx' = data_idx + n, data_idx + n <= Len(file.words),
         IF ad = Null THEN \A j \in data_idx + 1 .. data_idx + n : file.words[j] = 0
                      ELSE ad = data_idx,
         Len(parts) = 1 => ad = Null,
         \/ /\ stage' = "split" /\ n = 1 /\ zero' = (ad = Null)
            /\ IF ad = Null THEN Current.addr # Null ELSE Current.size >= MinZeros
         \/ stage' = "upload" /\ n = 0 /\ ad = Null /\ data_idx = Len(file.words)
  PROVE  PartsInv'
<1> DEFINE L == Len(parts)
           p == [addr |-> ad, size |-> n, from |-> data_idx]
<1>0. PartsTypeOK /\ PartsFit /\ part_size > 0 /\ Follow /\ Describe /\ Sizes /\ Loop
  BY DEF PartsInv
<1>1. file' = file /\ i' = i OBVIOUS
<1>2. /\ data_idx \in Nat /\ Len(file.words) \in Nat /\ L \in Nat /\ L > 0 /\ part_size \in Nat
      /\ \A k \in 1 .. L : parts[k].size \in Nat /\ parts[k].from \in Nat
  BY <1>0, Facts
<1>3. p \in Part /\ parts \in Seq(Part) BY <1>0, <1>2 DEF Part, PartsTypeOK
<1>4. parts' = Append(parts, p) /\ part_size' = Grow(L + 1, part_size) BY DEF AddPart
<1>5. /\ parts' \in Seq(Part) /\ Len(parts') = L + 1
      /\ parts'[L + 1] = p /\ \A k \in 1 .. L : parts'[k] = parts[k]
  BY <1>3, <1>4, AddedPart
<1>6. parts'[L + 1].addr = ad /\ parts'[L + 1].size = n /\ parts'[L + 1].from = data_idx
  BY <1>5
<1> HIDE DEF p, L
<1>7. L + 1 <= part_size' /\ part_size' \in Nat /\ part_size' > 0
  BY <1>0, <1>2, <1>4, GrowFits DEF PartsFit, L
<1>8. PartsTypeOK'
  <2>1. i' \in 1 .. Len(parts') BY <1>0, <1>2, <1>5 DEF Loop
  <2>2. data_idx' \in 0 .. Len(file'.words) BY <1>2
  <2>3. stage' \in {"split", "upload", "loaded"} OBVIOUS
  <2>4. Len(parts') > 0 BY <1>2, <1>5
  <2> QED BY <1>0, <1>1, <1>5, <1>7, <2>1, <2>2, <2>3, <2>4 DEF PartsTypeOK
<1>9. PartsFit' /\ (part_size > 0)' BY <1>5, <1>7 DEF PartsFit
<1>10. Follow'
  <2>1. parts'[1].addr = 0 /\ parts'[1].from = 0 BY <1>0, <1>2, <1>5 DEF Follow, Begins
  <2>2. ASSUME NEW k \in 1 .. L PROVE parts'[k].from + parts'[k].size = parts'[k + 1].from
    <3>1. parts'[k] = parts[k] BY <1>5
    <3>2. CASE k = L BY <1>0, <1>6, <3>1, <3>2 DEF Follow, Ends, L
    <3>3. CASE k # L
      <4>1. k \in 1 .. L - 1 /\ k + 1 \in 1 .. L BY <1>2, <3>3
      <4> QED BY <1>0, <1>5, <3>1, <4>1 DEF Follow, Begins, Ends, L
    <3> QED BY <3>2, <3>3
  <2>3. Len(parts') - 1 = L BY <1>2, <1>5
  <2>4. parts'[L + 1].from + parts'[L + 1].size = data_idx' BY <1>6
  <2>5. ASSUME NEW k \in 1 .. L + 1 PROVE parts'[k].from + parts'[k].size <= data_idx'
    <3>1. data_idx <= data_idx' /\ data_idx' \in Nat BY <1>2
    <3>2. CASE k = L + 1 BY <2>4, <3>1, <3>2
    <3>3. CASE k # L + 1
      <4>1. k \in 1 .. L BY <1>2, <3>3
      <4>2. parts[k].from + parts[k].size <= data_idx BY <1>0, <4>1 DEF Follow, Ends, L
      <4> QED BY <1>2, <1>5, <3>1, <4>1, <4>2
    <3> QED BY <3>2, <3>3
  <2>6. \A k \in 1 .. Len(parts') - 1 : parts'[k].from + parts'[k].size = parts'[k + 1].from
    BY <2>2, <2>3
  <2>7. \A k \in 1 .. Len(parts') : parts'[k].from + parts'[k].size <= data_idx'
    BY <1>5, <2>5
  <2>8. parts'[Len(parts')].from + parts'[Len(parts')].size = data_idx' BY <1>5, <2>4
  <2> QED BY <2>1, <2>6, <2>7, <2>8 DEF Follow, Begins, Ends
<1>11. Describe'
  <2> SUFFICES ASSUME NEW k \in 1 .. L + 1
               PROVE  IF parts'[k].addr = Null
                      THEN \A j \in parts'[k].from + 1 .. parts'[k].from + parts'[k].size :
                             file.words[j] = 0
                      ELSE parts'[k].addr = parts'[k].from
    BY <1>1, <1>5 DEF Describe, Begins, Ends
  <2>1. CASE k = L + 1 BY <1>6, <2>1
  <2>2. CASE k # L + 1
    <3>1. k \in 1 .. L BY <1>2, <2>2
    <3> QED BY <1>0, <1>5, <3>1 DEF Describe, Begins, Ends, L
  <2> QED BY <2>1, <2>2
<1>12. Sizes'
  <2>0. Pieces = L BY DEF Pieces, L
  <2>1. Pieces' = IF stage' = "split" THEN L + 1 ELSE L BY <1>2, <1>5 DEF Pieces
  <2>2. ASSUME NEW k \in 2 .. Pieces' PROVE parts'[k].size > 0
    <3>1. CASE k \in 1 .. L BY <1>0, <1>2, <1>5, <2>0, <3>1 DEF Sizes
    <3>2. CASE k = L + 1 /\ stage' = "split" BY <1>6, <3>2
    <3> QED BY <1>2, <2>1, <3>1, <3>2
  <2>3. parts'[1].size = 0 => parts'[2].addr = Null
    <3>1. parts'[1] = parts[1] BY <1>2, <1>5
    <3>2. CASE L = 1 BY <1>6, <3>2 DEF L
    <3>3. CASE L > 1
      <4>1. 2 \in 1 .. L BY <1>2, <3>3
      <4> QED BY <1>0, <1>5, <3>1, <3>3, <4>1 DEF Sizes, L
    <3> QED BY <1>2, <3>2, <3>3
  <2>4. ASSUME NEW k \in 2 .. Pieces' - 1, parts'[k].addr = Null
        PROVE  parts'[k].size >= MinZeros
    <3>1. k \in 1 .. L /\ k >= 2 BY <1>2, <2>1
    <3>2. parts'[k] = parts[k] BY <1>5, <3>1
    <3>3. CASE k <= L - 1
      <4>1. k \in 2 .. L - 1 BY <1>2, <3>1, <3>3
      <4> QED BY <1>0, <2>0, <2>4, <3>2, <4>1 DEF Sizes
    <3>4. CASE k = L
      <4>1. stage' = "split" BY <1>2, <2>1, <3>4
      <4> QED BY <2>4, <3>2, <3>4, <4>1 DEF Current, L
    <3> QED BY <1>2, <3>1, <3>3, <3>4
  <2> QED BY <2>2, <2>3, <2>4 DEF Sizes
<1>13. ASSUME stage' = "split" PROVE Loop'
  <2>1. zero' = (ad = Null) BY <1>13
  <2>2. L + 1 - 1 = L /\ L \in 1 .. L /\ L + 1 > 1 BY <1>2
  <2>3. zero' => parts'[L].addr # Null BY <1>5, <1>13, <2>1, <2>2 DEF Current, L
  <2> QED BY <1>0, <1>1, <1>5, <1>6, <2>1, <2>2, <2>3 DEF Loop, Current
<1>14. stage' # "split" => Terminated'
  BY <1>1, <1>2, <1>5, <1>6 DEF Terminated, Current
<1>15. stage' # "loaded" OBVIOUS
<1> QED BY <1>8, <1>9, <1>10, <1>11, <1>12, <1>13, <1>14, <1>15 DEF PartsInv

-----------------------------------------------------------------------------
(* load_binary *)

\* What load_binary starts with.
LEMMA LoadingParts == (\E b \in Binaries : Loading(b)) => PartsInv
<1> SUFFICES ASSUME NEW b \in Binaries, Loading(b) PROVE PartsInv OBVIOUS
<1>2. parts = <<FirstPart>> /\ FirstPart \in Part /\ parts \in Seq(Part) /\ Len(parts) = 1
      /\ parts[1] = FirstPart
  BY DEF Loading, FirstPart, Part
<1>3. parts[1].addr = 0 /\ parts[1].size = 0 /\ parts[1].from = 0 BY <1>2 DEF FirstPart
<1>4. b.words \in Seq(Nat) /\ Len(b.words) \in Nat BY SplitAssumption, LenProperties
<1>5. PartsTypeOK
  <2>1. part_size \in Nat BY SplitAssumption DEF Loading
  <2>2. i \in 1 .. Len(parts) /\ data_idx \in 0 .. Len(file.words)
    BY <1>2, <1>4 DEF Loading
  <2>3. stage = "split" /\ file \in Binaries /\ zero = FALSE BY DEF Loading
  <2>4. parts \in Seq(Part) /\ Len(parts) > 0 BY <1>2
  <2> QED BY <2>1, <2>2, <2>3, <2>4 DEF PartsTypeOK
<1>6. part_size > 0 /\ PartsFit BY <1>2, SplitAssumption DEF Loading, PartsFit
<1>7. Follow BY <1>2, <1>3 DEF Follow, Begins, Ends, Loading
<1>8. Describe BY <1>2, <1>3 DEF Describe, Begins, Ends, Null
<1>9. Sizes BY <1>2 DEF Sizes, Pieces, Loading
<1>10. Loop
  <2>1. zero = FALSE /\ i = 1 BY DEF Loading
  <2>2. Current.addr # Null BY <1>2, <1>3 DEF Current, Null
  <2> QED BY <2>1, <2>2 DEF Loop
<1> QED BY <1>5, <1>6, <1>7, <1>8, <1>9, <1>10 DEF PartsInv, Loading

\* What load_binary leaves of a part that was acknowledged: it goes to the next.
NextPart ==
  /\ stage = "upload" /\ parts[i].size > 0 /\ i' = i + 1
  /\ UNCHANGED <<stage, file, data_idx, parts, part_size, zero>>

PartsNext == Split \/ NextPart \/ EndUpload

\* Every step of split_binary and load_binary keeps the invariant of the parts.
LEMMA StepParts == PartsInv /\ [PartsNext]_fileVars => PartsInv'
<1> SUFFICES ASSUME PartsInv, [PartsNext]_fileVars PROVE PartsInv' OBVIOUS
<1>0. PartsTypeOK /\ Follow /\ Sizes /\ Describe BY DEF PartsInv
<1>1. /\ data_idx \in Nat /\ Len(file.words) \in Nat /\ Len(parts) \in Nat /\ Len(parts) > 0
      /\ \A n \in 1 .. Len(parts) : parts[n].size \in Nat /\ parts[n].from \in Nat
      /\ parts \in Seq(Part)
  BY <1>0, Facts DEF PartsTypeOK
<1>2. CASE Extend
  <2>1. stage = "split" /\ Loop BY <1>2 DEF Extend, InLoop, PartsInv
  <2>2. Len(parts) \in 1 .. Len(parts) /\ 1 \in Nat BY <1>1
  <2>3. Ends(Len(parts)) = data_idx BY <1>0 DEF Follow
  <2>4. parts[Len(parts)].addr = Null <=> Word = 0 BY <1>2, <2>1 DEF Extend, Loop, Current
  <2>5. Word = 0 => \A j \in Ends(Len(parts)) + 1 .. data_idx + 1 : file.words[j] = 0
    BY <1>1, <2>3 DEF Word
  <2>6. zero' = zero /\ zero = (parts[Len(parts)].addr = Null)
    BY <1>2, <2>1 DEF Extend, Loop, Current
  <2> DEFINE m == Len(parts)
  <2>7. InLoop /\ NextWord /\ part_size' = part_size /\ parts' = GrowPart(parts, m, 1)
    BY <1>2 DEF Extend
  <2>8. zero' = (parts[m].addr = Null) BY <2>6
  <2>9. Ends(m) + 1 = data_idx + 1 BY <2>3
  <2>10. parts[m].addr = Null => \A j \in Ends(m) + 1 .. data_idx + 1 : file.words[j] = 0
    BY <2>4, <2>5
  <2>11. zero' => m = Len(parts) OBVIOUS
  <2>12. m \in 1 .. Len(parts) /\ 1 \in Nat /\ 1 > 0 BY <2>2
  <2> HIDE DEF m
  <2> QED BY <2>7, <2>8, <2>9, <2>10, <2>11, <2>12, GrowStep
<1>3. CASE BeginZeros
  <2>1. stage = "split" /\ Loop /\ data_idx < Len(file.words) /\ Word = 0 /\ ~zero
    BY <1>3 DEF BeginZeros, InLoop, PartsInv
  <2>2. Current.addr # Null BY <2>1 DEF Loop
  <2>3. /\ AddPart(Null, 1) /\ data_idx' = data_idx + 1 /\ stage' = "split" /\ zero' = TRUE
        /\ UNCHANGED <<file, i>>
    BY <1>3, <2>1 DEF BeginZeros, NextWord
  <2>4. \A j \in data_idx + 1 .. data_idx + 1 : file.words[j] = 0 BY <1>1, <2>1 DEF Word
  <2>5. data_idx + 1 <= Len(file.words) BY <1>1, <2>1
  <2> QED BY <2>1, <2>2, <2>3, <2>4, <2>5, AddStep
<1>4. CASE MergeZeros
  <2>1. stage = "split" /\ Loop /\ zero BY <1>4 DEF MergeZeros, InLoop, PartsInv
  <2> DEFINE m == Len(parts) - 1
             k == Current.size + 1
  <2>2. Len(parts) > 1 /\ parts[m].addr # Null BY <2>1 DEF Loop
  <2>3. m \in 1 .. Len(parts) /\ m \in 1 .. Len(parts) - 1 BY <1>1, <2>2
  <2>4. k \in Nat /\ k > 0 /\ Current.size \in Nat BY <1>1 DEF Current
  <2>5. Ends(m) + k = data_idx + 1
    <3>1. Ends(m) = Begins(m + 1) /\ m + 1 = Len(parts) BY <1>0, <1>1, <2>3 DEF Follow
    <3>2. Begins(m + 1) + Current.size = data_idx BY <1>0, <3>1 DEF Follow, Begins, Ends, Current
    <3>3. Begins(m + 1) \in Nat BY <1>1, <3>1 DEF Begins
    <3>4. Ends(m) + Current.size = data_idx BY <3>1, <3>2
    <3>5. Ends(m) \in Nat BY <3>1, <3>3
    <3> HIDE DEF m
    <3> QED BY <1>1, <2>4, <3>4, <3>5
  <2>6. parts' = GrowPart(parts, m, k) /\ part_size' = part_size /\ zero' = FALSE
    BY <1>4 DEF MergeZeros, MergeInto
  <2>7. InLoop /\ NextWord BY <1>4 DEF MergeZeros
  <2> HIDE DEF m, k
  <2>8. zero' = (parts[m].addr = Null) BY <2>2, <2>6
  <2> QED BY <2>2, <2>3, <2>4, <2>5, <2>6, <2>7, <2>8, GrowStep
<1>5. CASE KeepZeros
  <2>1. stage = "split" /\ Loop /\ zero /\ data_idx < Len(file.words) /\ Current.size >= MinZeros
    BY <1>5 DEF KeepZeros, InLoop, PartsInv
  <2>2. /\ AddPart(data_idx, 1) /\ data_idx' = data_idx + 1 /\ stage' = "split" /\ zero' = FALSE
        /\ UNCHANGED <<file, i>>
    BY <1>5, <2>1 DEF KeepZeros, NextWord
  <2>3. data_idx # Null /\ data_idx \in Nat \cup {Null} BY <1>1 DEF Null
  <2>4. Len(parts) # 1 BY <1>1, <2>1 DEF Loop
  <2>5. data_idx + 1 <= Len(file.words) BY <1>1, <2>1
  <2> QED BY <2>1, <2>2, <2>3, <2>4, <2>5, AddStep
<1>6. CASE Terminate
  <2>1. /\ stage = "split" /\ data_idx = Len(file.words) /\ AddPart(Null, 0) /\ stage' = "upload"
        /\ UNCHANGED <<file, data_idx, zero, i>>
    BY <1>6 DEF Terminate
  <2>2. data_idx' = data_idx + 0 /\ data_idx + 0 <= Len(file.words)
        /\ \A j \in data_idx + 1 .. data_idx + 0 : file.words[j] = 0
    BY <1>1, <2>1
  <2>3. zero' \in BOOLEAN BY <1>0, <2>1 DEF PartsTypeOK
  <2> QED BY <2>1, <2>2, <2>3, AddStep
<1>7. CASE NextPart
  <2>1. Terminated BY <1>7 DEF NextPart, PartsInv
  <2>2. i' \in 1 .. Len(parts')
    <3>1. i \in 1 .. Len(parts) BY <1>0 DEF PartsTypeOK
    <3>2. i # Len(parts) BY <1>7, <2>1 DEF NextPart, Terminated, Current
    <3> QED BY <1>1, <1>7, <3>1, <3>2 DEF NextPart
  <2>3. PartsTypeOK' BY <1>0, <1>7, <2>2 DEF NextPart, PartsTypeOK
  <2> QED BY <1>0, <1>7, <2>1, <2>3
          DEF NextPart, PartsInv, PartsFit, Follow, Describe, Sizes, Terminated, Begins, Ends,
              Pieces, Current
<1>8. CASE EndUpload
  BY <1>8 DEF EndUpload, PartsInv, PartsTypeOK, PartsFit, Follow, Describe, Sizes, Terminated,
              Begins, Ends, Pieces, Current
<1>9. CASE UNCHANGED fileVars
  BY <1>9 DEF fileVars, PartsInv, PartsTypeOK, PartsFit, Follow, Describe, Sizes, Loop,
              Terminated, Begins, Ends, Pieces, Current
<1> QED BY <1>2, <1>3, <1>4, <1>5, <1>6, <1>7, <1>8, <1>9 DEF PartsNext, Split

\* A part without an address is a chunk of zeros, or the last before the terminator.
LEMMA NoZeroParts ==
  ASSUME PartsInv, stage = "upload", AllData(file.words), NEW n \in 1 .. Len(parts),
         parts[n].addr = Null
  PROVE  parts[n].size = 0
<1> DEFINE ws == file.words
           from == parts[n].from
           s == parts[n].size
<1>0. PartsTypeOK /\ Follow /\ Describe /\ Sizes /\ Terminated BY DEF PartsInv
<1>1. /\ Len(ws) \in Nat /\ Len(parts) \in Nat /\ n \in Nat /\ n >= 1 /\ n <= Len(parts)
      /\ data_idx = Len(ws) /\ s \in Nat /\ from \in Nat /\ MinZeros \in Nat /\ MinZeros > 0
      /\ \A m \in 1 .. Len(parts) : parts[m].size \in Nat /\ parts[m].from \in Nat
  BY <1>0, Facts DEF Terminated
<1>2. from + s <= Len(ws) BY <1>0, <1>1 DEF Follow, Ends
<1>3. \A k \in from + 1 .. from + s : ws[k] = 0 BY <1>0 DEF Describe, Begins, Ends
<1>4. n # 1 BY <1>0 DEF Follow, Null
<1> SUFFICES ASSUME s > 0 PROVE FALSE BY <1>1
<1>5. CASE n < Len(parts) - 1
  <2>1. Pieces = Len(parts) - 1 /\ n \in 2 .. Pieces - 1 BY <1>1, <1>4, <1>5 DEF Pieces
  <2>2. s >= MinZeros BY <1>0, <2>1 DEF Sizes
  <2> HIDE DEF ws, from, s
  <2>3. from + 1 \in 1 .. Len(ws) - MinZeros + 1 BY <1>1, <1>2, <2>2
  <2>4. PICK j \in from + 1 .. (from + 1) + MinZeros - 1 : ws[j] # 0 BY <2>3 DEF AllData, ws
  <2>5. j \in from + 1 .. from + s BY <1>1, <2>2, <2>4
  <2> QED BY <1>3, <2>4, <2>5
<1>6. CASE n = Len(parts) - 1
  <2>1. n \in 1 .. Len(parts) - 1 /\ n + 1 = Len(parts) BY <1>1, <1>6
  <2>2. from + s = parts[Len(parts)].from BY <1>0, <2>1 DEF Follow, Begins, Ends
  <2>3. parts[Len(parts)].from = Len(ws)
    BY <1>0, <1>1, <2>1 DEF Follow, Terminated, Current, Ends
  <2> HIDE DEF ws, from, s
  <2>4. Len(ws) \in from + 1 .. from + s BY <1>1, <2>2, <2>3
  <2>5. ws # <<>> BY <1>1, <2>4
  <2> QED BY <1>3, <2>4, <2>5 DEF AllData, ws
<1>7. CASE n = Len(parts) BY <1>0, <1>7 DEF Terminated, Current
<1> QED BY <1>1, <1>5, <1>6, <1>7

\* The part that is uploaded next holds the words from where it begins; what
\* fill is does not matter to a file none of which is sent as zeros.
LEMMA PartIsWords ==
  ASSUME PartsInv, stage = "upload", parts[i].size > 0, NEW fill,
         fill = 0 \/ AllData(file.words)
  PROVE  /\ i + 1 \in 1 .. Len(parts)
         /\ Begins(i) \in Nat /\ Begins(i + 1) = Begins(i) + parts[i].size
         /\ Begins(i + 1) <= Len(file.words)
         /\ \A k \in 0 .. parts[i].size - 1 :
              Content(parts[i], k, fill) = file.words[Begins(i) + k + 1]
<1> DEFINE ws == file.words
           from == parts[i].from
           n == parts[i].size
<1>0. PartsTypeOK /\ Follow /\ Describe /\ Terminated BY DEF PartsInv
<1>1. /\ Len(ws) \in Nat /\ Len(parts) \in Nat /\ i \in Nat /\ i >= 1 /\ i <= Len(parts)
      /\ data_idx = Len(ws) /\ n \in Nat /\ from \in Nat
  BY <1>0, Facts DEF Terminated
<1>2. i < Len(parts) BY <1>0, <1>1 DEF Terminated, Current
<1>3. parts[i + 1].from = from + n /\ from + n <= Len(ws)
  BY <1>0, <1>1, <1>2 DEF Follow, Begins, Ends
<1>4. ASSUME NEW k \in 0 .. n - 1
      PROVE  Content(parts[i], k, fill) = ws[from + k + 1]
  <2>1. CASE parts[i].addr = Null
    <3>1. from + k + 1 \in from + 1 .. from + n /\ from + k + 1 \in 1 .. Len(ws)
      <4> HIDE DEF ws, from, n
      <4> QED BY <1>1, <1>3
    <3>2. ws[from + k + 1] = 0 BY <1>0, <1>1, <2>1, <3>1, SMTT(30) DEF Describe, Begins, Ends
    <3>3. fill = 0
      <4>1. i \in 1 .. Len(parts) BY <1>1
      <4> QED BY <2>1, <4>1, NoZeroParts
    <3> QED BY <2>1, <3>2, <3>3 DEF Content
  <2>2. CASE parts[i].addr # Null
    <3>1. parts[i].addr = from BY <1>0, <1>1, <2>2 DEF Describe, Begins
    <3> QED BY <2>2, <3>1 DEF Content
  <2> QED BY <2>1, <2>2
<1> QED BY <1>1, <1>2, <1>3, <1>4, SMTT(30) DEF Begins

\* One packet uploads one part, in its place behind the others.
LEMMA UploadedPart ==
  ASSUME PartsInv, NEW fill, UploadPart(fill), NEW base \in Nat, e_load = base + Begins(i),
         fill = 0 \/ AllData(file.words)
  PROVE  /\ NextPart /\ e_load' = base + Begins(i')
         /\ Begins(i) <= Begins(i') /\ Begins(i) \in Nat /\ Begins(i') \in Nat
         /\ Begins(i') <= Len(file.words)
         /\ \A a \in Addr :
              mem'[a] = IF a \in base + Begins(i) .. base + Begins(i') - 1
                        THEN file.words[a - base + 1] ELSE mem[a]
<1> DEFINE n == parts[i].size
           from == Begins(i)
<1>1. PartsTypeOK /\ stage = "upload" /\ n > 0 /\ n \in Nat /\ i \in Nat
  BY Facts, SMTT(30) DEF PartsInv, UploadPart
<1>2. /\ from \in Nat /\ Begins(i + 1) = from + n /\ from + n <= Len(file.words)
      /\ \A k \in 0 .. n - 1 : Content(parts[i], k, fill) = file.words[from + k + 1]
  BY <1>1, PartIsWords
<1>3. NextPart /\ i' = i + 1 /\ e_load' = e_load + n
      /\ mem' = [a \in Addr |-> IF a \in e_load .. e_load + n - 1
                                THEN Content(parts[i], a - e_load, fill) ELSE mem[a]]
  BY DEF UploadPart, NextPart
<1>4. ASSUME NEW a \in Addr
      PROVE  mem'[a] = IF a \in base + from .. base + (from + n) - 1
                       THEN file.words[a - base + 1] ELSE mem[a]
  <2>1. a \in Int BY SplitAssumption DEF Addr
  <2>2. mem'[a] = IF a \in e_load .. e_load + n - 1
                  THEN Content(parts[i], a - e_load, fill) ELSE mem[a]
    BY <1>3
  <2>3. e_load = base + from /\ base \in Nat OBVIOUS
  <2> HIDE DEF from, n
  <2>4. CASE a \in e_load .. e_load + n - 1
    <3>1. a - e_load \in 0 .. n - 1 /\ from + (a - e_load) + 1 = a - base + 1
          /\ a \in base + from .. base + (from + n) - 1
      <4>1. from \in Nat /\ n \in Nat BY <1>1, <1>2
      <4> QED BY ONLY <2>1, <2>3, <2>4, <4>1
    <3>2. Content(parts[i], a - e_load, fill) = file.words[a - base + 1] BY <1>2, <3>1
    <3> QED BY <2>2, <2>4, <3>1, <3>2
  <2>5. CASE a \notin e_load .. e_load + n - 1
    <3>1. a \notin base + from .. base + (from + n) - 1
      BY <1>1, <1>2, <2>1, <2>3, <2>5
    <3> QED BY <2>2, <2>5, <3>1
  <2> QED BY <2>4, <2>5
<1>5. e_load' = base + (from + n) BY <1>1, <1>2, <1>3
<1> QED BY <1>1, <1>2, <1>3, <1>4, <1>5, SMTT(30)

-----------------------------------------------------------------------------
(* The file by itself *)

LEMMA InitSplit == SplitInit => SplitInv
<1> SUFFICES ASSUME SplitInit PROVE SplitInv OBVIOUS
<1>1. PartsInv /\ PartsTypeOK BY LoadingParts DEF SplitInit, PartsInv
<1>2. i = 1 /\ Begins(1) = 0 BY <1>1 DEF SplitInit, Loading, PartsInv, Follow
<1>3. LoadAddr \in Nat /\ SubSeq(file.words, 1, 0) = <<>> /\ Len(SubSeq(file.words, 1, 0)) = 0
  BY <1>1, Facts, SubSeqEmpty
<1>4. e_load = LoadAddr /\ mem = [a \in Addr |-> Old] BY DEF SplitInit
<1>5. mem \in [Addr -> Cell] BY <1>4 DEF Cell
<1>6. \A a \in Addr : mem[a] = Old /\ a \notin LoadAddr .. LoadAddr + 0 - 1 BY <1>3, <1>4
<1> QED BY <1>1, <1>2, <1>3, <1>4, <1>5, <1>6 DEF SplitInv, SplitTypeOK, Uploaded, Holds

LEMMA UploadStep == SplitInv /\ UploadPart(0) => SplitInv'
<1> SUFFICES ASSUME SplitInv, UploadPart(0) PROVE SplitInv' OBVIOUS
<1> DEFINE ws == file.words
           from == Begins(i)
           to == Begins(i')
           before == SubSeq(ws, 1, from)
           after == SubSeq(ws, 1, to)
<1>0. PartsInv /\ PartsTypeOK /\ SplitTypeOK /\ Uploaded BY DEF SplitInv, SplitTypeOK
<1>1. /\ ws \in Seq(Nat) /\ Len(ws) \in Nat /\ LoadAddr \in Nat /\ AddrSpace \in Nat
      /\ LoadAddr + Len(ws) <= AddrSpace
  BY <1>0, Facts
<1>2. /\ NextPart /\ e_load' = LoadAddr + to
      /\ from <= to /\ from \in Nat /\ to \in Nat /\ to <= Len(ws)
      /\ \A a \in Addr : mem'[a] = IF a \in LoadAddr + from .. LoadAddr + to - 1
                                   THEN ws[a - LoadAddr + 1] ELSE mem[a]
  BY <1>0, <1>1, UploadedPart DEF Uploaded
<1>3. UNCHANGED <<file, parts>> /\ mem' = [a \in Addr |-> mem'[a]]
  BY DEF UploadPart
<1>4. PartsInv' /\ PartsTypeOK' BY <1>0, <1>2, StepParts DEF PartsNext, PartsInv
<1>5. /\ Len(before) = from /\ \A k \in 1 .. from : before[k] = ws[k]
      /\ Len(after) = to /\ \A k \in 1 .. to : after[k] = ws[k]
  <2> HIDE DEF ws, from, to
  <2>1. Len(before) = from /\ \A k \in 1 .. from : before[k] = ws[k]
    BY <1>1, <1>2, SubSeqProperties
  <2>2. Len(after) = to /\ \A k \in 1 .. to : after[k] = ws[k]
    BY <1>1, <1>2, SubSeqProperties
  <2> QED BY <2>1, <2>2
<1>6. ASSUME NEW a \in Addr
      PROVE  mem[a] = IF a \in LoadAddr .. LoadAddr + from - 1 THEN ws[a - LoadAddr + 1] ELSE Old
  <2>1. mem[a] = IF a \in LoadAddr .. LoadAddr + Len(before) - 1
                 THEN before[a - LoadAddr + 1] ELSE Old
    BY <1>0 DEF Uploaded, Holds
  <2>2. a \in LoadAddr .. LoadAddr + from - 1 => a - LoadAddr + 1 \in 1 .. from
    BY <1>1, <1>2
  <2> HIDE DEF before, from
  <2> QED BY <1>5, <2>1, <2>2
<1>7. ASSUME NEW a \in Addr
      PROVE  /\ mem'[a] = IF a \in LoadAddr .. LoadAddr + Len(after) - 1
                          THEN after[a - LoadAddr + 1] ELSE Old
             /\ mem'[a] \in Cell
  <2>0. a \in Int BY <1>1 DEF Addr
  <2> HIDE DEF ws, from, to, before, after
  <2>1. CASE a \in LoadAddr .. LoadAddr + to - 1
    <3>1. a - LoadAddr + 1 \in 1 .. to /\ a - LoadAddr + 1 \in 1 .. Len(ws)
          /\ (a \in LoadAddr + from .. LoadAddr + to - 1 \/ a \in LoadAddr .. LoadAddr + from - 1)
      BY <1>1, <1>2, <2>0, <2>1, SMTT(30)
    <3>2. ws[a - LoadAddr + 1] \in Nat BY <1>1, <3>1, ElementOfSeq
    <3>3. mem'[a] = ws[a - LoadAddr + 1] BY <1>2, <1>6, <3>1
    <3> QED BY <1>5, <2>1, <3>1, <3>2, <3>3 DEF Cell
  <2>2. CASE a \notin LoadAddr .. LoadAddr + to - 1
    <3>1. a \notin LoadAddr + from .. LoadAddr + to - 1 /\ a \notin LoadAddr .. LoadAddr + from - 1
      BY <1>1, <1>2, <2>0, <2>2
    <3> QED BY <1>2, <1>5, <1>6, <2>2, <3>1 DEF Cell
  <2> QED BY <2>1, <2>2
<1>8. Uploaded' BY <1>2, <1>3, <1>7 DEF Uploaded, Holds, Begins
<1>9. SplitTypeOK'
  <2>1. e_load' \in Nat BY <1>1, <1>2
  <2>2. mem' \in [Addr -> Cell] BY <1>3, <1>7
  <2> QED BY <1>4, <2>1, <2>2 DEF SplitTypeOK
<1> QED BY <1>4, <1>8, <1>9 DEF SplitInv

\* Every step of split_binary and load_binary keeps the invariant.
LEMMA StepSplit == SplitInv /\ [SplitNext]_splitVars => SplitInv'
<1> SUFFICES ASSUME SplitInv, [SplitNext]_splitVars PROVE SplitInv' OBVIOUS
<1>1. CASE UploadPart(0) BY <1>1, UploadStep
<1>2. CASE Split \/ EndUpload \/ UNCHANGED splitVars
  <2>1. [PartsNext]_fileVars /\ UNCHANGED <<e_load, mem, file>>
    BY <1>2 DEF PartsNext, splitVars, fileVars, Split, Extend, BeginZeros, MergeZeros, KeepZeros,
                Terminate, NextWord, EndUpload
  <2>2. PartsInv' BY <2>1, StepParts DEF SplitInv
  <2>3. Begins(i)' = Begins(i)
    <3>1. CASE stage = "split" /\ ~ UNCHANGED splitVars
      <4>1. i = 1 /\ i' = i
        BY <1>2, <3>1 DEF SplitInv, PartsInv, Loop, EndUpload, Split, Extend, BeginZeros,
                          MergeZeros, KeepZeros, Terminate, NextWord
      <4> QED BY <2>2, <4>1 DEF SplitInv, PartsInv, Follow, Begins
    <3>2. CASE ~ (stage = "split" /\ ~ UNCHANGED splitVars)
      BY <1>2, <3>2 DEF EndUpload, Split, Extend, BeginZeros, MergeZeros, KeepZeros, Terminate,
                        InLoop, splitVars, fileVars, Begins
    <3> QED BY <3>1, <3>2
  <2> QED BY <2>1, <2>2, <2>3 DEF SplitInv, SplitTypeOK, PartsInv, Uploaded, Holds
<1> QED BY <1>1, <1>2 DEF SplitNext

\* The invariant holds throughout.
LEMMA SplitInvariant == SplitSpec => []SplitInv
BY InitSplit, StepSplit, PTL DEF SplitSpec

-----------------------------------------------------------------------------
(* Chunks of zeros *)

\* No MinZeros zeros in a row among the words behind from, up to to.
NoChunk(from, to) ==
  \A k \in from + 1 .. to - MinZeros + 1 :
    \E j \in k .. k + MinZeros - 1 : file.words[j] # 0

\* A part with data ends with a word that is none of the zeros that may follow, so
\* that a chunk can only begin behind it.
ChunkInv ==
  \A n \in 1 .. Len(parts) : parts[n].addr # Null =>
    /\ parts[n].size > 0 => file.words[Ends(n)] # 0
    /\ NoChunk(Begins(n), Ends(n))

\* Fewer than MinZeros zeros and the word behind them are merged into what they
\* follow: a chunk would have to begin in one and end in the other.
LEMMA NoChunkMerged ==
  ASSUME PartsTypeOK, NEW from \in Nat, NEW to \in Nat, NEW k \in Nat,
         from <= to, k > 0, k <= MinZeros,
         NoChunk(from, to), to > from => file.words[to] # 0, file.words[to + k] # 0
  PROVE  NoChunk(from, to + k)
<1>0. MinZeros \in Nat /\ MinZeros > 0 BY Facts
<1> SUFFICES ASSUME NEW q \in from + 1 .. (to + k) - MinZeros + 1
             PROVE  \E j \in q .. q + MinZeros - 1 : file.words[j] # 0
  BY DEF NoChunk
<1>1. CASE q + MinZeros - 1 <= to
  <2>1. q \in from + 1 .. to - MinZeros + 1 BY <1>0, <1>1
  <2> QED BY <2>1 DEF NoChunk
<1>2. CASE q + MinZeros - 1 > to /\ q <= to
  <2>1. to \in q .. q + MinZeros - 1 /\ to > from BY <1>0, <1>2
  <2> QED BY <2>1
<1>3. CASE q > to
  <2>1. to + k \in q .. q + MinZeros - 1 BY <1>0, <1>3
  <2> QED BY <2>1
<1> QED BY <1>0, <1>1, <1>2, <1>3

\* A part with data that grows up to a word that is not 0.
LEMMA GrowChunk ==
  ASSUME PartsInv, ChunkInv, InLoop, NextWord,
         NEW m \in 1 .. Len(parts), NEW k \in Nat, k > 0,
         parts' = GrowPart(parts, m, k), Ends(m) + k = data_idx + 1,
         parts[m].addr # Null => Word # 0 /\ k <= MinZeros
  PROVE  ChunkInv'
<1>0. PartsTypeOK /\ parts \in Seq(Part) /\ m \in 1 .. Len(parts) /\ k \in Nat
  BY DEF PartsInv, PartsTypeOK
<1>1. /\ data_idx \in Nat /\ Len(parts) \in Nat /\ m \in Nat /\ m >= 1
      /\ \A n \in 1 .. Len(parts) : parts[n].size \in Nat /\ parts[n].from \in Nat
  BY ONLY <1>0, Facts
<1>2. /\ Len(parts') = m
      /\ \A n \in 1 .. m : parts'[n].addr = parts[n].addr /\ parts'[n].from = parts[n].from
      /\ parts'[m].size = parts[m].size + k
      /\ \A n \in 1 .. m - 1 : parts'[n].size = parts[n].size
  <2>1. parts' = GrowPart(parts, m, k) OBVIOUS
  <2> QED BY ONLY <1>0, <2>1, GrownPart
<1>3. file' = file BY DEF NextWord
<1> SUFFICES ASSUME NEW n \in 1 .. m, parts[n].addr # Null
             PROVE  /\ parts'[n].size > 0 => file.words[Ends(n)'] # 0
                    /\ NoChunk(parts[n].from, Ends(n)')
  BY <1>2, <1>3 DEF ChunkInv, NoChunk, Begins
<1>4. n \in 1 .. Len(parts) BY <1>1
<1>5. CASE n = m
  <2> DEFINE from == parts[m].from
             to == Ends(m)
  <2>1. from \in Nat /\ to \in Nat /\ from <= to /\ (parts[m].size > 0 <=> to > from)
    BY <1>1, <1>4, <1>5, SMTT(30) DEF Ends
  <2>2. Ends(m)' = to + k
    <3>1. parts[m].size \in Nat BY <1>1, <1>4, <1>5
    <3>2. Ends(m)' = parts[m].from + (parts[m].size + k) BY <1>1, <1>2 DEF Ends
    <3> QED BY <2>1, <3>1, <3>2 DEF Ends
  <2>3. Word # 0 /\ k <= MinZeros BY <1>5
  <2>4. file.words[to + k] # 0 BY <2>3 DEF Word
  <2>5. NoChunk(from, to) /\ (to > from => file.words[to] # 0)
    BY <1>4, <1>5, <2>1 DEF ChunkInv, Begins
  <2> HIDE DEF from, to
  <2>6. NoChunk(from, to + k) BY <1>0, <2>1, <2>3, <2>4, <2>5, NoChunkMerged
  <2> QED BY <1>5, <2>2, <2>4, <2>6 DEF from
<1>6. CASE n # m
  <2>1. n \in 1 .. m - 1 BY <1>1, <1>6
  <2>2. Ends(n)' = Ends(n) /\ parts'[n].size = parts[n].size BY <1>2, <2>1 DEF Ends
  <2> QED BY <1>4, <2>2 DEF ChunkInv, Begins
<1> QED BY <1>5, <1>6

\* A part is added: zeros, the terminator, or the first word behind a chunk.
LEMMA AddChunk ==
  ASSUME PartsInv, ChunkInv, file' = file, NEW ad \in Nat \cup {Null}, NEW n \in {0, 1},
         AddPart(ad, n),
         ad # Null => n = 1 /\ Word # 0
  PROVE  ChunkInv'
<1> DEFINE L == Len(parts)
           p == [addr |-> ad, size |-> n, from |-> data_idx]
<1>0. PartsTypeOK /\ parts \in Seq(Part) BY DEF PartsInv, PartsTypeOK
<1>1. data_idx \in Nat /\ L \in Nat /\ MinZeros \in Nat /\ MinZeros > 0 BY <1>0, Facts
<1>2. p \in Part /\ parts' = Append(parts, p) BY <1>1 DEF Part, AddPart
<1>3. Len(parts') = L + 1 /\ parts'[L + 1] = p /\ \A k \in 1 .. L : parts'[k] = parts[k]
  BY <1>0, <1>2, AddedPart
<1>4. parts'[L + 1].addr = ad /\ parts'[L + 1].size = n /\ parts'[L + 1].from = data_idx
  BY <1>3
<1> HIDE DEF p, L
<1> SUFFICES ASSUME NEW k \in 1 .. L + 1, parts'[k].addr # Null
             PROVE  /\ parts'[k].size > 0 => file.words[Ends(k)'] # 0
                    /\ NoChunk(Begins(k)', Ends(k)')
  BY <1>3 DEF ChunkInv, NoChunk
<1>5. CASE k = L + 1
  <2>1. Begins(k)' = data_idx /\ Ends(k)' = data_idx + 1 /\ file.words[data_idx + 1] # 0
    BY <1>4, <1>5 DEF Begins, Ends, Word
  <2>2. NoChunk(data_idx, data_idx + 1)
    <3> SUFFICES ASSUME NEW q \in data_idx + 1 .. (data_idx + 1) - MinZeros + 1
                 PROVE  data_idx + 1 \in q .. q + MinZeros - 1
      BY <2>1 DEF NoChunk
    <3> QED BY <1>1
  <2> QED BY <2>1, <2>2
<1>6. CASE k # L + 1
  <2>1. k \in 1 .. L BY <1>1, <1>6
  <2>2. parts'[k] = parts[k] BY <1>3, <2>1
  <2> QED BY <2>1, <2>2 DEF ChunkInv, Begins, Ends, L
<1> QED BY <1>5, <1>6

LEMMA StepChunks == PartsInv /\ ChunkInv /\ [PartsNext]_fileVars => ChunkInv'
<1> SUFFICES ASSUME PartsInv, ChunkInv, [PartsNext]_fileVars PROVE ChunkInv' OBVIOUS
<1>0. PartsTypeOK /\ Follow /\ (stage = "split" => Loop) BY DEF PartsInv
<1>1. /\ data_idx \in Nat /\ Len(parts) \in Nat /\ Len(parts) > 0 /\ MinZeros \in Nat /\ MinZeros > 0
      /\ \A n \in 1 .. Len(parts) : parts[n].size \in Nat /\ parts[n].from \in Nat
  BY <1>0, Facts
<1>2. CASE Extend
  <2> DEFINE m == Len(parts)
  <2>1. InLoop /\ NextWord /\ parts' = GrowPart(parts, m, 1) /\ zero = (Word = 0)
    BY <1>2 DEF Extend
  <2>2. Ends(m) + 1 = data_idx + 1 BY <1>0 DEF Follow
  <2>3. parts[m].addr # Null => Word # 0 BY <1>0, <2>1 DEF Loop, Current, InLoop
  <2>4. m \in 1 .. Len(parts) /\ 1 \in Nat /\ 1 > 0 /\ 1 <= MinZeros BY <1>1
  <2> HIDE DEF m
  <2> QED BY <2>1, <2>2, <2>3, <2>4, GrowChunk
<1>3. CASE MergeZeros
  <2> DEFINE m == Len(parts) - 1
             k == Current.size + 1
  <2>1. /\ InLoop /\ NextWord /\ parts' = GrowPart(parts, m, k) /\ zero /\ Word # 0
        /\ Current.size < MinZeros
    BY <1>3 DEF MergeZeros, MergeInto
  <2>2. Len(parts) > 1 BY <1>0, <2>1 DEF Loop, InLoop
  <2>3. m \in 1 .. Len(parts) /\ m \in 1 .. Len(parts) - 1 /\ m + 1 = Len(parts) BY <1>1, <2>2
  <2>4. k \in Nat /\ k > 0 /\ Current.size \in Nat /\ k <= MinZeros BY <1>1, <2>1 DEF Current
  <2>5. Ends(m) + k = data_idx + 1
    <3>1. Ends(m) = Begins(m + 1) BY <1>0, <2>3 DEF Follow
    <3>2. Begins(m + 1) + Current.size = data_idx /\ Begins(m + 1) \in Nat
      BY <1>0, <1>1, <2>3 DEF Follow, Begins, Ends, Current
    <3>3. Ends(m) + Current.size = data_idx /\ Ends(m) \in Nat BY <3>1, <3>2
    <3> HIDE DEF m
    <3> QED BY <1>1, <2>4, <3>3
  <2> HIDE DEF m, k
  <2> QED BY <2>1, <2>3, <2>4, <2>5, GrowChunk
<1>4. CASE BeginZeros
  <2>1. AddPart(Null, 1) /\ file' = file BY <1>4 DEF BeginZeros, NextWord
  <2> QED BY <2>1, AddChunk
<1>5. CASE KeepZeros
  <2>1. AddPart(data_idx, 1) /\ file' = file /\ Word # 0 BY <1>5 DEF KeepZeros, NextWord
  <2> QED BY <1>1, <2>1, AddChunk
<1>6. CASE Terminate
  <2>1. AddPart(Null, 0) /\ file' = file BY <1>6 DEF Terminate
  <2> QED BY <2>1, AddChunk
<1>7. CASE UNCHANGED <<parts, file>>
  BY <1>7 DEF ChunkInv, NoChunk, Begins, Ends
<1>8. NextPart \/ EndUpload \/ UNCHANGED fileVars => UNCHANGED <<parts, file>>
  BY DEF NextPart, EndUpload, fileVars
<1> QED BY <1>2, <1>3, <1>4, <1>5, <1>6, <1>7, <1>8 DEF PartsNext, Split

LEMMA LoadingChunks == (\E b \in Binaries : Loading(b)) => ChunkInv
<1> SUFFICES ASSUME NEW b \in Binaries, Loading(b) PROVE ChunkInv OBVIOUS
<1>1. parts = <<FirstPart>> /\ Len(parts) = 1 /\ MinZeros \in Nat /\ MinZeros > 0
  BY SplitAssumption DEF Loading
<1>2. parts[1].size = 0 /\ Begins(1) = 0 /\ Ends(1) = 0 BY <1>1 DEF FirstPart, Begins, Ends
<1>3. NoChunk(0, 0)
  <2>1. \A k \in 0 + 1 .. 0 - MinZeros + 1 : FALSE BY <1>1
  <2> QED BY <2>1 DEF NoChunk
<1>4. \A n \in 1 .. Len(parts) : n = 1 BY <1>1
<1> QED BY <1>2, <1>3, <1>4 DEF ChunkInv

\* The invariants describe what is sent as data.
LEMMA ChunksAreCommands == PartsInv /\ ChunkInv => BigZerosAreCommands
<1> SUFFICES ASSUME PartsInv, ChunkInv, stage # "split", NEW n \in 1 .. Pieces, parts[n].addr # Null
             PROVE  NoChunk(Begins(n), Ends(n))
  BY DEF BigZerosAreCommands, NoChunk
<1>1. PartsTypeOK BY DEF PartsInv
<1>2. Len(parts) \in Nat BY <1>1, Facts
<1>3. n \in 1 .. Len(parts) BY <1>2 DEF Pieces
<1> QED BY <1>3 DEF ChunkInv

-----------------------------------------------------------------------------
(* Theorems *)

\* The invariant describes the file.
LEMMA PartsDescribeFile == PartsInv => PartsAreFile
<1> SUFFICES ASSUME PartsInv PROVE PartsAreFile OBVIOUS
<1>0. PartsTypeOK /\ Follow /\ Describe BY DEF PartsInv
<1>1. /\ data_idx \in Nat /\ Len(parts) \in Nat /\ Len(parts) > 0
      /\ \A n \in 1 .. Len(parts) : parts[n].size \in Nat /\ parts[n].from \in Nat
  BY <1>0, Facts
<1>2. Pieces \in Nat /\ Pieces <= Len(parts) /\ Pieces > 0
  BY <1>1 DEF Pieces, PartsInv, Terminated
<1>3. Ends(Pieces) = data_idx
  <2>1. CASE stage = "split" BY <1>0, <2>1 DEF Pieces, Follow
  <2>2. CASE stage # "split"
    <3>1. Terminated /\ Pieces = Len(parts) - 1 BY <2>2 DEF PartsInv, Pieces
    <3>2. Pieces \in 1 .. Len(parts) - 1 /\ Pieces + 1 = Len(parts) BY <1>1, <1>2, <3>1
    <3>3. Ends(Pieces) = Begins(Len(parts)) BY <1>0, <3>2 DEF Follow
    <3>4. parts[Len(parts)].size = 0 BY <3>1 DEF Terminated, Current
    <3> QED BY <1>0, <1>1, <3>3, <3>4 DEF Follow, Begins, Ends
  <2> QED BY <2>1, <2>2
<1>4. \A n \in 1 .. Pieces : n \in 1 .. Len(parts) BY <1>1, <1>2
<1>5. \A n \in 1 .. Pieces - 1 : n \in 1 .. Len(parts) - 1 BY <1>1, <1>2
<1> QED BY <1>0, <1>3, <1>4, <1>5 DEF PartsAreFile, Follow, Describe

\* For every file the parts of split_binary are the words read so far, in order,
\* with none left out or twice, however zeros are merged back.
THEOREM PartsAreTheFile == SplitSpec => []PartsAreFile
<1>1. SplitInv => PartsAreFile BY PartsDescribeFile DEF SplitInv
<1> QED BY <1>1, SplitInvariant, PTL

\* For every first size of the array allocate_parts makes room for each element
\* before it is written.
THEOREM ArrayHolds == SplitSpec => []PartsFit
<1>1. SplitInv => PartsFit BY DEF SplitInv, PartsInv
<1> QED BY <1>1, SplitInvariant, PTL

\* A file that has data among its first MinZeros words has a first part that the
\* loop of load_binary does not take for the terminator.
LEMMA FirstPartCounts ==
  ASSUME PartsInv, stage # "split", BeginsWithData, file.words # <<>>
  PROVE  parts[1].size > 0
<1>0. PartsTypeOK /\ Follow /\ Describe /\ Sizes /\ Terminated BY DEF PartsInv
<1>1. /\ data_idx \in Nat /\ Len(parts) \in Nat /\ Len(parts) > 1 /\ MinZeros \in Nat
      /\ \A n \in 1 .. Len(parts) : parts[n].size \in Nat /\ parts[n].from \in Nat
      /\ file.words \in Seq(Nat) /\ data_idx = Len(file.words) /\ Len(file.words) > 0
  BY <1>0, Facts, EmptySeq, LenProperties DEF Terminated
<1>2. SUFFICES ASSUME parts[1].size = 0 PROVE FALSE BY <1>1
<1>3. parts[2].addr = Null BY <1>0, <1>1, <1>2 DEF Sizes
<1>4. parts[2].from = 0
  <2>1. 1 \in 1 .. Len(parts) - 1 BY <1>1
  <2> QED BY <1>0, <1>1, <1>2, <2>1 DEF Follow, Begins, Ends
<1>5. 2 \in 1 .. Len(parts) BY <1>1
<1>6. \A k \in 1 .. parts[2].size : file.words[k] = 0
  BY <1>0, <1>1, <1>3, <1>4, <1>5, SMTT(30) DEF Describe, Begins, Ends
<1>7. PICK k \in 1 .. MinZeros : k <= Len(file.words) /\ file.words[k] # 0
  BY DEF BeginsWithData
<1>8. k > parts[2].size BY <1>1, <1>5, <1>6, <1>7
<1>9. CASE Len(parts) = 2
  <2>1. parts[2].size = 0 BY <1>0, <1>9 DEF Terminated, Current
  <2>2. parts[2].from + parts[2].size = data_idx BY <1>0, <1>9 DEF Follow, Ends
  <2> QED BY <1>1, <1>4, <2>1, <2>2
<1>10. CASE Len(parts) = 3
  <2>1. 2 \in 1 .. Len(parts) - 1 /\ parts[3].size = 0
    BY <1>0, <1>1, <1>10 DEF Terminated, Current
  <2>2. parts[2].from + parts[2].size = parts[3].from /\ parts[3].from + parts[3].size = data_idx
    BY <1>0, <1>10, <2>1 DEF Follow, Begins, Ends
  <2> QED BY <1>1, <1>4, <1>5, <1>7, <1>8, <1>10, <2>1, <2>2
<1>11. CASE Len(parts) > 3
  <2>1. Pieces = Len(parts) - 1 /\ 2 \in 2 .. Pieces - 1 BY <1>1, <1>11 DEF Pieces
  <2>2. parts[2].size >= MinZeros BY <1>0, <1>3, <2>1 DEF Sizes
  <2> QED BY <1>1, <1>5, <1>7, <1>8, <2>2
<1>12. Len(parts) = 2 \/ Len(parts) = 3 \/ Len(parts) > 3
  <2>1. \A n \in Nat : n > 1 => n = 2 \/ n = 3 \/ n > 3 OBVIOUS
  <2> QED BY ONLY <1>1, <2>1
<1> QED BY <1>9, <1>10, <1>11, <1>12

\* When load_binary returns, the loop has come to the terminator.
LEMMA AllUploaded ==
  ASSUME PartsInv, stage # "split", parts[i].size = 0, BeginsWithData
  PROVE  Begins(i) = Len(file.words)
<1>0. PartsTypeOK /\ Follow /\ Sizes /\ Terminated BY DEF PartsInv
<1>1. /\ file.words \in Seq(Nat) /\ Len(parts) \in Nat /\ i \in Nat /\ i >= 1
      /\ i <= Len(parts) /\ Len(file.words) \in Nat
      /\ \A n \in 1 .. Len(parts) : parts[n].size \in Nat /\ parts[n].from \in Nat
  BY <1>0, Facts
<1>2. CASE i = Len(parts)
  BY <1>0, <1>1, <1>2 DEF Follow, Terminated, Begins, Ends
<1>3. CASE i < Len(parts)
  <2>1. Pieces = Len(parts) - 1 BY DEF Pieces
  <2>2. i = 1
    <3>1. i >= 2 => i \in 2 .. Pieces BY <1>1, <1>3, <2>1
    <3> QED BY <1>0, <1>1, <3>1 DEF Sizes
  <2>3. file.words = <<>> BY <1>0, <2>2, FirstPartCounts
  <2> QED BY <1>0, <2>2, <2>3 DEF Follow, Begins
<1> QED BY <1>1, <1>2, <1>3

\* Zeros that are first, a chunk of them or all there is, are no part of the first
\* part, which is then empty.
LEMMA FirstPartEmpty ==
  ASSUME PartsInv, ChunkInv, stage # "split", ~BeginsWithData
  PROVE  parts[1].size = 0
<1>0. PartsTypeOK /\ Follow BY DEF PartsInv
<1>1. /\ Len(parts) \in Nat /\ Len(parts) > 0 /\ MinZeros \in Nat /\ MinZeros > 0
      /\ Len(file.words) \in Nat /\ data_idx <= Len(file.words) /\ data_idx \in Nat
      /\ \A n \in 1 .. Len(parts) : parts[n].size \in Nat /\ parts[n].from \in Nat
  BY <1>0, Facts DEF PartsTypeOK
<1>2. PICK s \in Nat : s = parts[1].size BY <1>1
<1>3. Begins(1) = 0 /\ Ends(1) = s /\ s <= Len(file.words) /\ parts[1].addr # Null
  BY <1>0, <1>1, <1>2 DEF Follow, Begins, Ends, Null
<1>4. \A k \in 1 .. MinZeros : k <= Len(file.words) => file.words[k] = 0 BY DEF BeginsWithData
<1> SUFFICES ASSUME s > 0 PROVE FALSE BY <1>2
<1>5. file.words[s] # 0 /\ NoChunk(0, s) BY <1>1, <1>2, <1>3 DEF ChunkInv
<1>6. CASE s <= MinZeros
  <2>1. s \in 1 .. MinZeros BY <1>1, <1>6
  <2> QED BY <1>3, <1>4, <1>5, <2>1
<1>7. CASE s > MinZeros
  <2>1. 1 \in 0 + 1 .. s - MinZeros + 1 BY <1>1, <1>7
  <2>2. PICK j \in 1 .. 1 + MinZeros - 1 : file.words[j] # 0 BY <1>5, <2>1 DEF NoChunk
  <2>3. j \in 1 .. MinZeros /\ j <= Len(file.words) BY <1>1, <1>3, <1>7, <2>2
  <2> QED BY <1>4, <2>2, <2>3
<1> QED BY <1>1, <1>6, <1>7

\* The loop of load_binary does not go past an empty part.
Passed == i > 1 => parts[1].size > 0

LEMMA PassedStep == SplitInv /\ Passed /\ [SplitNext]_splitVars => Passed'
<1> SUFFICES ASSUME SplitInv, Passed, [SplitNext]_splitVars PROVE Passed' OBVIOUS
<1>0. i \in Nat BY Facts DEF SplitInv, PartsInv
<1>1. CASE Split
  <2>1. i = 1 /\ i' = i
    BY <1>1 DEF SplitInv, PartsInv, Loop, Split, Extend, BeginZeros, MergeZeros, KeepZeros, Terminate,
                InLoop, NextWord
  <2> QED BY <2>1 DEF Passed
<1>2. CASE UploadPart(0)
  <2>1. i' = i + 1 /\ parts' = parts /\ parts[i].size > 0 BY <1>2 DEF UploadPart
  <2>2. i = 1 \/ i > 1 BY <1>0, Facts DEF SplitInv, PartsInv
  <2> QED BY <2>1, <2>2 DEF Passed
<1>3. CASE EndUpload \/ UNCHANGED splitVars BY <1>3 DEF EndUpload, splitVars, fileVars, Passed
<1> QED BY <1>1, <1>2, <1>3 DEF SplitNext

LEMMA ChunkInvariant == SplitSpec => []ChunkInv
<1>1. SplitInit => ChunkInv BY LoadingChunks DEF SplitInit
<1>2. SplitInv /\ ChunkInv /\ [SplitNext]_splitVars => ChunkInv'
  <2> SUFFICES ASSUME SplitInv, ChunkInv, [SplitNext]_splitVars PROVE ChunkInv' OBVIOUS
  <2>1. [PartsNext]_fileVars
    BY DEF SplitNext, PartsNext, NextPart, UploadPart, splitVars, fileVars
  <2> QED BY <2>1, StepChunks DEF SplitInv
<1> QED BY <1>1, <1>2, SplitInvariant, PTL DEF SplitSpec

\* What is in memory when load_binary returns: the whole of every file that has data
\* among its first MinZeros words; of any other file, which begins with a chunk of
\* zeros or has nothing else, not a word, those behind the zeros included (split_binary,
\* load_binary).
THEOREM UploadedOrNothing == SplitSpec => []UploadIsFile
<1>1. SplitInv /\ ChunkInv /\ Passed => UploadIsFile
  <2> SUFFICES ASSUME SplitInv, ChunkInv, Passed, stage = "loaded"
               PROVE  Holds(IF BeginsWithData THEN file.words ELSE <<>>, LoadAddr)
    BY DEF UploadIsFile
  <2>1. PartsTypeOK /\ Follow /\ Uploaded /\ file.words \in Seq(Nat) /\ parts[i].size = 0
    BY Facts DEF SplitInv, PartsInv
  <2>2. CASE BeginsWithData
    <3>1. Begins(i) = Len(file.words) BY <2>2, AllUploaded DEF SplitInv, PartsInv
    <3>2. SubSeq(file.words, 1, Begins(i)) = file.words BY <2>1, <3>1, SubSeqFull
    <3> QED BY <2>1, <2>2, <3>2 DEF Uploaded
  <2>3. CASE ~BeginsWithData
    <3>1. parts[1].size = 0 BY <2>3, FirstPartEmpty DEF SplitInv
    <3>2. i = 1
      <4>1. i \in Nat /\ i >= 1 /\ ~(i > 1) BY <2>1, <3>1, Facts DEF Passed
      <4> QED BY <4>1
    <3>3. Begins(i) = 0 BY <2>1, <3>2 DEF Follow
    <3>4. SubSeq(file.words, 1, 0) = <<>> BY <2>1, SubSeqEmpty
    <3> QED BY <2>1, <2>3, <3>3, <3>4 DEF Uploaded
  <2> QED BY <2>2, <2>3
<1>2. SplitInit => Passed BY DEF SplitInit, Loading, Passed
<1> QED BY <1>1, <1>2, PassedStep, ChunkInvariant, SplitInvariant, PTL DEF SplitSpec

\* A run of MinZeros zeros is never sent as data, wherever it lies in a file and
\* whatever was merged around it (split_binary).
THEOREM BigZerosAreSent == SplitSpec => []BigZerosAreCommands
<1>1. SplitInv /\ ChunkInv => BigZerosAreCommands BY ChunksAreCommands DEF SplitInv
<1> QED BY <1>1, ChunkInvariant, SplitInvariant, PTL

=============================================================================
