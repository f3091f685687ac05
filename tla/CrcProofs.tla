------------------------------- MODULE CrcProofs -------------------------------
(***************************************************************************)
(* The checksum, for payloads of any length: table and loop are the        *)
(* division by the polynomial, and damage that spans no more than 32 bits  *)
(* is found.  Of the table, TableAssumption is all that is used.           *)
(***************************************************************************)
EXTENDS Crc, SequenceTheorems, WellFoundedInduction, TLAPS

-----------------------------------------------------------------------------
(* Induction and loops, for sets and functions instead of operators *)

LEMMA FirstOf ==
  ASSUME NEW T \in SUBSET Nat, T # {}
  PROVE  \E x \in T : \A y \in T : x <= y
<1>1. PICK x \in T : \A y \in T : ~ (<<y, x>> \in OpToRel(<, Nat))
  BY NatLessThanWellFounded, WFMin
<1>2. ASSUME NEW y \in T, y < x PROVE FALSE
  <2>1. <<y, x>> \in Nat \X Nat
    OBVIOUS
  <2>2. <<y, x>> \in OpToRel(<, Nat)
    BY <1>2, <2>1 DEF OpToRel
  <2> QED BY <1>1, <2>2
<1> QED BY <1>2

\* Induction from i up to j, over the set S of what is proved.
LEMMA UpTo ==
  ASSUME NEW i \in Nat, NEW j \in Nat, NEW S, i \in S,
         \A n \in i .. j - 1 : n \in S => n + 1 \in S
  PROVE  \A n \in i .. j : n \in S
<1> DEFINE T == {m \in i .. j : m \notin S}
<1>1. SUFFICES ASSUME T # {} PROVE FALSE
  BY <1>1
<1>2. PICK x \in T : \A y \in T : x <= y
  <2>1. T \in SUBSET Nat
    OBVIOUS
  <2> HIDE DEF T
  <2> QED BY <1>1, <2>1, FirstOf
<1>3. x # i /\ x \in i .. j
  OBVIOUS
<1>4. x - 1 \in i .. j - 1 /\ (x - 1) + 1 = x
  BY <1>3
<1>5. x - 1 \notin T
  <2> HIDE DEF T
  <2> QED BY <1>2, <1>4
<1> QED BY <1>4, <1>5

\* What a loop of N turns goes through that begins with s and does step[n] in
\* its turn n.
RunsOf(R, s, N, step) ==
  {f \in [0 .. N -> R] : f[0] = s /\ \A n \in 1 .. N : f[n] = step[n][f[n - 1]]}

LEMMA LoopIs ==
  ASSUME NEW R, NEW s \in R, NEW N \in Nat, NEW step \in [1 .. N -> [R -> R]]
  PROVE  RunsOf(R, s, N, step) # {}
<1> DEFINE Good(f, m) == f \in [0 .. m -> R] /\ f[0] = s
                         /\ \A n \in 1 .. m : f[n] = step[n][f[n - 1]]
           S == {m \in 0 .. N : \E f : Good(f, m)}
<1>1. 0 \in S
  <2>1. Good([n \in 0 .. 0 |-> s], 0)
    OBVIOUS
  <2> HIDE DEF Good
  <2> QED BY <2>1
<1>2. ASSUME NEW m \in 0 .. N - 1, m \in S PROVE m + 1 \in S
  <2>1. PICK f : Good(f, m)
    BY <1>2
  <2> DEFINE x == m + 1
             g == [n \in 0 .. x |-> IF n = x THEN step[x][f[m]] ELSE f[n]]
  <2>2. x \in 1 .. N /\ x - 1 = m
    OBVIOUS
  <2>3. step[x][f[m]] \in R
    BY <2>1, <2>2
  <2>4. g \in [0 .. x -> R]
    BY <2>1, <2>2, <2>3
  <2>5. g[0] = s
    BY <2>1, <2>2
  <2>6. ASSUME NEW n \in 1 .. x PROVE g[n] = step[n][g[n - 1]]
    BY <2>1, <2>2
  <2>7. Good(g, x)
    BY <2>4, <2>5, <2>6
  <2>8. \E h : Good(h, m + 1)
    <3> HIDE DEF Good, g
    <3> QED BY <2>7
  <2> HIDE DEF Good
  <2> QED BY <2>2, <2>8
<1>3. \A n \in 0 .. N : n \in S
  <2> HIDE DEF S
  <2> QED BY <1>1, <1>2, UpTo
<1>4. \E f : Good(f, N)
  <2> HIDE DEF Good
  <2> QED BY <1>3
<1> QED BY <1>4 DEF RunsOf

LEMMA LoopType ==
  ASSUME NEW R, NEW N \in Nat, NEW f, f[0] \in R,
         \A n \in 1 .. N : f[n - 1] \in R => f[n] \in R
  PROVE  \A n \in 0 .. N : f[n] \in R
<1> DEFINE S == {m \in 0 .. N : f[m] \in R}
<1>1. 0 \in S
  OBVIOUS
<1>2. ASSUME NEW n \in 0 .. N - 1, n \in S PROVE n + 1 \in S
  <2>1. n + 1 \in 1 .. N /\ (n + 1) - 1 = n
    OBVIOUS
  <2> QED BY <1>2, <2>1
<1>3. \A n \in 0 .. N : n \in S
  <2> HIDE DEF S
  <2> QED BY <1>1, <1>2, UpTo
<1> QED BY <1>3

-----------------------------------------------------------------------------
(* The division *)

\* A register one place down.
Down(e) == {k - 1 : k \in e \ {0}}

LEMMA DownMembers ==
  ASSUME NEW e \in SUBSET Ones
  PROVE  Down(e) = {k \in Ones : k + 1 \in e}
<1>1. ASSUME NEW k \in Ones, k + 1 \in e PROVE k \in Down(e)
  <2>1. k + 1 \in e \ {0} /\ (k + 1) - 1 = k
    BY <1>1 DEF Ones
  <2> QED BY <2>1 DEF Down
<1>2. ASSUME NEW j \in e \ {0} PROVE j - 1 \in Ones /\ (j - 1) + 1 \in e
  BY DEF Ones
<1> QED BY <1>1, <1>2 DEF Down

LEMMA ShiftMembers ==
  ASSUME NEW w \in SUBSET Ones
  PROVE  Shift8(w) = {k \in Ones : k + 8 \in w}
<1>1. ASSUME NEW k \in Ones, k + 8 \in w PROVE k \in Shift8(w)
  <2>1. k + 8 \in w \ (0 .. 7) /\ (k + 8) - 8 = k
    BY <1>1 DEF Ones
  <2> QED BY <2>1 DEF Shift8
<1>2. ASSUME NEW j \in w \ (0 .. 7) PROVE j - 8 \in Ones /\ (j - 8) + 8 \in w
  BY DEF Ones
<1> QED BY <1>1, <1>2 DEF Shift8

LEMMA PolynomialType == Polynomial \in SUBSET Ones
BY DEF Polynomial, BitsOf, Ones

LEMMA DivideBitType ==
  ASSUME NEW reg \in SUBSET Ones, NEW bit \in SUBSET {0}
  PROVE  DivideBit(reg, bit) \in SUBSET Ones
<1> DEFINE mixed == SymDiff(reg, bit)
<1>1. mixed \in SUBSET Ones
  BY DEF SymDiff, Ones
<1> HIDE DEF mixed
<1>2. Down(mixed) \in SUBSET Ones
  BY <1>1, DownMembers
<1>3. SymDiff(Down(mixed), Polynomial) \in SUBSET Ones
  BY <1>2, PolynomialType DEF SymDiff
<1> QED BY <1>2, <1>3, Zenon DEF DivideBit, Down, mixed

\* By what two registers differ behaves as a register does, fed with the
\* difference of what comes in.
LEMMA DivideApart ==
  ASSUME NEW a \in SUBSET Ones, NEW b \in SUBSET Ones,
         NEW x \in SUBSET {0}, NEW y \in SUBSET {0}
  PROVE  SymDiff(DivideBit(a, x), DivideBit(b, y)) = DivideBit(SymDiff(a, b), SymDiff(x, y))
<1> DEFINE u == SymDiff(a, x)
           v == SymDiff(b, y)
           w == SymDiff(SymDiff(a, b), SymDiff(x, y))
           p == Down(u)
           q == Down(v)
           r == Polynomial
<1>1. u \in SUBSET Ones /\ v \in SUBSET Ones
  BY DEF SymDiff, Ones
<1>2. w = SymDiff(u, v)
  BY DEF SymDiff
<1>3. Down(w) = SymDiff(p, q)
  <2> HIDE DEF u, v, w
  <2>1. w \in SUBSET Ones
    BY <1>1, <1>2 DEF SymDiff
  <2>2. p = {k \in Ones : k + 1 \in u} /\ q = {k \in Ones : k + 1 \in v}
    BY <1>1, DownMembers
  <2>3. Down(w) = {k \in Ones : k + 1 \in w}
    BY <2>1, DownMembers
  <2> HIDE DEF p, q
  <2> QED BY <1>2, <2>2, <2>3 DEF SymDiff
<1>4. 0 \in w <=> ~ (0 \in u <=> 0 \in v)
  <2> HIDE DEF u, v, w
  <2> QED BY <1>2 DEF SymDiff
<1>5. /\ SymDiff(SymDiff(p, r), SymDiff(q, r)) = SymDiff(p, q)
      /\ SymDiff(SymDiff(p, r), q) = SymDiff(SymDiff(p, q), r)
      /\ SymDiff(p, SymDiff(q, r)) = SymDiff(SymDiff(p, q), r)
  <2> HIDE DEF p, q, r
  <2> QED BY DEF SymDiff
<1>6. /\ DivideBit(a, x) = IF 0 \in u THEN SymDiff(p, r) ELSE p
      /\ DivideBit(b, y) = IF 0 \in v THEN SymDiff(q, r) ELSE q
      /\ DivideBit(SymDiff(a, b), SymDiff(x, y)) = IF 0 \in w THEN SymDiff(Down(w), r) ELSE Down(w)
  BY Zenon DEF DivideBit, Down
<1> HIDE DEF u, v, w, p, q, r
<1>7. CASE 0 \in u
  BY <1>3, <1>4, <1>5, <1>6, <1>7
<1>8. CASE 0 \notin u
  BY <1>3, <1>4, <1>5, <1>6, <1>8
<1> QED BY <1>7, <1>8

LEMMA DivideRuns ==
  ASSUME NEW reg \in SUBSET Ones, NEW bits, Len(bits) \in Nat,
         \A n \in 1 .. Len(bits) : bits[n] \in SUBSET {0}
  PROVE  \E f \in [0 .. Len(bits) -> SUBSET Ones] :
           /\ f[0] = reg
           /\ \A n \in 1 .. Len(bits) : f[n] = DivideBit(f[n - 1], bits[n])
           /\ Divide(reg, bits) = f[Len(bits)]
<1> DEFINE N == Len(bits)
           Body(h) == [n \in 0 .. N |-> IF n = 0 THEN reg ELSE DivideBit(h[n - 1], bits[n])]
           after == CHOOSE h : h = Body(h)
           step == [n \in 1 .. N |-> [r \in SUBSET Ones |-> DivideBit(r, bits[n])]]
<1>1. step \in [1 .. N -> [SUBSET Ones -> SUBSET Ones]]
  BY DivideBitType
<1>2. PICK g : g \in RunsOf(SUBSET Ones, reg, N, step)
  <2> HIDE DEF step, N
  <2>1. N \in Nat
    BY DEF N
  <2>2. RunsOf(SUBSET Ones, reg, N, step) # {}
    BY <1>1, <2>1, LoopIs
  <2> QED BY <2>2
<1>3. /\ g \in [0 .. N -> SUBSET Ones] /\ g[0] = reg
      /\ \A n \in 1 .. N : g[n] = DivideBit(g[n - 1], bits[n])
  <2>1. /\ g \in [0 .. N -> SUBSET Ones] /\ g[0] = reg
        /\ \A n \in 1 .. N : g[n] = step[n][g[n - 1]]
    <3> HIDE DEF step, N
    <3> QED BY <1>2 DEF RunsOf
  <2>2. \A n \in 1 .. N : g[n - 1] \in SUBSET Ones
    <3> HIDE DEF step
    <3> QED BY <2>1
  <2> QED BY <2>1, <2>2
<1>4. g = Body(g)
  BY <1>3
<1>5. after = Body(after)
  <2> HIDE DEF Body
  <2> QED BY <1>4
<1>6. /\ after[0] = reg
      /\ \A n \in 1 .. N : after[n] = DivideBit(after[n - 1], bits[n])
  <2> HIDE DEF after
  <2> QED BY <1>5
<1>7. \A n \in 0 .. N : after[n] \in SUBSET Ones
  <2> HIDE DEF after
  <2>1. \A n \in 1 .. N : after[n - 1] \in SUBSET Ones => after[n] \in SUBSET Ones
    BY <1>6, DivideBitType
  <2> QED BY <1>6, <2>1, LoopType
<1>8. after \in [0 .. N -> SUBSET Ones]
  <2> HIDE DEF after
  <2> QED BY <1>5, <1>7
<1>9. Divide(reg, bits) = after[N]
  BY DEF Divide
<1> HIDE DEF after
<1> QED BY <1>6, <1>8, <1>9

-----------------------------------------------------------------------------
(* The table and the loop *)

\* For each index, the register goes from it to the entry in eight steps.
LEMMA TableRuns ==
  ASSUME NEW x \in Byte
  PROVE  \E f \in [0 .. 8 -> SUBSET Ones] :
           f[0] = x /\ f[8] = TabWord[x] /\ \A n \in 1 .. 8 : f[n] = DivideBit(f[n - 1], {})
<1> DEFINE zeros == [n \in 1 .. 8 |-> {}]
<1>1. Len(zeros) = 8
  OBVIOUS
<1>2. \A n \in 1 .. 8 : zeros[n] = {}
  OBVIOUS
<1>3. TabWord[x] = Divide(x, zeros)
  BY TableAssumption
<1>4. x \in SUBSET Ones
  BY DEF Byte, Ones
<1> HIDE DEF zeros
<1>5. PICK f \in [0 .. Len(zeros) -> SUBSET Ones] :
        /\ f[0] = x
        /\ \A n \in 1 .. Len(zeros) : f[n] = DivideBit(f[n - 1], zeros[n])
        /\ Divide(x, zeros) = f[Len(zeros)]
  <2>1. Len(zeros) \in Nat /\ \A n \in 1 .. Len(zeros) : zeros[n] \in SUBSET {0}
    BY <1>1, <1>2
  <2> QED BY <1>4, <2>1, DivideRuns, Zenon
<1> QED BY <1>1, <1>2, <1>3, <1>5, SMTT(30)

LEMMA UpdateType ==
  ASSUME NEW crc \in SUBSET Ones, NEW byte \in Byte
  PROVE  Update(crc, byte) \in SUBSET Ones
<1>1. LowByte(SymDiff(crc, byte)) \in Byte
  BY DEF LowByte, Byte
<1>2. TabWord[LowByte(SymDiff(crc, byte))] \in SUBSET Ones
  <2> DEFINE x == LowByte(SymDiff(crc, byte))
  <2> HIDE DEF x
  <2>1. x \in Byte
    BY <1>1 DEF x
  <2>2. TabWord[x] \in SUBSET Ones
    <3>1. PICK f \in [0 .. 8 -> SUBSET Ones] : f[8] = TabWord[x]
      BY <2>1, TableRuns
    <3> QED BY <3>1
  <2> QED BY <2>2 DEF x
<1>3. Shift8(crc) \in SUBSET Ones
  BY ShiftMembers
<1> QED BY <1>2, <1>3 DEF Update, SymDiff

LEMMA CrcRuns ==
  ASSUME NEW crc \in SUBSET Ones, NEW buf \in Seq(Byte)
  PROVE  \E f \in [0 .. Len(buf) -> SUBSET Ones] :
           /\ f[0] = crc
           /\ \A n \in 1 .. Len(buf) : f[n] = Update(f[n - 1], buf[n])
           /\ Loop(crc, buf) = f[Len(buf)]
<1> DEFINE N == Len(buf)
           Body(h) == [n \in 0 .. N |-> IF n = 0 THEN crc ELSE Update(h[n - 1], buf[n])]
           after == CHOOSE h : h = Body(h)
           step == [n \in 1 .. N |-> [r \in SUBSET Ones |-> Update(r, buf[n])]]
<1>0. N \in Nat /\ \A n \in 1 .. N : buf[n] \in Byte
  BY LenProperties, ElementOfSeq
<1>1. step \in [1 .. N -> [SUBSET Ones -> SUBSET Ones]]
  BY <1>0, UpdateType
<1>2. PICK g : g \in RunsOf(SUBSET Ones, crc, N, step)
  <2> HIDE DEF step, N
  <2>1. N \in Nat
    BY <1>0
  <2>2. RunsOf(SUBSET Ones, crc, N, step) # {}
    BY <1>1, <2>1, LoopIs
  <2> QED BY <2>2
<1>3. /\ g \in [0 .. N -> SUBSET Ones] /\ g[0] = crc
      /\ \A n \in 1 .. N : g[n] = Update(g[n - 1], buf[n])
  <2>1. /\ g \in [0 .. N -> SUBSET Ones] /\ g[0] = crc
        /\ \A n \in 1 .. N : g[n] = step[n][g[n - 1]]
    <3> HIDE DEF step, N
    <3> QED BY <1>2 DEF RunsOf
  <2>2. \A n \in 1 .. N : g[n - 1] \in SUBSET Ones
    <3> HIDE DEF step
    <3> QED BY <1>0, <2>1
  <2> QED BY <2>1, <2>2
<1>4. g = Body(g)
  BY <1>3
<1>5. after = Body(after)
  <2> HIDE DEF Body
  <2> QED BY <1>4
<1>6. /\ after[0] = crc
      /\ \A n \in 1 .. N : after[n] = Update(after[n - 1], buf[n])
  <2> HIDE DEF after
  <2> QED BY <1>5
<1>7. \A n \in 0 .. N : after[n] \in SUBSET Ones
  <2> HIDE DEF after
  <2>1. \A n \in 1 .. N : after[n - 1] \in SUBSET Ones => after[n] \in SUBSET Ones
    BY <1>0, <1>6, UpdateType
  <2> HIDE DEF N
  <2> QED BY <1>0, <1>6, <2>1, LoopType
<1>8. after \in [0 .. N -> SUBSET Ones]
  <2> HIDE DEF after
  <2> QED BY <1>5, <1>7
<1>9. Loop(crc, buf) = after[N]
  BY DEF Loop
<1> HIDE DEF after
<1> QED BY <1>6, <1>8, <1>9

\* One turn of the loop is eight steps of the division.
LEMMA TurnIsEightSteps ==
  ASSUME NEW crc \in SUBSET Ones, NEW byte \in Byte, NEW reg \in [0 .. 8 -> SUBSET Ones],
         reg[0] = crc,
         \A n \in 1 .. 8 : reg[n] = DivideBit(reg[n - 1], IF n - 1 \in byte THEN {0} ELSE {})
  PROVE  reg[8] = Update(crc, byte)
<1> DEFINE x == LowByte(SymDiff(crc, byte))
           e == SymDiff(crc, x)
           Rest(n) == {k \in Ones : k + n \in e}
<1>1. x \in Byte
  BY DEF LowByte, Byte
<1>2. PICK tab \in [0 .. 8 -> SUBSET Ones] :
        tab[0] = x /\ tab[8] = TabWord[x] /\ \A n \in 1 .. 8 : tab[n] = DivideBit(tab[n - 1], {})
  <2> HIDE DEF x
  <2> QED BY <1>1, TableRuns
<1>3. e \in SUBSET Ones
  BY DEF SymDiff, LowByte, Ones
<1>4. \A n \in 0 .. 7 : n \in e <=> n \in byte
  BY DEF SymDiff, LowByte, Ones
<1>5. Rest(0) = e
  <2> HIDE DEF e
  <2>1. \A k \in Ones : k + 0 = k
    BY DEF Ones
  <2> QED BY <1>3, <2>1
<1>6. Rest(8) = Shift8(crc)
  <2>1. \A k \in Ones : k + 8 \in e <=> k + 8 \in crc
    BY DEF SymDiff, LowByte, Ones
  <2> HIDE DEF e
  <2> QED BY <2>1, ShiftMembers
<1>7. SymDiff(reg[0], tab[0]) = Rest(0)
  BY <1>2, <1>5
<1>8. ASSUME NEW n \in 0 .. 7, SymDiff(reg[n], tab[n]) = Rest(n)
      PROVE  SymDiff(reg[n + 1], tab[n + 1]) = Rest(n + 1)
  <2> HIDE DEF e
  <2>1. 0 \in Rest(n) <=> n \in byte
    BY <1>3, <1>4 DEF Ones
  <2>2. Down(Rest(n)) = Rest(n + 1)
    <3>1. Rest(n) \in SUBSET Ones
      OBVIOUS
    <3>2. \A k \in Ones : k + 1 \in Rest(n) <=> k + (n + 1) \in e
      BY <1>3 DEF Ones
    <3>3. Down(Rest(n)) = {k \in Ones : k + 1 \in Rest(n)}
      <4> HIDE DEF Rest
      <4> QED BY <3>1, DownMembers
    <3> QED BY <3>2, <3>3
  <2> DEFINE bit == IF n \in byte THEN {0} ELSE {}
  <2>3. reg[n + 1] = DivideBit(reg[n], bit) /\ tab[n + 1] = DivideBit(tab[n], {})
    <3>1. n + 1 \in 1 .. 8 /\ (n + 1) - 1 = n
      OBVIOUS
    <3> QED BY <1>2, <3>1
  <2>4. reg[n] \in SUBSET Ones /\ tab[n] \in SUBSET Ones
    OBVIOUS
  <2>5. bit \in SUBSET {0} /\ {} \in SUBSET {0}
    OBVIOUS
  <2>6. SymDiff(Rest(n), SymDiff(bit, {})) \ {0} = Rest(n) \ {0} /\ 0 \notin SymDiff(Rest(n), SymDiff(bit, {}))
    <3> HIDE DEF Rest
    <3> QED BY <2>1 DEF SymDiff
  <2> HIDE DEF Rest, bit
  <2>7. SymDiff(reg[n + 1], tab[n + 1]) = DivideBit(Rest(n), SymDiff(bit, {}))
    BY <1>8, <2>3, <2>4, <2>5, DivideApart
  <2>8. DivideBit(Rest(n), SymDiff(bit, {})) = Down(Rest(n))
    BY <2>6, Zenon DEF DivideBit, Down
  <2> QED BY <2>2, <2>7, <2>8
<1>9. SymDiff(reg[8], tab[8]) = Rest(8)
  <2> HIDE DEF Rest
  <2>1. SymDiff(reg[4], tab[4]) = Rest(4)
    BY <1>7, <1>8
  <2> QED BY <1>8, <2>1
<1>10. reg[8] = SymDiff(tab[8], Rest(8))
  <2> HIDE DEF Rest
  <2> QED BY <1>9 DEF SymDiff
<1> QED BY <1>2, <1>6, <1>10 DEF Update

LEMMA BitsOfBytes ==
  ASSUME NEW buf \in Seq(Byte)
  PROVE  /\ Len(BitsInOrder(buf)) = 8 * Len(buf) /\ Len(buf) \in Nat
         /\ \A n \in 1 .. 8 * Len(buf) : BitsInOrder(buf)[n] \in SUBSET {0}
         /\ \A n \in 1 .. Len(buf), k \in 1 .. 8 :
              BitsInOrder(buf)[8 * (n - 1) + k] = IF k - 1 \in buf[n] THEN {0} ELSE {}
<1>1. Len(buf) \in Nat
  BY LenProperties
<1>2. Len(BitsInOrder(buf)) = 8 * Len(buf)
  BY <1>1 DEF BitsInOrder
<1>3. \A n \in 1 .. 8 * Len(buf) : BitsInOrder(buf)[n] \in SUBSET {0}
  BY DEF BitsInOrder
<1>4. ASSUME NEW n \in 1 .. Len(buf), NEW k \in 1 .. 8
      PROVE  BitsInOrder(buf)[8 * (n - 1) + k] = IF k - 1 \in buf[n] THEN {0} ELSE {}
  <2> DEFINE m == 8 * (n - 1) + k
  <2>1. m \in 1 .. 8 * Len(buf) /\ (m - 1) % 8 = k - 1 /\ 1 + (m - 1) \div 8 = n
    BY <1>1
  <2> HIDE DEF m
  <2>2. BitsInOrder(buf)[m] = IF k - 1 \in buf[n] THEN {0} ELSE {}
    BY <2>1 DEF BitsInOrder
  <2> QED BY <2>2 DEF m
<1> QED BY <1>1, <1>2, <1>3, <1>4

\* crc32 of any buffer is what the division by the polynomial leaves of its bits,
\* lowest bit of the first byte first.
THEOREM Crc32IsRemainder ==
  ASSUME NEW buf \in Seq(Byte)
  PROVE  crc32({}, buf) = Remainder(buf)
<1> DEFINE bits == BitsInOrder(buf)
<1>1. SymDiff({}, Ones) = Ones /\ Ones \in SUBSET Ones
  BY DEF SymDiff
<1>2. PICK crc \in [0 .. Len(buf) -> SUBSET Ones] :
        /\ crc[0] = Ones
        /\ \A n \in 1 .. Len(buf) : crc[n] = Update(crc[n - 1], buf[n])
        /\ Loop(Ones, buf) = crc[Len(buf)]
  BY <1>1, CrcRuns
<1>3. PICK reg \in [0 .. Len(bits) -> SUBSET Ones] :
        /\ reg[0] = Ones
        /\ \A n \in 1 .. Len(bits) : reg[n] = DivideBit(reg[n - 1], bits[n])
        /\ Divide(Ones, bits) = reg[Len(bits)]
  <2>1. Len(bits) \in Nat /\ \A n \in 1 .. Len(bits) : bits[n] \in SUBSET {0}
    <3>1. /\ Len(bits) = 8 * Len(buf) /\ Len(buf) \in Nat
          /\ \A n \in 1 .. 8 * Len(buf) : bits[n] \in SUBSET {0}
      BY BitsOfBytes
    <3> HIDE DEF bits
    <3> QED BY <3>1
  <2> HIDE DEF bits
  <2> QED BY <1>1, <2>1, DivideRuns
<1>4. Len(bits) = 8 * Len(buf) /\ Len(buf) \in Nat
  BY BitsOfBytes
<1>5. \A n \in 1 .. Len(buf), k \in 1 .. 8 : bits[8 * (n - 1) + k] = IF k - 1 \in buf[n] THEN {0} ELSE {}
  BY BitsOfBytes
<1> HIDE DEF bits
<1> DEFINE S == {n \in 0 .. Len(buf) : crc[n] = reg[8 * n]}
<1>6. 0 \in S
  BY <1>2, <1>3, <1>4
<1>7. ASSUME NEW n \in 0 .. Len(buf) - 1, n \in S PROVE n + 1 \in S
  <2> DEFINE eight == [k \in 0 .. 8 |-> reg[8 * n + k]]
             byte == buf[n + 1]
  <2>1. n + 1 \in 1 .. Len(buf) /\ (n + 1) - 1 = n
    BY <1>4
  <2>2. byte \in Byte
    BY <2>1, ElementOfSeq
  <2>3. \A k \in 0 .. 8 : 8 * n + k \in 0 .. Len(bits)
    BY <1>4
  <2>4. eight \in [0 .. 8 -> SUBSET Ones]
    BY <1>3, <2>3
  <2>5. ASSUME NEW k \in 1 .. 8
        PROVE  eight[k] = DivideBit(eight[k - 1], IF k - 1 \in byte THEN {0} ELSE {})
    <3>1. 8 * n + k \in 1 .. Len(bits) /\ (8 * n + k) - 1 = 8 * n + (k - 1)
      BY <1>4
    <3>2. reg[8 * n + k] = DivideBit(reg[8 * n + (k - 1)], bits[8 * n + k])
      BY <1>3, <3>1
    <3>3. bits[8 * n + k] = IF k - 1 \in byte THEN {0} ELSE {}
      BY <1>5, <2>1
    <3>4. eight[k] = reg[8 * n + k] /\ eight[k - 1] = reg[8 * n + (k - 1)]
      BY SMTT(30)
    <3> QED BY <3>2, <3>3, <3>4
  <2>6. eight[0] = crc[n]
    BY <1>4, <1>7
  <2>7. crc[n] \in SUBSET Ones
    BY <1>2, <1>4, SMTT(30)
  <2>8. eight[8] = Update(crc[n], byte)
    <3> HIDE DEF eight, byte
    <3> QED BY <2>2, <2>4, <2>5, <2>6, <2>7, TurnIsEightSteps
  <2>9. eight[8] = reg[8 * (n + 1)]
    BY <1>4
  <2>10. crc[n + 1] = Update(crc[n], byte)
    BY <1>2, <2>1
  <2> HIDE DEF eight, byte
  <2> QED BY <2>1, <2>8, <2>9, <2>10
<1>8. \A n \in 0 .. Len(buf) : n \in S
  <2> HIDE DEF S
  <2> QED BY <1>4, <1>6, <1>7, UpTo
<1>9. crc[Len(buf)] = reg[8 * Len(buf)]
  BY <1>4, <1>8
<1>10. SymDiff(crc[Len(buf)], Ones) = SymDiff(Ones, reg[8 * Len(buf)])
  BY <1>9 DEF SymDiff
<1> QED BY <1>1, <1>2, <1>3, <1>4, <1>10 DEF crc32, Remainder, bits

-----------------------------------------------------------------------------
(* Damage *)

LEMMA HighestBit == 31 \in Polynomial
<1>1. (\hEDB8 \div 2^15) % 2 = 1
  OBVIOUS
<1>2. 15 \in BitsOf(\hEDB8, 16) /\ 31 = 16 + 15
  BY <1>1 DEF BitsOf
<1> QED BY <1>2 DEF Polynomial

\* A difference of registers does not go away by itself: a bit of it moves one
\* place down, or its falling out sets the highest.
LEMMA DifferenceStays ==
  ASSUME NEW e \in SUBSET Ones, NEW j \in e, NEW bit \in SUBSET {0}, j >= 1 \/ bit = {}
  PROVE  \E k \in DivideBit(e, bit) : k >= j - 1
<1> DEFINE mixed == SymDiff(e, bit)
<1>1. mixed \in SUBSET Ones /\ j \in mixed
  BY DEF SymDiff, Ones
<1>2. DivideBit(e, bit) = IF 0 \in mixed THEN SymDiff(Down(mixed), Polynomial) ELSE Down(mixed)
  BY Zenon DEF DivideBit, Down
<1> HIDE DEF mixed
<1>3. Down(mixed) = {k \in Ones : k + 1 \in mixed}
  BY <1>1, DownMembers
<1>4. j \in 0 .. 31
  BY DEF Ones
<1>5. CASE 0 \in mixed
  <2>1. 31 \in DivideBit(e, bit)
    <3>1. 31 \notin Down(mixed)
      BY <1>1, <1>3 DEF Ones
    <3> QED BY <1>2, <1>5, <3>1, HighestBit DEF SymDiff
  <2> QED BY <1>4, <2>1
<1>6. CASE 0 \notin mixed
  <2>1. j - 1 \in Ones /\ (j - 1) + 1 = j
    BY <1>1, <1>4, <1>6 DEF Ones
  <2>2. j - 1 \in Down(mixed)
    BY <1>1, <1>3, <2>1
  <2>3. j - 1 \in DivideBit(e, bit)
    BY <1>2, <1>6, <2>2
  <2> QED BY <1>4, <2>3
<1> QED BY <1>5, <1>6

LEMMA BitsDiffer ==
  ASSUME NEW u \in SUBSET {0}, NEW v \in SUBSET {0}, u # v
  PROVE  SymDiff(u, v) = {0}
<1>1. ASSUME NEW z \in SUBSET {0} PROVE z = IF 0 \in z THEN {0} ELSE {}
  OBVIOUS
<1>2. u = (IF 0 \in u THEN {0} ELSE {}) /\ v = IF 0 \in v THEN {0} ELSE {}
  BY <1>1
<1>3. ~ (0 \in u <=> 0 \in v)
  BY <1>2
<1> QED BY <1>2, <1>3 DEF SymDiff

\* Registers of two inputs that differ first in bit d and no more from bit
\* d + 32 on.
BurstAt(d, x, y, N) ==
  /\ d \in 1 .. N /\ x[d] # y[d]
  /\ \A n \in 1 .. N : x[n] \in SUBSET {0} /\ y[n] \in SUBSET {0}
  /\ \A n \in 1 .. d - 1 : x[n] = y[n]
  /\ \A n \in d + 32 .. N : x[n] = y[n]

Divides(f, x, N) ==
  /\ f \in [0 .. N -> SUBSET Ones] /\ f[0] = Ones
  /\ \A n \in 1 .. N : f[n] = DivideBit(f[n - 1], x[n])

LEMMA BurstStays ==
  ASSUME NEW N \in Nat, NEW x, NEW y, NEW d, NEW f, NEW g,
         BurstAt(d, x, y, N), Divides(f, x, N), Divides(g, y, N)
  PROVE  f[N] # g[N]
<1> SUFFICES
      ASSUME d \in 1 .. N, x[d] # y[d],
             \A n \in 1 .. N : x[n] \in SUBSET {0} /\ y[n] \in SUBSET {0},
             \A n \in 1 .. d - 1 : x[n] = y[n],
             \A n \in d + 32 .. N : x[n] = y[n],
             f \in [0 .. N -> SUBSET Ones], g \in [0 .. N -> SUBSET Ones],
             f[0] = g[0],
             \A n \in 1 .. N : f[n] = DivideBit(f[n - 1], x[n]) /\ g[n] = DivideBit(g[n - 1], y[n])
      PROVE  f[N] # g[N]
  BY DEF BurstAt, Divides
<1> DEFINE D(n) == SymDiff(f[n], g[n])
           Far(n) == \E k \in D(n) : k >= 31 - (n - d)
<1>1. \A n \in 0 .. N : D(n) \in SUBSET Ones
  BY DEF SymDiff
<1>2. ASSUME NEW n \in 1 .. N PROVE D(n) = DivideBit(D(n - 1), SymDiff(x[n], y[n]))
  BY DivideApart
<1>3. f[d - 1] = g[d - 1]
  <2> DEFINE S == {n \in 0 .. N : f[n] = g[n]}
  <2>1. 0 \in S
    OBVIOUS
  <2>2. ASSUME NEW n \in 0 .. (d - 1) - 1, n \in S PROVE n + 1 \in S
    <3>1. n + 1 \in 1 .. d - 1 /\ n + 1 \in 1 .. N /\ n + 1 \in 0 .. N /\ (n + 1) - 1 = n
      OBVIOUS
    <3> QED BY <2>2, <3>1
  <2>3. \A n \in 0 .. d - 1 : n \in S
    <3>1. d - 1 \in Nat /\ 0 \in Nat
      OBVIOUS
    <3> HIDE DEF S
    <3> QED BY <2>1, <2>2, <3>1, UpTo
  <2> QED BY <2>3
<1>4. 31 \in D(d)
  <2>1. SymDiff(x[d], y[d]) = {0}
    <3>1. x[d] \in SUBSET {0} /\ y[d] \in SUBSET {0} /\ x[d] # y[d]
      OBVIOUS
    <3> QED BY <3>1, BitsDiffer
  <2>2. D(d - 1) = {}
    BY <1>3 DEF SymDiff
  <2>3. D(d) = DivideBit({}, {0})
    <3> HIDE DEF D
    <3> QED BY <1>2, <2>1, <2>2
  <2>4. SymDiff({}, {0}) = {0}
    BY DEF SymDiff
  <2>5. {0} \ {0} = {} /\ Down({0}) = {}
    BY DEF Down
  <2>6. DivideBit({}, {0}) = SymDiff({}, Polynomial)
    BY <2>4, <2>5, Zenon DEF DivideBit, Down
  <2> QED BY <2>3, <2>6, HighestBit DEF SymDiff
<1> DEFINE S == {n \in d .. N : D(n) # {} /\ (n < d + 32 => Far(n))}
<1>5. d \in S
  <2> HIDE DEF D
  <2> QED BY <1>4
<1>6. ASSUME NEW n \in d .. N - 1, n \in S PROVE n + 1 \in S
  <2>1. n + 1 \in 1 .. N /\ (n + 1) - 1 = n /\ n \in 0 .. N /\ n + 1 \in d .. N
    OBVIOUS
  <2> HIDE DEF D
  <2>2. D(n + 1) = DivideBit(D(n), SymDiff(x[n + 1], y[n + 1]))
    BY <1>2, <2>1
  <2>3. SymDiff(x[n + 1], y[n + 1]) \in SUBSET {0}
    BY <2>1 DEF SymDiff
  <2>4. D(n) \in SUBSET Ones
    BY <1>1, <2>1
  <2>5. PICK j \in D(n) : n < d + 32 => j >= 31 - (n - d)
    BY <1>6
  <2>6. j \in Int
    <3>1. Ones \subseteq Int
      BY DEF Ones
    <3> QED BY <2>4, <3>1
  <2>7. j >= 1 \/ SymDiff(x[n + 1], y[n + 1]) = {}
    <3>1. CASE n + 1 < d + 32
      BY <2>5, <2>6, <3>1
    <3>2. CASE ~ (n + 1 < d + 32)
      <4>1. n + 1 \in d + 32 .. N
        BY <3>2
      <4>2. x[n + 1] = y[n + 1]
        BY <4>1
      <4> QED BY <4>2 DEF SymDiff
    <3> QED BY <3>1, <3>2
  <2>8. PICK k \in D(n + 1) : k >= j - 1
    BY <2>2, <2>3, <2>4, <2>7, DifferenceStays
  <2>9. k \in Int
    <3>1. Ones \subseteq Int
      BY DEF Ones
    <3>2. D(n + 1) \in SUBSET Ones
      BY <1>1, <2>1
    <3> QED BY <3>1, <3>2
  <2>10. n + 1 < d + 32 => k >= 31 - ((n + 1) - d)
    BY <2>5, <2>6, <2>8, <2>9
  <2> QED BY <2>1, <2>8, <2>10
<1>7. \A n \in d .. N : n \in S
  <2>1. d \in Nat
    OBVIOUS
  <2> HIDE DEF S
  <2> QED BY <1>5, <1>6, <2>1, UpTo
<1>8. D(N) # {}
  <2> HIDE DEF D
  <2> QED BY <1>7
<1> QED BY <1>8 DEF SymDiff

\* No two buffers of one length have the same crc32 if all that differs is within
\* 32 bits, however long they are and wherever it is.
THEOREM BurstIsFound ==
  ASSUME NEW a \in Seq(Byte), NEW b \in Seq(Byte), Len(a) = Len(b), a # b,
         \A p, q \in Damage(a, b) : q - p < 32
  PROVE  crc32({}, a) # crc32({}, b)
<1> DEFINE x == BitsInOrder(a)
           y == BitsInOrder(b)
           N == 8 * Len(a)
<1>1. /\ Len(a) \in Nat /\ N \in Nat /\ Len(x) = N /\ Len(y) = N
      /\ \A n \in 1 .. N : x[n] \in SUBSET {0} /\ y[n] \in SUBSET {0}
  <2>1. Len(a) \in Nat /\ Len(x) = N /\ \A n \in 1 .. N : x[n] \in SUBSET {0}
    BY BitsOfBytes
  <2>2. Len(y) = N /\ \A n \in 1 .. N : y[n] \in SUBSET {0}
    BY BitsOfBytes
  <2> HIDE DEF x, y
  <2> QED BY <2>1, <2>2
<1>2. Damage(a, b) = {n \in 1 .. N : x[n] # y[n]}
  BY DEF Damage
<1>3. Damage(a, b) # {}
  <2>1. PICK n \in 1 .. Len(a) : a[n] # b[n]
    BY SeqEqual
  <2>2. a[n] \in Byte /\ b[n] \in Byte
    BY <1>1, ElementOfSeq
  <2>3. PICK k \in 0 .. 7 : ~ (k \in a[n] <=> k \in b[n])
    BY <2>1, <2>2 DEF Byte
  <2>4. k + 1 \in 1 .. 8 /\ (k + 1) - 1 = k
    OBVIOUS
  <2> DEFINE m == 8 * (n - 1) + (k + 1)
  <2>5. m \in 1 .. N
    <3>1. Len(a) \in Nat
      BY <1>1
    <3> QED BY ONLY <3>1, n \in 1 .. Len(a), k \in 0 .. 7 DEF m, N
  <2>6. x[m] = IF k \in a[n] THEN {0} ELSE {}
    BY <2>4, BitsOfBytes
  <2>7. y[m] = IF k \in b[n] THEN {0} ELSE {}
    BY <2>4, BitsOfBytes
  <2> HIDE DEF m, x, y, N
  <2> QED BY <1>2, <2>3, <2>5, <2>6, <2>7
<1> HIDE DEF x, y, N
<1>4. PICK d \in Damage(a, b) : \A n \in Damage(a, b) : d <= n
  <2>1. Damage(a, b) \in SUBSET Nat
    BY <1>1, <1>2
  <2> QED BY <1>3, <2>1, FirstOf
<1>5. d \in 1 .. N /\ x[d] # y[d]
  BY <1>2
<1>6. \A n \in 1 .. d - 1 : x[n] = y[n]
  BY <1>1, <1>2, <1>4, <1>5
<1>7. \A n \in d + 32 .. N : x[n] = y[n]
  BY <1>1, <1>2, <1>4, <1>5
<1>8. Ones \in SUBSET Ones
  OBVIOUS
<1>9. PICK f \in [0 .. N -> SUBSET Ones] :
        /\ f[0] = Ones
        /\ \A n \in 1 .. N : f[n] = DivideBit(f[n - 1], x[n])
        /\ Divide(Ones, x) = f[N]
  <2>1. Len(x) \in Nat /\ \A n \in 1 .. Len(x) : x[n] \in SUBSET {0}
    BY <1>1
  <2>2. \E h \in [0 .. Len(x) -> SUBSET Ones] :
          /\ h[0] = Ones
          /\ \A n \in 1 .. Len(x) : h[n] = DivideBit(h[n - 1], x[n])
          /\ Divide(Ones, x) = h[Len(x)]
    BY <1>8, <2>1, DivideRuns
  <2> QED BY <1>1, <2>2
<1>10. PICK g \in [0 .. N -> SUBSET Ones] :
        /\ g[0] = Ones
        /\ \A n \in 1 .. N : g[n] = DivideBit(g[n - 1], y[n])
        /\ Divide(Ones, y) = g[N]
  <2>1. Len(y) \in Nat /\ \A n \in 1 .. Len(y) : y[n] \in SUBSET {0}
    BY <1>1
  <2>2. \E h \in [0 .. Len(y) -> SUBSET Ones] :
          /\ h[0] = Ones
          /\ \A n \in 1 .. Len(y) : h[n] = DivideBit(h[n - 1], y[n])
          /\ Divide(Ones, y) = h[Len(y)]
    BY <1>8, <2>1, DivideRuns
  <2> QED BY <1>1, <2>2
<1>11. f[N] # g[N]
  <2>1. BurstAt(d, x, y, N)
    BY <1>1, <1>5, <1>6, <1>7 DEF BurstAt
  <2>2. Divides(f, x, N) /\ Divides(g, y, N)
    BY <1>9, <1>10 DEF Divides
  <2> QED BY <1>1, <2>1, <2>2, BurstStays
<1>12. Remainder(a) # Remainder(b)
  BY <1>9, <1>10, <1>11 DEF Remainder, SymDiff, x, y
<1> QED BY <1>12, Crc32IsRemainder

-----------------------------------------------------------------------------
(* Payloads on the line *)

PayloadInv ==
  /\ sent \in Seq(Byte) /\ got \in Seq(Byte)
  /\ Len(got) = Len(sent)
  /\ \A p, q \in Damage(sent, got) : q - p < 32

LEMMA PayloadInvInit == Init => PayloadInv
<1> SUFFICES ASSUME Init PROVE PayloadInv
  OBVIOUS
<1>1. <<>> \in Seq(Byte)
  BY EmptySeq
<1>2. Damage(<<>>, <<>>) = {}
  BY DEF Damage
<1> QED BY <1>1, <1>2 DEF Init, PayloadInv

\* A byte that arrives as it was sent adds no damage.
LEMMA SoundByte ==
  ASSUME NEW s \in Seq(Byte), NEW r \in Seq(Byte), Len(s) = Len(r), NEW b \in Byte
  PROVE  Damage(Append(s, b), Append(r, b)) \subseteq Damage(s, r)
<1> DEFINE t == Append(s, b)
           u == Append(r, b)
           N == 8 * Len(s)
<1>1. /\ t \in Seq(Byte) /\ u \in Seq(Byte) /\ Len(s) \in Nat
      /\ Len(t) = Len(s) + 1 /\ Len(u) = Len(s) + 1
      /\ \A n \in 1 .. Len(s) : t[n] = s[n] /\ u[n] = r[n]
      /\ t[Len(s) + 1] = b /\ u[Len(s) + 1] = b
  BY AppendProperties, LenProperties
<1> HIDE DEF t, u
<1>2. SUFFICES ASSUME NEW n \in Damage(t, u) PROVE n \in Damage(s, r)
  BY DEF t, u
<1>3. /\ n \in 1 .. N + 8
      /\ BitsInOrder(t)[n] # BitsInOrder(u)[n]
  BY <1>1 DEF Damage
<1> DEFINE i == 1 + (n - 1) \div 8
           k == (n - 1) % 8
<1>4. /\ BitsInOrder(t)[n] = IF k \in t[i] THEN {0} ELSE {}
      /\ BitsInOrder(u)[n] = IF k \in u[i] THEN {0} ELSE {}
  BY <1>1, <1>3 DEF BitsInOrder
<1>5. t[i] # u[i]
  <2> HIDE DEF i, k
  <2> QED BY <1>3, <1>4
<1>6. i \in 1 .. Len(s) + 1
  BY <1>1, <1>3
<1>7. i \in 1 .. Len(s)
  <2> HIDE DEF i
  <2> QED BY <1>1, <1>5, <1>6
<1>8. n \in 1 .. N
  BY <1>1, <1>3, <1>7
<1>9. /\ BitsInOrder(s)[n] = IF k \in s[i] THEN {0} ELSE {}
      /\ BitsInOrder(r)[n] = IF k \in r[i] THEN {0} ELSE {}
  BY <1>8 DEF BitsInOrder
<1> HIDE DEF i, k
<1>10. BitsInOrder(s)[n] # BitsInOrder(r)[n]
  BY <1>1, <1>3, <1>4, <1>7, <1>9
<1> QED BY <1>8, <1>10 DEF Damage

LEMMA PayloadInvStep == PayloadInv /\ [Next]_vars => PayloadInv'
<1> SUFFICES ASSUME PayloadInv, [Next]_vars PROVE PayloadInv'
  OBVIOUS
<1>1. ASSUME Len(sent) < MaxLen PROVE Bytes(Len(sent)) \in SUBSET Byte
  <2>1. Len(sent) \in Nat
    BY LenProperties DEF PayloadInv
  <2>2. Len(sent) \in 0 .. MaxLen
    BY <1>1, <2>1, BytesAssumption
  <2> QED BY <2>2, BytesAssumption
<1>2. ASSUME NEW b \in Byte, NEW c \in Byte, sent' = Append(sent, b), got' = Append(got, c)
      PROVE  sent' \in Seq(Byte) /\ got' \in Seq(Byte) /\ Len(got') = Len(sent')
  BY <1>2, AppendProperties DEF PayloadInv
<1>3. CASE Transfer
  <2>1. PICK b \in Bytes(Len(sent)) : sent' = Append(sent, b) /\ got' = Append(got, b)
    BY <1>3 DEF Transfer
  <2>2. b \in Byte
    BY <1>1, <1>3, <2>1 DEF Transfer
  <2>3. Damage(sent', got') \subseteq Damage(sent, got)
    BY <2>1, <2>2, SoundByte DEF PayloadInv
  <2>4. \A p, q \in Damage(sent', got') : q - p < 32
    BY <2>3 DEF PayloadInv
  <2> QED BY <1>2, <2>1, <2>2, <2>4 DEF PayloadInv
<1>4. CASE Garbled
  <2>1. PICK b \in Bytes(Len(sent)), e \in Errors :
          sent' = Append(sent, b) /\ got' = Append(got, SymDiff(b, e))
    BY <1>4 DEF Garbled
  <2>2. b \in Byte /\ SymDiff(b, e) \in Byte
    <3>1. b \in Byte
      BY <1>1, <1>4, <2>1 DEF Garbled
    <3> QED BY <3>1, ErrorsAssumption DEF SymDiff, Byte
  <2>3. \A p, q \in Damage(sent', got') : q - p < 32
    BY <1>4 DEF Garbled
  <2> QED BY <1>2, <2>1, <2>2, <2>3 DEF PayloadInv
<1>5. CASE UNCHANGED vars
  BY <1>5 DEF vars, PayloadInv
<1> QED BY <1>3, <1>4, <1>5 DEF Next

\* The checksum that piboot sends is the CRC of the polynomial that the comment
\* in crc32.c names.
THEOREM ChecksumIsRemainder == Spec => []CrcIsRemainder
<1>1. PayloadInv => CrcIsRemainder
  BY Crc32IsRemainder DEF PayloadInv, CrcIsRemainder
<1> QED BY <1>1, PayloadInvInit, PayloadInvStep, PTL DEF Spec

\* handle_load, with the same table, never takes a payload damaged within 32 bits
\* for the one that load_buffer sent.
THEOREM ChecksumFindsDamage == Spec => []DamageIsFound
<1>1. PayloadInv => DamageIsFound
  BY BurstIsFound DEF PayloadInv, DamageIsFound
<1> QED BY <1>1, PayloadInvInit, PayloadInvStep, PTL DEF Spec
=============================================================================
