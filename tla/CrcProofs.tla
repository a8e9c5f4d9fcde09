----------------------------- MODULE CrcProofs ------------------------------
(***************************************************************************)
(* Proofs about module Crc: both versions of usbCrc16Append compute the    *)
(* CRC that USB defines as a remainder, for every message, and the check   *)
(* of the receiver tells whole packets from damaged ones.                  *)
(***************************************************************************)
EXTENDS Crc, FiniteSets, FiniteSetTheorems, SequenceTheorems, TLAPS

-----------------------------------------------------------------------------
(* Induction and recursion, for sets and functions instead of operators *)

LEMMA Induction ==
  ASSUME NEW S, 0 \in S, \A n \in Nat : n \in S => n + 1 \in S
  PROVE  Nat \subseteq S
<1> SUFFICES ASSUME NEW n \in Nat, n \notin S
             PROVE  FALSE
  OBVIOUS
<1> DEFINE C == {m \in 0 .. n : m \notin S}
<1>1. n \in C
  OBVIOUS
<1>2. \A m \in C : m - 1 \in C \ {n}
  OBVIOUS
<1>3. \A m \in C : m \in Nat
  OBVIOUS
<1>4. IsFiniteSet(C)
  <2>1. C \in SUBSET (0 .. n) /\ IsFiniteSet(0 .. n)
    BY FS_Interval
  <2> HIDE DEF C
  <2> QED
    BY <2>1, FS_Subset
<1> HIDE DEF C
<1>5. IsFiniteSet(C \ {n}) /\ Cardinality(C \ {n}) < Cardinality(C)
  <2>1. Cardinality(C) \in Nat
    BY <1>4, FS_CardinalityType
  <2>2. IsFiniteSet(C \ {n}) /\ Cardinality(C \ {n}) = Cardinality(C) - 1
    BY <1>1, <1>4, FS_RemoveElement, Zenon
  <2> QED
    BY <2>1, <2>2
<1> DEFINE f == [m \in C |-> m - 1]
<1>6. f \in [C -> C \ {n}]
  BY <1>2
<1>7. \A x, y \in C : f[x] = f[y] => x = y
  BY <1>3
<1> HIDE DEF f
<1>8. \E x, y \in C : x # y /\ f[x] = f[y]
  BY <1>4, <1>5, <1>6, FS_PigeonHole
<1> QED
  BY <1>7, <1>8

\* A function of 0 .. n that is defined by recursion exists.
Recursive(n, S, A, F) == n \in Nat /\ A \in S /\ F \in [1 .. n -> [S -> S]]

LEMMA Recursion ==
  ASSUME NEW n, NEW S, NEW A, NEW F, Recursive(n, S, A, F)
  PROVE  \E f \in [0 .. n -> S] : f[0] = A /\ \A i \in 1 .. n : f[i] = F[i][f[i - 1]]
<1> USE DEF Recursive
<1> DEFINE Defined(k) ==
      \E f \in [0 .. k -> S] : f[0] = A /\ \A i \in 1 .. k : f[i] = F[i][f[i - 1]]
<1> DEFINE T == {k \in Nat : k <= n => Defined(k)}
<1>1. 0 \in T
  <2> DEFINE f == [i \in 0 .. 0 |-> A]
  <2>1. f \in [0 .. 0 -> S] /\ f[0] = A /\ \A i \in 1 .. 0 : f[i] = F[i][f[i - 1]]
    OBVIOUS
  <2> QED
    BY <2>1
<1>2. ASSUME NEW k \in Nat, k \in T
      PROVE  k + 1 \in T
  <2> SUFFICES ASSUME k + 1 <= n
               PROVE  Defined(k + 1)
    OBVIOUS
  <2>1. PICK g \in [0 .. k -> S] : g[0] = A /\ \A i \in 1 .. k : g[i] = F[i][g[i - 1]]
    BY <1>2
  <2> DEFINE f == [i \in 0 .. k + 1 |-> IF i <= k THEN g[i] ELSE F[i][g[i - 1]]]
  <2>2. F[k + 1][g[k]] \in S
    BY <2>1
  <2>3. f \in [0 .. k + 1 -> S]
    BY <2>1, <2>2
  <2>4. f[0] = A /\ \A i \in 1 .. k + 1 : f[i] = F[i][f[i - 1]]
    BY <2>1
  <2> HIDE DEF f
  <2> QED
    BY <2>3, <2>4
<1> HIDE DEF T
<1>3. n \in T
  BY <1>1, <1>2, Induction
<1> QED
  BY <1>3 DEF T

-----------------------------------------------------------------------------
(* Registers *)

Register == SUBSET (0 .. 15)

\* One bit of the division, and eight.
Step(r) == IF 0 \in r THEN Xor(Lsr(r), Poly) ELSE Lsr(r)
Eight(r) == Step(Step(Step(Step(Step(Step(Step(Step(r))))))))

LEMMA LsrBits ==
  ASSUME NEW r \in SUBSET Nat
  PROVE  Lsr(r) \subseteq Nat /\ \A j \in Nat : j \in Lsr(r) <=> j + 1 \in r
<1>1. ASSUME NEW j \in Nat, j + 1 \in r
      PROVE  j \in Lsr(r)
  <2>1. j + 1 \in r \ {0} /\ j = (j + 1) - 1
    BY <1>1
  <2> QED
    BY <2>1 DEF Lsr
<1>2. ASSUME NEW j \in Nat, j \in Lsr(r)
      PROVE  j + 1 \in r
  BY <1>2 DEF Lsr
<1> QED
  BY <1>1, <1>2 DEF Lsr

LEMMA StepBits ==
  ASSUME NEW r \in Register
  PROVE  /\ Step(r) \in Register
         /\ \A j \in 0 .. 15 : j \in Step(r) <=> ((j + 1 \in r) # (0 \in r /\ j \in Poly))
<1>1. Lsr(r) \subseteq Nat /\ \A j \in Nat : j \in Lsr(r) <=> j + 1 \in r
  BY LsrBits DEF Register
<1>2. Lsr(r) \in Register
  BY DEF Lsr, Register
<1>3. Poly \in Register
  BY DEF Poly, Register
<1>4. CASE 0 \in r
  <2>1. Step(r) = Xor(Lsr(r), Poly)
    BY <1>4 DEF Step
  <2>2. \A j \in 0 .. 15 : j \in Step(r) <=> ((j \in Lsr(r)) # (j \in Poly))
    BY <2>1 DEF Xor
  <2>3. Step(r) \in Register
    BY <1>2, <1>3, <2>1 DEF Xor, Register
  <2> QED
    BY <1>1, <1>4, <2>2, <2>3
<1>5. CASE 0 \notin r
  <2>1. Step(r) = Lsr(r)
    BY <1>5 DEF Step
  <2> QED
    BY <1>1, <1>2, <1>5, <2>1
<1> QED
  BY <1>4, <1>5

LEMMA XorType == \A a, b \in Register : Xor(a, b) \in Register
  BY DEF Xor, Register

LEMMA StepXor ==
  ASSUME NEW a \in Register, NEW b \in Register
  PROVE  Step(Xor(a, b)) = Xor(Step(a), Step(b))
<1>1. Xor(a, b) \in Register /\ \A j \in Int : j \in Xor(a, b) <=> ((j \in a) # (j \in b))
  BY DEF Xor, Register
<1>2. /\ Step(Xor(a, b)) \in Register
      /\ \A j \in 0 .. 15 :
           j \in Step(Xor(a, b)) <=> ((j + 1 \in Xor(a, b)) # (0 \in Xor(a, b) /\ j \in Poly))
  BY <1>1, StepBits
<1>3. /\ Step(a) \in Register
      /\ \A j \in 0 .. 15 : j \in Step(a) <=> ((j + 1 \in a) # (0 \in a /\ j \in Poly))
  BY StepBits
<1>4. /\ Step(b) \in Register
      /\ \A j \in 0 .. 15 : j \in Step(b) <=> ((j + 1 \in b) # (0 \in b /\ j \in Poly))
  BY StepBits
<1>5. Xor(Step(a), Step(b)) \in Register
  BY <1>3, <1>4, XorType
<1>6. \A j \in 0 .. 15 : j \in Xor(Step(a), Step(b)) <=> ((j \in Step(a)) # (j \in Step(b)))
  BY <1>3, <1>4 DEF Xor
<1>7. \A j \in 0 .. 15 : j \in Step(Xor(a, b)) <=> j \in Xor(Step(a), Step(b))
  BY <1>1, <1>2, <1>3, <1>4, <1>6
<1> QED
  BY <1>2, <1>5, <1>7 DEF Register

LEMMA EightType ==
  ASSUME NEW r \in Register
  PROVE  Eight(r) \in Register
  BY StepBits DEF Eight

LEMMA EightXor ==
  ASSUME NEW a \in Register, NEW b \in Register
  PROVE  Eight(Xor(a, b)) = Xor(Eight(a), Eight(b))
<1>1. \A x, y \in Register :
        /\ Step(x) \in Register /\ Step(y) \in Register
        /\ Step(Xor(x, y)) = Xor(Step(x), Step(y))
  BY StepBits, StepXor
<1> QED
  BY <1>1 DEF Eight

\* The upper byte comes down, whatever is in the lower one.
LEMMA EightDown ==
  ASSUME NEW r \in Register
  PROVE  Eight(r \cap 8 .. 15) = High(r)
<1> DEFINE Down(n) == {j \in 0 .. 15 : j + n \in r /\ j + n >= 8}
<1>1. ASSUME NEW n \in 0 .. 7
      PROVE  Step(Down(n)) = Down(n + 1)
  <2>1. Down(n) \in Register /\ 0 \notin Down(n)
    BY DEF Register
  <2>2. \A j \in 0 .. 15 : j + 1 \in Down(n) <=> j \in Down(n + 1)
    BY DEF Register
  <2> HIDE DEF Down
  <2>3. Step(Down(n)) \in Register /\ \A j \in 0 .. 15 : j \in Step(Down(n)) <=> j + 1 \in Down(n)
    BY <2>1, StepBits
  <2>4. Down(n + 1) \in Register
    BY DEF Down, Register
  <2> QED
    BY <2>2, <2>3, <2>4 DEF Register
<1>2. r \cap 8 .. 15 = Down(0)
  BY DEF Register
<1>3. Down(8) = High(r)
  <2>1. \A j \in 0 .. 15 : j \in High(r) <=> j + 8 \in r
    <3> SUFFICES ASSUME NEW j \in 0 .. 15
                 PROVE  j \in High(r) <=> j + 8 \in r
      OBVIOUS
    <3>1. ASSUME j + 8 \in r PROVE j \in High(r)
      <4>1. j + 8 \in r \cap 8 .. 15 /\ j = (j + 8) - 8
        BY <3>1 DEF Register
      <4> QED
        BY <4>1 DEF High
    <3> QED
      BY <3>1 DEF High
  <2>2. High(r) \in Register
    BY DEF High, Register
  <2> QED
    BY <2>1, <2>2 DEF Register
<1> HIDE DEF Down
<1>4. Step(Down(0)) = Down(1) /\ Step(Down(1)) = Down(2) /\ Step(Down(2)) = Down(3)
  BY <1>1
<1>5. Step(Down(3)) = Down(4) /\ Step(Down(4)) = Down(5) /\ Step(Down(5)) = Down(6)
  BY <1>1
<1>6. Step(Down(6)) = Down(7) /\ Step(Down(7)) = Down(8)
  BY <1>1
<1> QED
  BY <1>2, <1>3, <1>4, <1>5, <1>6 DEF Eight

\* What the fast version computes of a byte, in words and as eight steps.
FastTable(x) ==
  Xor(IF Parity(x) THEN {0, 14, 15} ELSE {},
      Xor(Lsr(Word(x, {})), Lsr(Lsr(Word(x, {})))))

LEMMA ParityBits ==
  ASSUME NEW x \in Byte
  PROVE  Parity(x) <=> ((((0 \in x) # (1 \in x)) # ((2 \in x) # (3 \in x)))
                          # (((4 \in x) # (5 \in x)) # ((6 \in x) # (7 \in x))))
<1> DEFINE turned == {(i + 4) % 8 : i \in x}
<1> DEFINE nibble == Xor(x, turned)
<1>1. \A k \in 0 .. 3 : k \in turned <=> k + 4 \in x
  BY DEF Byte
<1> HIDE DEF turned
<1>2. \A k \in 0 .. 3 : k \in nibble <=> ((k \in x) # (k + 4 \in x))
  BY <1>1 DEF Xor
<1> HIDE DEF nibble
<1>3. \A k \in {0, 1} : k \in Lsr(Lsr(nibble)) <=> k + 2 \in nibble
  <2>1. nibble \in SUBSET Nat
    <3>1. turned \subseteq Nat
      BY DEF turned, Byte
    <3> QED
      BY <3>1 DEF nibble, Xor, Byte
  <2>2. Lsr(nibble) \in SUBSET Nat /\ \A j \in Nat : j \in Lsr(nibble) <=> j + 1 \in nibble
    BY <2>1, LsrBits
  <2>3. \A j \in Nat : j \in Lsr(Lsr(nibble)) <=> j + 1 \in Lsr(nibble)
    BY <2>2, LsrBits
  <2> QED
    BY <2>2, <2>3
<1>4. \A k \in {0, 1} : k \in Xor(nibble, Lsr(Lsr(nibble))) <=>
      ((k \in nibble) # (k + 2 \in nibble))
  BY <1>3 DEF Xor
<1>5. Parity(x) <=> ((0 \in Xor(nibble, Lsr(Lsr(nibble)))) # (1 \in Xor(nibble, Lsr(Lsr(nibble)))))
  BY DEF Parity, nibble, turned
<1> QED
  BY <1>2, <1>4, <1>5

LEMMA FastTableBits ==
  ASSUME NEW x \in Byte
  PROVE  /\ FastTable(x) \in Register
         /\ \A j \in 0 .. 15 : j \in FastTable(x) <=>
              ((Parity(x) /\ j \in {0, 14, 15}) # ((j - 6 \in x) # (j - 7 \in x)))
<1> DEFINE once == Lsr(Word(x, {})) twice == Lsr(once)
           low == IF Parity(x) THEN {0, 14, 15} ELSE {}
<1>1. \A j \in Nat : j \in once <=> j - 7 \in x
  <2>1. Word(x, {}) \in SUBSET Nat /\ \A j \in Nat : j \in Word(x, {}) <=> j - 8 \in x
    <3>1. ASSUME NEW j \in Nat, j - 8 \in x PROVE j \in Word(x, {})
      <4>1. j = (j - 8) + 8
        OBVIOUS
      <4> QED
        BY <3>1, <4>1 DEF Word
    <3> QED
      BY <3>1 DEF Word, Byte
  <2> QED
    BY <2>1, LsrBits
<1>2. once \in Register
  BY DEF Lsr, Word, Byte, Register
<1> HIDE DEF once
<1>3. \A j \in Nat : j \in twice <=> j - 6 \in x
  <2>1. \A j \in Nat : j \in twice <=> j + 1 \in once
    BY <1>2, LsrBits DEF Register
  <2> QED
    BY <1>1, <2>1
<1>4. twice \in Register
  BY <1>2 DEF Lsr, Register
<1>5. low \in Register /\ \A j \in 0 .. 15 : j \in low <=> (Parity(x) /\ j \in {0, 14, 15})
  BY DEF Register
<1> HIDE DEF twice, low
<1>6. FastTable(x) = Xor(low, Xor(once, twice))
  BY DEF FastTable, once, twice, low
<1> QED
  BY <1>1, <1>2, <1>3, <1>4, <1>5, <1>6 DEF Xor, Register

\* The bit that leaves in each of eight steps says whether of the bits of x up to there an
\* odd number is 1: Odd is the set of the lengths of which this is so.
Odd(x) ==
  LET One(k) == k \in x
      Two(k) == One(k) # One(k + 1)
      Four(k) == Two(k) # Two(k + 2)
  IN {k \in 1 .. 8 :
        \/ k = 1 /\ One(0)
        \/ k = 2 /\ Two(0)
        \/ k = 3 /\ (Two(0) # One(2))
        \/ k = 4 /\ Four(0)
        \/ k = 5 /\ (Four(0) # One(4))
        \/ k = 6 /\ (Four(0) # Two(4))
        \/ k = 7 /\ (Four(0) # (Two(4) # One(6)))
        \/ k = 8 /\ (Four(0) # Four(4))}

LEMMA OddStep ==
  ASSUME NEW x \in Byte
  PROVE  /\ Odd(x) \subseteq 1 .. 8
         /\ \A k \in 1 .. 8 : k \in Odd(x) <=> ((k - 1 \in Odd(x)) # (k - 1 \in x))
         /\ Parity(x) <=> 8 \in Odd(x)
<1>1. \A k \in 1 .. 8 :
        k = 1 \/ k = 2 \/ k = 3 \/ k = 4 \/ k = 5 \/ k = 6 \/ k = 7 \/ k = 8
  OBVIOUS
<1>2. /\ 0 \notin Odd(x)
      /\ 1 \in Odd(x) <=> 0 \in x
      /\ 2 \in Odd(x) <=> ((0 \in x) # (1 \in x))
      /\ 3 \in Odd(x) <=> (((0 \in x) # (1 \in x)) # (2 \in x))
      /\ 4 \in Odd(x) <=> (((0 \in x) # (1 \in x)) # ((2 \in x) # (3 \in x)))
  BY DEF Odd
<1>3. /\ 5 \in Odd(x) <=> ((4 \in Odd(x)) # (4 \in x))
      /\ 6 \in Odd(x) <=> ((4 \in Odd(x)) # ((4 \in x) # (5 \in x)))
      /\ 7 \in Odd(x) <=> ((4 \in Odd(x)) # (((4 \in x) # (5 \in x)) # (6 \in x)))
      /\ 8 \in Odd(x) <=> ((4 \in Odd(x)) # (((4 \in x) # (5 \in x)) # ((6 \in x) # (7 \in x))))
  BY DEF Odd
<1>4. Odd(x) \subseteq 1 .. 8
  BY DEF Odd
<1>5. Parity(x) <=> 8 \in Odd(x)
  BY <1>2, <1>3, ParityBits
<1>6. \A k \in 1 .. 8 : k \in Odd(x) <=> ((k - 1 \in Odd(x)) # (k - 1 \in x))
  BY <1>1, <1>2, <1>3
<1> QED
  BY <1>4, <1>5, <1>6

\* The register after m steps.
Row(x, m) ==
  {j \in 0 .. 15 : ((j + m \in x) # (j \in {0, 15} /\ m \in Odd(x)))
                     # ((j = 14 /\ m - 1 \in Odd(x))
                        # (j <= 13 /\ ((m + j - 13 \in Odd(x)) # (m + j - 15 \in Odd(x)))))}

LEMMA RowStep ==
  ASSUME NEW x \in Byte, NEW m \in 0 .. 7
  PROVE  Step(Row(x, m)) = Row(x, m + 1)
<1>1. PICK q \in SUBSET (1 .. 8) :
        q = Odd(x) /\ \A k \in 1 .. 8 : k \in q <=> ((k - 1 \in q) # (k - 1 \in x))
  BY OddStep
<1>2. \A n \in 0 .. 8 : \A j \in 0 .. 15 : j \in Row(x, n) <=>
        (((j + n \in x) # (j \in {0, 15} /\ n \in q))
                     # ((j = 14 /\ n - 1 \in q)
                        # (j <= 13 /\ ((n + j - 13 \in q) # (n + j - 15 \in q)))))
  BY <1>1 DEF Row
<1>3. \A n \in 0 .. 8 : Row(x, n) \in Register
  BY DEF Row, Register
<1>4. PICK r \in Register : r = Row(x, m)
  BY <1>3
<1>5. Step(r) \in Register /\ \A j \in 0 .. 15 : j \in Step(r) <=>
      ((j + 1 \in r) # (0 \in r /\ j \in Poly))
  BY StepBits
<1>6. 0 \in r <=> m + 1 \in q
  BY <1>1, <1>2, <1>4 DEF Byte
<1>7. ASSUME NEW j \in 0 .. 15
      PROVE  j \in Step(r) <=> j \in Row(x, m + 1)
  <2>1. j \in Step(r) <=> ((j + 1 \in r) # (m + 1 \in q /\ j \in {0, 13, 15}))
    BY <1>5, <1>6 DEF Poly
  <2>2. CASE j = 15
    <3>1. 16 \notin r
      BY DEF Register
    <3> QED
      BY <1>1, <1>2, <2>1, <2>2, <3>1 DEF Byte
  <2>3. CASE j \in 13 .. 14
    BY <1>1, <1>2, <1>4, <2>1, <2>3 DEF Byte
  <2>4. CASE j \in 0 .. 12
    BY <1>1, <1>2, <1>4, <2>1, <2>4 DEF Byte
  <2> QED
    BY <2>2, <2>3, <2>4
<1> QED
  BY <1>3, <1>4, <1>5, <1>7 DEF Register

\* The fast version computes eight steps.
LEMMA EightLow ==
  ASSUME NEW x \in Byte
  PROVE  Eight(x) = FastTable(x)
<1>1. PICK q \in SUBSET (1 .. 8) :
        /\ q = Odd(x)
        /\ Parity(x) <=> 8 \in q
        /\ \A k \in 1 .. 8 : k \in q <=> ((k - 1 \in q) # (k - 1 \in x))
  BY OddStep
<1>2. Row(x, 0) = x
  <2>1. \A j \in 0 .. 15 : j \in Row(x, 0) <=> j \in x
    <3>1. \A k : k \in Odd(x) => k >= 1 /\ k <= 8 /\ k \in Int
      BY <1>1
    <3> QED
      BY <3>1 DEF Row
  <2>2. Row(x, 0) \subseteq 0 .. 15 /\ x \subseteq 0 .. 15
    BY DEF Row, Byte
  <2> QED
    BY <2>1, <2>2
<1>3. Row(x, 8) = FastTable(x)
  <2>1. /\ FastTable(x) \in Register
        /\ \A j \in 0 .. 15 : j \in FastTable(x) <=>
              ((8 \in q /\ j \in {0, 14, 15}) # ((j - 6 \in x) # (j - 7 \in x)))
    BY <1>1, FastTableBits
  <2>2. Row(x, 8) \in Register
    BY DEF Row, Register
  <2>3. ASSUME NEW j \in 0 .. 15
        PROVE  j \in Row(x, 8) <=> j \in FastTable(x)
    <3>1. j \in Row(x, 8) <=> ((j \in {0, 15} /\ 8 \in q) # ((j = 14 /\ 7 \in q)
                        # (j <= 13 /\ ((j - 5 \in q) # (j - 7 \in q)))))
      BY <1>1 DEF Row, Byte
    <3>2. CASE j \in 14 .. 15
      BY <1>1, <2>1, <3>1, <3>2 DEF Byte
    <3>3. CASE j \in 8 .. 13
      BY <1>1, <2>1, <3>1, <3>3 DEF Byte
    <3>4. CASE j \in 0 .. 7
      BY <1>1, <2>1, <3>1, <3>4 DEF Byte
    <3> QED
      BY <3>2, <3>3, <3>4
  <2> QED
    BY <2>1, <2>2, <2>3 DEF Register
<1>4. \A m \in 0 .. 7 : Step(Row(x, m)) = Row(x, m + 1)
  BY RowStep
<1>5. /\ Step(Row(x, 0)) = Row(x, 1) /\ Step(Row(x, 1)) = Row(x, 2) /\ Step(Row(x, 2)) = Row(x, 3)
      /\ Step(Row(x, 3)) = Row(x, 4) /\ Step(Row(x, 4)) = Row(x, 5) /\ Step(Row(x, 5)) = Row(x, 6)
      /\ Step(Row(x, 6)) = Row(x, 7) /\ Step(Row(x, 7)) = Row(x, 8)
  BY <1>4
<1> QED
  BY <1>2, <1>3, <1>5 DEF Eight

\* The sum after one more byte, as both versions and the tables compute it.
LEMMA ByteStep ==
  ASSUME NEW r \in Register, NEW byte \in Byte
  PROVE  /\ Xor(r, byte) \in Register
         /\ FastByte(r, byte) = Eight(Xor(r, byte))
         /\ Xor(Low(r), byte) \in Byte
         /\ Eight(Xor(r, byte)) = Xor(FastTable(Xor(Low(r), byte)), High(r))
<1> DEFINE x == Xor(Low(r), byte)
<1>1. x \in Byte /\ r \cap 8 .. 15 \in Register
  BY DEF Xor, Low, Byte, Register
<1>2. Xor(r, byte) = Xor(x, r \cap 8 .. 15)
  <2>1. Xor(r, byte) \in Register /\ Xor(x, r \cap 8 .. 15) \in Register
    BY DEF Xor, Low, Byte, Register
  <2>2. \A j \in 0 .. 15 : j \in Xor(r, byte) <=> j \in Xor(x, r \cap 8 .. 15)
    BY DEF Xor, Low, Byte
  <2> HIDE DEF x
  <2> QED
    BY <2>1, <2>2 DEF Register
<1> HIDE DEF x
<1>3. x \in Register
  BY <1>1 DEF Byte, Register
<1>4. Eight(Xor(r, byte)) = Xor(FastTable(x), High(r))
  BY <1>1, <1>2, <1>3, EightXor, EightDown, EightLow
<1>5. FastByte(r, byte) =
        Xor(Xor(High(r), IF Parity(x) THEN {0, 14, 15} ELSE {}),
            Xor(Lsr(Word(x, {})), Lsr(Lsr(Word(x, {})))))
  BY DEF FastByte, x
<1>6. \A a, b, c : Xor(Xor(a, b), c) = Xor(Xor(b, c), a)
  BY DEF Xor
<1>7. FastByte(r, byte) = Xor(FastTable(x), High(r))
  BY <1>5, <1>6 DEF FastTable
<1> QED
  BY <1>1, <1>2, <1>3, <1>4, <1>7, XorType DEF x

LEMMA TableRight ==
  ASSUME NEW index \in Register
  PROVE  CrcTable(index) = Eight(index)
<1> DEFINE F == [i \in 1 .. 8 |-> [last \in Register |-> Step(last)]]
<1>1. F \in [1 .. 8 -> [Register -> Register]]
  BY StepBits
<1> HIDE DEF F
<1>2. PICK f \in [0 .. 8 -> Register] : f[0] = index /\ \A i \in 1 .. 8 : f[i] = F[i][f[i - 1]]
  <2>1. PICK n : n = 8
    OBVIOUS
  <2>2. Recursive(n, Register, index, F)
    BY <1>1, <2>1 DEF Recursive
  <2>3. \E f \in [0 .. n -> Register] : f[0] = index /\ \A i \in 1 .. n : f[i] = F[i][f[i - 1]]
    BY <2>2, Recursion
  <2> QED
    BY <2>1, <2>3
<1>3. \A i \in 0 .. 8 : f[i] = IF i = 0 THEN index ELSE Step(f[i - 1])
  BY <1>2 DEF F
<1> DEFINE IsTable(crc) ==
      crc = [n \in 0 .. 8 |-> IF n = 0 THEN index
                              ELSE LET last == crc[n - 1]
                                   IN IF 0 \in last THEN Xor(Lsr(last), Poly) ELSE Lsr(last)]
<1>4. f = [n \in 0 .. 8 |-> IF n = 0 THEN index ELSE Step(f[n - 1])]
  BY <1>2, <1>3
<1>5. IsTable(f)
  BY <1>4 DEF Step
<1>6. PICK g : IsTable(g) /\ CrcTable(index) = g[8]
  <2>1. IsTable(CHOOSE crc : IsTable(crc))
    BY <1>5
  <2>2. CrcTable(index) = (CHOOSE crc : IsTable(crc))[8]
    BY DEF CrcTable
  <2> QED
    BY <2>1, <2>2
<1>7. \A i \in 0 .. 8 : g[i] = IF i = 0 THEN index ELSE Step(g[i - 1])
  BY <1>6 DEF Step
<1>8. /\ g[0] = index /\ g[1] = Step(g[0]) /\ g[2] = Step(g[1]) /\ g[3] = Step(g[2]) /\
         g[4] = Step(g[3])
      /\ g[5] = Step(g[4]) /\ g[6] = Step(g[5]) /\ g[7] = Step(g[6]) /\ g[8] = Step(g[7])
  BY <1>7
<1> QED
  BY <1>6, <1>8 DEF Eight

LEMMA LookUpRight ==
  ASSUME NEW r \in Register
  PROVE  LookUp(r) = Eight(r)
<1>1. Low(r) \in Register /\ r \cap 8 .. 15 \in Register
  BY DEF Low, Register
<1>2. r = Xor(Low(r), r \cap 8 .. 15)
  <2>1. Xor(Low(r), r \cap 8 .. 15) \in Register
    BY DEF Low, Xor, Register
  <2>2. \A j \in 0 .. 15 : j \in r <=> j \in Xor(Low(r), r \cap 8 .. 15)
    BY DEF Low, Xor
  <2> QED
    BY <2>1, <2>2 DEF Register
<1>3. Eight(r) = Xor(Eight(Low(r)), High(r))
  BY <1>1, <1>2, EightXor, EightDown
<1> QED
  BY <1>1, <1>3, TableRight DEF LookUp

-----------------------------------------------------------------------------
(* The division *)

LEMMA DivisionRight ==
  ASSUME message \in Seq(Byte)
  PROVE  /\ Division[0] = Dividend
         /\ \A i \in 1 .. 8 * Len(message) : Division[i] =
              IF i - 1 \in Division[i - 1] THEN Xor(Division[i - 1], Divisor(i - 1))
              ELSE Division[i - 1]
<1> DEFINE end == 8 * Len(message)
           F == [i \in 1 .. end |-> [last \in SUBSET Nat |->
                   IF i - 1 \in last THEN Xor(last, Divisor(i - 1)) ELSE last]]
<1>1. end \in Nat
  OBVIOUS
<1>2. F \in [1 .. end -> [SUBSET Nat -> SUBSET Nat]]
  <2>1. \A i \in 1 .. end : \A last \in SUBSET Nat : Xor(last, Divisor(i - 1)) \in SUBSET Nat
    BY DEF Xor, Divisor
  <2> QED
    BY <2>1
<1>3. Dividend \in SUBSET Nat
  <2>1. \A n \in DOMAIN message : n \in Nat /\ n >= 1 /\ message[n] \subseteq Nat
    BY DEF Byte
  <2>2. \A d \in Dividend :
          d \in 0 .. 15 \/ \E n \in DOMAIN message : \E i \in message[n] : d = 8 * (n - 1) + i
    BY DEF Dividend, Xor
  <2> QED
    BY <2>1, <2>2
<1> HIDE DEF F
<1>4. PICK f \in [0 .. end -> SUBSET Nat] :
        f[0] = Dividend /\ \A i \in 1 .. end : f[i] = F[i][f[i - 1]]
  <2>1. Recursive(end, SUBSET Nat, Dividend, F)
    BY <1>1, <1>2, <1>3 DEF Recursive
  <2> QED
    BY <2>1, Recursion
<1> DEFINE IsDivision(rest) ==
      rest = [i \in 0 .. 8 * Len(message) |->
                IF i = 0 THEN Dividend
                ELSE LET last == rest[i - 1]
                     IN IF i - 1 \in last THEN Xor(last, Divisor(i - 1)) ELSE last]
<1>5. IsDivision(f)
  <2>1. \A i \in 0 .. end : f[i] =
          IF i = 0 THEN Dividend
          ELSE IF i - 1 \in f[i - 1] THEN Xor(f[i - 1], Divisor(i - 1)) ELSE f[i - 1]
    <3>1. ASSUME NEW i \in 0 .. end, i # 0
          PROVE  f[i] = IF i - 1 \in f[i - 1] THEN Xor(f[i - 1], Divisor(i - 1)) ELSE f[i - 1]
      <4>1. i \in 1 .. end /\ i - 1 \in 0 .. end /\ f[i - 1] \in SUBSET Nat
        BY <1>1, <3>1
      <4>2. f[i] = F[i][f[i - 1]]
        BY <1>4, <3>1
      <4> QED
        BY <4>1, <4>2 DEF F
    <3>2. 0 \in 0 .. end => f[0] = Dividend
      BY <1>4
    <3> QED
      BY <3>1, <3>2
  <2> QED
    BY <1>1, <1>4, <2>1
<1>6. IsDivision(Division)
  <2>1. IsDivision(CHOOSE rest : IsDivision(rest))
    BY <1>5
  <2>2. Division = CHOOSE rest : IsDivision(rest)
    BY DEF Division
  <2> QED
    BY <2>1, <2>2
<1> QED
  BY <1>1, <1>6

\* The bits of the message in the order of the line.
Bits == UNION {{8 * (n - 1) + i : i \in message[n]} : n \in DOMAIN message}

LEMMA BitsOf ==
  ASSUME message \in Seq(Byte)
  PROVE  /\ Bits \subseteq 0 .. 8 * Len(message) - 1
         /\ \A n \in 1 .. Len(message) : \A i \in 0 .. 7 : 8 * (n - 1) + i \in Bits <=>
            i \in message[n]
<1>1. \A n \in 1 .. Len(message) : message[n] \subseteq 0 .. 7
  BY DEF Byte
<1>2. DOMAIN message = 1 .. Len(message) /\ Len(message) \in Nat
  OBVIOUS
<1>3. \A p : p \in Bits <=> \E n \in 1 .. Len(message) : \E i \in message[n] : p = 8 * (n - 1) + i
  BY <1>2 DEF Bits
<1>4. \A n, m \in Nat : \A i, j \in 0 .. 7 : 8 * (n - 1) + i = 8 * (m - 1) + j => n = m /\ i = j
  OBVIOUS
<1>5. Bits \subseteq 0 .. 8 * Len(message) - 1
  BY <1>1, <1>2, <1>3
<1>6. ASSUME NEW n \in 1 .. Len(message), NEW i \in 0 .. 7
      PROVE  8 * (n - 1) + i \in Bits <=> i \in message[n]
  <2>1. ASSUME i \in message[n] PROVE 8 * (n - 1) + i \in Bits
    BY <1>3, <2>1
  <2>2. ASSUME 8 * (n - 1) + i \in Bits PROVE i \in message[n]
    <3>1. PICK m \in 1 .. Len(message) : \E j \in message[m] : 8 * (n - 1) + i = 8 * (m - 1) + j
      BY <1>3, <2>2
    <3>2. PICK j \in message[m] : 8 * (n - 1) + i = 8 * (m - 1) + j
      BY <3>1
    <3>3. n \in Nat /\ m \in Nat /\ j \in 0 .. 7
      BY <1>1, <1>2, <3>2
    <3> QED
      BY <1>4, <3>2, <3>3
  <2> QED
    BY <2>1, <2>2
<1> QED
  BY <1>5, <1>6

\* After k bits of a division by Divisor the rest W is the register r, at its place, and the
\* bits from e on, which are not added to the register yet.
Rest(W, bits, k, r, e) ==
  /\ W \subseteq Nat
  /\ \A p \in Nat : p \in W <=> ((p - k \in r) # (p \in bits /\ p >= e))

\* One bit of the division.
Divided(W, k) == IF k \in W THEN Xor(W, Divisor(k)) ELSE W

LEMMA RestStep ==
  ASSUME NEW bits, NEW k \in Nat, NEW e \in Nat, k < e, NEW r \in Register,
         NEW W, Rest(W, bits, k, r, e)
  PROVE  Rest(Divided(W, k), bits, k + 1, Step(r), e)
<1> DEFINE V == Divided(W, k)
<1>3. W \subseteq Nat /\ \A p \in Nat : p \in W <=> ((p - k \in r) # (p \in bits /\ p >= e))
  BY DEF Rest
<1>4. k \in W <=> 0 \in r
  BY <1>3
<1>5. V \subseteq Nat
  <2>1. Divisor(k) \subseteq Nat
    BY DEF Divisor
  <2>2. Xor(W, Divisor(k)) \subseteq Nat
    BY <1>3, <2>1 DEF Xor
  <2> QED
    BY <1>3, <2>2 DEF Divided
<1>6. \A p \in Nat : p \in V <=> ((p \in W) # (0 \in r /\ p - k \in {0, 1, 14, 16}))
  <2>1. \A p \in Nat : p \in Divisor(k) <=> p - k \in {0, 1, 14, 16}
    BY DEF Divisor
  <2> QED
    BY <1>4, <2>1 DEF Xor, Divided
<1> HIDE DEF V
<1>7. Step(r) \in Register /\ \A j \in 0 .. 15 : j \in Step(r) <=>
      ((j + 1 \in r) # (0 \in r /\ j \in {0, 13, 15}))
  BY StepBits DEF Poly
<1>8. \A p \in Nat : p \in V <=> ((p - (k + 1) \in Step(r)) # (p \in bits /\ p >= e))
  <2> SUFFICES ASSUME NEW p \in Nat
               PROVE  p \in V <=> ((p - (k + 1) \in Step(r)) # (p \in bits /\ p >= e))
    OBVIOUS
  <2>1. p \in V <=>
          (((p - k \in r) # (p \in bits /\ p >= e)) # (0 \in r /\ p - k \in {0, 1, 14, 16}))
    BY <1>3, <1>6
  <2>2. CASE p - k \in 1 .. 16
    <3>1. p - (k + 1) \in 0 .. 15 /\ (p - (k + 1)) + 1 = p - k
      BY <2>2
    <3>2. p - (k + 1) \in Step(r) <=> ((p - k \in r) # (0 \in r /\ p - (k + 1) \in {0, 13, 15}))
      BY <1>7, <3>1
    <3> QED
      BY <2>1, <2>2, <3>2
  <2>3. CASE p - k \notin 1 .. 16
    <3>1. p - (k + 1) \notin Step(r)
      <4>1. \A j \in Step(r) : j \in 0 .. 15
        BY <1>7 DEF Register
      <4>2. p - (k + 1) \notin 0 .. 15
        BY <2>3
      <4> QED
        BY <4>1, <4>2
    <3>2. p - k \in r => p = k
      BY <2>3 DEF Register
    <3> QED
      BY <2>1, <2>3, <3>1, <3>2
  <2> QED
    BY <2>2, <2>3
<1> QED
  BY <1>5, <1>8 DEF Rest, V

LEMMA RestByte ==
  ASSUME NEW bits, NEW k \in Nat, NEW byte \in Byte, \A i \in 0 .. 7 : k + i \in bits <=>
         i \in byte,
         NEW r \in Register, NEW W, Rest(W, bits, k, r, k)
  PROVE  Rest(W, bits, k, Xor(r, byte), k + 8)
<1>3. byte \subseteq 0 .. 7
  BY DEF Byte
<1>5. ASSUME NEW p \in Nat
      PROVE  p \in W <=> ((p - k \in Xor(r, byte)) # (p \in bits /\ p >= k + 8))
  <2>1. p \in W <=> ((p - k \in r) # (p \in bits /\ p >= k))
    BY DEF Rest
  <2>2. p - k \in Xor(r, byte) <=> ((p - k \in r) # (p - k \in byte))
    BY DEF Xor
  <2>3. CASE p - k \in 0 .. 7
    <3>1. p \in bits <=> p - k \in byte
      <4>1. PICK i \in 0 .. 7 : p = k + i /\ i = p - k
        BY <2>3
      <4> QED
        BY <4>1
    <3> QED
      BY <2>1, <2>2, <2>3, <3>1
  <2>4. CASE p - k \notin 0 .. 7
    <3>1. p - k \notin byte
      BY <1>3, <2>4
    <3>2. p >= k <=> p >= k + 8
      BY <2>4
    <3> QED
      BY <2>1, <2>2, <3>1, <3>2
  <2> QED
    BY <2>3, <2>4
<1> QED
  BY <1>5 DEF Rest


\* What Division has left after k bits.
Left(division, bits, k, r, e) == Rest(division[k], bits, k, r, e)

LEMMA DivisionStart ==
  ASSUME message \in Seq(Byte)
  PROVE  Left(Division, Bits, 0, 0 .. 15, 0)
<1>1. Bits \subseteq Nat
  BY BitsOf
<1>2. Division[0] = Xor(0 .. 15, Bits)
  BY DivisionRight DEF Dividend, Bits
<1> QED
  BY <1>1, <1>2 DEF Left, Rest, Xor

LEMMA DivisionStep ==
  ASSUME message \in Seq(Byte), NEW k \in 0 .. 8 * Len(message) - 1, NEW e \in Nat, k < e,
         NEW r \in Register, Left(Division, Bits, k, r, e)
  PROVE  Left(Division, Bits, k + 1, Step(r), e)
<1>1. Division[k + 1] = Divided(Division[k], k)
  <2>1. k + 1 \in 1 .. 8 * Len(message) /\ (k + 1) - 1 = k
    OBVIOUS
  <2> QED
    BY <2>1, DivisionRight DEF Divided
<1>2. k \in Nat
  OBVIOUS
<1> QED
  BY <1>1, <1>2, RestStep DEF Left

LEMMA DivisionByte ==
  ASSUME message \in Seq(Byte), NEW n \in 1 .. Len(message), NEW r \in Register,
         Left(Division, Bits, 8 * (n - 1), r, 8 * (n - 1))
  PROVE  Left(Division, Bits, 8 * (n - 1), Xor(r, message[n]), 8 * n)
<1>1. 8 * (n - 1) \in Nat /\ 8 * n = 8 * (n - 1) + 8
  OBVIOUS
<1>2. \A i \in 0 .. 7 : 8 * (n - 1) + i \in Bits <=> i \in message[n]
  BY BitsOf
<1>3. message[n] \in Byte
  OBVIOUS
<1> QED
  BY <1>1, <1>2, <1>3, RestByte DEF Left

LEMMA DivisionEight ==
  ASSUME message \in Seq(Byte), NEW n \in 1 .. Len(message), NEW r \in Register,
         Left(Division, Bits, 8 * (n - 1), r, 8 * n)
  PROVE  Left(Division, Bits, 8 * n, Eight(r), 8 * n)
<1> DEFINE k == 8 * (n - 1)
<1>1. k \in Nat /\ 8 * n = k + 8 /\ k + 8 <= 8 * Len(message) /\ 8 * Len(message) \in Nat
  OBVIOUS
<1>2. Left(Division, Bits, k + 0, r, k + 8)
  BY <1>1
<1> HIDE DEF k
<1>3. \A i \in 0 .. 7 : \A x \in Register :
        Left(Division, Bits, k + i, x, k + 8) =>
        Left(Division, Bits, (k + i) + 1, Step(x), k + 8) /\ Step(x) \in Register
  <2> SUFFICES ASSUME NEW i \in 0 .. 7, NEW x \in Register, Left(Division, Bits, k + i, x, k + 8)
               PROVE  Left(Division, Bits, (k + i) + 1, Step(x), k + 8) /\ Step(x) \in Register
    OBVIOUS
  <2>1. k + i \in 0 .. 8 * Len(message) - 1 /\ k + 8 \in Nat /\ k + i < k + 8
    BY <1>1
  <2> QED
    BY <2>1, DivisionStep, StepBits
<1>4. \A i \in 0 .. 7 : \A x \in Register :
        Left(Division, Bits, k + i, x, k + 8) =>
        Left(Division, Bits, k + (i + 1), Step(x), k + 8) /\ Step(x) \in Register
  <2>1. \A i \in 0 .. 7 : (k + i) + 1 = k + (i + 1)
    BY <1>1
  <2> QED
    BY <1>3, <2>1
<1> DEFINE r1 == Step(r) r2 == Step(r1) r3 == Step(r2) r4 == Step(r3)
           r5 == Step(r4) r6 == Step(r5) r7 == Step(r6) r8 == Step(r7)
<1>5. /\ Left(Division, Bits, k + 1, r1, k + 8) /\ r1 \in Register /\
         Left(Division, Bits, k + 2, r2, k + 8) /\ r2 \in Register
  BY <1>2, <1>4
<1> HIDE DEF r1, r2
<1>6. /\ Left(Division, Bits, k + 3, r3, k + 8) /\ r3 \in Register /\
         Left(Division, Bits, k + 4, r4, k + 8) /\ r4 \in Register
  BY <1>4, <1>5
<1> HIDE DEF r3, r4
<1>7. /\ Left(Division, Bits, k + 5, r5, k + 8) /\ r5 \in Register /\
         Left(Division, Bits, k + 6, r6, k + 8) /\ r6 \in Register
  BY <1>4, <1>6
<1> HIDE DEF r5, r6
<1>8. /\ Left(Division, Bits, k + 7, r7, k + 8) /\ r7 \in Register /\
         Left(Division, Bits, k + 8, r8, k + 8)
  BY <1>4, <1>7
<1>9. r8 = Eight(r)
  BY DEF Eight, r1, r2, r3, r4, r5, r6
<1> QED
  BY <1>1, <1>8, <1>9

LEMMA DivisionEnd ==
  ASSUME message \in Seq(Byte), NEW r \in Register,
         Left(Division, Bits, 8 * Len(message), r, 8 * Len(message))
  PROVE  Crc16 = 0 .. 15 \ r
<1> DEFINE end == 8 * Len(message)
<1>1. end \in Nat
  OBVIOUS
<1>2. \A p \in Bits : ~(p >= end) /\ p \in Nat
  BY BitsOf
<1>3. Left(Division, Bits, end, r, end)
  OBVIOUS
<1>4. Crc16 = 0 .. 15 \ {i - end : i \in Division[end]}
  BY DEF Crc16
<1> HIDE DEF end
<1>5. Division[end] \subseteq Nat /\ \A p \in Nat : p \in Division[end] <=> p - end \in r
  BY <1>2, <1>3 DEF Left, Rest
<1>6. \A j \in 0 .. 15 : j \in {i - end : i \in Division[end]} <=> j \in r
  <2> SUFFICES ASSUME NEW j \in 0 .. 15
               PROVE  j \in {i - end : i \in Division[end]} <=> j \in r
    OBVIOUS
  <2>1. ASSUME j \in r PROVE j \in {i - end : i \in Division[end]}
    <3>1. end + j \in Nat /\ (end + j) - end = j
      BY <1>1
    <3>2. end + j \in Division[end]
      BY <1>5, <2>1, <3>1
    <3> QED
      BY <3>1, <3>2
  <2>2. ASSUME NEW i \in Division[end], j = i - end PROVE j \in r
    BY <1>5, <2>2
  <2> QED
    BY <2>1, <2>2
<1> QED
  BY <1>4, <1>6

-----------------------------------------------------------------------------
(* The packet with its sum *)

LEMMA Packet ==
  ASSUME NEW m \in Seq(Byte), NEW a \in Byte, NEW b \in Byte
  PROVE  /\ m \o <<a, b>> \in Seq(Byte) /\ Len(m \o <<a, b>>) = Len(m) + 2
         /\ DOMAIN (m \o <<a, b>>) = 1 .. Len(m) + 2
         /\ \A n \in 1 .. Len(m) : (m \o <<a, b>>)[n] = m[n]
         /\ (m \o <<a, b>>)[Len(m) + 1] = a /\ (m \o <<a, b>>)[Len(m) + 2] = b
  OBVIOUS

LEMMA PacketFunction ==
  ASSUME NEW m \in Seq(Byte), NEW a \in Byte, NEW b \in Byte
  PROVE  m \o <<a, b>> \in [1 .. Len(m) + 2 -> Byte]
<1>1. m \o <<a, b>> \in Seq(Byte)
  OBVIOUS
<1>2. Len(m \o <<a, b>>) = Len(m) + 2
  OBVIOUS
<1> QED
  BY <1>1, <1>2, LenProperties, Zenon

LEMMA TwoSet ==
  ASSUME NEW N \in Nat, NEW s \in [1 .. N + 2 -> Byte], NEW t \in [1 .. N + 2 -> Byte],
         \A n \in 1 .. N : s[n] = t[n]
  PROVE  [s EXCEPT ![N + 1] = t[N + 1], ![N + 2] = t[N + 2]] = t
<1> DEFINE u == [s EXCEPT ![N + 1] = t[N + 1], ![N + 2] = t[N + 2]]
<1>1. u \in [1 .. N + 2 -> Byte]
  OBVIOUS
<1>2. \A n \in 1 .. N + 2 : u[n] = t[n]
  OBVIOUS
<1> HIDE DEF u
<1>3. u = t
  BY <1>1, <1>2
<1> QED
  BY <1>3 DEF u

LEMMA SumType == Crc16 \in Register /\ Low(Crc16) \in Byte /\ High(Crc16) \in Byte
<1>1. Crc16 \in Register
  BY DEF Crc16, Register
<1> QED
  BY <1>1 DEF Low, High, Byte, Register

Room == message \o <<0 .. 7, 0 .. 7>>
Sent == message \o <<Low(Crc16), High(Crc16)>>
At(k, r, e) == Left(Division, Bits, k, r, e)
Inverted(r) == 0 .. 15 \ r

SendInv ==
  /\ message \in Messages
  /\ pc \in {"usbCrc16", "usbCrc16 fast"} => ptr = 1 /\ argLen = Len(message)
  /\ pc \in {"usbCrc16", "usbCrc16 fast", "usbCrcLoopEntry", "usbCrcByteLoop", "usbCrcBitLoop",
             "usbCrc16LoopTest", "append"} => buffer = Room
  /\ pc \in {"usbCrcLoopEntry", "usbCrcByteLoop", "usbCrcBitLoop", "usbCrc16LoopTest"} =>
       ptr \in 1 .. Len(message) + 1 /\ res \in Register
  /\ pc = "usbCrcLoopEntry" =>
       /\ argLen = 255 - (Len(message) - (ptr - 1)) /\ bitCnt = 0
       /\ At(8 * (ptr - 1), Inverted(res), 8 * (ptr - 1))
  /\ pc = "usbCrcByteLoop" =>
       /\ ptr <= Len(message) /\ argLen = 256 - (Len(message) - (ptr - 1)) /\ bitCnt = 0 /\ carry
       /\ At(8 * (ptr - 1), Inverted(res), 8 * (ptr - 1))
  /\ pc = "usbCrcBitLoop" =>
       /\ ptr >= 2 /\ argLen = 255 - (Len(message) - (ptr - 1)) /\ carry
       /\ \E b \in 0 .. 7 : bitCnt = 32 * b /\ At(8 * (ptr - 2) + b, Inverted(res), 8 * (ptr - 1))
  /\ pc = "usbCrc16LoopTest" =>
       argLen = Len(message) - (ptr - 1) /\ At(8 * (ptr - 1), res, 8 * (ptr - 1))
  /\ pc = "append" => ptr = Len(message) + 1 /\ res = Crc16
  /\ pc = "sent" => buffer = Sent

LEMMA UpTo255 == \A n \in Nat : n <= 255 => n \in 0 .. 255
  OBVIOUS

LEMMA Message == message \in Messages =>
message \in Seq(Byte) /\ \E n \in 0 .. 255 : n = Len(message)
<1> SUFFICES ASSUME message \in Messages
             PROVE  message \in Seq(Byte) /\ \E n \in 0 .. 255 : n = Len(message)
  OBVIOUS
<1>1. message \in Seq(Byte)
  BY MessagesAssumption
<1>2. PICK n \in Nat : n = Len(message) /\ n <= 255
  BY MessagesAssumption
<1>3. n \in 0 .. 255
  BY <1>2, UpTo255, Zenon
<1>4. n = Len(message)
  BY <1>2
<1> QED
  BY <1>1, <1>3, <1>4, Zenon

LEMMA SendInit == Init => SendInv
<1> SUFFICES ASSUME Init
             PROVE  SendInv
  OBVIOUS
<1> QED
  BY DEF Init, SendInv, Room

LEMMA Rigid ==
  message' = message =>
    /\ Division' = Division /\ Bits' = Bits /\ Crc16' = Crc16 /\ Room' = Room /\ Sent' = Sent
    /\ Len(message') = Len(message)
<1> SUFFICES ASSUME message' = message
             PROVE  /\ Division' = Division /\ Bits' = Bits /\ Crc16' = Crc16 /\ Room' = Room /\
                       Sent' = Sent
                    /\ Len(message') = Len(message)
  OBVIOUS
<1>1. Bits' = Bits /\ Dividend' = Dividend /\ Room' = Room
  BY DEF Bits, Dividend, Room
<1>2. Division' = Division
  BY <1>1 DEF Division
<1>3. Crc16' = Crc16
  BY <1>2 DEF Crc16
<1>4. Sent' = Sent
  BY <1>3 DEF Sent
<1> QED
  BY <1>1, <1>2, <1>3, <1>4

\* The complement of the sum takes steps too, with a 1 for the 0 that is shifted in.
LEMMA InvertedStep ==
  ASSUME NEW r \in Register, carry
  PROVE  /\ Inverted(r) \in Register /\ Inverted(Inverted(r)) = r
         /\ (IF 0 \in r THEN Shift(r) ELSE Xor(Shift(r), Poly)) = Inverted(Step(Inverted(r)))
<1>1. Inverted(r) \in Register /\ \A j \in 0 .. 15 : j \in Inverted(r) <=> j \notin r
  BY DEF Inverted, Register
<1>2. /\ Step(Inverted(r)) \in Register
      /\ \A j \in 0 .. 15 : j \in Step(Inverted(r)) <=>
         ((j + 1 \in Inverted(r)) # (0 \in Inverted(r) /\ j \in Poly))
  BY <1>1, StepBits
<1> DEFINE t == IF 0 \in r THEN Shift(r) ELSE Xor(Shift(r), Poly)
<1>3. Lsr(r) \subseteq Nat /\ \A j \in Nat : j \in Lsr(r) <=> j + 1 \in r
  BY LsrBits DEF Register
<1>4. Shift(r) \in Register /\ \A j \in 0 .. 15 : j \in Shift(r) <=> j + 1 \in r \/ j = 15
  <2>1. Shift(r) = Lsr(r) \cup {15}
    BY DEF Shift
  <2>2. \A j \in Lsr(r) : j \in 0 .. 15
    BY <1>3 DEF Register
  <2> QED
    BY <1>3, <2>1, <2>2 DEF Register
<1>5. t \in Register /\ \A j \in 0 .. 15 : j \in t <=>
      ((j + 1 \in r \/ j = 15) # (0 \notin r /\ j \in Poly))
  <2>1. Poly \in Register
    BY DEF Poly, Register
  <2>2. CASE 0 \in r
    BY <1>4, <2>2
  <2>3. CASE 0 \notin r
    BY <1>4, <2>1, <2>3, XorType DEF Xor
  <2> QED
    BY <2>2, <2>3
<1> HIDE DEF t
<1>6. ASSUME NEW j \in 0 .. 15
      PROVE  j \in t <=> j \notin Step(Inverted(r))
  <2>1. 0 \in Inverted(r) <=> 0 \notin r
    BY <1>1
  <2>2. CASE j = 15
    <3>1. 16 \notin Inverted(r)
      BY DEF Inverted
    <3> QED
      BY <1>2, <1>5, <2>1, <2>2, <3>1
  <2>3. CASE j # 15
    <3>1. j + 1 \in Inverted(r) <=> j + 1 \notin r
      BY <1>1, <2>3
    <3> QED
      BY <1>2, <1>5, <2>1, <2>3, <3>1
  <2> QED
    BY <2>2, <2>3
<1>7. t = Inverted(Step(Inverted(r)))
  BY <1>2, <1>5, <1>6 DEF Inverted, Register
<1>8. Inverted(Inverted(r)) = r
  BY DEF Inverted, Register
<1> QED
  BY <1>1, <1>7, <1>8 DEF t

LEMMA InvertedXor ==
  ASSUME NEW r \in Register, NEW b \in Byte
  PROVE  Inverted(Xor(r, b)) = Xor(Inverted(r), b) /\ Xor(r, b) \in Register
<1>1. Xor(r, b) \in Register /\ Xor(Inverted(r), b) \in Register /\ Inverted(Xor(r, b)) \in Register
  BY DEF Inverted, Xor, Register, Byte
<1>2. \A j \in 0 .. 15 : j \in Inverted(Xor(r, b)) <=> j \in Xor(Inverted(r), b)
  BY DEF Inverted, Xor
<1> QED
  BY <1>1, <1>2 DEF Register

LEMMA RoomBytes ==
  message \in Seq(Byte) => \A n \in 1 .. Len(message) : Room[n] = message[n] /\ message[n] \in Byte
<1> SUFFICES ASSUME message \in Seq(Byte)
             PROVE  \A n \in 1 .. Len(message) : Room[n] = message[n] /\ message[n] \in Byte
  OBVIOUS
<1>1. 0 .. 7 \in Byte
  BY DEF Byte
<1>2. \A n \in 1 .. Len(message) : Room[n] = message[n]
  BY <1>1, Packet DEF Room
<1>3. \A n \in 1 .. Len(message) : message[n] \in Byte
  OBVIOUS
<1> QED
  BY <1>2, <1>3

LEMMA RoomFilled ==
  ASSUME message \in Seq(Byte), NEW k, k = Len(message) + 1
  PROVE  [Room EXCEPT ![k] = Low(Crc16), ![k + 1] = High(Crc16)] = Sent
<1>1. 0 .. 7 \in Byte /\ Low(Crc16) \in Byte /\ High(Crc16) \in Byte
  BY SumType DEF Byte
<1> DEFINE N == Len(message)
<1>2. N \in Nat
  OBVIOUS
<1>3. /\ Room \in [1 .. N + 2 -> Byte] /\ Sent \in [1 .. N + 2 -> Byte]
  BY <1>1, PacketFunction DEF Room, Sent
<1>4. \A n \in 1 .. N : Room[n] = Sent[n]
  <2>1. \A n \in 1 .. N : Room[n] = message[n]
    BY <1>1, Packet DEF Room
  <2>2. \A n \in 1 .. N : Sent[n] = message[n]
    BY <1>1, Packet DEF Sent
  <2> QED
    BY <2>1, <2>2
<1>5. Sent[N + 1] = Low(Crc16) /\ Sent[N + 2] = High(Crc16)
  BY <1>1, Packet DEF Sent
<1>6. k = N + 1
  OBVIOUS
<1> HIDE DEF N
<1>7. k + 1 = N + 2
  BY <1>2, <1>6
<1> QED
  BY <1>2, <1>3, <1>4, <1>5, <1>6, <1>7, TwoSet

LEMMA SendStep ==
  ASSUME SendInv, [Next]_vars
  PROVE  SendInv'
<1> DEFINE len == Len(message)
<1>1. message \in Messages /\ message \in Seq(Byte) /\ len \in 0 .. 255
  <2>1. message \in Messages
    BY DEF SendInv
  <2>2. PICK n \in 0 .. 255 : n = Len(message)
    BY <2>1, Message
  <2> HIDE DEF len
  <2>3. len = n
    BY <2>2 DEF len
  <2> QED
    BY <2>1, <2>3, Message
<1>2. message' = message
  BY DEF Next, Sender, Receiver, vars, Enter, LoopEntry, ByteLoop, BitLoop, FastEnter, FastLoop,
         Append16, Travel, ReceivePid, ReceiveByte, CrcCleanupAndCheck
<1>3. /\ Division' = Division /\ Bits' = Bits /\ Crc16' = Crc16 /\ Room' = Room /\ Sent' = Sent
      /\ Len(message') = len
  BY <1>2, Rigid
<1>4. \A r \in Register : Inverted(r) \in Register /\ Inverted(Inverted(r)) = r
  BY DEF Inverted, Register
<1>5. 0 .. 15 \in Register /\ {} \in Register /\ Inverted({}) = 0 .. 15 /\ At(0, 0 .. 15, 0)
  BY <1>1, DivisionStart DEF Inverted, Register, At
<1> HIDE DEF len
<1>a. CASE Enter
  <2>1. /\ pc' = "usbCrcLoopEntry" /\ buffer' = Room /\ ptr' = 1 /\ argLen' = 255 - len
        /\ bitCnt' = 0
    BY <1>a DEF Enter, SendInv, len
  <2>2. res' = {}
    BY <1>a DEF Enter
  <2>3. At(8 * (ptr' - 1), Inverted(res'), 8 * (ptr' - 1)) /\ res' \in Register
    BY <1>5, <2>1, <2>2
  <2>4. ptr' \in 1 .. len + 1 /\ argLen' = 255 - (len - (ptr' - 1))
    BY <1>1, <2>1
  <2> QED
    BY <1>1, <1>2, <1>3, <2>1, <2>3, <2>4 DEF SendInv, At
<1>b. CASE LoopEntry
  <2>1. /\ pc = "usbCrcLoopEntry" /\ buffer = Room /\ ptr \in 1 .. len + 1 /\ bitCnt = 0
        /\ argLen = 255 - (len - (ptr - 1)) /\ res \in Register
        /\ At(8 * (ptr - 1), Inverted(res), 8 * (ptr - 1))
    BY <1>b DEF LoopEntry, SendInv, len
  <2>2. UNCHANGED <<buffer, ptr, bitCnt, res>>
    BY <1>b DEF LoopEntry
  <2>3. CASE ptr <= len
    <3>1. argLen < 255 /\ argLen + 1 \in 0 .. 255 /\ argLen + 1 = 256 - (len - (ptr - 1))
      BY <1>1, <2>1, <2>3
    <3>2. argLen' = 256 - (len - (ptr - 1))
      BY <1>b, <3>1 DEF LoopEntry
    <3>3. carry'
      BY <1>b, <3>1, Zenon DEF LoopEntry
    <3>4. pc' = "usbCrcByteLoop"
      BY <1>b, <3>3, Zenon DEF LoopEntry
    <3> QED
      BY <1>1, <1>2, <1>3, <2>1, <2>2, <2>3, <3>2, <3>3, <3>4 DEF SendInv, At
  <2>4. CASE ptr = len + 1
    <3>1. ~(argLen < 255)
      BY <1>1, <2>1, <2>4
    <3>2. pc' = "append"
      BY <1>b, <3>1 DEF LoopEntry
    <3>3. res = Crc16
      <4>1. Left(Division, Bits, 8 * Len(message), Inverted(res), 8 * Len(message))
        BY <1>1, <2>1, <2>4 DEF At, len
      <4>2. Crc16 = 0 .. 15 \ Inverted(res)
        BY <1>1, <1>4, <2>1, <4>1, DivisionEnd
      <4> QED
        BY <1>4, <2>1, <4>2 DEF Inverted
    <3> QED
      BY <1>1, <1>2, <1>3, <2>1, <2>2, <2>4, <3>2, <3>3 DEF SendInv
  <2> QED
    BY <1>1, <2>1, <2>3, <2>4
<1>c. CASE ByteLoop
  <2>1. /\ pc = "usbCrcByteLoop" /\ buffer = Room /\ ptr \in 1 .. len /\ bitCnt = 0 /\ carry
        /\ argLen = 256 - (len - (ptr - 1)) /\ res \in Register
        /\ At(8 * (ptr - 1), Inverted(res), 8 * (ptr - 1))
    BY <1>1, <1>c DEF ByteLoop, SendInv, len
  <2>2. pc' = "usbCrcBitLoop" /\ res' = Xor(res, message[ptr]) /\ ptr' = ptr + 1 /\
        message[ptr] \in Byte
    BY <1>1, <1>c, <2>1, RoomBytes DEF ByteLoop, len
  <2>3. UNCHANGED <<buffer, argLen, bitCnt, carry>>
    BY <1>c DEF ByteLoop
  <2>4. /\ res' \in Register /\ At(8 * (ptr - 1), Inverted(res'), 8 * ptr)
    BY <1>1, <1>4, <2>1, <2>2, DivisionByte, InvertedXor DEF At, len
  <2>5. At(8 * (ptr' - 2) + 0, Inverted(res'), 8 * (ptr' - 1)) /\ bitCnt' = 32 * 0
    BY <1>1, <2>1, <2>2, <2>3, <2>4
  <2>6. argLen' = 255 - (len - (ptr' - 1)) /\ ptr' \in 2 .. len + 1
    BY <1>1, <2>1, <2>2, <2>3
  <2> QED
    BY <1>1, <1>2, <1>3, <2>1, <2>2, <2>3, <2>4, <2>5, <2>6 DEF SendInv, At
<1>d. CASE BitLoop
  <2>1. /\ pc = "usbCrcBitLoop" /\ buffer = Room /\ ptr \in 2 .. len + 1 /\ carry
        /\ argLen = 255 - (len - (ptr - 1)) /\ res \in Register
    BY <1>1, <1>d DEF BitLoop, SendInv, len
  <2>2. PICK b \in 0 .. 7 : bitCnt = 32 * b /\ At(8 * (ptr - 2) + b, Inverted(res), 8 * (ptr - 1))
    BY <1>d DEF BitLoop, SendInv
  <2>3. UNCHANGED <<buffer, ptr, argLen>>
    BY <1>d DEF BitLoop
  <2>4. res' = Inverted(Step(Inverted(res))) /\ Inverted(res) \in Register
    BY <1>d, <2>1, InvertedStep DEF BitLoop
  <2>5. Step(Inverted(res)) \in Register
    BY <2>4, StepBits
  <2>6. res' \in Register /\ Inverted(res') = Step(Inverted(res))
    BY <1>4, <2>4, <2>5
  <2>7. At(8 * (ptr - 2) + b + 1, Inverted(res'), 8 * (ptr - 1))
    <3>1. 8 * (ptr - 2) + b \in 0 .. 8 * len - 1 /\ 8 * (ptr - 1) \in Nat /\
          8 * (ptr - 2) + b < 8 * (ptr - 1)
      BY <1>1, <2>1
    <3> QED
      BY <1>1, <2>2, <2>4, <2>6, <3>1, DivisionStep DEF At, len
  <2>8. CASE b < 7
    <3>1. bitCnt < 224 /\ bitCnt' = 32 * (b + 1) /\ b + 1 \in 0 .. 7
      <4>1. bitCnt < 224 /\ (bitCnt - 224) % 256 = 32 * (b + 1)
        BY <2>2, <2>8
      <4> QED
        BY <1>d, <2>8, <4>1 DEF BitLoop
    <3>2. carry'
      BY <1>d, <3>1, Zenon DEF BitLoop
    <3>3. pc' = "usbCrcBitLoop"
      BY <1>d, <3>2, Zenon DEF BitLoop
    <3>4. At(8 * (ptr' - 2) + (b + 1), Inverted(res'), 8 * (ptr' - 1))
      <4>1. 8 * (ptr - 2) + b + 1 = 8 * (ptr - 2) + (b + 1)
        BY <2>1
      <4> QED
        BY <2>3, <2>7, <4>1
    <3> QED
      BY <1>1, <1>2, <1>3, <2>1, <2>3, <2>6, <3>1, <3>2, <3>3, <3>4 DEF SendInv, At
  <2>9. CASE b = 7
    <3>1. bitCnt = 224 /\ (bitCnt - 224) % 256 = 0
      BY <2>2, <2>9
    <3>2. ~(bitCnt < 224) /\ bitCnt' = 0
      BY <1>d, <3>1 DEF BitLoop
    <3>3. pc' = "usbCrcLoopEntry"
      BY <1>d, <3>2, Zenon DEF BitLoop
    <3>4. At(8 * (ptr' - 1), Inverted(res'), 8 * (ptr' - 1))
      <4>1. 8 * (ptr - 2) + b + 1 = 8 * (ptr - 1)
        BY <2>1, <2>9
      <4> QED
        BY <2>3, <2>7, <4>1
    <3> QED
      BY <1>1, <1>2, <1>3, <2>1, <2>3, <2>6, <3>2, <3>3, <3>4 DEF SendInv, At
  <2> QED
    BY <2>8, <2>9
<1>e. CASE FastEnter
  <2>1. /\ pc' = "usbCrc16LoopTest" /\ buffer' = Room /\ ptr' = 1 /\ argLen' = len
    BY <1>e DEF FastEnter, SendInv, len
  <2>2. res' = 0 .. 15
    BY <1>e DEF FastEnter
  <2>3. At(8 * (ptr' - 1), res', 8 * (ptr' - 1)) /\ res' \in Register
    BY <1>5, <2>1, <2>2
  <2>4. ptr' \in 1 .. len + 1 /\ argLen' = len - (ptr' - 1)
    BY <1>1, <2>1
  <2> QED
    BY <1>1, <1>2, <1>3, <2>1, <2>3, <2>4 DEF SendInv, At
<1>f. CASE FastLoop
  <2>1. /\ pc = "usbCrc16LoopTest" /\ buffer = Room /\ ptr \in 1 .. len + 1
        /\ argLen = len - (ptr - 1) /\ res \in Register
        /\ At(8 * (ptr - 1), res, 8 * (ptr - 1))
    BY <1>f DEF FastLoop, SendInv, len
  <2>2. buffer' = buffer
    BY <1>f DEF FastLoop
  <2>3. CASE ptr <= len
    <3>1. argLen >= 1 /\ (argLen - 1) % 256 = len - ptr
      BY <1>1, <2>1, <2>3
    <3>2. ptr \in 1 .. len
      BY <1>1, <2>1, <2>3
    <3>3. buffer[ptr] = message[ptr] /\ message[ptr] \in Byte
      BY <1>1, <2>1, <3>2, RoomBytes DEF len
    <3>4. res' = FastByte(res, message[ptr]) /\ ptr' = ptr + 1 /\ pc' = pc /\ argLen' = len - ptr
      BY <1>f, <3>1, <3>3 DEF FastLoop
    <3>5. At(8 * (ptr - 1), Xor(res, message[ptr]), 8 * ptr)
      BY <1>1, <2>1, <3>2, DivisionByte DEF At, len
    <3>6. Xor(res, message[ptr]) \in Register /\ res' = Eight(Xor(res, message[ptr]))
      BY <2>1, <3>3, <3>4, ByteStep
    <3>7. At(8 * ptr, res', 8 * ptr)
      BY <1>1, <3>2, <3>5, <3>6, DivisionEight DEF At, len
    <3>8. res' \in Register
      BY <3>6, EightType
    <3>9. At(8 * (ptr' - 1), res', 8 * (ptr' - 1)) /\ ptr' \in 1 .. len + 1 /\
          argLen' = len - (ptr' - 1)
      <4>1. ptr' - 1 = ptr /\ ptr' \in 1 .. len + 1
        BY <1>1, <3>2, <3>4
      <4> QED
        BY <3>4, <3>7, <4>1
    <3> QED
      BY <1>1, <1>2, <1>3, <2>1, <2>2, <3>4, <3>8, <3>9 DEF SendInv, At
  <2>4. CASE ptr = len + 1
    <3>1. ~(argLen >= 1)
      BY <1>1, <2>1, <2>4
    <3>2. res' = 0 .. 15 \ res /\ pc' = "append" /\ ptr' = ptr
      BY <1>f, <3>1 DEF FastLoop
    <3>3. Left(Division, Bits, 8 * Len(message), res, 8 * Len(message))
      BY <1>1, <2>1, <2>4 DEF At, len
    <3>4. res' = Crc16
      BY <1>1, <2>1, <3>2, <3>3, DivisionEnd
    <3> QED
      BY <1>1, <1>2, <1>3, <2>1, <2>2, <2>4, <3>2, <3>4 DEF SendInv
  <2> QED
    BY <1>1, <2>1, <2>3, <2>4
<1>g. CASE Append16
  <2>1. pc' = "sent" /\ buffer' = [Room EXCEPT ![ptr] = Low(Crc16), ![ptr + 1] = High(Crc16)]
    BY <1>g DEF Append16, SendInv
  <2>2. ptr = Len(message) + 1
    BY <1>g DEF Append16, SendInv
  <2>3. buffer' = Sent
    <3> DEFINE k == ptr
    <3>1. k = Len(message) + 1
      BY <2>2
    <3> HIDE DEF k
    <3>2. [Room EXCEPT ![k] = Low(Crc16), ![k + 1] = High(Crc16)] = Sent
      BY <1>1, <3>1, RoomFilled
    <3> QED
      BY <2>1, <3>2 DEF k
  <2> QED
    BY <1>1, <1>2, <1>3, <2>1, <2>3 DEF SendInv
<1>h. CASE Travel \/ Receiver
  <2>1. pc' \in {"received", "rxDataStart", "accepted", "ignorePacket"}
    BY <1>h DEF Travel, Receiver, ReceivePid, ReceiveByte, CrcCleanupAndCheck
  <2> QED
    BY <1>1, <1>2, <2>1 DEF SendInv
<1>i. CASE UNCHANGED vars
  <2>1. Division' = Division /\ Bits' = Bits /\ Crc16' = Crc16 /\ Room' = Room /\ Sent' = Sent
    BY <1>3
  <2>2. /\ pc' = pc /\ message' = message /\ buffer' = buffer /\ ptr' = ptr /\ argLen' = argLen
        /\ bitCnt' = bitCnt /\ carry' = carry /\ res' = res
    BY <1>i DEF vars
  <2> QED
    BY <2>1, <2>2, ZenonT(60) DEF SendInv, At
<1> QED
  BY <1>a, <1>b, <1>c, <1>d, <1>e, <1>f, <1>g, <1>h, <1>i DEF Next, Sender

\* What usbCrc16Append leaves in the buffer is the message and the sum that the USB
\* specification defines, of either version and for a message of any length.
THEOREM SumRight == Spec => []SumAppended
<1>1. SendInv => SumAppended
  BY DEF SendInv, SumAppended, Sent
<1> QED
  BY <1>1, SendInit, SendStep, PTL DEF Spec

-----------------------------------------------------------------------------
(* What damage adds to the sum *)

LEMMA Smallest ==
  ASSUME NEW D \in SUBSET Nat, D # {}
  PROVE  \E first \in D : \A p \in D : first <= p
<1> SUFFICES ASSUME \A q \in D : \E p \in D : p < q
             PROVE  FALSE
  OBVIOUS
<1> DEFINE S == {n \in Nat : \A p \in D : p > n}
<1>1. 0 \in S
  <2>1. \A q \in D : q # 0
    OBVIOUS
  <2> QED
    BY <2>1
<1>2. \A n \in Nat : n \in S => n + 1 \in S
  <2> SUFFICES ASSUME NEW n \in Nat, \A p \in D : p > n, NEW p \in D
               PROVE  p > n + 1
    OBVIOUS
  <2>1. PICK q \in D : q < p
    OBVIOUS
  <2> QED
    BY <2>1
<1> HIDE DEF S
<1>3. Nat \subseteq S
  BY <1>1, <1>2, Induction
<1>4. PICK q \in D : q \in Nat
  OBVIOUS
<1>5. q \in S
  BY <1>3, <1>4
<1>6. q > q
  BY <1>4, <1>5 DEF S
<1> QED
  BY <1>4, <1>6

\* d is what the damage x adds to the register after k bits, when its bits from e on have
\* not been added: the rest of x is not zero and no longer than 16 bits.
Burst(W, x, k) ==
  /\ W # {}
  /\ \E at \in Nat : /\ \A p \in x : at <= p /\ p <= at + 15
                     /\ \A p \in W : at <= p /\ k <= p /\ (p <= at + 15 \/ p <= k + 15)
Hurt(x, d, k, e) ==
  IF x = {} THEN d = {} ELSE \E W \in SUBSET Nat : Rest(W, x, k, d, e) /\ Burst(W, x, k)

LEMMA HurtStart ==
  ASSUME NEW x \in SUBSET Nat, \A first, last \in x : last - first <= 15
  PROVE  Hurt(x, {}, 0, 0)
<1>1. CASE x = {}
  BY <1>1 DEF Hurt
<1>2. CASE x # {}
  <2>1. PICK at \in x : \A p \in x : at <= p
    BY <1>2, Smallest
  <2>2. \A p \in x : at <= p /\ p <= at + 15 /\ 0 <= p
    BY <2>1
  <2>3. Burst(x, x, 0)
    BY <1>2, <2>2 DEF Burst
  <2>4. Rest(x, x, 0, {}, 0)
    BY DEF Rest
  <2> QED
    BY <1>2, <2>3, <2>4 DEF Hurt
<1> QED
  BY <1>1, <1>2

LEMMA EmptyStep == Lsr({}) = {} /\ Step({}) = {} /\ Eight({}) = {}
<1>1. Lsr({}) = {}
  BY DEF Lsr
<1>2. Step({}) = {}
  BY <1>1 DEF Step
<1> QED
  BY <1>1, <1>2 DEF Eight

LEMMA BurstStep ==
  ASSUME NEW x, NEW k \in Nat, NEW W \in SUBSET Nat, Burst(W, x, k)
  PROVE  Burst(Divided(W, k), x, k + 1)
<1>1. PICK at \in Nat : /\ \A p \in x : at <= p /\ p <= at + 15
                       /\ \A p \in W : at <= p /\ k <= p /\ (p <= at + 15 \/ p <= k + 15)
  BY DEF Burst
<1>2. CASE k \notin W
  <2>1. \A p \in W : at <= p /\ k + 1 <= p /\ (p <= at + 15 \/ p <= (k + 1) + 15)
    BY <1>1, <1>2
  <2> QED
    BY <1>1, <1>2, <2>1 DEF Burst, Divided
<1>3. CASE k \in W
  <2>1. at <= k
    BY <1>1, <1>3
  <2>2. Divided(W, k) = Xor(W, {k, k + 1, k + 14, k + 16})
    BY <1>3 DEF Divided, Divisor
  <2>3. k + 16 \in Divided(W, k)
    BY <1>1, <2>1, <2>2 DEF Xor
  <2>4. \A p \in Divided(W, k) : p \in Nat /\ p # k
    <3> DEFINE divisor == {k, k + 1, k + 14, k + 16}
    <3>1. divisor \subseteq Nat /\ k \in divisor
      OBVIOUS
    <3>2. Divided(W, k) = Xor(W, divisor)
      BY <2>2
    <3> HIDE DEF divisor
    <3> QED
      BY <1>3, <3>1, <3>2 DEF Xor
  <2>5. \A p \in Divided(W, k) : p \in W \/ p \in {k, k + 1, k + 14, k + 16}
    BY <2>2 DEF Xor
  <2>6. \A p \in Divided(W, k) : at <= p /\ k + 1 <= p /\ p <= (k + 1) + 15
    BY <1>1, <2>1, <2>4, <2>5
  <2> QED
    BY <1>1, <2>3, <2>6 DEF Burst
<1> QED
  BY <1>2, <1>3

LEMMA HurtStep ==
  ASSUME NEW x, NEW k \in Nat, NEW e \in Nat, k < e, NEW d \in Register, Hurt(x, d, k, e)
  PROVE  Hurt(x, Step(d), k + 1, e)
<1>1. CASE x = {}
  BY <1>1, EmptyStep DEF Hurt
<1>2. CASE x # {}
  <2>1. PICK W \in SUBSET Nat : Rest(W, x, k, d, e) /\ Burst(W, x, k)
    BY <1>2 DEF Hurt
  <2>2. Rest(Divided(W, k), x, k + 1, Step(d), e) /\ Burst(Divided(W, k), x, k + 1)
    BY <2>1, RestStep, BurstStep
  <2>3. Divided(W, k) \in SUBSET Nat
    BY <2>2 DEF Rest
  <2> QED
    BY <1>2, <2>2, <2>3 DEF Hurt
<1> QED
  BY <1>1, <1>2

LEMMA HurtByte ==
  ASSUME NEW x, NEW k \in Nat, NEW byte \in Byte, \A i \in 0 .. 7 : k + i \in x <=> i \in byte,
         NEW d \in Register, Hurt(x, d, k, k)
  PROVE  Hurt(x, Xor(d, byte), k, k + 8)
<1>1. CASE x = {}
  <2>1. byte = {} /\ d = {}
    BY <1>1 DEF Hurt, Byte
  <2> QED
    BY <1>1, <2>1 DEF Hurt, Xor
<1>2. CASE x # {}
  BY <1>2, RestByte DEF Hurt
<1> QED
  BY <1>1, <1>2

LEMMA HurtEight ==
  ASSUME NEW x, NEW k \in Nat, NEW d \in Register, Hurt(x, d, k, k + 8)
  PROVE  Hurt(x, Eight(d), k + 8, k + 8)
<1>1. Hurt(x, d, k + 0, k + 8)
  OBVIOUS
<1>2. \A i \in 0 .. 7 : \A y \in Register :
        Hurt(x, y, k + i, k + 8) => Hurt(x, Step(y), k + (i + 1), k + 8) /\ Step(y) \in Register
  <2> SUFFICES ASSUME NEW i \in 0 .. 7, NEW y \in Register, Hurt(x, y, k + i, k + 8)
               PROVE  Hurt(x, Step(y), k + (i + 1), k + 8) /\ Step(y) \in Register
    OBVIOUS
  <2>1. k + i \in Nat /\ k + 8 \in Nat /\ k + i < k + 8 /\ (k + i) + 1 = k + (i + 1)
    OBVIOUS
  <2>2. Hurt(x, Step(y), (k + i) + 1, k + 8)
    BY <2>1, HurtStep
  <2> QED
    BY <2>1, <2>2, StepBits
<1> DEFINE d1 == Step(d) d2 == Step(d1) d3 == Step(d2) d4 == Step(d3)
           d5 == Step(d4) d6 == Step(d5) d7 == Step(d6) d8 == Step(d7)
<1>5. Hurt(x, d1, k + 1, k + 8) /\ d1 \in Register /\ Hurt(x, d2, k + 2, k + 8) /\ d2 \in Register
  BY <1>1, <1>2
<1> HIDE DEF d1, d2
<1>6. Hurt(x, d3, k + 3, k + 8) /\ d3 \in Register /\ Hurt(x, d4, k + 4, k + 8) /\ d4 \in Register
  BY <1>2, <1>5
<1> HIDE DEF d3, d4
<1>7. Hurt(x, d5, k + 5, k + 8) /\ d5 \in Register /\ Hurt(x, d6, k + 6, k + 8) /\ d6 \in Register
  BY <1>2, <1>6
<1> HIDE DEF d5, d6
<1>8. Hurt(x, d7, k + 7, k + 8) /\ d7 \in Register /\ Hurt(x, d8, k + 8, k + 8)
  BY <1>2, <1>7
<1>9. d8 = Eight(d)
  BY DEF Eight, d1, d2, d3, d4, d5, d6
<1> QED
  BY <1>8, <1>9

\* After the last byte the damage has left something.
LEMMA HurtEnd ==
  ASSUME NEW x, NEW k \in Nat, \A p \in x : ~(p >= k), NEW d \in Register, Hurt(x, d, k, k)
  PROVE  d = {} <=> x = {}
<1>1. CASE x = {}
  BY <1>1 DEF Hurt
<1>2. CASE x # {}
  <2>1. PICK W \in SUBSET Nat : Rest(W, x, k, d, k) /\ Burst(W, x, k)
    BY <1>2 DEF Hurt
  <2>2. PICK p \in W : TRUE
    BY <2>1 DEF Burst
  <2>3. p - k \in d
    BY <2>1, <2>2 DEF Rest
  <2> QED
    BY <1>2, <2>3
<1> QED
  BY <1>1, <1>2

-----------------------------------------------------------------------------
(* What the sum of a whole packet is, byte by byte *)

Residue == {0, 12, 13, 15}
LowAdded(sum) == Xor({6, 14}, 0 .. 7 \ High(sum))
Clean(c, n) ==
  IF n <= Len(message) THEN At(8 * n, c, 8 * n)
  ELSE c = IF n = Len(message) + 1 THEN LowAdded(Crc16) ELSE Residue

\* The lower byte of the sum inverts that of the register.
LEMMA LowStep ==
  ASSUME NEW c \in Register, NEW sum, sum = 0 .. 15 \ c
  PROVE  Eight(Xor(c, Low(sum))) = LowAdded(sum)
<1>1. Low(sum) \in Byte /\ Xor(Low(c), Low(sum)) = 0 .. 7
  <2>1. Low(sum) \in Byte
    BY DEF Low, Byte
  <2>2. Xor(Low(c), Low(sum)) = 0 .. 7
    BY DEF Low, Xor, Register
  <2> QED
    BY <2>1, <2>2
<1>2. Eight(Xor(c, Low(sum))) = Xor(FastTable(0 .. 7), High(c))
  BY <1>1, ByteStep
<1>3. FastTable(0 .. 7) = {6, 14}
  <2>1. 0 .. 7 \in Byte
    BY DEF Byte
  <2>2. ~Parity(0 .. 7)
    BY <2>1, ParityBits
  <2>3. FastTable(0 .. 7) \in Register /\ {6, 14} \in Register
    BY <2>1, FastTableBits DEF Register
  <2>4. \A j \in 0 .. 15 : j \in FastTable(0 .. 7) <=> ((j - 6 \in 0 .. 7) # (j - 7 \in 0 .. 7))
    BY <2>1, <2>2, FastTableBits
  <2>5. \A j \in 0 .. 15 : j \in FastTable(0 .. 7) <=> j \in {6, 14}
    BY <2>4
  <2> QED
    BY <2>3, <2>5 DEF Register
<1>4. High(c) = 0 .. 7 \ High(sum)
  <2>1. High(c) \subseteq 0 .. 7
    BY DEF High, Register
  <2>2. \A j \in 0 .. 7 : j \in High(c) <=> j + 8 \in c
    BY DEF High
  <2>3. \A j \in 0 .. 7 : j \in High(sum) <=> j + 8 \in sum
    BY DEF High
  <2>4. \A j \in 0 .. 7 : j \in High(c) <=> j \notin High(sum)
    BY <2>2, <2>3
  <2> QED
    BY <2>1, <2>4
<1> QED
  BY <1>2, <1>3, <1>4 DEF LowAdded

\* The upper byte leaves the residue.
LEMMA HighStep ==
  ASSUME NEW sum \in Register
  PROVE  /\ High(sum) \in Byte /\ LowAdded(sum) \in Register
         /\ Eight(Xor(LowAdded(sum), High(sum))) = Residue
<1>1. High(sum) \in Byte
  BY DEF High, Byte, Register
<1>2. LowAdded(sum) \in Register
  BY DEF LowAdded, Xor, Register
<1> DEFINE odd == {0, 1, 2, 3, 4, 5, 7}
<1>3. Xor(Low(LowAdded(sum)), High(sum)) = odd
  <2>1. \A j \in 0 .. 7 : j \in LowAdded(sum) <=> ((j = 6) # (j \notin High(sum)))
    BY DEF LowAdded, Xor
  <2>2. \A j \in 0 .. 7 : j \in Xor(Low(LowAdded(sum)), High(sum)) <=> j # 6
    BY <2>1 DEF Low, Xor
  <2>3. Xor(Low(LowAdded(sum)), High(sum)) \subseteq 0 .. 7
    BY <1>1 DEF Low, Xor, Byte
  <2>4. odd \subseteq 0 .. 7 /\ \A j \in 0 .. 7 : j \in odd <=> j # 6
    OBVIOUS
  <2> HIDE DEF odd
  <2> QED
    BY <2>2, <2>3, <2>4
<1>4. High(LowAdded(sum)) = {6}
  <2>1. \A j \in 8 .. 15 : j \in LowAdded(sum) <=> j = 14
    BY DEF LowAdded, Xor
  <2> QED
    BY <2>1 DEF High
<1>5. odd \in Byte
  BY DEF Byte
<1>6. Eight(Xor(LowAdded(sum), High(sum))) = Xor(FastTable(odd), {6})
  BY <1>1, <1>2, <1>3, <1>4, ByteStep
<1>7. Parity(odd)
  BY <1>5, ParityBits
<1>8. /\ FastTable(odd) \in Register
      /\ \A j \in 0 .. 15 : j \in FastTable(odd) <=>
           ((j \in {0, 14, 15}) # ((j - 6 \in odd) # (j - 7 \in odd)))
  BY <1>5, <1>7, FastTableBits
<1>9. Xor(FastTable(odd), {6}) = Residue
  <2>1. Xor(FastTable(odd), {6}) \in Register /\ Residue \in Register
    BY <1>8 DEF Xor, Residue, Register
  <2>2. \A j \in 0 .. 15 : j \in FastTable(odd) <=> j \in {0, 6, 12, 13, 15}
    BY <1>8
  <2>3. \A j \in 0 .. 15 : j \in Xor(FastTable(odd), {6}) <=> j \in Residue
    BY <2>2 DEF Xor, Residue
  <2> QED
    BY <2>1, <2>3 DEF Register
<1> QED
  BY <1>1, <1>2, <1>6, <1>9

LEMMA CleanStep ==
  ASSUME message \in Seq(Byte), NEW n \in 1 .. Len(message) + 2, NEW c \in Register, Clean(c, n - 1)
  PROVE  Sent[n] \in Byte /\ Clean(Eight(Xor(c, Sent[n])), n)
<1> DEFINE len == Len(message)
<1>1. len \in Nat /\ n \in 1 .. len + 2
  OBVIOUS
<1>2. Low(Crc16) \in Byte /\ High(Crc16) \in Byte /\ Crc16 \in Register
  BY SumType
<1>3. /\ \A i \in 1 .. len : Sent[i] = message[i]
      /\ Sent[len + 1] = Low(Crc16) /\ Sent[len + 2] = High(Crc16)
  BY <1>2, Packet DEF Sent
<1>4. CASE n <= len
  <2>1. n \in 1 .. Len(message) /\ Sent[n] = message[n] /\ message[n] \in Byte
    BY <1>3, <1>4
  <2>2. Left(Division, Bits, 8 * (n - 1), c, 8 * (n - 1))
    BY <1>4 DEF Clean, At
  <2>3. Left(Division, Bits, 8 * (n - 1), Xor(c, message[n]), 8 * n) /\
        Xor(c, message[n]) \in Register
    BY <2>1, <2>2, DivisionByte, ByteStep
  <2>4. Left(Division, Bits, 8 * n, Eight(Xor(c, message[n])), 8 * n)
    BY <2>1, <2>3, DivisionEight
  <2> QED
    BY <1>4, <2>1, <2>4 DEF Clean, At
<1>5. CASE n = len + 1
  <2>1. Left(Division, Bits, 8 * Len(message), c, 8 * Len(message))
    BY <1>5 DEF Clean, At
  <2>2. Crc16 = 0 .. 15 \ c
    BY <2>1, DivisionEnd
  <2>3. Eight(Xor(c, Sent[n])) = LowAdded(Crc16)
    BY <1>3, <1>5, <2>2, LowStep
  <2> QED
    BY <1>1, <1>2, <1>3, <1>5, <2>3 DEF Clean
<1>6. CASE n = len + 2
  <2>1. c = LowAdded(Crc16)
    BY <1>6 DEF Clean
  <2>2. Eight(Xor(c, Sent[n])) = Residue
    BY <1>2, <1>3, <1>6, <2>1, HighStep
  <2> QED
    BY <1>1, <1>2, <1>3, <1>6, <2>2 DEF Clean
<1> QED
  BY <1>1, <1>4, <1>5, <1>6

-----------------------------------------------------------------------------
(* The receiver *)

Hit(x, n) == {i \in 0 .. 7 : 8 * (n - 1) + i \in x}

ReceiveInv ==
  /\ pc \in {"received", "rxDataStart"} =>
       /\ damage \in Damage /\ damage \subseteq 0 .. 8 * (Len(message) + 2) - 1
       /\ Len(buffer) = Len(message) + 2
       /\ \A n \in 1 .. Len(message) + 2 : buffer[n] = Xor(Sent[n], Hit(damage, n))
  /\ pc = "received" => ptr = 1
  /\ pc = "rxDataStart" =>
       /\ ptr \in 1 .. Len(message) + 3 /\ res \in Register
       /\ \E c, d \in Register : /\ LookUp(res) = Xor(c, d) /\ Clean(c, ptr - 1)
                              /\ Hurt(damage, d, 8 * (ptr - 1), 8 * (ptr - 1))
  /\ pc = "accepted" => damage = {}
  /\ pc = "ignorePacket" => damage # {}

LEMMA ReceiveInit == Init => ReceiveInv
  BY DEF Init, ReceiveInv

\* The tables are looked up once before the first byte.
LEMMA MagicRight == Magic \in Register /\ LookUp(Magic) = 0 .. 15
<1>1. Magic \in Register /\ Low(Magic) = {2, 4, 6} /\ High(Magic) = 1 .. 7
  <2>1. Magic = {9, 10, 11, 12, 13, 14, 15} \cup {2, 4, 6}
    BY DEF Magic, Word
  <2>2. Magic \in Register /\ Low(Magic) = {2, 4, 6}
    BY <2>1 DEF Low, Register
  <2>3. High(Magic) \subseteq 0 .. 7 /\ \A j \in 0 .. 7 : j \in High(Magic) <=> j + 8 \in Magic
    BY DEF High
  <2>4. \A j \in 0 .. 7 : j \in High(Magic) <=> j \in 1 .. 7
    BY <2>1, <2>3
  <2> QED
    BY <2>2, <2>3, <2>4
<1>2. {2, 4, 6} \in Byte /\ {2, 4, 6} \in Register
  BY DEF Byte, Register
<1>3. LookUp(Magic) = Xor(FastTable({2, 4, 6}), 1 .. 7)
  BY <1>1, <1>2, TableRight, EightLow DEF LookUp
<1>4. Parity({2, 4, 6})
  BY <1>2, ParityBits
<1>5. /\ FastTable({2, 4, 6}) \in Register
      /\ \A j \in 0 .. 15 : j \in FastTable({2, 4, 6}) <=>
           ((j \in {0, 14, 15}) # ((j - 6 \in {2, 4, 6}) # (j - 7 \in {2, 4, 6})))
  BY <1>2, <1>4, FastTableBits
<1>6. Xor(FastTable({2, 4, 6}), 1 .. 7) \in Register
  BY <1>5 DEF Xor, Register
<1>7. \A j \in 0 .. 15 : j \in FastTable({2, 4, 6}) <=> j \notin 1 .. 7
  BY <1>5
<1>8. \A j \in 0 .. 15 : j \in Xor(FastTable({2, 4, 6}), 1 .. 7)
  BY <1>7 DEF Xor
<1> QED
  BY <1>1, <1>3, <1>6, <1>8 DEF Register

LEMMA XorSwap ==
  ASSUME NEW c \in Register, NEW d \in Register, NEW a \in Byte, NEW b \in Byte
  PROVE  Xor(Xor(c, d), Xor(a, b)) = Xor(Xor(c, a), Xor(d, b))
<1>1. /\ Xor(Xor(c, d), Xor(a, b)) \in Register
      /\ Xor(Xor(c, a), Xor(d, b)) \in Register
  BY DEF Xor, Register, Byte
<1>2. \A j \in 0 .. 15 :
        j \in Xor(Xor(c, d), Xor(a, b)) <=> j \in Xor(Xor(c, a), Xor(d, b))
  BY DEF Xor
<1> QED
  BY <1>1, <1>2 DEF Register

\* A byte of the packet that is sent and the damage to it are looked up apart.
LEMMA ByteReceived ==
  ASSUME NEW r \in Register, NEW c \in Register, NEW d \in Register, LookUp(r) = Xor(c, d),
         NEW a \in Byte, NEW b \in Byte
  PROVE  /\ Xor(LookUp(r), Xor(a, b)) \in Register
         /\ Eight(Xor(c, a)) \in Register /\ Eight(Xor(d, b)) \in Register
         /\ LookUp(Xor(LookUp(r), Xor(a, b))) = Xor(Eight(Xor(c, a)), Eight(Xor(d, b)))
<1>1. Xor(c, a) \in Register /\ Xor(d, b) \in Register
  BY ByteStep
<1>2. Xor(LookUp(r), Xor(a, b)) = Xor(Xor(c, a), Xor(d, b))
  BY XorSwap
<1>3. Xor(Xor(c, a), Xor(d, b)) \in Register
  BY <1>1, XorType
<1>4. LookUp(Xor(Xor(c, a), Xor(d, b))) = Eight(Xor(Xor(c, a), Xor(d, b)))
  BY <1>3, LookUpRight
<1>5. Eight(Xor(Xor(c, a), Xor(d, b))) = Xor(Eight(Xor(c, a)), Eight(Xor(d, b)))
  BY <1>1, EightXor
<1>6. Eight(Xor(c, a)) \in Register /\ Eight(Xor(d, b)) \in Register
  BY <1>1, EightType
<1> QED
  BY <1>2, <1>3, <1>4, <1>5, <1>6, Zenon

LEMMA LenOf ==
  ASSUME NEW n \in Nat, NEW s \in [1 .. n -> Byte]
  PROVE  Len(s) = n
<1>1. s \in Seq(Byte) /\ DOMAIN s = 1 .. n
  OBVIOUS
<1>2. Len(s) \in Nat /\ DOMAIN s = 1 .. Len(s)
  BY <1>1, LenProperties
<1>3. \A m \in Nat : 1 .. m = 1 .. n => m = n
  <2> SUFFICES ASSUME NEW m \in Nat, 1 .. m = 1 .. n
               PROVE  m = n
    OBVIOUS
  <2>1. m >= 1 => m \in 1 .. n
    OBVIOUS
  <2>2. n >= 1 => n \in 1 .. m
    OBVIOUS
  <2> QED
    BY <2>1, <2>2
<1> QED
  BY <1>1, <1>2, <1>3

LEMMA ReceiveStep ==
  ASSUME SendInv, ReceiveInv, [Next]_vars
  PROVE  ReceiveInv'
<1> DEFINE len == Len(message)
<1>1. message \in Messages /\ message \in Seq(Byte) /\ len \in 0 .. 255
  <2>1. message \in Messages
    BY DEF SendInv
  <2>2. PICK n \in 0 .. 255 : n = Len(message)
    BY <2>1, Message
  <2> HIDE DEF len
  <2>3. len = n
    BY <2>2 DEF len
  <2> QED
    BY <2>1, <2>3, Message
<1>2. message' = message
  BY DEF Next, Sender, Receiver, vars, Enter, LoopEntry, ByteLoop, BitLoop, FastEnter, FastLoop,
         Append16, Travel, ReceivePid, ReceiveByte, CrcCleanupAndCheck
<1>3. /\ Division' = Division /\ Bits' = Bits /\ Crc16' = Crc16 /\ Room' = Room /\ Sent' = Sent
      /\ Len(message') = len
  BY <1>2, Rigid
<1> HIDE DEF len
<1>a. CASE Sender
  <2>1. pc' \notin {"received", "rxDataStart", "accepted", "ignorePacket"}
    BY <1>a DEF Sender, Enter, LoopEntry, ByteLoop, BitLoop, FastEnter, FastLoop, Append16
  <2> QED
    BY <2>1 DEF ReceiveInv
<1>b. CASE Travel
  <2>1. pc' = "received" /\ ptr' = 1 /\ buffer = Sent
    BY <1>b DEF Travel, SendInv
  <2>2. /\ Sent \in Seq(Byte) /\ Len(Sent) = len + 2 /\ DOMAIN Sent = 1 .. len + 2
        /\ \A n \in 1 .. len + 2 : Sent[n] \in Byte
    BY <1>1, SumType, Packet, PacketFunction DEF Sent, len
  <2>3. damage' \in Damage /\ damage' \subseteq 0 .. 8 * (len + 2) - 1
    BY <1>b, <2>1, <2>2 DEF Travel
  <2>4. buffer' = [n \in 1 .. len + 2 |-> Xor(Sent[n], Hit(damage', n))]
    BY <1>b, <2>1, <2>2 DEF Travel, Hit
  <2>5. Len(buffer') = len + 2
    <3>1. \A n \in 1 .. len + 2 : Xor(Sent[n], Hit(damage', n)) \in Byte
      BY <2>2 DEF Xor, Hit, Byte
    <3>2. buffer' \in [1 .. len + 2 -> Byte] /\ len + 2 \in Nat
      BY <1>1, <2>4, <3>1
    <3> QED
      BY <3>2, LenOf
  <2>6. \A n \in 1 .. len + 2 : buffer'[n] = Xor(Sent[n], Hit(damage', n))
    BY <2>4
  <2> QED
    BY <1>3, <2>1, <2>3, <2>5, <2>6 DEF ReceiveInv, Hit
<1>c. CASE ReceivePid
  <2>1. pc' = "rxDataStart" /\ ptr' = 1 /\ res' = Magic
    BY <1>c DEF ReceivePid, ReceiveInv
  <2>2. UNCHANGED <<buffer, damage>>
    BY <1>c DEF ReceivePid
  <2>3. damage \in Damage /\ damage \in SUBSET Nat /\ \A first, last \in damage : last - first <= 15
    BY <1>c, DamageAssumption DEF ReceivePid, ReceiveInv
  <2>4. {} \in Register /\ 0 .. 15 \in Register /\ LookUp(res') = Xor(0 .. 15, {}) /\
        res' \in Register
    BY <2>1, MagicRight DEF Register, Xor
  <2>5. Hurt(damage, {}, 0, 0)
    BY <2>3, HurtStart
  <2>6. Clean(0 .. 15, 0)
    BY <1>1, DivisionStart DEF Clean, At, len
  <2>7. ptr' \in 1 .. len + 3
    BY <1>1, <2>1
  <2>8. /\ Hurt(damage, {}, 8 * (ptr' - 1), 8 * (ptr' - 1))
        /\ Clean(0 .. 15, ptr' - 1)
    BY <2>1, <2>5, <2>6
  <2>9. \E c, d \in Register :
          /\ LookUp(res') = Xor(c, d) /\ Clean(c, ptr' - 1)
          /\ Hurt(damage, d, 8 * (ptr' - 1), 8 * (ptr' - 1))
    BY <2>4, <2>8
  <2> QED
    BY <1>2, <1>3, <1>c, <2>1, <2>2, <2>4, <2>7, <2>9 DEF ReceiveInv, ReceivePid, Clean, At, LookUp
<1>d. CASE ReceiveByte
  <2>1. /\ damage \in Damage /\ damage \subseteq 0 .. 8 * (len + 2) - 1
        /\ Len(buffer) = len + 2
        /\ \A n \in 1 .. len + 2 : buffer[n] = Xor(Sent[n], Hit(damage, n))
        /\ ptr \in 1 .. len + 3 /\ res \in Register
    BY <1>d DEF ReceiveByte, ReceiveInv, len
  <2>2. PICK c, d \in Register : /\ LookUp(res) = Xor(c, d) /\ Clean(c, ptr - 1)
                                /\ Hurt(damage, d, 8 * (ptr - 1), 8 * (ptr - 1))
    BY <1>d DEF ReceiveByte, ReceiveInv
  <2>3. UNCHANGED <<pc, buffer, damage>> /\ pc = "rxDataStart"
    BY <1>d DEF ReceiveByte
  <2>4. PICK n \in 1 .. len + 2 : n = ptr
    BY <1>1, <1>d, <2>1 DEF ReceiveByte
  <2>5. res' = Xor(LookUp(res), Xor(Sent[n], Hit(damage, n))) /\ ptr' = n + 1
    BY <1>d, <2>1, <2>4 DEF ReceiveByte
  <2>6. Sent[n] \in Byte /\ Clean(Eight(Xor(c, Sent[n])), n)
    BY <1>1, <2>2, <2>4, CleanStep DEF len
  <2>7. Hit(damage, n) \in Byte /\ \A i \in 0 .. 7 : 8 * (n - 1) + i \in damage <=>
        i \in Hit(damage, n)
    BY DEF Hit, Byte
  <2>8. PICK k \in Nat : k = 8 * (n - 1)
    BY <1>1
  <2>9. Hurt(damage, Eight(Xor(d, Hit(damage, n))), 8 * n, 8 * n)
    <3>1. Hurt(damage, d, k, k)
      BY <2>2, <2>4, <2>8
    <3>2. \A i \in 0 .. 7 : k + i \in damage <=> i \in Hit(damage, n)
      BY <2>7, <2>8
    <3>3. Hurt(damage, Xor(d, Hit(damage, n)), k, k + 8) /\ Xor(d, Hit(damage, n)) \in Register
      BY <2>7, <3>1, <3>2, HurtByte, ByteStep
    <3>4. Hurt(damage, Eight(Xor(d, Hit(damage, n))), k + 8, k + 8)
      BY <3>3, HurtEight
    <3>5. k + 8 = 8 * n
      BY <1>1, <2>8
    <3> QED
      BY <3>4, <3>5
  <2>10. /\ res' \in Register /\ Eight(Xor(c, Sent[n])) \in Register
         /\ Eight(Xor(d, Hit(damage, n))) \in Register
         /\ LookUp(res') = Xor(Eight(Xor(c, Sent[n])), Eight(Xor(d, Hit(damage, n))))
    <3>1. res \in Register /\ LookUp(res) = Xor(c, d) /\ Sent[n] \in Byte /\ Hit(damage, n) \in Byte
      BY <2>1, <2>2, <2>6, <2>7
    <3>2. PICK r \in Register : r = res
      BY <3>1
    <3>3. PICK x \in Byte, y \in Byte : x = Sent[n] /\ y = Hit(damage, n)
      BY <3>1
    <3>4. /\ Xor(LookUp(r), Xor(x, y)) \in Register
          /\ Eight(Xor(c, x)) \in Register /\ Eight(Xor(d, y)) \in Register
          /\ LookUp(Xor(LookUp(r), Xor(x, y))) = Xor(Eight(Xor(c, x)), Eight(Xor(d, y)))
      <4>1. LookUp(r) = Xor(c, d)
        BY <3>1, <3>2
      <4> QED
        BY <4>1, ByteReceived
    <3>5. res' = Xor(LookUp(r), Xor(x, y))
      BY <2>5, <3>2, <3>3
    <3>6. LookUp(res') = LookUp(Xor(LookUp(r), Xor(x, y)))
      BY <3>5, Zenon
    <3> QED
      BY <3>3, <3>4, <3>5, <3>6, Zenon
  <2>11. ptr' - 1 = n /\ ptr' \in 1 .. len + 3
    BY <1>1, <2>5
  <2>12. \E x, y \in Register :
           /\ LookUp(res') = Xor(x, y) /\ Clean(x, ptr' - 1)
           /\ Hurt(damage, y, 8 * (ptr' - 1), 8 * (ptr' - 1))
    BY <2>6, <2>9, <2>10, <2>11
  <2> QED
    BY <1>2, <1>3, <2>1, <2>3, <2>10, <2>11, <2>12 DEF ReceiveInv, Clean, At, LookUp
<1>e. CASE CrcCleanupAndCheck
  <2>1. /\ damage \in Damage /\ damage \subseteq 0 .. 8 * (len + 2) - 1
        /\ Len(buffer) = len + 2 /\ ptr \in 1 .. len + 3 /\ res \in Register
    BY <1>e DEF CrcCleanupAndCheck, ReceiveInv, len
  <2>2. PICK c, d \in Register : /\ LookUp(res) = Xor(c, d) /\ Clean(c, ptr - 1)
                                /\ Hurt(damage, d, 8 * (ptr - 1), 8 * (ptr - 1))
    BY <1>e DEF CrcCleanupAndCheck, ReceiveInv
  <2>3. ptr - 1 = len + 2
    BY <1>1, <1>e, <2>1 DEF CrcCleanupAndCheck
  <2>4. c = Residue
    <3>1. ~(len + 2 <= len) /\ len + 2 # len + 1
      BY <1>1
    <3> QED
      BY <2>2, <2>3, <3>1 DEF Clean, len
  <2>5. d = {} <=> damage = {}
    <3>1. PICK k \in Nat : k = 8 * (len + 2)
      BY <1>1
    <3>2. \A p \in damage : ~(p >= k)
      BY <2>1, <3>1
    <3>3. Hurt(damage, d, k, k)
      BY <2>2, <2>3, <3>1
    <3> QED
      BY <3>2, <3>3, HurtEnd
  <2>6. LookUp(res) = Residue <=> d = {}
    BY <2>2, <2>4 DEF Xor
  <2>7. pc' = IF LookUp(res) = Residue THEN "accepted" ELSE "ignorePacket"
    BY <1>e DEF CrcCleanupAndCheck, Residue
  <2>8. damage' = damage
    BY <1>e DEF CrcCleanupAndCheck
  <2> QED
    BY <2>5, <2>6, <2>7, <2>8 DEF ReceiveInv
<1>f. CASE UNCHANGED vars
  <2>1. Division' = Division /\ Bits' = Bits /\ Crc16' = Crc16 /\ Sent' = Sent
    BY <1>3
  <2>2. /\ pc' = pc /\ message' = message /\ buffer' = buffer /\ ptr' = ptr /\ res' = res
        /\ damage' = damage
    BY <1>f DEF vars
  <2> QED
    BY <2>1, <2>2, ZenonT(60) DEF ReceiveInv, Clean, At, LookUp
<1> QED
  BY <1>a, <1>b, <1>c, <1>d, <1>e, <1>f DEF Next, Receiver

\* The receiver that checks a sum accepts every packet that arrives as it was sent and no
\* packet in which a burst of up to 16 bits is inverted, whatever the message.
THEOREM DamageSeen == Spec => []OnlyWholeAccepted
<1>1. ReceiveInv => OnlyWholeAccepted
  BY DEF ReceiveInv, OnlyWholeAccepted
<1> QED
  BY <1>1, SendInit, SendStep, ReceiveInit, ReceiveStep, PTL DEF Spec
=============================================================================
