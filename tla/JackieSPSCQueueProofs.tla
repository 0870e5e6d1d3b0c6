----------------------- MODULE JackieSPSCQueueProofs -----------------------
(***************************************************************************)
(* The lock-free queue for every element size, every number of elements,   *)
(* every width of the cursors and every number of messages.                *)
(***************************************************************************)
EXTENDS JackieSPSCQueue, SequenceTheorems, NaturalsInduction, WellFoundedInduction, TLAPS

----------------------------------------------------------------------------
\* Powers of 2

\* Every nonempty set of naturals has a least member.
LEMMA LeastNatural ==
  ASSUME NEW T \in SUBSET Nat, T # {}
  PROVE  \E k \in T : \A j \in T : k <= j
<1> DEFINE Less == OpToRel(<, Nat)
<1>1. IsWellFoundedOn(Less, Nat)
  BY NatLessThanWellFounded
<1>2. \E x \in T : \A y \in T : <<y, x>> \notin Less
  <2> HIDE DEF Less
  <2> QED BY <1>1, WFMin
<1>3. ASSUME NEW x \in T, NEW y \in T, <<y, x>> \notin Less PROVE x <= y
  BY <1>3 DEF OpToRel
<1> QED
  BY <1>2, <1>3

\* A number that leaves no remainder is a multiple, and a multiple leaves none.
LEMMA ExactQuotient ==
  ASSUME NEW n \in Nat, NEW d \in Nat \ {0}, n % d = 0
  PROVE  n \div d \in Nat /\ n = d * (n \div d)
BY SMTT(30)

LEMMA MultipleIsExact ==
  ASSUME NEW n \in Nat, NEW d \in Nat \ {0}, NEW q \in Nat, n = d * q
  PROVE  n % d = 0
BY SMTT(30)

\* Doubling a power of 2 gives one.
LEMMA DoubleIsPower2 ==
  ASSUME NEW n \in Nat, IsPower2(n)
  PROVE  IsPower2(2 * n)
<1> SUFFICES ASSUME NEW d \in 2 .. (2 * n), (2 * n) % d = 0, d % 2 # 0 PROVE FALSE
  BY DEF IsPower2
<1>1. PICK q \in Nat : 2 * n = d * q
  BY ExactQuotient, 2 * n \in Nat
<1>2. PICK x \in Nat : d = 2 * x + 1
  OBVIOUS
<1>3. 2 * (n - x * q) = q /\ n - x * q \in Int
  BY <1>1, <1>2
<1>4. PICK y \in Int : q = 2 * y
  <2> WITNESS n - x * q \in Int
  <2> QED BY <1>3
<1>5. y \in Nat /\ n = d * y
  BY <1>1, <1>4
<1>6. y # 0
  BY <1>5 DEF IsPower2
<1>7. d <= n
  BY <1>5, <1>6
<1>8. n % d = 0
  BY <1>5, MultipleIsExact
<1> QED
  BY <1>7, <1>8 DEF IsPower2

\* Between a number and its double there is a power of 2.
LEMMA PowerAbove ==
  ASSUME NEW s \in Nat
  PROVE  \E p \in (s + 1) .. (2 * s + 1) : IsPower2(p)
<1> DEFINE T == {t \in Nat : ~ \E p \in (t + 1) .. (2 * t + 1) : IsPower2(p)}
<1> SUFFICES ASSUME T # {} PROVE FALSE
  OBVIOUS
<1>1. PICK t \in T : \A j \in T : t <= j
  BY LeastNatural
<1>2. t # 0
  <2>1. IsPower2(1)
    BY DEF IsPower2
  <2> QED BY <2>1
<1>3. PICK h \in Nat : h < t /\ t <= 2 * h + 1 /\ 2 * h <= t
  <2> WITNESS t \div 2 \in Nat
  <2> QED BY <1>2
<1>4. PICK p \in (h + 1) .. (2 * h + 1) : IsPower2(p)
  BY <1>1, <1>3
<1>5. CASE p > t
  BY <1>3, <1>4, <1>5
<1>6. CASE p <= t
  <2>1. IsPower2(2 * p)
    BY <1>4, DoubleIsPower2
  <2> QED
    BY <1>3, <1>4, <1>6, <2>1
<1> QED
  BY <1>5, <1>6

\* The divisors of a power of 2 are powers of 2.
LEMMA DivisorIsPower2 ==
  ASSUME NEW a \in Nat \ {0}, NEW q \in Nat, IsPower2(a * q)
  PROVE  IsPower2(a)
<1> SUFFICES ASSUME NEW d \in 2 .. a, a % d = 0 PROVE d % 2 = 0
  BY DEF IsPower2
<1>1. PICK x \in Nat : a = d * x
  BY ExactQuotient, d \in Nat \ {0}
<1>2. a * q = d * (x * q) /\ x * q \in Nat /\ a * q \in Nat /\ d \in Nat \ {0}
  BY <1>1
<1>3. (a * q) % d = 0
  BY <1>2, MultipleIsExact
<1>4. q # 0 /\ a * q \in Nat
  BY DEF IsPower2
<1>5. a <= a * q
  BY <1>4
<1>6. d \in 2 .. (a * q)
  BY <1>4, <1>5
<1> DEFINE p == a * q
<1>7. \A c \in 2 .. p : p % c = 0 => c % 2 = 0
  BY DEF IsPower2
<1> QED
  BY <1>3, <1>6, <1>7

\* Of two powers of 2 the smaller divides the larger.
LEMMA PowerDivides ==
  ASSUME NEW a \in Nat, NEW b \in Nat, IsPower2(a), IsPower2(b), a <= b
  PROVE  b % a = 0
<1> DEFINE T == {n \in Nat : IsPower2(n) /\ \E m \in 1 .. n : IsPower2(m) /\ n % m # 0}
<1> SUFFICES ASSUME T # {} PROVE FALSE
  <2>1. a \in 1 .. b
    BY DEF IsPower2
  <2>2. b \notin T
    OBVIOUS
  <2> QED BY <2>1, <2>2
<1>1. PICK n \in T : \A j \in T : n <= j
  BY LeastNatural
<1>2. PICK m \in 1 .. n : IsPower2(m) /\ n % m # 0
  OBVIOUS
<1>3. m > 1 /\ n > 1
  BY <1>2
<1>4. ASSUME NEW x \in Nat, x > 1, IsPower2(x) PROVE \E y \in Nat : x = 2 * y /\ y > 0 /\ IsPower2(y)
  <2>1. x \in 2 .. x /\ x % x = 0
    BY <1>4
  <2>2. x % 2 = 0
    BY <1>4, <2>1 DEF IsPower2
  <2>3. PICK y \in Nat : x = 2 * y
    BY <2>2
  <2>4. y \in Nat \ {0} /\ x = y * 2
    BY <1>4, <2>3
  <2>5. IsPower2(y)
    BY <1>4, <2>4, DivisorIsPower2
  <2> QED
    BY <2>3, <2>4, <2>5
<1>5. PICK m2 \in Nat : m = 2 * m2 /\ m2 > 0 /\ IsPower2(m2)
  BY <1>2, <1>3, <1>4
<1>6. PICK n2 \in Nat : n = 2 * n2 /\ n2 > 0 /\ IsPower2(n2)
  BY <1>3, <1>4
<1>7. n2 % m2 = 0
  BY <1>1, <1>5, <1>6
<1>8. PICK q \in Nat : n2 = m2 * q
  BY <1>5, <1>6, <1>7, ExactQuotient, m2 \in Nat \ {0}
<1>9. n = m * q
  BY <1>5, <1>6, <1>8
<1> QED
  BY <1>2, <1>9, MultipleIsExact

----------------------------------------------------------------------------
\* The ring and the cursors

\* The template's and the machine's numbers.
E == ElementSize
R == RingSize
C == CursorMod

\* Rounding up reaches a power of 2, at most twice the number.
LEMMA RoundedUp ==
  ASSUME NEW n \in Nat \ {0}
  PROVE  RoundUpPower2(n) \in n .. (2 * n) /\ IsPower2(RoundUpPower2(n))
<1> DEFINE Up == {p \in n .. (2 * n) : IsPower2(p)}
<1>1. PICK s \in Nat : n = s + 1
  <2>1. n - 1 \in Nat
    OBVIOUS
  <2> QED BY <2>1
<1>2. Up # {}
  BY <1>1, PowerAbove
<1>3. \E k \in Up : \A j \in Up : k <= j
  BY <1>2, LeastNatural, Up \in SUBSET Nat
<1>4. RoundUpPower2(n) \in Up
  BY <1>3 DEF RoundUpPower2, Min
<1> QED
  BY <1>4

\* The constructor allocates a power of 2, whichever of its two branches it takes, so
\* the cursors wrap at a multiple of the ring: cutting a cursor down to a place in the
\* ring survives the overflow of unsigned int.
LEMMA RingIsPower2 ==
  /\ E \in Nat \ {0} /\ R \in Nat \ {0} /\ C \in Nat /\ R < C
  /\ IsPower2(R)
  /\ C % R = 0
<1> DEFINE bytes == nSize * ElementSize
<1>1. bytes \in Nat \ {0}
  BY SizesAssumption
<1>2. ASSUME IsPower2(bytes) PROVE R \in Nat \ {0} /\ IsPower2(R)
  <2>1. IsPower2(nSize)
    BY <1>2, SizesAssumption, DivisorIsPower2
  <2> QED
    BY <1>2, <2>1, SizesAssumption DEF RingSize, R
<1>3. ASSUME ~IsPower2(bytes) PROVE R \in Nat \ {0} /\ IsPower2(R)
  <2> HIDE DEF bytes
  <2>1. RoundUpPower2(bytes) \in bytes .. (2 * bytes) /\ IsPower2(RoundUpPower2(bytes))
    BY <1>1, RoundedUp
  <2> QED
    BY <1>1, <1>3, <2>1 DEF RingSize, R, bytes
<1>4. R \in Nat \ {0} /\ IsPower2(R)
  BY <1>2, <1>3
<1>5. C \in Nat /\ R < C /\ IsPower2(C)
  BY CursorAssumption DEF C, R
<1>6. C % R = 0
  BY <1>4, <1>5, PowerDivides
<1> QED
  BY <1>4, <1>5, <1>6, SizesAssumption DEF E
LEMMA RingFacts == E \in Nat \ {0} /\ R \in Nat \ {0} /\ C \in Nat /\ R < C
  BY RingIsPower2

\* Unsigned differences and sums.
LEMMA WrapMinus ==
  ASSUME NEW a \in 0 .. (C - 1), NEW b \in 0 .. (C - 1)
  PROVE  Wrap(a - b) = IF a >= b THEN a - b ELSE (a - b) + C
BY RingFacts, SMTT(30) DEF Wrap, C

LEMMA WrapPlus ==
  ASSUME NEW a \in 0 .. (C - 1), NEW n \in 0 .. (C - 1)
  PROVE  Wrap(a + n) = IF a + n < C THEN a + n ELSE (a + n) - C
BY RingFacts, SMTT(30) DEF Wrap, C

LEMMA WrapZero ==
  ASSUME NEW a \in 0 .. (C - 1)
  PROVE  Wrap(a + 0) = a
<1>1. a + 0 = a
  BY RingFacts
<1>2. a % C = a
  BY RingFacts, SMTT(30)
<1> QED
  BY <1>1, <1>2 DEF Wrap, C

\* The cursors by themselves, for elements of every size: what the side that is in the
\* middle of its copy has sampled stays true until it publishes, as the other side's
\* moves only make more room, or leave more to read.
CursorInv ==
  /\ m_nIn \in 0 .. (C - 1) /\ m_nOut \in 0 .. (C - 1)
  /\ pushAt \in {"idle", "sample", "copy"} /\ popAt \in {"idle", "sample", "copy"}
  /\ pushLen \in 0 .. E /\ popLen \in 0 .. E
  /\ pushed \in 0 .. E /\ popped \in 0 .. E
  /\ Filled <= R
  /\ pushAt = "copy" => Filled + pushLen <= R
  /\ popAt = "copy" => popLen <= Filled

\* What the two sides sample is what is really there.
LEMMA RoomIs ==
  ASSUME CursorInv
  PROVE  Filled \in 0 .. R /\ Room = R - Filled
<1> USE RingFacts
<1>1. m_nIn \in 0 .. (C - 1) /\ m_nOut \in 0 .. (C - 1) /\ Filled <= R
  BY DEF CursorInv
<1>2. Filled = IF m_nIn >= m_nOut THEN m_nIn - m_nOut ELSE (m_nIn - m_nOut) + C
  BY <1>1, WrapMinus DEF Filled
<1>3. Filled \in 0 .. R
  BY <1>1, <1>2
<1> DEFINE n == (R - m_nIn) + m_nOut
<1>4. n = R - Filled \/ n = (R - Filled) + C
  BY <1>1, <1>2
<1>5. R - Filled \in 0 .. (C - 1)
  BY <1>3
<1>6. n % C = R - Filled
  <2> DEFINE r == R - Filled
  <2> HIDE DEF n
  <2>1. r \in 0 .. (C - 1) /\ (n = r \/ n = r + C)
    BY <1>4, <1>5
  <2> HIDE DEF r
  <2>2. n % C = r
    BY <2>1, SMTT(30)
  <2> QED BY <2>2 DEF r
<1> QED
  BY <1>3, <1>6 DEF Room, Wrap, R, C

LEMMA PublishInFills ==
  ASSUME CursorInv, NEW n \in Nat, Filled + n <= R
  PROVE  Wrap(m_nIn + n) \in 0 .. (C - 1) /\ Wrap(Wrap(m_nIn + n) - m_nOut) = Filled + n
<1> USE RingFacts
<1>1. m_nIn \in 0 .. (C - 1) /\ m_nOut \in 0 .. (C - 1) /\ Filled \in 0 .. R
  BY RoomIs DEF CursorInv
<1>2. Filled = IF m_nIn >= m_nOut THEN m_nIn - m_nOut ELSE (m_nIn - m_nOut) + C
  BY <1>1, WrapMinus DEF Filled
<1>3. n \in 0 .. (C - 1)
  BY <1>1
<1>4. Wrap(m_nIn + n) = IF m_nIn + n < C THEN m_nIn + n ELSE (m_nIn + n) - C
  BY <1>1, <1>3, WrapPlus
<1>5. Wrap(m_nIn + n) \in 0 .. (C - 1)
  BY <1>1, <1>3, <1>4
<1> DEFINE in == Wrap(m_nIn + n)
<1> HIDE DEF in
<1>6. Wrap(in - m_nOut) = IF in >= m_nOut THEN in - m_nOut ELSE (in - m_nOut) + C
  BY <1>1, <1>5, WrapMinus DEF in
<1>7. in = IF m_nIn + n < C THEN m_nIn + n ELSE (m_nIn + n) - C
  BY <1>4 DEF in
<1>8. Wrap(in - m_nOut) = Filled + n
  BY <1>1, <1>2, <1>3, <1>6, <1>7
<1> QED
  BY <1>5, <1>8 DEF in

LEMMA PublishOutEmpties ==
  ASSUME CursorInv, NEW n \in Nat, n <= Filled
  PROVE  Wrap(m_nOut + n) \in 0 .. (C - 1) /\ Wrap(m_nIn - Wrap(m_nOut + n)) = Filled - n
<1> USE RingFacts
<1>1. m_nIn \in 0 .. (C - 1) /\ m_nOut \in 0 .. (C - 1) /\ Filled \in 0 .. R
  BY RoomIs DEF CursorInv
<1>2. Filled = IF m_nIn >= m_nOut THEN m_nIn - m_nOut ELSE (m_nIn - m_nOut) + C
  BY <1>1, WrapMinus DEF Filled
<1>3. n \in 0 .. (C - 1)
  BY <1>1
<1>4. Wrap(m_nOut + n) = IF m_nOut + n < C THEN m_nOut + n ELSE (m_nOut + n) - C
  BY <1>1, <1>3, WrapPlus
<1>5. Wrap(m_nOut + n) \in 0 .. (C - 1)
  BY <1>1, <1>3, <1>4
<1> DEFINE out == Wrap(m_nOut + n)
<1> HIDE DEF out
<1>6. Wrap(m_nIn - out) = IF m_nIn >= out THEN m_nIn - out ELSE (m_nIn - out) + C
  BY <1>1, <1>5, WrapMinus DEF out
<1>7. out = IF m_nOut + n < C THEN m_nOut + n ELSE (m_nOut + n) - C
  BY <1>4 DEF out
<1>8. Wrap(m_nIn - out) = Filled - n
  BY <1>1, <1>2, <1>3, <1>6, <1>7
<1> QED
  BY <1>5, <1>8 DEF out
LEMMA CursorInit == Init => CursorInv
<1> SUFFICES ASSUME Init PROVE CursorInv
  OBVIOUS
<1> USE RingFacts
<1>1. m_nIn \in 0 .. (C - 1) /\ m_nOut \in 0 .. (C - 1) /\ m_nIn = m_nOut
  BY DEF Init
<1>2. Filled = 0
  BY <1>1, WrapMinus DEF Filled
<1> QED
  BY <1>1, <1>2 DEF Init, CursorInv

LEMMA CursorStep == CursorInv /\ [Next]_vars => CursorInv'
<1> SUFFICES ASSUME CursorInv, [Next]_vars PROVE CursorInv'
  OBVIOUS
<1> USE RingFacts
<1>1. /\ m_nIn \in 0 .. (C - 1) /\ m_nOut \in 0 .. (C - 1)
      /\ pushAt \in {"idle", "sample", "copy"} /\ popAt \in {"idle", "sample", "copy"}
      /\ pushLen \in 0 .. E /\ popLen \in 0 .. E
      /\ pushed \in 0 .. E /\ popped \in 0 .. E
      /\ pushAt = "copy" => Filled + pushLen <= R
      /\ popAt = "copy" => popLen <= Filled
  BY DEF CursorInv
<1>2. Filled \in 0 .. R /\ Room = R - Filled
  BY RoomIs
<1>3. CASE CallPush
  BY <1>1, <1>2, <1>3 DEF CallPush, CursorInv, consumer, Filled
<1>4. CASE SampleOut
  <2>1. pushLen' \in 0 .. E /\ Filled + pushLen' <= R
    BY <1>1, <1>2, <1>4 DEF SampleOut, LessOf, E
  <2>2. /\ Filled' = Filled /\ pushAt' = "copy" /\ pushed' = 0
        /\ UNCHANGED <<m_nIn, m_nOut, popAt, popLen, popped>>
    BY <1>4 DEF SampleOut, consumer, Filled
  <2>3. Filled' \in 0 .. R /\ Filled' + pushLen' <= R
    BY <1>2, <2>1, <2>2
  <2>4. popAt' = "copy" => popLen' <= Filled'
    BY <1>1, <2>2
  <2>5. /\ m_nIn' \in 0 .. (C - 1) /\ m_nOut' \in 0 .. (C - 1)
        /\ popLen' \in 0 .. E /\ pushed' \in 0 .. E /\ popped' \in 0 .. E
        /\ popAt' \in {"idle", "sample", "copy"} /\ pushAt' = "copy" /\ Filled' <= R
    BY <1>1, <2>2, <2>3
  <2> QED
    BY ONLY <2>1, <2>3, <2>4, <2>5 DEF CursorInv
<1>5. CASE CopyIn
  BY <1>1, <1>2, <1>5 DEF CopyIn, CursorInv, consumer, Filled
<1>6. CASE PublishIn
  <2>1. m_nIn' \in 0 .. (C - 1) /\ Filled' = Filled + pushLen
    BY <1>1, <1>6, PublishInFills DEF PublishIn, consumer, Filled
  <2>2. /\ UNCHANGED <<pushLen, pushed, consumer>>
        /\ pushAt' \in {"sample", "idle"} /\ pushAt = "copy"
    BY <1>6 DEF PublishIn
  <2>3. Filled' \in 0 .. R /\ Filled <= Filled'
    BY <1>1, <1>2, <2>1, <2>2
  <2>4. UNCHANGED <<m_nOut, popAt, popLen, popped>>
    BY <2>2 DEF consumer
  <2>5. popAt' = "copy" => popLen' <= Filled'
    BY <1>1, <1>2, <2>3, <2>4
  <2> QED
    BY <1>1, <2>1, <2>2, <2>3, <2>4, <2>5 DEF CursorInv
<1>7. CASE CallPop
  BY <1>1, <1>2, <1>7 DEF CallPop, CursorInv, producer, Filled
<1>8. CASE SampleIn
  <2>1. popLen' \in 0 .. E /\ popLen' <= Filled
    BY <1>1, <1>2, <1>8 DEF SampleIn, LessOf, E
  <2>2. /\ Filled' = Filled /\ popAt' = "copy" /\ popped' = 0
        /\ UNCHANGED <<m_nIn, m_nOut, pushAt, pushLen, pushed>>
    BY <1>8 DEF SampleIn, producer, Filled
  <2> QED
    BY <1>1, <1>2, <2>1, <2>2 DEF CursorInv
<1>9. CASE CopyOut
  BY <1>1, <1>2, <1>9 DEF CopyOut, CursorInv, producer, Filled
<1>10. CASE PublishOut
  <2>1. m_nOut' \in 0 .. (C - 1) /\ Filled' = Filled - popLen
    BY <1>1, <1>10, PublishOutEmpties DEF PublishOut, producer, Filled
  <2>2. UNCHANGED <<popLen, popped, producer>> /\ popAt' \in {"sample", "idle"} /\ popAt = "copy"
    BY <1>10 DEF PublishOut
  <2> QED
    BY <1>1, <1>2, <2>1, <2>2 DEF CursorInv, producer
<1>11. CASE UNCHANGED vars
  BY <1>1, <1>2, <1>11 DEF vars, producer, consumer, CursorInv, Filled
<1> QED
  BY <1>3, <1>4, <1>5, <1>6, <1>7, <1>8, <1>9, <1>10, <1>11 DEF Next, PushTail, PopHead

THEOREM CursorsStayApart == Spec => []CursorInv
  BY CursorInit, CursorStep, PTL DEF Spec

\* The producer never laps the consumer: PushTail and PopHead keep the cursors within
\* one ring's length of each other, also when an element takes several passes and when
\* a cursor has overflowed.
THEOREM NeverLapped == Spec => []NeverOverfull
<1>1. CursorInv => NeverOverfull
  BY DEF CursorInv, NeverOverfull, R
<1> QED
  BY <1>1, CursorsStayApart, PTL

\* The bytes the producer writes are never bytes the consumer still has to read: the
\* two copies need no lock.
THEOREM CopiesApart == Spec => []NoOverlap
<1>1. CursorInv => NoOverlap
  <2> SUFFICES ASSUME CursorInv, pushAt = "copy", pushed < pushLen
      PROVE  (Place(m_nIn, pushed) - Place(m_nOut, 0)) % RingSize >= Filled
    BY DEF NoOverlap
  <2>1. /\ m_nIn \in 0 .. (C - 1) /\ m_nOut \in 0 .. (C - 1)
        /\ pushed \in Nat /\ pushLen \in Nat /\ Filled + pushLen <= R
    BY RingFacts DEF CursorInv
  <2>2. Filled \in 0 .. R
    BY RoomIs
  <2>3. Filled = IF m_nIn >= m_nOut THEN m_nIn - m_nOut ELSE (m_nIn - m_nOut) + C
    BY <2>1, WrapMinus DEF Filled
  <2>4. Filled + pushed \in 0 .. (R - 1)
    BY <2>1, <2>2, RingFacts
  <2>5. PICK q \in Nat : C = R * q
    BY RingIsPower2, ExactQuotient
  <2>6. \E a \in Int : m_nIn + pushed = R * a + Place(m_nIn, pushed)
    <3> DEFINE n == m_nIn + pushed
    <3>1. n \in Nat
      BY <2>1
    <3> HIDE DEF n
    <3>2. n \div R \in Int /\ n = R * (n \div R) + (n % R)
      BY <3>1, RingFacts, SMTT(30)
    <3> QED BY <3>2 DEF n, Place, R
  <2>7. \E b \in Int : m_nOut + 0 = R * b + Place(m_nOut, 0)
    <3> DEFINE n == m_nOut + 0
    <3>1. n \in Nat
      BY <2>1
    <3> HIDE DEF n
    <3>2. n \div R \in Int /\ n = R * (n \div R) + (n % R)
      BY <3>1, RingFacts, SMTT(30)
    <3> QED BY <3>2 DEF n, Place, R
  <2>8. Place(m_nIn, pushed) \in Int /\ Place(m_nOut, 0) \in Int
    BY <2>1, RingFacts DEF Place, R
  <2>9. \E c \in Int : Place(m_nIn, pushed) - Place(m_nOut, 0) = R * c + (Filled + pushed)
    <3>1. PICK a \in Int : m_nIn + pushed = R * a + Place(m_nIn, pushed)
      BY <2>6
    <3>2. PICK b \in Int : m_nOut + 0 = R * b + Place(m_nOut, 0)
      BY <2>7
    <3>3. CASE m_nIn >= m_nOut
      <4> WITNESS b - a \in Int
      <4> QED BY <2>1, <2>2, <2>3, <2>8, <3>1, <3>2, <3>3, RingFacts, SMTT(30)
    <3>4. CASE ~(m_nIn >= m_nOut)
      <4> WITNESS (b - a) - q \in Int
      <4>1. R * ((b - a) - q) = (R * b - R * a) - R * q
        BY RingFacts, SMTT(30)
      <4>2. R * b \in Int /\ R * a \in Int
        BY RingFacts
      <4> DEFINE ra == R * a
                 rb == R * b
                 rq == R * q
                 rc == R * ((b - a) - q)
      <4>3. /\ ra \in Int /\ rb \in Int /\ rq \in Int
            /\ rc = (rb - ra) - rq /\ C = rq
            /\ m_nIn + pushed = ra + Place(m_nIn, pushed)
            /\ m_nOut + 0 = rb + Place(m_nOut, 0)
        BY <2>5, <3>1, <3>2, <4>1, <4>2, RingFacts
      <4> HIDE DEF ra, rb, rq, rc
      <4>4. Filled = (m_nIn - m_nOut) + rq
        BY <2>3, <3>4, <4>3
      <4>5. /\ Place(m_nIn, pushed) = (m_nIn + pushed) - ra
            /\ Place(m_nOut, 0) = m_nOut - rb
        BY <2>1, <2>8, <4>3, RingFacts
      <4>6. Place(m_nIn, pushed) - Place(m_nOut, 0) = rc + (Filled + pushed)
        BY <2>1, <4>3, <4>4, <4>5
      <4> QED BY <4>6 DEF rc
    <3> QED BY <3>3, <3>4
  <2> DEFINE d == Place(m_nIn, pushed) - Place(m_nOut, 0)
             f == Filled + pushed
  <2>10. d \in Int
    BY <2>8
  <2> HIDE DEF d, f
  <2>11. d % R = f
    <3>1. PICK c \in Int : d = R * c + f
      BY <2>9 DEF d, f
    <3>2. f \in 0 .. (R - 1)
      BY <2>4 DEF f
    <3> QED BY <2>10, <3>1, <3>2, RingFacts, SMTT(30)
  <2> QED
    BY <2>1, <2>2, <2>11, RingFacts DEF d, f, R
<1> QED
  BY <1>1, CursorsStayApart, PTL

\* The rounding branch makes room for nSize elements; the other one does so for bytes
\* only, as it leaves the ring at nSize bytes.
LEMMA RoundedRingHolds ==
  ASSUME ElementSize = 1 \/ ~IsPower2(nSize * ElementSize)
  PROVE  nSize * ElementSize <= RingSize
<1> DEFINE bytes == nSize * ElementSize
<1>1. bytes \in Nat \ {0}
  BY SizesAssumption
<1>2. ASSUME IsPower2(bytes) PROVE bytes <= RingSize
  BY <1>2, SizesAssumption DEF RingSize
<1>3. ASSUME ~IsPower2(bytes) PROVE bytes <= RingSize
  <2> HIDE DEF bytes
  <2>1. RoundUpPower2(bytes) \in bytes .. (2 * bytes)
    BY <1>1, RoundedUp
  <2> QED
    BY <1>1, <1>3, <2>1 DEF RingSize, bytes
<1> QED
  BY <1>2, <1>3

\* PushTail finds no room only when the queue holds the elements its ring was given bytes
\* for: nSize of them where the constructor has rounded up, a share of them where it has
\* taken the number of elements for the number of bytes.
THEOREM RoomForCapacity == Spec => []HoldsCapacity
<1>1. R \div E >= Capacity
  <2>1. CASE IsPower2(nSize * ElementSize)
    <3>1. R = nSize /\ Capacity = nSize \div ElementSize /\ R \div E \in Int
      BY <2>1, RingFacts, SizesAssumption DEF Capacity, RingSize, R, E
    <3> QED BY <3>1 DEF E
  <2>2. CASE ~IsPower2(nSize * ElementSize)
    <3>1. nSize * ElementSize <= RingSize
      BY <2>2, RoundedRingHolds
    <3>2. R \div E >= nSize
      BY <3>1, RingFacts, SizesAssumption, SMTT(30) DEF R, E
    <3> QED BY <2>2, <3>2 DEF Capacity
  <2> QED BY <2>1, <2>2
<1>2. CursorInv => HoldsCapacity
  <2> SUFFICES ASSUME CursorInv, Room = 0 PROVE Size >= Capacity
    BY DEF HoldsCapacity
  <2>1. Filled = R
    BY RoomIs, RingFacts
  <2> QED
    BY <1>1, <2>1 DEF Size, R, E
<1> QED
  BY <1>2, CursorsStayApart, PTL
----------------------------------------------------------------------------
\* Whole elements

\* The ring is a whole number of elements long.
ElementsFit == RingSize % ElementSize = 0

\* Where byte k of message m lies in the ring.
Pos(m, k) == ((m - 1) * E + k) % R

Taken == Len(received)

\* Where the two sides are, in whole elements: a pass moves one element or nothing.
ElementInv ==
  /\ sent \in 0 .. MaxMessages /\ received \in Seq(Nat) /\ Taken <= sent
  /\ pushAt # "idle" => sent < MaxMessages
  /\ \A i \in 1 .. Taken : received[i] = i
  /\ m_nIn = (sent * E) % C /\ m_nOut = (Taken * E) % C
  /\ (sent - Taken) * E <= R
  /\ pushLen \in {0, E} /\ popLen \in {0, E}
  /\ pushAt = "sample" => pushLen = 0
  /\ popAt = "sample" => popLen = 0
  /\ pushAt = "copy" => pushed <= pushLen
  /\ popAt = "copy" => popped <= popLen

\* What the ring and the consumer's element hold.
Byte == (1 .. MaxMessages) \X Offsets \cup {Garbage}

BytesInv ==
  /\ m_pBuffer \in [0 .. (R - 1) -> Byte]
  /\ element \in [Offsets -> Byte]
  /\ \A m \in (Taken + 1) .. sent : \A k \in Offsets : m_pBuffer[Pos(m, k)] = <<m, k>>
  /\ pushAt = "copy" => \A k \in 0 .. (pushed - 1) :
                           m_pBuffer[Pos(sent + 1, k)] = <<sent + 1, k>>
  /\ popAt = "copy" => \A k \in 0 .. (popped - 1) : element[k] = <<Taken + 1, k>>

FifoInv == CursorInv /\ ElementInv /\ BytesInv

LEMMA Remainder ==
  ASSUME NEW M \in Nat \ {0}, NEW x \in Int, NEW u \in Int, NEW s \in 0 .. (M - 1),
         x = M * u + s
  PROVE  x % M = s
BY SMTT(30)

\* Adding whole rings does not move a place; less than a ring does.
LEMMA SamePlace ==
  ASSUME NEW x \in Nat, NEW y \in Nat, NEW t \in Nat, x = R * t + y
  PROVE  x % R = y % R
<1> USE RingFacts
<1>1. y \div R \in Nat /\ y % R \in 0 .. (R - 1) /\ y = R * (y \div R) + (y % R)
  BY SMTT(30)
<1> DEFINE b == y \div R
           s == y % R
<1>2. b \in Nat /\ s \in 0 .. (R - 1) /\ x = R * t + (R * b + s)
  BY <1>1
<1> HIDE DEF b, s
<1>3. x = R * (t + b) + s
  BY <1>2, SMTT(30)
<1> DEFINE u == t + b
<1>4. u \in Int /\ x \in Int /\ x = R * u + s
  BY <1>2, <1>3
<1> HIDE DEF u
<1>5. x % R = s
  BY <1>2, <1>4, Remainder
<1> QED
  BY <1>5 DEF s

LEMMA OtherPlace ==
  ASSUME NEW x \in Nat, NEW y \in Nat, x < y, y - x < R
  PROVE  x % R # y % R
<1> USE RingFacts
<1>1. /\ x \div R \in Nat /\ x = R * (x \div R) + (x % R)
      /\ y \div R \in Nat /\ y = R * (y \div R) + (y % R)
  BY SMTT(30)
<1> SUFFICES ASSUME x % R = y % R PROVE FALSE
  OBVIOUS
<1> DEFINE a == x \div R
           b == y \div R
<1>2. R * (b - a) = y - x /\ a \in Nat /\ b \in Nat
  BY <1>1
<1> HIDE DEF a, b
<1>3. b - a > 0 => R * (b - a) >= R
  BY <1>2, SMTT(30)
<1>4. b - a <= 0 => R * (b - a) <= 0
  BY <1>2, SMTT(30)
<1> QED
  BY <1>2, <1>3, <1>4

\* The cursor that has wrapped points at the same place as one that never wraps.
LEMMA CursorPlace ==
  ASSUME NEW n \in Nat, NEW j \in Nat
  PROVE  ((n % C) + j) % R = (n + j) % R
<1>1. PICK q \in Nat : C = R * q
  BY RingIsPower2, ExactQuotient
<1>2. n \div C \in Nat /\ n % C \in Nat /\ n = C * (n \div C) + (n % C)
  BY RingFacts, SMTT(30)
<1> DEFINE d == n \div C
           r == n % C
           t == q * d
<1>3. t \in Nat /\ n = R * t + r /\ r \in Nat
  BY <1>1, <1>2, RingFacts, SMTT(30)
<1> HIDE DEF d, r, t
<1>4. n + j = R * t + (r + j)
  BY <1>3, RingFacts
<1>5. (n + j) % R = (r + j) % R
  BY <1>3, <1>4, SamePlace
<1> QED
  BY <1>5 DEF r

LEMMA CursorMoves ==
  ASSUME NEW n \in Nat
  PROVE  Wrap(((n * E) % C) + E) = ((n + 1) * E) % C
<1> USE RingFacts
<1> DEFINE m == n * E
<1>1. m \in Nat /\ (n + 1) * E = m + E
  OBVIOUS
<1> HIDE DEF m
<1>2. m \div C \in Nat /\ m % C \in 0 .. (C - 1) /\ m = C * (m \div C) + (m % C)
  BY <1>1, SMTT(30)
<1> DEFINE d == m \div C
           r == m % C
<1>3. d \in Nat /\ r \in 0 .. (C - 1) /\ m = C * d + r
  BY <1>2
<1> HIDE DEF d, r
<1> DEFINE b == (r + E) \div C
           z == (r + E) % C
<1>4. b \in Nat /\ z \in 0 .. (C - 1) /\ r + E = C * b + z
  BY <1>3, SMTT(30)
<1> HIDE DEF b, z
<1>5. C * (d + b) = C * d + C * b /\ d + b \in Int
  BY <1>3, <1>4, SMTT(30)
<1>6. (m + E) % C = z
  <2> DEFINE u == d + b
             x == m + E
  <2>1. u \in Int /\ x \in Int /\ x = C * u + z
    BY <1>1, <1>3, <1>4, <1>5
  <2> HIDE DEF u, x
  <2>2. x % C = z
    BY <1>4, <2>1, Remainder, C \in Nat \ {0}
  <2> QED BY <2>2 DEF x
<1> QED
  BY <1>1, <1>6 DEF Wrap, C, m, r, z

\* An element does not straddle the end of the ring.
LEMMA ElementInOnePiece ==
  ASSUME ElementsFit, NEW n \in Nat
  PROVE  (n * E) % R \in Nat /\ ((n * E) % R) + E <= R
<1> USE RingFacts
<1>1. PICK a \in Nat : R = E * a
  BY ExactQuotient DEF ElementsFit, R, E
<1>2. a > 0
  BY <1>1
<1>3. n \div a \in Nat /\ n % a \in 0 .. (a - 1) /\ n = a * (n \div a) + (n % a)
  BY <1>2, SMTT(30)
<1> DEFINE q == n \div a
           s == n % a
<1>4. n * E = R * q + s * E /\ s * E \in Nat
  BY <1>1, <1>3, SMTT(30)
<1>5. (s + 1) * E <= a * E
  BY <1>3, SMTT(30)
<1>6. (n * E) % R = (s * E) % R
  BY <1>3, <1>4, SamePlace, n * E \in Nat, q \in Nat
<1>7. s * E + E <= R
  BY <1>1, <1>3, <1>5
<1> DEFINE z == s * E
<1>8. z \in Nat /\ z + E <= R
  BY <1>4, <1>7
<1> HIDE DEF z
<1>9. z % R = z
  BY <1>8, SMTT(30)
<1> QED
  BY <1>6, <1>8, <1>9 DEF z
\* The place of a byte, and where the code looks for it.
LEMMA PosTyped ==
  ASSUME NEW m \in Nat \ {0}, NEW k \in Nat
  PROVE  Pos(m, k) \in 0 .. (R - 1)
<1> DEFINE n == (m - 1) * E + k
<1>1. n \in Nat
  BY RingFacts
<1> HIDE DEF n
<1>2. n % R \in 0 .. (R - 1)
  BY <1>1, RingFacts, SMTT(30)
<1> QED
  BY <1>2 DEF Pos, n

LEMMA InPlace ==
  ASSUME ElementInv, NEW k \in Nat
  PROVE  Place(m_nIn, k) = Pos(sent + 1, k)
<1>1. sent \in Nat /\ sent * E \in Nat /\ m_nIn = (sent * E) % C
  BY RingFacts, SizesAssumption DEF ElementInv
<1> DEFINE n == sent * E
<1>2. ((n % C) + k) % R = (n + k) % R
  BY <1>1, CursorPlace
<1>3. (sent + 1) - 1 = sent
  BY <1>1
<1> QED
  BY <1>1, <1>2, <1>3 DEF Place, Pos, R

LEMMA OutPlace ==
  ASSUME ElementInv, NEW i \in Nat \ {0}, NEW k \in Nat
  PROVE  Place(m_nOut, (i - 1) * E + k) = Pos(Taken + i, k)
<1> DEFINE t == Taken
<1>1. t \in Nat /\ t * E \in Nat /\ m_nOut = (t * E) % C
  BY RingFacts, LenProperties DEF ElementInv, Taken
<1> HIDE DEF t
<1> DEFINE n == t * E
           j == (i - 1) * E + k
<1>2. j \in Nat
  BY RingFacts
<1>3. n + j = ((t + i) - 1) * E + k
  BY <1>1, RingFacts, SMTT(30)
<1> HIDE DEF j
<1>4. ((n % C) + j) % R = (n + j) % R
  BY <1>1, <1>2, CursorPlace
<1> QED
  BY <1>1, <1>3, <1>4 DEF Place, Pos, R, j, t

LEMMA FirstOutPlace ==
  ASSUME ElementInv, NEW k \in Nat
  PROVE  Place(m_nOut, k) = Pos(Taken + 1, k)
<1>1. (1 - 1) * E + k = k /\ 1 \in Nat \ {0}
  BY RingFacts
<1> QED
  BY <1>1, OutPlace

LEMMA PosApart ==
  ASSUME NEW m \in Nat \ {0}, NEW n \in Nat \ {0}, NEW k \in Offsets, NEW j \in Offsets,
         m < n, (n - m) * E + E <= R
  PROVE  Pos(m, k) # Pos(n, j)
<1> USE RingFacts
<1> DEFINE x == (m - 1) * E + k
           y == (n - 1) * E + j
           d == (n - m) * E
<1>1. k \in 0 .. (E - 1) /\ j \in 0 .. (E - 1)
  BY DEF Offsets, E
<1>2. x \in Nat /\ y \in Nat /\ d \in Nat
  BY <1>1
<1>3. (n - 1) * E = (m - 1) * E + d
  BY SMTT(30)
<1>4. y - x = (d + j) - k
  <2> DEFINE a == (m - 1) * E
  <2>1. a \in Int
    OBVIOUS
  <2>2. x = a + k /\ y = (a + d) + j
    BY <1>3
  <2> HIDE DEF a, x, y, d
  <2> QED BY <1>1, <1>2, <2>1, <2>2
<1>5. d >= E
  BY SMTT(30)
<1>6. d + E <= R
  OBVIOUS
<1> HIDE DEF x, y, d
<1>7. x < y /\ y - x < R
  BY <1>1, <1>2, <1>4, <1>5, <1>6
<1>8. x % R # y % R
  BY <1>2, <1>7, OtherPlace
<1> QED
  BY <1>8 DEF Pos, x, y

LEMMA BytesApart ==
  ASSUME ElementsFit, NEW m \in Nat \ {0}, NEW k \in Offsets, NEW j \in Offsets, k < j
  PROVE  Pos(m, k) # Pos(m, j)
<1> USE RingFacts
<1> DEFINE a == (m - 1) * E
<1>1. k \in 0 .. (E - 1) /\ j \in 0 .. (E - 1)
  BY DEF Offsets, E
<1>2. a \in Nat
  OBVIOUS
<1>3. E <= R
  BY ElementInOnePiece, 0 * E = 0, 0 % R = 0
<1> HIDE DEF a
<1>4. a + k \in Nat /\ a + j \in Nat /\ a + k < a + j /\ (a + j) - (a + k) < R
  BY <1>1, <1>2, <1>3
<1>5. (a + k) % R # (a + j) % R
  BY <1>4, OtherPlace
<1> QED
  BY <1>5 DEF Pos, a

LEMMA BeforeTheEnd ==
  ASSUME ElementsFit, NEW m \in Nat \ {0}, NEW k \in Offsets
  PROVE  k < R - Pos(m, 0)
<1> USE RingFacts
<1> DEFINE p == ((m - 1) * E) % R
<1>1. p \in Nat /\ p + E <= R
  BY ElementInOnePiece, m - 1 \in Nat
<1>2. (m - 1) * E \in Nat
  OBVIOUS
<1>3. Pos(m, 0) = p
  BY <1>2 DEF Pos
<1>4. k \in 0 .. (E - 1)
  BY DEF Offsets, E
<1> HIDE DEF p
<1> QED
  BY <1>1, <1>3, <1>4

\* What the cursors leave between them is what was sent and not received.
LEMMA FilledIs ==
  ASSUME CursorInv, ElementInv
  PROVE  Filled = (sent - Taken) * E /\ Size = sent - Taken /\ sent - Taken \in Nat
<1> USE RingFacts
<1> DEFINE t == Taken
           d == (sent - t) * E
           y == t * E
           x == sent * E
<1>1. /\ t \in Nat /\ sent \in Nat /\ t <= sent /\ d <= R
      /\ m_nIn = x % C /\ m_nOut = y % C
  BY LenProperties, SizesAssumption DEF ElementInv, Taken
<1> HIDE DEF t
<1>2. x \in Nat /\ y \in Nat /\ d \in Nat /\ x = y + d
  BY <1>1, SMTT(30)
<1> HIDE DEF d, x, y
<1>3. /\ x \div C \in Nat /\ x % C \in 0 .. (C - 1) /\ x = C * (x \div C) + (x % C)
      /\ y \div C \in Nat /\ y % C \in 0 .. (C - 1) /\ y = C * (y \div C) + (y % C)
  BY <1>2, SMTT(30)
<1> DEFINE v == x \div C
           u == y \div C
<1>4. v \in Nat /\ u \in Nat /\ x = C * v + m_nIn /\ y = C * u + m_nOut
  BY <1>1, <1>3
<1> HIDE DEF u, v
<1>5. m_nIn \in 0 .. (C - 1) /\ m_nOut \in 0 .. (C - 1)
  BY <1>1, <1>3
<1>6. Filled = IF m_nIn >= m_nOut THEN m_nIn - m_nOut ELSE (m_nIn - m_nOut) + C
  BY <1>5, WrapMinus DEF Filled
<1>7. Filled \in 0 .. (C - 1) /\ d \in 0 .. (C - 1)
  BY <1>1, <1>2, <1>5, <1>6
<1>8. C * (u - v) = C * u - C * v /\ C * ((u - v) + 1) = (C * u - C * v) + C
  BY <1>4, SMTT(30)
<1>9. \E w \in Int : Filled = C * w + d
  <2> DEFINE cu == C * u
             cv == C * v
  <2>1. cu \in Int /\ cv \in Int /\ x = cv + m_nIn /\ y = cu + m_nOut
    BY <1>4
  <2>2. C * (u - v) = cu - cv /\ C * ((u - v) + 1) = (cu - cv) + C
    BY <1>8
  <2>3. u - v \in Int /\ (u - v) + 1 \in Int
    BY <1>4
  <2> HIDE DEF cu, cv
  <2>4. m_nIn - m_nOut = (cu - cv) + d
    BY <1>2, <1>5, <2>1
  <2>5. Filled = (cu - cv) + d \/ Filled = ((cu - cv) + C) + d
    BY <1>2, <1>5, <1>6, <2>1, <2>4
  <2> QED BY <2>2, <2>3, <2>5
<1>10. Filled % C = d
  BY <1>7, <1>9, Remainder, C \in Nat \ {0}
<1>11. Filled % C = Filled
  <2> DEFINE f == Filled
  <2>1. f \in 0 .. (C - 1)
    BY <1>7
  <2> HIDE DEF f
  <2>2. f % C = f
    BY <2>1, SMTT(30)
  <2> QED BY <2>2 DEF f
<1>12. Filled = (sent - t) * E
  BY <1>10, <1>11 DEF d
<1>13. sent - t \in Nat
  BY <1>1
<1>14. ((sent - t) * E) \div E = sent - t
  <2> DEFINE n == sent - t
  <2> HIDE DEF n
  <2>1. n \in Nat
    BY <1>13 DEF n
  <2>2. (n * E) \div E = n
    BY <2>1, SMTT(30)
  <2> QED BY <2>2 DEF n
<1> QED
  BY <1>12, <1>13, <1>14 DEF t, Size, E
LEMMA FifoInit == Init => FifoInv
<1> SUFFICES ASSUME Init PROVE FifoInv
  OBVIOUS
<1> USE RingFacts
<1>1. CursorInv
  BY CursorInit
<1>2. Taken = 0 /\ received \in Seq(Nat) /\ sent = 0
  BY DEF Init, Taken
<1>3. ElementInv
  <2>1. 0 * E = 0 /\ 0 % C = 0
    BY SMTT(30)
  <2>2. m_nIn = (sent * E) % C /\ m_nOut = (Taken * E) % C /\ (sent - Taken) * E <= R
    BY <1>2, <2>1 DEF Init
  <2>3. sent \in 0 .. MaxMessages /\ \A i \in 1 .. Taken : received[i] = i
    BY <1>2, SizesAssumption
  <2>4. pushAt = "idle" /\ popAt = "idle" /\ pushLen = 0 /\ popLen = 0
    BY DEF Init
  <2> QED
    BY <1>2, <2>2, <2>3, <2>4 DEF ElementInv
<1>4. BytesInv
  <2>1. Garbage \in Byte
    BY DEF Byte
  <2> QED
    BY <1>2, <2>1 DEF Init, BytesInv, R
<1> QED
  BY <1>1, <1>3, <1>4 DEF FifoInv

\* One step of each side, whole elements only.
LEMMA CallPushFifo ==
  ASSUME FifoInv, CallPush
  PROVE  ElementInv' /\ BytesInv'
<1>1. /\ pushAt' = "sample" /\ pushLen' = 0 /\ sent < MaxMessages
      /\ UNCHANGED <<m_nIn, m_nOut, sent, popAt, popLen, popped, element, received, m_pBuffer>>
  BY DEF CallPush, consumer
<1>2. Taken' = Taken
  BY <1>1 DEF Taken
<1> QED
  BY <1>1, <1>2 DEF FifoInv, ElementInv, BytesInv, Pos

LEMMA SampleOutFifo ==
  ASSUME ElementsFit, FifoInv, SampleOut
  PROVE  /\ ElementInv' /\ BytesInv'
         /\ pushLen' = E => (sent - Taken) * E + E <= R
<1> USE RingFacts
<1>1. /\ pushAt = "sample" /\ pushAt' = "copy" /\ pushed' = 0
      /\ UNCHANGED <<m_nIn, m_nOut, sent, popAt, popLen, popped, element, received, m_pBuffer>>
  BY DEF SampleOut, consumer
<1>2. Taken' = Taken
  BY <1>1 DEF Taken
<1>3. pushLen = 0
  BY <1>1 DEF FifoInv, ElementInv
<1>4. Filled = (sent - Taken) * E /\ sent - Taken \in Nat
  BY FilledIs DEF FifoInv
<1>5. Filled \in 0 .. R /\ Room = R - Filled
  BY RoomIs DEF FifoInv
<1>6. Room >= E \/ Room = 0
  <2>1. PICK a \in Nat : R = E * a
    BY ExactQuotient DEF ElementsFit, R, E
  <2> DEFINE n == sent - Taken
  <2>2. n \in Nat /\ Room = E * a - n * E
    BY <1>4, <1>5, <2>1
  <2> HIDE DEF n
  <2>3. E * a - n * E = E * (a - n)
    BY <2>2, SMTT(30)
  <2>4. a - n > 0 => E * (a - n) >= E
    BY <2>2, SMTT(30)
  <2>5. a - n < 0 => E * (a - n) < 0
    BY <2>2, SMTT(30)
  <2>6. a - n = 0 => E * (a - n) = 0
    BY <2>2
  <2> QED
    BY <1>5, <2>2, <2>3, <2>4, <2>5, <2>6
<1>7. pushLen' = LessOf(E, Room)
  BY <1>3 DEF SampleOut, E
<1>8. pushLen' \in {0, E} /\ (pushLen' = E => Filled + E <= R)
  BY <1>5, <1>6, <1>7 DEF LessOf
<1>9. ElementInv'
  BY <1>1, <1>2, <1>8 DEF FifoInv, ElementInv
<1>10. BytesInv'
  BY <1>1, <1>2 DEF FifoInv, BytesInv, Pos
<1> QED
  BY <1>4, <1>8, <1>9, <1>10

LEMMA CopyInFifo ==
  ASSUME ElementsFit, FifoInv, CopyIn
  PROVE  ElementInv' /\ BytesInv'
<1> USE RingFacts
<1>1. /\ pushAt = "copy" /\ pushed < pushLen /\ pushed' = pushed + 1
      /\ m_pBuffer' = [m_pBuffer EXCEPT ![Place(m_nIn, pushed)] = SourceByte(pushed)]
      /\ UNCHANGED <<m_nIn, m_nOut, pushAt, pushLen, sent, popAt, popLen, popped, element,
                     received>>
  BY DEF CopyIn, consumer
<1>2. Taken' = Taken
  BY <1>1 DEF Taken
<1>3. /\ pushed \in 0 .. E /\ pushLen \in {0, E} /\ sent < MaxMessages /\ sent \in Nat
      /\ Taken \in Nat /\ Filled + pushLen <= R
  BY <1>1, SizesAssumption, LenProperties DEF FifoInv, CursorInv, ElementInv, Taken
<1>4. pushLen = E /\ pushed \in Offsets
  BY <1>1, <1>3 DEF Offsets, E
<1>5. Filled = (sent - Taken) * E /\ sent - Taken \in Nat
  BY FilledIs DEF FifoInv
<1>6. Place(m_nIn, pushed) = Pos(sent + 1, pushed)
  BY <1>3, InPlace DEF FifoInv
<1>7. SourceByte(pushed) = <<sent + 1, pushed>>
  <2>1. Place(m_nIn, 0) = Pos(sent + 1, 0)
    BY InPlace DEF FifoInv
  <2>2. pushed < R - Pos(sent + 1, 0)
    BY <1>3, <1>4, BeforeTheEnd
  <2> QED
    BY <2>1, <2>2 DEF SourceByte, R
<1>8. <<sent + 1, pushed>> \in Byte
  BY <1>3, <1>4, SizesAssumption DEF Byte
<1>9. Pos(sent + 1, pushed) \in 0 .. (R - 1)
  BY <1>3, PosTyped
<1>10. m_pBuffer \in [0 .. (R - 1) -> Byte]
  BY DEF FifoInv, BytesInv
<1>11. m_pBuffer' = [m_pBuffer EXCEPT ![Pos(sent + 1, pushed)] = <<sent + 1, pushed>>]
  BY <1>1, <1>6, <1>7
<1>12. /\ m_pBuffer' \in [0 .. (R - 1) -> Byte]
       /\ m_pBuffer'[Pos(sent + 1, pushed)] = <<sent + 1, pushed>>
       /\ \A p \in 0 .. (R - 1) : p # Pos(sent + 1, pushed) => m_pBuffer'[p] = m_pBuffer[p]
  BY <1>8, <1>9, <1>10, <1>11
<1>13. \A m \in (Taken + 1) .. sent : \A k \in Offsets : m_pBuffer'[Pos(m, k)] = <<m, k>>
  <2> SUFFICES ASSUME NEW m \in (Taken + 1) .. sent, NEW k \in Offsets
      PROVE  m_pBuffer'[Pos(m, k)] = <<m, k>>
    OBVIOUS
  <2>1. m \in Nat \ {0} /\ k \in Nat /\ sent + 1 \in Nat \ {0} /\ m < sent + 1
    BY <1>3 DEF Offsets
  <2>2. ((sent + 1) - m) * E + E <= R
    <3>1. ((sent + 1) - m) * E <= (sent - Taken) * E
      <4> DEFINE x == (sent + 1) - m
                 y == sent - Taken
      <4>1. x \in Nat /\ y \in Nat /\ x <= y
        BY <1>3, <1>5, <2>1
      <4> HIDE DEF x, y
      <4>2. x * E <= y * E
        BY <4>1, SMTT(30)
      <4> QED BY <4>2 DEF x, y
    <3>2. (sent - Taken) * E + E <= R
      BY <1>3, <1>4, <1>5
    <3>3. ((sent + 1) - m) * E \in Int /\ (sent - Taken) * E \in Int
      BY <1>3, <2>1
    <3> QED BY <3>1, <3>2, <3>3
  <2>3. Pos(m, k) # Pos(sent + 1, pushed) /\ Pos(m, k) \in 0 .. (R - 1)
    BY <1>4, <2>1, <2>2, PosApart, PosTyped
  <2> QED
    BY <1>12, <2>3 DEF FifoInv, BytesInv
<1>14. \A k \in 0 .. ((pushed + 1) - 1) : m_pBuffer'[Pos(sent + 1, k)] = <<sent + 1, k>>
  <2> SUFFICES ASSUME NEW k \in 0 .. pushed
      PROVE  m_pBuffer'[Pos(sent + 1, k)] = <<sent + 1, k>>
    BY <1>3
  <2>1. CASE k = pushed
    BY <1>12, <2>1
  <2>2. CASE k < pushed
    <3>1. k \in Offsets /\ k \in Nat /\ sent + 1 \in Nat \ {0}
      BY <1>3, <1>4, <2>2 DEF Offsets, E
    <3>2. Pos(sent + 1, k) # Pos(sent + 1, pushed) /\ Pos(sent + 1, k) \in 0 .. (R - 1)
      BY <1>4, <2>2, <3>1, BytesApart, PosTyped
    <3>3. k \in 0 .. (pushed - 1)
      BY <1>3, <2>2
    <3>4. m_pBuffer[Pos(sent + 1, k)] = <<sent + 1, k>>
      BY <1>1, <3>3 DEF FifoInv, BytesInv
    <3> QED BY <1>12, <3>2, <3>4
  <2> QED
    BY <1>3, <2>1, <2>2
<1>15. ElementInv'
  BY <1>1, <1>2, <1>3, <1>4 DEF FifoInv, ElementInv
<1>16. BytesInv'
  BY <1>1, <1>2, <1>12, <1>13, <1>14 DEF FifoInv, BytesInv, Pos
<1> QED
  BY <1>15, <1>16
LEMMA PublishInFifo ==
  ASSUME FifoInv, PublishIn
  PROVE  /\ ElementInv' /\ BytesInv' /\ UNCHANGED received
         /\ sent' = IF pushLen = E THEN sent + 1 ELSE sent
<1> USE RingFacts
<1>1. /\ pushAt = "copy" /\ pushed = pushLen /\ m_nIn' = Wrap(m_nIn + pushLen)
      /\ UNCHANGED <<m_nOut, pushLen, pushed, popAt, popLen, popped, element, received, m_pBuffer>>
  BY DEF PublishIn, consumer
<1>2. Taken' = Taken /\ Taken \in Nat
  BY <1>1, LenProperties DEF Taken, FifoInv, ElementInv
<1>3. /\ pushLen \in {0, E} /\ sent < MaxMessages /\ sent \in Nat /\ Taken <= sent
      /\ m_nIn = (sent * E) % C /\ m_nIn \in 0 .. (C - 1) /\ Filled + pushLen <= R
  BY <1>1, SizesAssumption DEF FifoInv, CursorInv, ElementInv
<1>4. Filled = (sent - Taken) * E
  BY FilledIs DEF FifoInv
<1>5. CASE pushLen = 0
  <2>1. Wrap(m_nIn + 0) = m_nIn
    BY <1>3, WrapZero
  <2>2. pushAt' = "sample" /\ sent' = sent /\ m_nIn' = m_nIn
    BY <1>1, <1>5, <2>1, SizesAssumption DEF PublishIn
  <2>3. ElementInv'
    BY <1>1, <1>2, <1>5, <2>2 DEF FifoInv, ElementInv
  <2>4. BytesInv'
    BY <1>1, <1>2, <2>2 DEF FifoInv, BytesInv, Pos
  <2> QED
    BY <1>1, <1>5, <2>2, <2>3, <2>4
<1>6. CASE pushLen = E
  <2>1. pushAt' = "idle" /\ sent' = sent + 1
    BY <1>1, <1>6 DEF PublishIn, E
  <2>2. m_nIn' = (sent' * E) % C
    BY <1>1, <1>3, <1>6, <2>1, CursorMoves
  <2>3. (sent' - Taken') * E <= R
    <3>1. ((sent + 1) - Taken) * E = (sent - Taken) * E + E
      BY <1>2, <1>3, SMTT(30)
    <3> QED BY <1>2, <1>3, <1>4, <1>6, <2>1, <3>1
  <2>4. sent' \in 0 .. MaxMessages /\ Taken' <= sent'
    BY <1>2, <1>3, <2>1, SizesAssumption
  <2>5. ElementInv'
    BY <1>1, <1>2, <2>1, <2>2, <2>3, <2>4 DEF FifoInv, ElementInv
  <2>6. \A m \in (Taken + 1) .. (sent + 1) : \A k \in Offsets : m_pBuffer[Pos(m, k)] = <<m, k>>
    <3>1. \A k \in Offsets : m_pBuffer[Pos(sent + 1, k)] = <<sent + 1, k>>
      BY <1>1, <1>6 DEF FifoInv, BytesInv, Offsets, E
    <3>2. \A m \in (Taken + 1) .. sent : \A k \in Offsets : m_pBuffer[Pos(m, k)] = <<m, k>>
      BY DEF FifoInv, BytesInv
    <3>3. \A m \in (Taken + 1) .. (sent + 1) : m = sent + 1 \/ m \in (Taken + 1) .. sent
      BY <1>2, <1>3
    <3> QED BY <3>1, <3>2, <3>3
  <2>7. BytesInv'
    BY <1>1, <1>2, <2>1, <2>6 DEF FifoInv, BytesInv, Pos
  <2> QED
    BY <1>1, <1>6, <2>1, <2>5, <2>7
<1> QED
  BY <1>3, <1>5, <1>6

LEMMA CallPopFifo ==
  ASSUME FifoInv, CallPop
  PROVE  ElementInv' /\ BytesInv'
<1>1. /\ popAt' = "sample" /\ popLen' = 0
      /\ UNCHANGED <<m_nIn, m_nOut, sent, pushAt, pushLen, pushed, element, received, m_pBuffer>>
  BY DEF CallPop, producer
<1>2. Taken' = Taken
  BY <1>1 DEF Taken
<1> QED
  BY <1>1, <1>2 DEF FifoInv, ElementInv, BytesInv, Pos

LEMMA SampleInFifo ==
  ASSUME FifoInv, SampleIn
  PROVE  ElementInv' /\ BytesInv'
<1> USE RingFacts
<1>1. /\ popAt = "sample" /\ popAt' = "copy" /\ popped' = 0
      /\ UNCHANGED <<m_nIn, m_nOut, sent, pushAt, pushLen, pushed, element, received, m_pBuffer>>
  BY DEF SampleIn, producer
<1>2. Taken' = Taken
  BY <1>1 DEF Taken
<1>3. popLen = 0
  BY <1>1 DEF FifoInv, ElementInv
<1>4. Filled = (sent - Taken) * E /\ sent - Taken \in Nat
  BY FilledIs DEF FifoInv
<1>5. Filled >= E \/ Filled = 0
  <2> DEFINE n == sent - Taken
  <2>1. n \in Nat /\ Filled = n * E
    BY <1>4
  <2> HIDE DEF n
  <2>2. n > 0 => n * E >= E
    BY <2>1, SMTT(30)
  <2>3. n = 0 => n * E = 0
    BY <2>1
  <2> QED
    BY <2>1, <2>2, <2>3
<1>6. popLen' = LessOf(E, Filled)
  BY <1>3 DEF SampleIn, E
<1>7. popLen' \in {0, E}
  <2>1. Filled \in Int
    BY RoomIs DEF FifoInv
  <2> QED
    BY <1>5, <1>6, <2>1 DEF LessOf
<1>8. ElementInv'
  BY <1>1, <1>2, <1>7 DEF FifoInv, ElementInv
<1>9. BytesInv'
  BY <1>1, <1>2 DEF FifoInv, BytesInv, Pos
<1> QED
  BY <1>8, <1>9

\* While the consumer copies an element there is one.
LEMMA ElementThere ==
  ASSUME FifoInv, popAt = "copy", popLen = E
  PROVE  Taken \in Nat /\ sent \in Nat /\ Taken < sent
<1> USE RingFacts
<1>1. popLen <= Filled
  BY DEF FifoInv, CursorInv
<1>2. Taken \in Nat /\ sent \in Nat
  BY LenProperties, SizesAssumption DEF FifoInv, ElementInv, Taken
<1>3. Filled = (sent - Taken) * E /\ sent - Taken \in Nat
  BY FilledIs DEF FifoInv
<1>4. sent - Taken = 0 => (sent - Taken) * E = 0
  BY SMTT(30)
<1> QED
  BY <1>1, <1>2, <1>3, <1>4

LEMMA CopyOutFifo ==
  ASSUME ElementsFit, FifoInv, CopyOut
  PROVE  ElementInv' /\ BytesInv'
<1> USE RingFacts
<1>1. /\ popAt = "copy" /\ popped < popLen /\ popped' = popped + 1
      /\ element' = IF popped < R - Place(m_nOut, 0)
                      THEN [element EXCEPT ![popped] = m_pBuffer[Place(m_nOut, popped)]]
                      ELSE element
      /\ UNCHANGED <<m_nIn, m_nOut, sent, pushAt, pushLen, pushed, popAt, popLen, received,
                     m_pBuffer>>
  BY DEF CopyOut, producer, R
<1>2. Taken' = Taken
  BY <1>1 DEF Taken
<1>3. popped \in 0 .. E /\ popLen \in {0, E}
  BY DEF FifoInv, CursorInv, ElementInv
<1>4. popLen = E /\ popped \in Offsets /\ popped \in Nat
  BY <1>1, <1>3 DEF Offsets, E
<1>5. Taken \in Nat /\ sent \in Nat /\ Taken < sent
  BY <1>1, <1>4, ElementThere
<1>6. Place(m_nOut, popped) = Pos(Taken + 1, popped) /\ Place(m_nOut, 0) = Pos(Taken + 1, 0)
  BY <1>4, FirstOutPlace DEF FifoInv
<1>7. popped < R - Pos(Taken + 1, 0)
  BY <1>4, <1>5, BeforeTheEnd
<1>8. m_pBuffer[Pos(Taken + 1, popped)] = <<Taken + 1, popped>>
  <2>1. Taken + 1 \in (Taken + 1) .. sent
    BY <1>5
  <2> QED
    BY <1>4, <2>1 DEF FifoInv, BytesInv
<1>9. element' = [element EXCEPT ![popped] = <<Taken + 1, popped>>]
  BY <1>1, <1>6, <1>7, <1>8
<1>10. <<Taken + 1, popped>> \in Byte
  <2>1. sent <= MaxMessages
    BY SizesAssumption DEF FifoInv, ElementInv
  <2> QED
    BY <1>4, <1>5, <2>1, SizesAssumption DEF Byte
<1>11. element \in [Offsets -> Byte]
  BY DEF FifoInv, BytesInv
<1>12. /\ element' \in [Offsets -> Byte] /\ element'[popped] = <<Taken + 1, popped>>
       /\ \A k \in Offsets : k # popped => element'[k] = element[k]
  BY <1>4, <1>9, <1>10, <1>11
<1>13. \A k \in 0 .. ((popped + 1) - 1) : element'[k] = <<Taken + 1, k>>
  <2> SUFFICES ASSUME NEW k \in 0 .. popped PROVE element'[k] = <<Taken + 1, k>>
    BY <1>3
  <2>1. CASE k = popped
    BY <1>12, <2>1
  <2>2. CASE k < popped
    <3>1. k \in Offsets /\ k # popped /\ k \in 0 .. (popped - 1)
      BY <1>3, <1>4, <2>2 DEF Offsets, E
    <3>2. element[k] = <<Taken + 1, k>>
      BY <1>1, <3>1 DEF FifoInv, BytesInv
    <3> QED BY <1>12, <3>1, <3>2
  <2> QED
    BY <1>3, <2>1, <2>2
<1>14. ElementInv'
  BY <1>1, <1>2, <1>3, <1>4 DEF FifoInv, ElementInv
<1>15. BytesInv'
  BY <1>1, <1>2, <1>12, <1>13 DEF FifoInv, BytesInv, Pos
<1> QED
  BY <1>14, <1>15

\* The bytes of one message are that message.
LEMMA DecodeIs ==
  ASSUME NEW bytes, NEW m, \A k \in Offsets : bytes[k] = <<m, k>>
  PROVE  Decode(bytes) = m
<1>1. 0 \in Offsets
  BY RingFacts DEF Offsets, E
<1>2. bytes[0] = <<m, 0>>
  BY <1>1
<1>3. bytes[0][1] = m
  BY <1>2
<1> QED
  BY <1>3 DEF Decode

LEMMA PublishOutFifo ==
  ASSUME FifoInv, PublishOut
  PROVE  /\ ElementInv' /\ BytesInv' /\ UNCHANGED sent
         /\ popLen = E => Taken < sent /\ received' = Append(received, Taken + 1)
         /\ popLen = 0 => UNCHANGED received
<1> USE RingFacts
<1>1. /\ popAt = "copy" /\ popped = popLen /\ m_nOut' = Wrap(m_nOut + popLen)
      /\ UNCHANGED <<m_nIn, pushAt, pushLen, pushed, sent, popLen, popped, element, m_pBuffer>>
  BY DEF PublishOut, producer
<1>2. /\ popLen \in {0, E} /\ received \in Seq(Nat) /\ Taken \in Nat
      /\ m_nOut = (Taken * E) % C /\ m_nOut \in 0 .. (C - 1)
  BY LenProperties DEF FifoInv, CursorInv, ElementInv, Taken
<1>3. CASE popLen = 0
  <2>1. Wrap(m_nOut + 0) = m_nOut
    BY <1>2, WrapZero
  <2>2. popAt' = "sample" /\ received' = received /\ m_nOut' = m_nOut
    BY <1>1, <1>3, <2>1, SizesAssumption DEF PublishOut
  <2>3. Taken' = Taken
    BY <2>2 DEF Taken
  <2>4. ElementInv'
    BY <1>1, <1>3, <2>2, <2>3 DEF FifoInv, ElementInv
  <2>5. BytesInv'
    BY <1>1, <2>2, <2>3 DEF FifoInv, BytesInv, Pos
  <2> QED
    BY <1>1, <1>3, <2>2, <2>4, <2>5
<1>4. CASE popLen = E
  <2>1. sent \in Nat /\ Taken < sent
    BY <1>1, <1>4, ElementThere
  <2>2. Decode(element) = Taken + 1
    <3>1. \A k \in Offsets : element[k] = <<Taken + 1, k>>
      BY <1>1, <1>4 DEF FifoInv, BytesInv, Offsets, E
    <3> QED BY <3>1, DecodeIs
  <2>3. popAt' = "idle" /\ received' = Append(received, Taken + 1)
    BY <1>1, <1>4, <2>2 DEF PublishOut, E
  <2>4. /\ received' \in Seq(Nat) /\ Taken' = Taken + 1
        /\ \A i \in 1 .. Taken : received'[i] = received[i]
        /\ received'[Taken + 1] = Taken + 1
    BY <1>2, <2>3, AppendProperties, Taken + 1 \in Nat DEF Taken
  <2>5. \A i \in 1 .. Taken' : received'[i] = i
    <3>1. \A i \in 1 .. Taken : received[i] = i
      BY DEF FifoInv, ElementInv
    <3>2. \A i \in 1 .. (Taken + 1) : i = Taken + 1 \/ i \in 1 .. Taken
      BY <1>2
    <3> QED BY <2>4, <3>1, <3>2
  <2>6. m_nOut' = (Taken' * E) % C
    BY <1>1, <1>2, <1>4, <2>4, CursorMoves
  <2>7. (sent - Taken') * E <= R
    <3>1. (sent - Taken) * E = (sent - (Taken + 1)) * E + E
      BY <1>2, <2>1, SMTT(30)
    <3>2. (sent - Taken) * E <= R
      BY DEF FifoInv, ElementInv
    <3>3. (sent - (Taken + 1)) * E \in Int
      BY <1>2, <2>1
    <3> QED BY <2>4, <3>1, <3>2, <3>3
  <2>8. Taken' <= sent
    BY <1>2, <2>1, <2>4
  <2>9. ElementInv'
    BY <1>1, <2>3, <2>4, <2>5, <2>6, <2>7, <2>8 DEF FifoInv, ElementInv
  <2>10. BytesInv'
    <3>1. \A m \in (Taken' + 1) .. sent : m \in (Taken + 1) .. sent
      BY <1>2, <2>1, <2>4
    <3> QED BY <1>1, <2>3, <3>1 DEF FifoInv, BytesInv, Pos
  <2> QED
    BY <1>1, <1>4, <2>1, <2>3, <2>9, <2>10
<1> QED
  BY <1>2, <1>3, <1>4

LEMMA FifoStep == ElementsFit /\ FifoInv /\ [Next]_vars => FifoInv'
<1> SUFFICES ASSUME ElementsFit, FifoInv, [Next]_vars PROVE FifoInv'
  OBVIOUS
<1>1. CursorInv'
  BY CursorStep DEF FifoInv
<1>2. ElementInv' /\ BytesInv'
  <2>1. CASE UNCHANGED vars
    BY <2>1 DEF vars, producer, consumer, FifoInv, ElementInv, BytesInv, Taken, Pos
  <2>2. CASE PushTail
    BY <2>2, CallPushFifo, SampleOutFifo, CopyInFifo, PublishInFifo DEF PushTail
  <2>3. CASE PopHead
    BY <2>3, CallPopFifo, SampleInFifo, CopyOutFifo, PublishOutFifo DEF PopHead
  <2> QED
    BY <2>1, <2>2, <2>3 DEF Next
<1> QED
  BY <1>1, <1>2 DEF FifoInv
----------------------------------------------------------------------------
\* The byte ring is the queue of AbstractFifo

\* What lies between the cursors: the messages sent and not yet received, in order.
Waiting == [i \in 1 .. (sent - Taken) |-> Taken + i]

LEMMA QueueIs ==
  ASSUME FifoInv
  PROVE  Queue = Waiting
<1> USE RingFacts
<1>1. Size = sent - Taken /\ sent - Taken \in Nat
  BY FilledIs DEF FifoInv
<1>2. Taken \in Nat /\ sent \in Nat
  BY SizesAssumption, LenProperties DEF FifoInv, ElementInv, Taken
<1>3. ASSUME NEW i \in 1 .. (sent - Taken)
      PROVE  Decode([k \in Offsets |-> m_pBuffer[Place(m_nOut, (i - 1) * ElementSize + k)]])
               = Taken + i
  <2> DEFINE bytes == [k \in Offsets |-> m_pBuffer[Place(m_nOut, (i - 1) * ElementSize + k)]]
  <2>1. ASSUME NEW k \in Offsets PROVE bytes[k] = <<Taken + i, k>>
    <3>1. i \in Nat \ {0} /\ k \in Nat /\ Taken + i \in (Taken + 1) .. sent
      BY <1>1, <1>2 DEF Offsets
    <3>2. Place(m_nOut, (i - 1) * ElementSize + k) = Pos(Taken + i, k)
      BY <3>1, OutPlace DEF FifoInv, E
    <3>3. m_pBuffer[Pos(Taken + i, k)] = <<Taken + i, k>>
      BY <3>1 DEF FifoInv, BytesInv
    <3> QED BY <3>2, <3>3
  <2> HIDE DEF bytes
  <2>2. Decode(bytes) = Taken + i
    BY <2>1, DecodeIs
  <2> QED BY <2>2 DEF bytes
<1> QED
  BY <1>1, <1>3 DEF Queue, Waiting

\* Sending makes the queue longer at its end, receiving takes its head.
LEMMA WaitingGrows ==
  ASSUME FifoInv, FifoInv', sent' = sent + 1, UNCHANGED received
  PROVE  Waiting' = Append(Waiting, sent + 1)
<1> DEFINE n == sent - Taken
<1>1. Taken \in Nat /\ sent \in Nat /\ n \in Nat /\ Taken' = Taken
  BY SizesAssumption, LenProperties DEF FifoInv, ElementInv, Taken
<1>2. Waiting \in Seq(Nat) /\ Len(Waiting) = n
  BY <1>1, IsASeq DEF Waiting
<1>3. /\ Len(Append(Waiting, sent + 1)) = n + 1
      /\ \A i \in 1 .. n : Append(Waiting, sent + 1)[i] = Waiting[i]
      /\ Append(Waiting, sent + 1)[n + 1] = sent + 1
      /\ Append(Waiting, sent + 1) \in Seq(Nat)
  BY <1>1, <1>2, AppendProperties, sent + 1 \in Nat
<1>4. Waiting' = [i \in 1 .. (n + 1) |-> Taken + i]
  <2>1. sent' - Taken' = n + 1
    BY <1>1
  <2> QED BY <1>1, <2>1 DEF Waiting
<1>5. \A i \in 1 .. (n + 1) : Append(Waiting, sent + 1)[i] = Taken + i
  <2>1. \A i \in 1 .. n : Waiting[i] = Taken + i
    BY DEF Waiting
  <2>2. \A i \in 1 .. (n + 1) : i \in 1 .. n \/ i = n + 1
    BY <1>1
  <2>3. Taken + (n + 1) = sent + 1
    BY <1>1
  <2> QED BY <1>3, <2>1, <2>2, <2>3
<1> DEFINE a == Append(Waiting, sent + 1)
<1>6. a = [i \in 1 .. (n + 1) |-> a[i]]
  <2>1. a \in Seq(Nat) /\ Len(a) = n + 1
    BY <1>3
  <2> HIDE DEF a, n
  <2> QED BY <2>1, LenProperties
<1> HIDE DEF a, n
<1> QED
  BY <1>4, <1>5, <1>6 DEF a

LEMMA WaitingShrinks ==
  ASSUME FifoInv, FifoInv', received' = Append(received, Taken + 1), UNCHANGED sent
  PROVE  Waiting # << >> /\ Head(Waiting) = Taken + 1 /\ Waiting' = Tail(Waiting)
<1> DEFINE n == sent - Taken
<1>1. Taken \in Nat /\ sent \in Nat /\ Taken' = Taken + 1 /\ Taken' <= sent'
  <2>1. received \in Seq(Nat) /\ Taken \in Nat /\ sent \in Nat /\ Taken' <= sent'
    BY SizesAssumption, LenProperties DEF FifoInv, ElementInv, Taken
  <2>2. Taken' = Taken + 1
    BY <2>1, AppendProperties DEF Taken
  <2> QED BY <2>1, <2>2
<1>2. n \in Nat \ {0} /\ sent' - Taken' = n - 1
  BY <1>1
<1>3. Waiting \in Seq(Nat) /\ Len(Waiting) = n /\ \A i \in 1 .. n : Waiting[i] = Taken + i
  BY <1>1, <1>2, IsASeq DEF Waiting
<1>4. Waiting' = [i \in 1 .. (n - 1) |-> (Taken + 1) + i]
  BY <1>1, <1>2 DEF Waiting
<1> DEFINE w == Waiting
<1> HIDE DEF n, w
<1>5. Waiting # << >> /\ Head(Waiting) = Taken + 1
  BY <1>2, <1>3
<1>6. Tail(Waiting) = [i \in 1 .. (n - 1) |-> Waiting[i + 1]]
  <2>1. /\ Tail(Waiting) \in Seq(Nat) /\ Len(Tail(Waiting)) = n - 1
        /\ \A i \in 1 .. (n - 1) : Tail(Waiting)[i] = Waiting[i + 1]
    BY <1>3, <1>5, HeadTailProperties
  <2>2. Tail(Waiting) = [i \in 1 .. (n - 1) |-> Tail(Waiting)[i]]
    BY <2>1, LenProperties
  <2> QED BY <2>1, <2>2
<1>7. \A i \in 1 .. (n - 1) : Waiting[i + 1] = (Taken + 1) + i
  BY <1>1, <1>2, <1>3
<1> QED
  BY <1>4, <1>5, <1>6, <1>7

LEMMA FifoSimulates ==
  ElementsFit /\ FifoInv /\ FifoInv' /\ [Next]_vars => [Fifo!Next]_(Fifo!vars)
<1> SUFFICES ASSUME ElementsFit, FifoInv, FifoInv', [Next]_vars
    PROVE  [Fifo!Next]_(Fifo!vars)
  OBVIOUS
<1>1. Queue = Waiting /\ Queue' = Waiting'
  <2>1. (Queue = Waiting)'
    BY QueueIs, PTL
  <2> QED BY QueueIs, <2>1
<1>2. sent' = sent /\ received' = received => UNCHANGED Fifo!vars
  BY <1>1 DEF Waiting, Taken, Fifo!vars
<1>3. sent' = sent + 1 /\ received' = received => Fifo!Send
  BY <1>1, WaitingGrows DEF Fifo!Send
<1>4. sent' = sent /\ received' = Append(received, Taken + 1) => Fifo!Receive
  BY <1>1, WaitingShrinks DEF Fifo!Receive
<1>5. \/ sent' = sent /\ received' = received
      \/ sent' = sent + 1 /\ received' = received
      \/ sent' = sent /\ received' = Append(received, Taken + 1)
  <2>1. CASE PublishIn
    BY <2>1, PublishInFifo
  <2>2. CASE PublishOut
    <3>1. popLen \in {0, E}
      BY DEF FifoInv, ElementInv
    <3> QED BY <2>2, <3>1, PublishOutFifo
  <2>3. CASE CallPush \/ SampleOut \/ CopyIn
    BY <2>3 DEF CallPush, SampleOut, CopyIn, consumer
  <2>4. CASE CallPop \/ SampleIn \/ CopyOut
    BY <2>4 DEF CallPop, SampleIn, CopyOut, producer
  <2>5. CASE UNCHANGED vars
    BY <2>5 DEF vars, producer, consumer
  <2> QED
    BY <2>1, <2>2, <2>3, <2>4, <2>5 DEF Next, PushTail, PopHead
<1> QED
  BY <1>2, <1>3, <1>4, <1>5 DEF Fifo!Next

LEMMA FifoInitSimulates == Init => Fifo!Init
<1> SUFFICES ASSUME Init PROVE Fifo!Init
  OBVIOUS
<1>1. FifoInv
  BY FifoInit
<1>2. Queue = Waiting /\ sent = 0 /\ received = << >> /\ Taken = 0
  BY <1>1, QueueIs DEF Init, Taken
<1>3. Waiting = << >>
  BY <1>2 DEF Waiting
<1> QED
  BY <1>2, <1>3 DEF Fifo!Init

\* The two threads' byte copies and cursor updates, interleaved in any way, are a FIFO
\* of whole messages: none lost, duplicated, torn or overtaken.  It takes a ring that is
\* a whole number of elements long.
THEOREM RingIsFifo ==
  ASSUME ElementsFit
  PROVE  Spec => ImplementsFifo
<1>1. Init => FifoInv
  BY FifoInit
<1>2. FifoInv /\ [Next]_vars => FifoInv'
  BY FifoStep
<1>3. FifoInv /\ FifoInv' /\ [Next]_vars => [Fifo!Next]_(Fifo!vars)
  BY FifoSimulates
<1>4. Init => Fifo!Init
  BY FifoInitSimulates
<1> QED
  BY <1>1, <1>2, <1>3, <1>4, PTL DEF Spec, ImplementsFifo, Fifo!Spec

\* The type invariant: the cursors stay unsigned ints, each byte that is ever copied in
\* or out is a byte of a message that was sent, and none is written beside the ring.
THEOREM TypesHold ==
  ASSUME ElementsFit
  PROVE  Spec => []TypeOK
<1>1. Init => FifoInv
  BY FifoInit
<1>2. FifoInv /\ [Next]_vars => FifoInv'
  BY FifoStep
<1>3. FifoInv => TypeOK
  BY DEF FifoInv, CursorInv, ElementInv, BytesInv, TypeOK, C, R, E, Byte
<1> QED
  BY <1>1, <1>2, <1>3, PTL DEF Spec

\* Elements of a power of 2 bytes that the ring has room for divide it.
LEMMA PowersFit ==
  ASSUME IsPower2(ElementSize), ElementSize <= RingSize
  PROVE  ElementsFit
<1>1. RingSize \in Nat /\ IsPower2(RingSize) /\ ElementSize \in Nat
  BY RingIsPower2, SizesAssumption DEF R
<1> QED
  BY <1>1, PowerDivides DEF ElementsFit

\* A queue of pointers, as every queue of the application is: their size is a power of
\* 2, and a queue for at least as many of them as a pointer has bytes has a ring that
\* a pointer fits in, whichever branch the constructor takes.
THEOREM PointerQueueIsFifo ==
  ASSUME IsPower2(ElementSize), ElementSize <= nSize
  PROVE  Spec => ImplementsFifo
<1>1. CASE IsPower2(nSize * ElementSize)
  <2>1. RingSize = nSize
    BY <1>1 DEF RingSize
  <2> QED
    BY <2>1, PowersFit, RingIsFifo
<1>2. CASE ~IsPower2(nSize * ElementSize)
  <2>1. nSize <= nSize * ElementSize
    BY SizesAssumption
  <2>2. ElementSize <= RingSize
    BY <1>2, <2>1, RoundedRingHolds, RingIsPower2, SizesAssumption DEF R
  <2> QED
    BY <2>2, PowersFit, RingIsFifo
<1> QED
  BY <1>1, <1>2
=============================================================================
