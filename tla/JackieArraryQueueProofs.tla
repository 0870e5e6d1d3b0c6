---------------------- MODULE JackieArraryQueueProofs ----------------------
(***************************************************************************)
(* The growing ring of JackieArraryQueue for every set of elements, every  *)
(* size of the first allocation and every number of elements.              *)
(***************************************************************************)
EXTENDS JackieArraryQueue, SequencesExt, SequenceTheorems, NaturalsInduction,
        WellFoundedInduction, TLAPS

----------------------------------------------------------------------------
\* Powers of 2: what the doubling loop of Shrink2MiniSzie stops at.

LEMMA LeastNatural ==
  ASSUME NEW T \in SUBSET Nat, T # {}
  PROVE  \E k \in T : \A j \in T : k <= j
<1> DEFINE Less == OpToRel(<, Nat)
<1>1. IsWellFoundedOn(Less, Nat)
  BY NatLessThanWellFounded
<1>2. \E x \in T : \A y \in T : <<y, x>> \notin Less
  <2> HIDE DEF Less
  <2> QED BY <1>1, WFMin
<1>3. ASSUME NEW x \in T, NEW y \in T, <<y, x>> \notin Less PROVE x <= y
  BY <1>3 DEF OpToRel
<1> QED
  BY <1>2, <1>3

\* Doubling a power of 2 gives one: an odd divisor of the double divides the half.
LEMMA DoubleIsPower2 ==
  ASSUME NEW n \in Nat, IsPower2(n)
  PROVE  IsPower2(2 * n)
<1> SUFFICES ASSUME NEW d \in 2 .. (2 * n), (2 * n) % d = 0, d % 2 # 0 PROVE FALSE
  BY DEF IsPower2
<1>1. PICK q \in Nat : 2 * n = d * q
  <2> DEFINE m == 2 * n
  <2>1. m \in Nat /\ d \in Nat \ {0} /\ m % d = 0
    OBVIOUS
  <2> HIDE DEF m
  <2>2. m \div d \in Nat /\ m = d * (m \div d)
    BY <2>1, SMTT(30)
  <2> QED BY <2>2 DEF m
<1>2. PICK x \in Nat : d = 2 * x + 1
  OBVIOUS
<1>3. 2 * (n - x * q) = q /\ n - x * q \in Int
  BY <1>1, <1>2
<1>4. PICK y \in Int : q = 2 * y
  <2> WITNESS n - x * q \in Int
  <2> QED BY <1>3
<1>5. y \in Nat /\ n = d * y
  BY <1>1, <1>4
<1>6. y # 0
  BY <1>5 DEF IsPower2
<1>7. d <= n
  BY <1>5, <1>6
<1>8. n % d = 0
  BY ONLY <1>5, n \in Nat, d \in Nat \ {0}, SMTT(30)
<1> QED
  BY <1>7, <1>8 DEF IsPower2

LEMMA PowerAbove ==
  ASSUME NEW s \in Nat
  PROVE  \E p \in (s + 1) .. (2 * s + 1) : IsPower2(p)
<1> DEFINE T == {t \in Nat : ~ \E p \in (t + 1) .. (2 * t + 1) : IsPower2(p)}
<1> SUFFICES ASSUME T # {} PROVE FALSE
  OBVIOUS
<1>1. PICK t \in T : \A j \in T : t <= j
  BY LeastNatural
<1>2. t # 0
  <2>1. IsPower2(1)
    BY DEF IsPower2
  <2> QED BY <2>1
<1>3. PICK h \in Nat : h < t /\ t <= 2 * h + 1 /\ 2 * h <= t
  <2> WITNESS t \div 2 \in Nat
  <2> QED BY <1>2
<1>4. PICK p \in (h + 1) .. (2 * h + 1) : IsPower2(p)
  BY <1>1, <1>3
<1>5. CASE p > t
  BY <1>3, <1>4, <1>5
<1>6. CASE p <= t
  <2>1. IsPower2(2 * p)
    BY <1>4, DoubleIsPower2
  <2> QED
    BY <1>3, <1>4, <1>6, <2>1
<1> QED
  BY <1>5, <1>6

LEMMA FittingIs ==
  ASSUME Size \in Nat
  PROVE  Fitting \in Nat /\ Fitting > Size
<1>1. \E n \in (Size + 1) .. (2 * Size + 1) : IsPower2(n)
  BY PowerAbove
<1>2. Fitting \in (Size + 1) .. (2 * Size + 1)
  BY <1>1 DEF Fitting
<1> QED
  BY <1>2

----------------------------------------------------------------------------
\* Sequences

\* A sequence is the function of its members.
LEMMA SeqIs ==
  ASSUME NEW S, NEW s \in Seq(S)
  PROVE  Len(s) \in Nat /\ s = [i \in 1 .. Len(s) |-> s[i]]
BY LenProperties

LEMMA AppendIs ==
  ASSUME NEW S, NEW s \in Seq(S), NEW e \in S
  PROVE  Append(s, e) = [i \in 1 .. (Len(s) + 1) |-> IF i <= Len(s) THEN s[i] ELSE e]
<1> DEFINE a == Append(s, e)
<1>1. /\ a \in Seq(S) /\ Len(a) = Len(s) + 1 /\ Len(s) \in Nat
      /\ \A i \in 1 .. Len(s) : a[i] = s[i]
      /\ a[Len(s) + 1] = e
  BY AppendProperties, LenProperties
<1> HIDE DEF a
<1>2. a = [i \in 1 .. (Len(s) + 1) |-> a[i]]
  BY <1>1, SeqIs
<1>3. \A i \in 1 .. (Len(s) + 1) : a[i] = IF i <= Len(s) THEN s[i] ELSE e
  BY <1>1
<1> QED
  BY <1>2, <1>3 DEF a

LEMMA TailIs ==
  ASSUME NEW S, NEW s \in Seq(S), s # << >>
  PROVE  /\ Head(s) = s[1] /\ Len(s) \in Nat \ {0}
         /\ Tail(s) = [i \in 1 .. (Len(s) - 1) |-> s[i + 1]]
<1>1. /\ Tail(s) \in Seq(S) /\ Len(Tail(s)) = Len(s) - 1 /\ Len(s) \in Nat \ {0}
      /\ \A i \in 1 .. (Len(s) - 1) : Tail(s)[i] = s[i + 1]
  BY HeadTailProperties, LenProperties, EmptySeq
<1>2. Tail(s) = [i \in 1 .. (Len(s) - 1) |-> Tail(s)[i]]
  BY <1>1, SeqIs
<1> QED
  BY <1>1, <1>2

LEMMA FrontIs ==
  ASSUME NEW S, NEW s \in Seq(S), s # << >>
  PROVE  /\ Last(s) = s[Len(s)]
         /\ Front(s) = [i \in 1 .. (Len(s) - 1) |-> s[i]]
<1>1. Len(s) \in Nat \ {0}
  BY LenProperties, EmptySeq
<1>2. SubSeq(s, 1, Len(s) - 1) = [i \in 1 .. (Len(s) - 1) |-> s[i]]
  <2> DEFINE a == SubSeq(s, 1, Len(s) - 1)
  <2>1. a \in Seq(S) /\ Len(a) = Len(s) - 1 /\ \A i \in 1 .. (Len(s) - 1) : a[i] = s[i]
    <3> DEFINE n == Len(s) - 1
    <3>1. n \in Nat /\ \A i \in 1 .. n : s[i] \in S
      BY <1>1
    <3> HIDE DEF n
    <3>2. /\ SubSeq(s, 1, n) \in Seq(S) /\ Len(SubSeq(s, 1, n)) = n
          /\ \A i \in 1 .. n : SubSeq(s, 1, n)[i] = s[i]
      BY <3>1, SubSeqProperties
    <3> QED BY <3>2 DEF n
  <2> HIDE DEF a
  <2>2. a = [i \in 1 .. (Len(s) - 1) |-> a[i]]
    BY <2>1, SeqIs
  <2> QED BY <2>1, <2>2 DEF a
<1> QED
  BY <1>2 DEF Front, Last

LEMMA InsertAtIs ==
  ASSUME NEW S, NEW s \in Seq(S), NEW e \in S, NEW i \in 1 .. (Len(s) + 1)
  PROVE  InsertAt(s, i, e) = [j \in 1 .. (Len(s) + 1) |->
           IF j < i THEN s[j] ELSE IF j = i THEN e ELSE s[j - 1]]
<1> DEFINE a == SubSeq(s, 1, i - 1)
           b == SubSeq(s, i, Len(s))
           m == <<e>>
<1>0. Len(s) \in Nat /\ i \in Nat /\ i >= 1 /\ i <= Len(s) + 1
  BY LenProperties
<1>1. a \in Seq(S) /\ Len(a) = i - 1 /\ \A k \in 1 .. (i - 1) : a[k] = s[k]
  BY <1>0
<1>2. b \in Seq(S) /\ Len(b) = (Len(s) - i) + 1 /\ \A k \in 1 .. ((Len(s) - i) + 1) : b[k] = s[(i + k) - 1]
  BY <1>0
<1>3. m \in Seq(S) /\ Len(m) = 1 /\ m[1] = e
  OBVIOUS
<1>4. InsertAt(s, i, e) = (a \o m) \o b
  BY DEF InsertAt
<1> HIDE DEF a, b, m
<1> DEFINE c == a \o m
<1>5. /\ c \in Seq(S) /\ Len(c) = i
      /\ \A k \in 1 .. i : c[k] = IF k <= i - 1 THEN s[k] ELSE e
  <2>1. /\ c \in Seq(S) /\ Len(c) = Len(a) + Len(m)
        /\ \A k \in 1 .. (Len(a) + Len(m)) : c[k] = IF k <= Len(a) THEN a[k] ELSE m[k - Len(a)]
    BY <1>1, <1>3, ConcatProperties
  <2> QED BY <1>0, <1>1, <1>3, <2>1
<1> HIDE DEF c
<1> DEFINE d == c \o b
<1>6. /\ d \in Seq(S) /\ Len(d) = Len(s) + 1
      /\ \A k \in 1 .. (Len(s) + 1) : d[k] = IF k <= i THEN c[k] ELSE b[k - i]
  <2>1. /\ d \in Seq(S) /\ Len(d) = Len(c) + Len(b)
        /\ \A k \in 1 .. (Len(c) + Len(b)) : d[k] = IF k <= Len(c) THEN c[k] ELSE b[k - Len(c)]
    BY <1>2, <1>5, ConcatProperties
  <2> QED BY <1>0, <1>2, <1>5, <2>1
<1>7. \A k \in 1 .. (Len(s) + 1) :
        d[k] = IF k < i THEN s[k] ELSE IF k = i THEN e ELSE s[k - 1]
  BY <1>0, <1>2, <1>5, <1>6
<1>8. d = [k \in 1 .. (Len(s) + 1) |-> d[k]]
  <2> HIDE DEF d
  <2> QED BY <1>6, SeqIs
<1> QED
  BY <1>4, <1>7, <1>8 DEF c, d

LEMMA RemoveAtIs ==
  ASSUME NEW S, NEW s \in Seq(S), NEW i \in 1 .. Len(s)
  PROVE  RemoveAt(s, i) = [j \in 1 .. (Len(s) - 1) |-> IF j < i THEN s[j] ELSE s[j + 1]]
<1> DEFINE a == SubSeq(s, 1, i - 1)
           b == SubSeq(s, i + 1, Len(s))
<1>0. Len(s) \in Nat /\ i \in Nat /\ i >= 1 /\ i <= Len(s)
  BY LenProperties
<1>1. a \in Seq(S) /\ Len(a) = i - 1 /\ \A k \in 1 .. (i - 1) : a[k] = s[k]
  BY <1>0
<1>2. b \in Seq(S) /\ Len(b) = Len(s) - i /\ \A k \in 1 .. (Len(s) - i) : b[k] = s[i + k]
  BY <1>0
<1>3. RemoveAt(s, i) = a \o b
  BY DEF RemoveAt
<1> HIDE DEF a, b
<1> DEFINE d == a \o b
<1>4. /\ d \in Seq(S) /\ Len(d) = Len(s) - 1
      /\ \A k \in 1 .. (Len(s) - 1) : d[k] = IF k <= i - 1 THEN a[k] ELSE b[k - (i - 1)]
  <2>1. /\ d \in Seq(S) /\ Len(d) = Len(a) + Len(b)
        /\ \A k \in 1 .. (Len(a) + Len(b)) : d[k] = IF k <= Len(a) THEN a[k] ELSE b[k - Len(a)]
    BY <1>1, <1>2, ConcatProperties
  <2> QED BY <1>0, <1>1, <1>2, <2>1
<1>5. \A k \in 1 .. (Len(s) - 1) : d[k] = IF k < i THEN s[k] ELSE s[k + 1]
  <2> SUFFICES ASSUME NEW k \in 1 .. (Len(s) - 1)
      PROVE  d[k] = IF k < i THEN s[k] ELSE s[k + 1]
    OBVIOUS
  <2>1. CASE k < i
    BY <1>0, <1>1, <1>4, <2>1
  <2>2. CASE ~(k < i)
    <3>1. k - (i - 1) \in 1 .. (Len(s) - i) /\ i + (k - (i - 1)) = k + 1 /\ ~(k <= i - 1)
      BY <1>0, <2>2
    <3>2. b[k - (i - 1)] = s[k + 1]
      BY <1>2, <3>1
    <3> QED BY <1>4, <2>2, <3>1, <3>2
  <2> QED BY <2>1, <2>2
<1>6. d = [k \in 1 .. (Len(s) - 1) |-> d[k]]
  <2> HIDE DEF d
  <2> QED BY <1>4, SeqIs
<1> QED
  BY <1>3, <1>5, <1>6 DEF d

----------------------------------------------------------------------------
\* The ring, for any head, tail, size and array

Live(h, t, n) == IF h <= t THEN t - h ELSE n - h + t
At(h, n, p) == IF h + p >= n THEN h + p - n ELSE h + p

\* One cell stays free.
Bounds(h, t, n) == /\ h \in Nat /\ t \in Nat /\ n \in Nat
                   /\ n = 0 => h = 0 /\ t = 0
                   /\ n > 0 => h < n /\ t < n

\* The elements are from S, the other cells hold what they ever held.
Ring(h, t, n, arr, S) ==
  /\ Bounds(h, t, n)
  /\ arr \in [Cells(n) -> Values \cup {Nothing}]
  /\ \A p \in Cells(Live(h, t, n)) : arr[At(h, n, p)] \in S

\* The elements in order.
Listed(h, t, n, arr) == [i \in 1 .. Live(h, t, n) |-> arr[At(h, n, i - 1)]]

LEMMA LiveIs ==
  ASSUME NEW h, NEW t, NEW n, Bounds(h, t, n)
  PROVE  /\ Live(h, t, n) \in Nat
         /\ n > 0 => Live(h, t, n) < n
         /\ n = 0 => Live(h, t, n) = 0
         /\ Live(h, t, n) = 0 <=> h = t
BY DEF Bounds, Live

LEMMA AtIs ==
  ASSUME NEW h \in Nat, NEW n \in Nat, h < n, NEW p \in Nat, p < n
  PROVE  At(h, n, p) \in Cells(n)
BY DEF At, Cells

LEMMA AtDiffers ==
  ASSUME NEW h \in Nat, NEW n \in Nat, h < n, NEW p \in Nat, NEW q \in Nat,
         p < n, q < n, p # q
  PROVE  At(h, n, p) # At(h, n, q)
BY DEF At

\* The tail is the cell behind the last element.
LEMMA TailIsAt ==
  ASSUME NEW h, NEW t, NEW n, Bounds(h, t, n), n > 0
  PROVE  At(h, n, Live(h, t, n)) = t
BY DEF Bounds, Live, At

LEMMA ListedIsSeq ==
  ASSUME NEW h, NEW t, NEW n, NEW arr, NEW S, Ring(h, t, n, arr, S)
  PROVE  /\ Listed(h, t, n, arr) \in Seq(S)
         /\ Len(Listed(h, t, n, arr)) = Live(h, t, n)
         /\ \A i \in 1 .. Live(h, t, n) : Listed(h, t, n, arr)[i] = arr[At(h, n, i - 1)]
<1>1. Live(h, t, n) \in Nat
  BY LiveIs DEF Ring
<1>2. \A i \in 1 .. Live(h, t, n) : arr[At(h, n, i - 1)] \in S
  <2> SUFFICES ASSUME NEW i \in 1 .. Live(h, t, n) PROVE arr[At(h, n, i - 1)] \in S
    OBVIOUS
  <2>1. i - 1 \in Cells(Live(h, t, n))
    BY <1>1 DEF Cells
  <2> QED BY <2>1 DEF Ring
<1> DEFINE f(i) == arr[At(h, n, i - 1)]
           m == Live(h, t, n)
<1>3. \A i \in 1 .. m : f(i) \in S
  BY <1>2
<1> HIDE DEF f
<1>4. [i \in 1 .. m |-> f(i)] \in Seq(S) /\ Len([i \in 1 .. m |-> f(i)]) = m
  BY <1>1, <1>3, IsASeq
<1> QED
  BY <1>4 DEF Listed, f

\* How the model's operators read.
LEMMA Here ==
  /\ Size = Live(head, tail, allocation_size)
  /\ \A p : Cell(p) = At(head, allocation_size, p)
  /\ Contents = Listed(head, tail, allocation_size, queueArrary)
BY DEF Size, Live, Cell, At, Contents, Listed

Inv == TypeOK /\ RingInBounds

LEMMA InvIsRing ==
  Inv <=> /\ Ring(head, tail, allocation_size, queueArrary, Stored)
          /\ ele \in Values \cup {Nothing}
          /\ underflow \in BOOLEAN
BY Here DEF Inv, TypeOK, RingInBounds, Ring, Bounds

LEMMA StoredAre == Values \subseteq Stored /\ Stored \subseteq Values \cup {Nothing}
BY DEF Stored

LEMMA NextRing ==
  ASSUME Ring(head', tail', allocation_size', queueArrary', Stored'),
         ele' \in Values \cup {Nothing}, underflow' \in BOOLEAN
  PROVE  Inv'
BY DEF Inv, TypeOK, RingInBounds, Ring, Bounds, Size, Live, Cell, At

LEMMA NextRingSame ==
  ASSUME Inv, UNCHANGED underflow,
         Ring(head', tail', allocation_size', queueArrary', Stored),
         ele' \in Values \cup {Nothing}
  PROVE  Inv'
<1>1. Stored' = Stored /\ underflow' \in BOOLEAN
  BY DEF Stored, Inv, TypeOK
<1> QED
  BY <1>1, NextRing

LEMMA NextListed == Contents' = Listed(head', tail', allocation_size', queueArrary')
BY DEF Contents, Listed, Size, Live, Cell, At

----------------------------------------------------------------------------
\* What each operation leaves

\* A pushed element: the ring may be new, have room, or be unrolled into twice the cells.
Extends(q, v) ==
  /\ Bounds(q.head, q.tail, q.size) /\ q.size > 0
  /\ q.array \in [Cells(q.size) -> Values \cup {Nothing}]
  /\ Live(q.head, q.tail, q.size) = Size + 1
  /\ \A p \in Cells(Size) : q.array[At(q.head, q.size, p)] = queueArrary[Cell(p)]
  /\ q.array[At(q.head, q.size, Size)] = v

LEMMA PushedIs ==
  ASSUME Inv, NEW v \in Values
  PROVE  Extends(Pushed(v), v)
<1> DEFINE n == allocation_size
<1>1. /\ Bounds(head, tail, n) /\ queueArrary \in [Cells(n) -> Values \cup {Nothing}]
      /\ Size \in Nat /\ Size = Live(head, tail, n)
      /\ head \in Nat /\ tail \in Nat /\ n \in Nat
  BY InvIsRing, Here, LiveIs DEF Ring, Bounds
<1>2. CASE n = 0
  <2> DEFINE arr == [k \in Cells(QUEUE_INIT_SIZE) |-> IF k = 0 THEN v ELSE Nothing]
             q == [head |-> 0, tail |-> 1, size |-> QUEUE_INIT_SIZE, array |-> arr]
  <2>1. Pushed(v) = q
    BY <1>2 DEF Pushed
  <2>2. Size = 0
    BY <1>1, <1>2, LiveIs
  <2>3. q.head = 0 /\ q.tail = 1 /\ q.size = QUEUE_INIT_SIZE /\ q.array = arr
    OBVIOUS
  <2>4. arr \in [Cells(QUEUE_INIT_SIZE) -> Values \cup {Nothing}] /\ arr[0] = v
    BY QueueAssumption DEF Cells
  <2> HIDE DEF arr, q
  <2>5. Bounds(0, 1, QUEUE_INIT_SIZE) /\ Live(0, 1, QUEUE_INIT_SIZE) = 1
        /\ At(0, QUEUE_INIT_SIZE, 0) = 0
    BY QueueAssumption DEF Bounds, Live, At
  <2>6. Cells(Size) = {}
    BY <2>2 DEF Cells
  <2> QED
    BY <2>1, <2>2, <2>3, <2>4, <2>5, <2>6, QueueAssumption DEF Extends
<1>3. ASSUME n > 0
      PROVE  /\ head < n /\ tail < n /\ Size < n
             /\ At(head, n, Size) = tail
             /\ LET stored == [queueArrary EXCEPT ![tail] = v]
                IN  /\ stored \in [Cells(n) -> Values \cup {Nothing}]
                    /\ stored[tail] = v
                    /\ \A p \in Cells(Size) : stored[Cell(p)] = queueArrary[Cell(p)]
  <2>1. head < n /\ tail < n /\ Size < n /\ At(head, n, Size) = tail
    BY <1>1, <1>3, LiveIs, TailIsAt DEF Bounds
  <2>2. tail \in Cells(n)
    BY <1>1, <2>1 DEF Cells
  <2>3. ASSUME NEW p \in Cells(Size) PROVE Cell(p) \in Cells(n) /\ Cell(p) # tail
    <3>1. p \in Nat /\ p < n /\ p # Size
      BY <1>1, <2>1 DEF Cells
    <3> QED BY <1>1, <2>1, <3>1, AtIs, AtDiffers, Here
  <2> QED
    BY <1>1, <2>1, <2>2, <2>3
<1>4. CASE n > 0 /\ After(tail) = head
  <2> DEFINE stored == [queueArrary EXCEPT ![tail] = v]
             arr == [k \in Cells(2 * n) |-> IF k < n THEN stored[Cell(k)] ELSE Nothing]
             q == [head |-> 0, tail |-> n, size |-> 2 * n, array |-> arr]
  <2>1. Pushed(v) = q
    BY <1>1, <1>4 DEF Pushed
  <2>2. q.head = 0 /\ q.tail = n /\ q.size = 2 * n /\ q.array = arr
    OBVIOUS
  <2>3. Size = n - 1
    BY <1>1, <1>3, <1>4 DEF After, Live
  <2>4. \A k \in Cells(n) : Cell(k) \in Cells(n)
    <3> SUFFICES ASSUME NEW k \in Cells(n) PROVE Cell(k) \in Cells(n)
      OBVIOUS
    <3>1. k \in Nat /\ k < n
      BY <1>1 DEF Cells
    <3> QED BY <1>1, <1>3, <1>4, <3>1, AtIs, Here
  <2>5. /\ stored \in [Cells(n) -> Values \cup {Nothing}] /\ stored[tail] = v
        /\ \A p \in Cells(Size) : stored[Cell(p)] = queueArrary[Cell(p)]
    BY <1>3, <1>4
  <2> HIDE DEF stored
  <2>6. /\ arr \in [Cells(2 * n) -> Values \cup {Nothing}]
        /\ \A k \in Cells(n) : arr[k] = stored[Cell(k)]
    <3>1. \A k \in Cells(2 * n) : k < n => k \in Cells(n)
      BY <1>1 DEF Cells
    <3>2. \A k \in Cells(n) : k \in Cells(2 * n) /\ k < n
      BY <1>1 DEF Cells
    <3> QED BY <2>4, <2>5, <3>1, <3>2
  <2> HIDE DEF arr, q
  <2>7. /\ Bounds(0, n, 2 * n) /\ Live(0, n, 2 * n) = n /\ 2 * n > 0
        /\ \A k \in Cells(n) : At(0, 2 * n, k) = k
    BY <1>1, <1>4 DEF Bounds, Live, At, Cells
  <2>8. Size \in Cells(n) /\ \A p \in Cells(Size) : p \in Cells(n)
    BY <1>1, <1>4, <2>3 DEF Cells
  <2>9. Cell(Size) = tail
    BY <1>3, <1>4, Here
  <2>10. n = Size + 1
    BY <1>1, <2>3
  <2> QED
    BY <2>1, <2>2, <2>5, <2>6, <2>7, <2>8, <2>9, <2>10 DEF Extends
<1>5. CASE n > 0 /\ After(tail) # head
  <2> DEFINE stored == [queueArrary EXCEPT ![tail] = v]
             q == [head |-> head, tail |-> After(tail), size |-> n, array |-> stored]
  <2>1. Pushed(v) = q
    BY <1>1, <1>5 DEF Pushed
  <2>2. q.head = head /\ q.tail = After(tail) /\ q.size = n /\ q.array = stored
    OBVIOUS
  <2>3. /\ stored \in [Cells(n) -> Values \cup {Nothing}] /\ stored[tail] = v
        /\ \A p \in Cells(Size) : stored[Cell(p)] = queueArrary[Cell(p)]
    BY <1>3, <1>5
  <2> HIDE DEF stored, q
  <2>4. Bounds(head, After(tail), n) /\ Live(head, After(tail), n) = Size + 1
    BY <1>1, <1>3, <1>5 DEF Bounds, Live, After
  <2>5. \A p : Cell(p) = At(head, n, p)
    BY Here
  <2> QED
    BY <1>3, <1>5, <2>1, <2>2, <2>3, <2>4, <2>5 DEF Extends
<1> QED
  BY <1>1, <1>2, <1>4, <1>5
LEMMA PushGood ==
  ASSUME Inv, NEW v \in Values, PushTail(v)
  PROVE  Inv' /\ Queue!Push(v)
<1> DEFINE q == Pushed(v)
<1>1. Extends(q, v)
  BY PushedIs
<1> HIDE DEF q
<1>2. /\ head' = q.head /\ tail' = q.tail /\ allocation_size' = q.size
      /\ queueArrary' = q.array /\ ele' = Nothing /\ UNCHANGED underflow
  BY DEF PushTail, q
<1>3. /\ Ring(head, tail, allocation_size, queueArrary, Stored) /\ Size \in Nat
      /\ Size = Live(head, tail, allocation_size)
  BY InvIsRing, Here, LiveIs DEF Ring
<1>4. /\ Bounds(head', tail', allocation_size')
      /\ queueArrary' \in [Cells(allocation_size') -> Values \cup {Nothing}]
      /\ Live(head', tail', allocation_size') = Size + 1
      /\ \A p \in Cells(Size) : queueArrary'[At(head', allocation_size', p)] = queueArrary[Cell(p)]
      /\ queueArrary'[At(head', allocation_size', Size)] = v
  BY <1>1, <1>2 DEF Extends
<1>5. \A p \in Cells(Size) : queueArrary[Cell(p)] \in Stored
  BY DEF Inv, RingInBounds
<1>6. \A p \in Cells(Size + 1) : p \in Cells(Size) \/ p = Size
  BY <1>3 DEF Cells
<1>7. Ring(head', tail', allocation_size', queueArrary', Stored)
  BY <1>4, <1>5, <1>6, StoredAre DEF Ring
<1>8. Inv'
  BY <1>2, <1>7, NextRingSame
<1>9. Contents \in Seq(Stored) /\ Len(Contents) = Size
      /\ \A i \in 1 .. Size : Contents[i] = queueArrary[Cell(i - 1)]
  BY <1>3, Here, ListedIsSeq
<1>10. Append(Contents, v) = [i \in 1 .. (Size + 1) |-> IF i <= Size THEN Contents[i] ELSE v]
  BY <1>9, StoredAre, AppendIs
<1>11. Contents' = [i \in 1 .. (Size + 1) |-> queueArrary'[At(head', allocation_size', i - 1)]]
  <2>1. Contents' = Listed(head', tail', allocation_size', queueArrary')
    BY NextListed
  <2> QED BY <1>4, <2>1 DEF Listed
<1>12. ASSUME NEW i \in 1 .. (Size + 1)
       PROVE  queueArrary'[At(head', allocation_size', i - 1)] = IF i <= Size THEN Contents[i] ELSE v
  <2>1. CASE i <= Size
    <3>1. i - 1 \in Cells(Size) /\ i \in 1 .. Size
      BY <1>3, <2>1 DEF Cells
    <3> QED BY <1>4, <1>9, <2>1, <3>1
  <2>2. CASE ~(i <= Size)
    <3>1. i - 1 = Size
      BY <1>3, <2>2
    <3> QED BY <1>4, <2>2, <3>1
  <2> QED BY <2>1, <2>2
<1>13. Contents' = Append(Contents, v)
  BY <1>10, <1>11, <1>12
<1> QED
  BY <1>2, <1>8, <1>13 DEF Queue!Push

LEMMA InsertGood ==
  ASSUME Inv, NEW v \in Values, NEW index \in 0 .. Size, InsertAtIndex(v, index)
  PROVE  Inv' /\ Queue!Insert(v, index)
<1> DEFINE q == Pushed(v)
           pos(k) == PositionOf(q, k)
<1>1. Extends(q, v)
  BY PushedIs
<1> HIDE DEF q
<1>2. /\ head' = q.head /\ tail' = q.tail /\ allocation_size' = q.size /\ ele' = Nothing
      /\ UNCHANGED underflow
      /\ queueArrary' = [k \in Cells(q.size) |->
              IF k = CellOf(q, index) THEN v
              ELSE IF pos(k) > index /\ pos(k) <= Size
                     THEN q.array[CellOf(q, pos(k) - 1)]
              ELSE q.array[k]]
  BY DEF InsertAtIndex, q
<1>3. /\ Ring(head, tail, allocation_size, queueArrary, Stored) /\ Size \in Nat
      /\ Size = Live(head, tail, allocation_size)
  BY InvIsRing, Here, LiveIs DEF Ring
<1>4. /\ Bounds(q.head, q.tail, q.size) /\ q.size > 0
      /\ q.array \in [Cells(q.size) -> Values \cup {Nothing}]
      /\ Live(q.head, q.tail, q.size) = Size + 1
      /\ \A p \in Cells(Size) : q.array[At(q.head, q.size, p)] = queueArrary[Cell(p)]
  BY <1>1 DEF Extends
<1>5. /\ q.head \in Nat /\ q.size \in Nat /\ q.head < q.size /\ Size + 1 < q.size
      /\ index \in Nat /\ index <= Size
  <2>1. q.head \in Nat /\ q.size \in Nat /\ q.head < q.size
    BY <1>4 DEF Bounds
  <2>2. Size + 1 < q.size
    BY <1>4, LiveIs
  <2> QED BY <1>3, <2>1, <2>2
<1>6. \A p : CellOf(q, p) = At(q.head, q.size, p)
  BY DEF CellOf, At
<1>7. ASSUME NEW p \in Nat, p < q.size
      PROVE  CellOf(q, p) \in Cells(q.size) /\ pos(CellOf(q, p)) = p
  <2>1. CellOf(q, p) \in Cells(q.size)
    BY <1>5, <1>6, <1>7, AtIs
  <2>2. pos(CellOf(q, p)) = p
    BY <1>5, <1>7 DEF CellOf, PositionOf
  <2> QED BY <2>1, <2>2
<1>8. ASSUME NEW k \in Cells(q.size)
      PROVE  pos(k) \in Nat /\ pos(k) < q.size
  BY <1>5 DEF Cells, PositionOf
<1>9. \A p \in Cells(Size) : q.array[CellOf(q, p)] = queueArrary[Cell(p)] /\ queueArrary[Cell(p)] \in Stored
  BY <1>4, <1>6 DEF Inv, RingInBounds
<1>10. ASSUME NEW p \in Cells(Size + 1)
       PROVE  /\ queueArrary'[CellOf(q, p)] =
                   IF p < index THEN queueArrary[Cell(p)]
                   ELSE IF p = index THEN v ELSE queueArrary[Cell(p - 1)]
              /\ queueArrary'[CellOf(q, p)] \in Stored
  <2>1. p \in Nat /\ p <= Size /\ p < q.size
    BY <1>3, <1>5 DEF Cells
  <2>2. CellOf(q, p) \in Cells(q.size) /\ pos(CellOf(q, p)) = p
    BY <1>7, <2>1
  <2>3. CASE p < index
    <3>1. p \in Cells(Size) /\ p # index /\ ~(p > index) /\ index < q.size
      BY <1>3, <1>5, <2>1, <2>3 DEF Cells
    <3>2. pos(CellOf(q, index)) = index
      BY <1>5, <1>7, <3>1
    <3>3. CellOf(q, p) # CellOf(q, index)
      BY <2>2, <3>1, <3>2
    <3> HIDE DEF pos
    <3>4. queueArrary'[CellOf(q, p)] = q.array[CellOf(q, p)]
      BY <1>2, <2>2, <3>1, <3>3
    <3> QED BY <1>9, <2>3, <3>1, <3>4
  <2>4. CASE p = index
    <3> HIDE DEF pos
    <3> QED BY <1>2, <2>2, <2>4, <1>5, StoredAre
  <2>5. CASE p > index
    <3>1. p - 1 \in Cells(Size) /\ p # index /\ ~(p < index) /\ index < q.size
      BY <1>3, <1>5, <2>1, <2>5 DEF Cells
    <3>2. pos(CellOf(q, index)) = index
      BY <1>5, <1>7, <3>1
    <3>3. CellOf(q, p) # CellOf(q, index)
      BY <2>2, <3>1, <3>2
    <3> HIDE DEF pos
    <3>4. queueArrary'[CellOf(q, p)] = q.array[CellOf(q, p - 1)]
      BY <1>2, <2>1, <2>2, <2>5, <3>3
    <3> QED BY <1>9, <2>5, <3>1, <3>4
  <2> QED
    BY <1>5, <2>1, <2>3, <2>4, <2>5
<1>11. queueArrary' \in [Cells(q.size) -> Values \cup {Nothing}]
  <2>1. ASSUME NEW k \in Cells(q.size), pos(k) > index, pos(k) <= Size
        PROVE  q.array[CellOf(q, pos(k) - 1)] \in Stored
    <3>1. pos(k) \in Nat /\ pos(k) - 1 \in Cells(Size)
      BY <1>3, <1>5, <1>8, <2>1 DEF Cells
    <3> QED BY <1>9, <3>1
  <2> HIDE DEF pos
  <2> QED BY <1>2, <1>4, <2>1, StoredAre
<1>12. Ring(head', tail', allocation_size', queueArrary', Stored)
  <2>1. Bounds(head', tail', allocation_size') /\ Live(head', tail', allocation_size') = Size + 1
    BY <1>2, <1>4
  <2>2. \A p \in Cells(Size + 1) : queueArrary'[At(head', allocation_size', p)] \in Stored
    BY <1>2, <1>6, <1>10
  <2>3. queueArrary' \in [Cells(allocation_size') -> Values \cup {Nothing}]
    BY <1>2, <1>11
  <2> QED BY <2>1, <2>2, <2>3 DEF Ring
<1>13. Inv'
  BY <1>2, <1>12, NextRingSame
<1>14. Contents \in Seq(Stored) /\ Len(Contents) = Size
       /\ \A i \in 1 .. Size : Contents[i] = queueArrary[Cell(i - 1)]
  BY <1>3, Here, ListedIsSeq
<1>15. InsertAt(Contents, index + 1, v) = [j \in 1 .. (Size + 1) |->
           IF j < index + 1 THEN Contents[j] ELSE IF j = index + 1 THEN v ELSE Contents[j - 1]]
  <2>1. index + 1 \in 1 .. (Len(Contents) + 1)
    BY <1>3, <1>5, <1>14
  <2> DEFINE c == Contents
             x == index + 1
  <2>2. c \in Seq(Stored) /\ Len(c) = Size /\ x \in 1 .. (Len(c) + 1) /\ v \in Stored
    BY <1>14, <2>1, StoredAre
  <2> HIDE DEF c, x
  <2>3. InsertAt(c, x, v) = [j \in 1 .. (Len(c) + 1) |->
           IF j < x THEN c[j] ELSE IF j = x THEN v ELSE c[j - 1]]
    BY <2>2, InsertAtIs
  <2> QED BY <2>2, <2>3 DEF c, x
<1>16. Contents' = [i \in 1 .. (Size + 1) |-> queueArrary'[CellOf(q, i - 1)]]
  <2>1. Contents' = Listed(head', tail', allocation_size', queueArrary')
    BY NextListed
  <2>2. Live(head', tail', allocation_size') = Size + 1
    BY <1>2, <1>4
  <2>3. \A i : At(head', allocation_size', i - 1) = CellOf(q, i - 1)
    BY <1>2, <1>6
  <2> QED BY <2>1, <2>2, <2>3 DEF Listed
<1>17. ASSUME NEW i \in 1 .. (Size + 1)
       PROVE  queueArrary'[CellOf(q, i - 1)] =
                IF i < index + 1 THEN Contents[i]
                ELSE IF i = index + 1 THEN v ELSE Contents[i - 1]
  <2>1. i - 1 \in Cells(Size + 1)
    BY <1>3 DEF Cells
  <2>2. CASE i - 1 < index
    <3>1. i < index + 1 /\ i \in 1 .. Size
      BY <1>3, <1>5, <2>2
    <3> QED BY <1>10, <1>14, <2>1, <2>2, <3>1
  <2>3. CASE i - 1 = index
    <3>1. ~(i < index + 1) /\ i = index + 1 /\ ~(i - 1 < index)
      BY <1>3, <1>5, <2>3
    <3> QED BY <1>10, <2>1, <2>3, <3>1
  <2>4. CASE i - 1 > index
    <3>1. ~(i < index + 1) /\ i # index + 1 /\ ~(i - 1 < index) /\ i - 1 # index /\ i - 1 \in 1 .. Size
      BY <1>3, <1>5, <2>4
    <3>2. Contents[i - 1] = queueArrary[Cell((i - 1) - 1)]
      BY <1>14, <3>1
    <3> QED BY <1>10, <2>1, <3>1, <3>2
  <2> QED BY <1>3, <1>5, <2>2, <2>3, <2>4
<1>18. Contents' = InsertAt(Contents, index + 1, v)
  BY <1>15, <1>16, <1>17
<1> QED
  BY <1>2, <1>5, <1>13, <1>14, <1>18 DEF Queue!Insert, Queue!InsertAt, InsertAt
\* What the operations on a queue that is not empty start from.
LEMMA NotEmpty ==
  ASSUME Inv, head # tail
  PROVE  /\ allocation_size \in Nat \ {0} /\ head \in Cells(allocation_size)
         /\ tail \in Cells(allocation_size) /\ Size \in Nat \ {0} /\ Size < allocation_size
         /\ Cell(0) = head
         /\ \A p \in Cells(Size) : Cell(p) \in Cells(allocation_size)
         /\ \A p \in Cells(Size), q \in Cells(Size) : p # q => Cell(p) # Cell(q)
<1> DEFINE n == allocation_size
<1>1. Bounds(head, tail, n) /\ Size = Live(head, tail, n)
  BY InvIsRing, Here DEF Ring
<1>2. n \in Nat \ {0} /\ head \in Nat /\ head < n /\ tail \in Nat /\ tail < n
  BY <1>1 DEF Bounds
<1>3. Size \in Nat \ {0} /\ Size < n
  BY <1>1, <1>2, LiveIs
<1>4. Cell(0) = head
  BY <1>2 DEF Cell
<1>5. ASSUME NEW p \in Cells(Size) PROVE p \in Nat /\ p < n /\ Cell(p) \in Cells(n)
  <2>1. p \in Nat /\ p < n
    BY <1>2, <1>3 DEF Cells
  <2> QED BY <1>2, <2>1, AtIs, Here
<1>6. ASSUME NEW p \in Cells(Size), NEW q \in Cells(Size), p # q PROVE Cell(p) # Cell(q)
  BY <1>2, <1>5, <1>6, AtDiffers, Here
<1> QED
  BY <1>2, <1>3, <1>4, <1>5, <1>6 DEF Cells

LEMMA ContentsAre ==
  ASSUME Inv
  PROVE  /\ Contents \in Seq(Stored) /\ Len(Contents) = Size /\ Size \in Nat
         /\ \A i \in 1 .. Size : Contents[i] = queueArrary[Cell(i - 1)]
BY InvIsRing, Here, ListedIsSeq, LiveIs DEF Ring

LEMMA ContentsTail ==
  ASSUME Inv, head # tail
  PROVE  /\ Contents # << >> /\ Head(Contents) = queueArrary[head]
         /\ Tail(Contents) = [i \in 1 .. (Size - 1) |-> queueArrary[Cell(i)]]
<1>1. /\ Contents \in Seq(Stored) /\ Len(Contents) = Size /\ Size \in Nat \ {0}
      /\ \A i \in 1 .. Size : Contents[i] = queueArrary[Cell(i - 1)]
      /\ Cell(0) = head
  BY ContentsAre, NotEmpty
<1>2. Contents # << >>
  BY <1>1
<1>3. Head(Contents) = Contents[1] /\ Tail(Contents) = [i \in 1 .. (Size - 1) |-> Contents[i + 1]]
  BY <1>1, <1>2, TailIs
<1>4. \A i \in 1 .. (Size - 1) : i + 1 \in 1 .. Size /\ (i + 1) - 1 = i
  BY <1>1
<1>5. \A i \in 1 .. (Size - 1) : Contents[i + 1] = queueArrary[Cell(i)]
  BY <1>1, <1>4
<1>6. Contents[1] = queueArrary[head]
  BY <1>1, 1 - 1 = 0, 1 \in 1 .. Size
<1> QED
  BY <1>2, <1>3, <1>5, <1>6

\* The head moves on to the next cell; the cell it leaves may be wiped.
LEMMA HeadMoves ==
  ASSUME Inv, head # tail, head' = After(head), UNCHANGED <<tail, allocation_size, underflow>>,
         queueArrary' \in [Cells(allocation_size) -> Values \cup {Nothing}],
         \A k \in Cells(allocation_size) : k # head => queueArrary'[k] = queueArrary[k],
         ele' \in Values \cup {Nothing}
  PROVE  Inv' /\ Contents' = Tail(Contents)
<1> DEFINE n == allocation_size
<1>1. /\ n \in Nat \ {0} /\ head \in Cells(n) /\ tail \in Cells(n)
      /\ Size \in Nat \ {0} /\ Size < n /\ Cell(0) = head
      /\ \A p \in Cells(Size) : Cell(p) \in Cells(n)
      /\ \A p \in Cells(Size), q \in Cells(Size) : p # q => Cell(p) # Cell(q)
  BY NotEmpty
<1>2. /\ head \in Nat /\ head < n /\ tail \in Nat /\ tail < n
      /\ Size = Live(head, tail, n)
  BY <1>1, Here DEF Cells
<1>3. Bounds(head', tail', n) /\ Live(head', tail', n) = Size - 1
  BY <1>1, <1>2 DEF After, Bounds, Live
<1>4. ASSUME NEW p \in Cells(Size - 1)
      PROVE  /\ At(head', n, p) = Cell(p + 1)
             /\ queueArrary'[At(head', n, p)] = queueArrary[Cell(p + 1)]
             /\ queueArrary[Cell(p + 1)] \in Stored
  <2>1. p \in Nat /\ p + 1 \in Cells(Size) /\ p + 1 # 0 /\ 0 \in Cells(Size) /\ p + 1 < n
    BY <1>1 DEF Cells
  <2>2. At(head', n, p) = Cell(p + 1)
    BY <1>1, <1>2, <2>1 DEF After, At, Cell
  <2>3. Cell(p + 1) \in Cells(n) /\ Cell(p + 1) # head
    BY <1>1, <2>1
  <2> QED BY <2>1, <2>2, <2>3 DEF Inv, RingInBounds
<1>5. Ring(head', tail', allocation_size', queueArrary', Stored)
  BY <1>3, <1>4 DEF Ring
<1>6. Inv'
  BY <1>5, NextRingSame
<1>7. Contents' = [i \in 1 .. (Size - 1) |-> queueArrary'[At(head', n, i - 1)]]
  BY <1>3, NextListed DEF Listed
<1>8. \A i \in 1 .. (Size - 1) : queueArrary'[At(head', n, i - 1)] = queueArrary[Cell(i)]
  <2> SUFFICES ASSUME NEW i \in 1 .. (Size - 1)
      PROVE  queueArrary'[At(head', n, i - 1)] = queueArrary[Cell(i)]
    OBVIOUS
  <2>1. i - 1 \in Cells(Size - 1) /\ (i - 1) + 1 = i
    BY <1>1 DEF Cells
  <2> QED BY <1>4, <2>1
<1> QED
  BY <1>6, <1>7, <1>8, ContentsTail

LEMMA PopHeadGood ==
  ASSUME Inv, PopHead
  PROVE  Inv' /\ Queue!PopFront
<1>1. /\ head # tail /\ head' = After(head) /\ UNCHANGED <<tail, allocation_size, queueArrary, underflow>>
      /\ ele' = IF After(head) = 0 THEN queueArrary[allocation_size - 1]
                                   ELSE queueArrary[After(head) - 1]
  BY DEF PopHead
<1>2. /\ allocation_size \in Nat \ {0} /\ head \in Cells(allocation_size)
      /\ queueArrary \in [Cells(allocation_size) -> Values \cup {Nothing}]
  BY <1>1, NotEmpty, InvIsRing DEF Ring
<1>3. ele' = queueArrary[head]
  BY <1>1, <1>2 DEF After, Cells
<1>4. ele' \in Values \cup {Nothing}
  BY <1>2, <1>3
<1> QED
  BY <1>1, <1>2, <1>3, <1>4, HeadMoves, ContentsTail DEF Queue!PopFront

LEMMA PopDerefGood ==
  ASSUME Inv, PopDeref, head # tail
  PROVE  Inv' /\ Queue!PopFront
<1>1. /\ head # tail /\ head' = After(head) /\ UNCHANGED <<tail, allocation_size>>
      /\ ele' = queueArrary[head]
      /\ queueArrary' = [queueArrary EXCEPT ![head] = Nothing]
  BY DEF PopDeref
<1>2. UNCHANGED underflow
  <2>1. underflow \in BOOLEAN /\ underflow' = (underflow \/ FALSE)
    BY <1>1 DEF Inv, TypeOK, PopDeref
  <2> QED BY <2>1
<1>3. /\ allocation_size \in Nat \ {0} /\ head \in Cells(allocation_size)
      /\ queueArrary \in [Cells(allocation_size) -> Values \cup {Nothing}]
  BY <1>1, NotEmpty, InvIsRing DEF Ring
<1>4. /\ queueArrary' \in [Cells(allocation_size) -> Values \cup {Nothing}]
      /\ \A k \in Cells(allocation_size) : k # head => queueArrary'[k] = queueArrary[k]
      /\ ele' \in Values \cup {Nothing}
  BY <1>1, <1>3
<1> QED
  BY <1>1, <1>2, <1>4, HeadMoves, ContentsTail DEF Queue!PopFront

\* On an empty queue the head passes the tail: the ends stay in the array, and what is
\* between them is whatever the cells held.
LEMMA PopDerefOnEmpty ==
  ASSUME Inv, PopDeref, head = tail
  PROVE  Inv' /\ Queue!Underflow
<1> DEFINE n == allocation_size
<1>1. /\ n # 0 /\ head' = After(head) /\ tail' = tail /\ n' = n
      /\ ele' = queueArrary[head]
      /\ queueArrary' = [queueArrary EXCEPT ![head] = Nothing]
      /\ underflow' = TRUE
  BY DEF PopDeref
<1>2. /\ n \in Nat /\ head \in Nat /\ head < n /\ head \in Cells(n)
      /\ queueArrary \in [Cells(n) -> Values \cup {Nothing}]
      /\ Size = 0
  BY <1>1, InvIsRing DEF Ring, Bounds, Cells, Size
<1>3. /\ queueArrary' \in [Cells(n) -> Values \cup {Nothing}]
      /\ ele' \in Values \cup {Nothing}
  BY <1>1, <1>2
<1>4. /\ Bounds(head', tail', n) /\ head' \in Nat /\ head' < n
      /\ Live(head', tail', n) \in Nat /\ Live(head', tail', n) < n
  BY <1>1, <1>2 DEF Bounds, After, Live
<1>5. ASSUME NEW p \in Cells(Live(head', tail', n))
      PROVE  queueArrary'[At(head', n, p)] \in Values \cup {Nothing}
  <2>1. p \in Nat /\ p < n
    BY <1>2, <1>4 DEF Cells
  <2> QED BY <1>2, <1>3, <1>4, <2>1, AtIs
<1>6. Ring(head', tail', allocation_size', queueArrary', Values \cup {Nothing})
  BY <1>1, <1>3, <1>4, <1>5 DEF Ring
<1>7. Stored' = Values \cup {Nothing}
  BY <1>1 DEF Stored
<1>8. Inv'
  BY <1>1, <1>3, <1>6, <1>7, NextRing
<1>9. Contents = << >>
  BY <1>2, ContentsAre
<1>10. Contents' \in Seq(Values \cup {Nothing})
  BY <1>6, ListedIsSeq, NextListed
<1> QED
  BY <1>1, <1>3, <1>8, <1>9, <1>10 DEF Queue!Underflow

\* The tail moves back; the elements may have been shifted below it before.
LEMMA TailMoves ==
  ASSUME Inv, head # tail,
         tail' = IF tail = 0 THEN allocation_size - 1 ELSE tail - 1,
         UNCHANGED <<head, allocation_size, underflow>>,
         queueArrary' \in [Cells(allocation_size) -> Values \cup {Nothing}],
         \A p \in Cells(Size - 1) : queueArrary'[Cell(p)] \in Stored,
         ele' \in Values \cup {Nothing}
  PROVE  /\ Inv' /\ tail' = Cell(Size - 1)
         /\ Contents' = [i \in 1 .. (Size - 1) |-> queueArrary'[Cell(i - 1)]]
<1> DEFINE n == allocation_size
<1>1. /\ n \in Nat \ {0} /\ head \in Cells(n) /\ tail \in Cells(n)
      /\ Size \in Nat \ {0} /\ Size < n
  BY NotEmpty
<1>2. /\ head \in Nat /\ head < n /\ tail \in Nat /\ tail < n
      /\ Size = Live(head, tail, n)
  BY <1>1, Here DEF Cells
<1>3. Bounds(head', tail', n) /\ Live(head', tail', n) = Size - 1
  BY <1>1, <1>2 DEF Bounds, Live
<1>4. \A p : At(head', n, p) = Cell(p)
  BY Here
<1>5. tail' = Cell(Size - 1)
  BY <1>1, <1>2 DEF Cell, Live
<1>6. Ring(head', tail', allocation_size', queueArrary', Stored)
  BY <1>3, <1>4 DEF Ring
<1>7. Inv'
  BY <1>6, NextRingSame
<1>8. Contents' = [i \in 1 .. (Size - 1) |-> queueArrary'[Cell(i - 1)]]
  BY <1>3, <1>4, NextListed DEF Listed
<1> QED
  BY <1>5, <1>7, <1>8

LEMMA PopTailGood ==
  ASSUME Inv, PopTail
  PROVE  Inv' /\ Queue!PopBack
<1>1. /\ head # tail /\ tail' = IF tail = 0 THEN allocation_size - 1 ELSE tail - 1
      /\ UNCHANGED <<head, allocation_size, queueArrary, underflow>>
      /\ ele' = queueArrary[tail']
  BY DEF PopTail
<1>2. /\ queueArrary \in [Cells(allocation_size) -> Values \cup {Nothing}]
      /\ allocation_size \in Nat \ {0} /\ tail \in Cells(allocation_size)
      /\ Size \in Nat \ {0}
  BY <1>1, NotEmpty, InvIsRing DEF Ring
<1>3. ele' \in Values \cup {Nothing}
  <2>1. tail' \in Cells(allocation_size)
    BY <1>1, <1>2 DEF Cells
  <2> QED BY <1>1, <1>2, <2>1
<1>4. \A p \in Cells(Size - 1) : queueArrary'[Cell(p)] \in Stored
  <2>1. \A p \in Cells(Size - 1) : p \in Cells(Size)
    BY <1>2 DEF Cells
  <2> QED BY <1>1, <2>1 DEF Inv, RingInBounds
<1>5. /\ Inv' /\ tail' = Cell(Size - 1)
      /\ Contents' = [i \in 1 .. (Size - 1) |-> queueArrary[Cell(i - 1)]]
  BY <1>1, <1>2, <1>3, <1>4, TailMoves
<1>6. /\ Contents \in Seq(Stored) /\ Len(Contents) = Size
      /\ \A i \in 1 .. Size : Contents[i] = queueArrary[Cell(i - 1)]
  BY ContentsAre
<1>7. Contents # << >>
  BY <1>2, <1>6
<1>8. Last(Contents) = Contents[Size] /\ Front(Contents) = [i \in 1 .. (Size - 1) |-> Contents[i]]
  BY <1>6, <1>7, FrontIs
<1>9. Contents[Size] = ele' /\ \A i \in 1 .. (Size - 1) : Contents[i] = queueArrary[Cell(i - 1)]
  <2>1. Size \in 1 .. Size /\ \A i \in 1 .. (Size - 1) : i \in 1 .. Size
    BY <1>2
  <2> QED BY <1>1, <1>5, <1>6, <2>1
<1>10. ele' = Last(Contents) /\ Contents' = Front(Contents)
  BY <1>5, <1>8, <1>9
<1> QED
  BY <1>1, <1>5, <1>7, <1>10 DEF Queue!PopBack, Queue!Last, Queue!Front, Last, Front

LEMMA RemoveGood ==
  ASSUME Inv, NEW position \in Cells(Size), RemoveAtIndex(position)
  PROVE  Inv' /\ Queue!Delete(position)
<1> DEFINE n == allocation_size
           moved(k) == \E p \in position .. (Size - 2) : k = Cell(p)
<1>1. /\ head # tail /\ tail' = IF tail = 0 THEN n - 1 ELSE tail - 1
      /\ UNCHANGED <<head, allocation_size, underflow>> /\ ele' = Nothing
      /\ queueArrary' = [k \in Cells(n) |->
           IF moved(k) THEN queueArrary[After(k)] ELSE queueArrary[k]]
  BY DEF RemoveAtIndex
<1>2. /\ n \in Nat \ {0} /\ head \in Cells(n) /\ Size \in Nat \ {0} /\ Size < n
      /\ \A p \in Cells(Size) : Cell(p) \in Cells(n)
      /\ \A p \in Cells(Size), q \in Cells(Size) : p # q => Cell(p) # Cell(q)
      /\ queueArrary \in [Cells(n) -> Values \cup {Nothing}]
  BY <1>1, NotEmpty, InvIsRing DEF Ring
<1>3. head \in Nat /\ head < n /\ position \in Nat /\ position < Size
  BY <1>2 DEF Cells
<1>4. ASSUME NEW p \in Cells(Size), p + 1 \in Cells(Size) PROVE After(Cell(p)) = Cell(p + 1)
  BY <1>2, <1>3, <1>4 DEF After, Cell, Cells
<1>5. ASSUME NEW p \in Cells(Size - 1)
      PROVE  /\ queueArrary'[Cell(p)] =
                  IF p < position THEN queueArrary[Cell(p)] ELSE queueArrary[Cell(p + 1)]
             /\ queueArrary'[Cell(p)] \in Stored
  <2>1. p \in Nat /\ p \in Cells(Size) /\ p + 1 \in Cells(Size) /\ p <= Size - 2
    BY <1>2 DEF Cells
  <2>2. Cell(p) \in Cells(n)
    BY <1>2, <2>1
  <2>3. queueArrary[Cell(p)] \in Stored /\ queueArrary[Cell(p + 1)] \in Stored
    BY <2>1 DEF Inv, RingInBounds
  <2>4. CASE p < position
    <3>1. ~moved(Cell(p))
      <4>1. ASSUME NEW q \in position .. (Size - 2), Cell(p) = Cell(q) PROVE FALSE
        <5>1. q \in Cells(Size) /\ q # p
          BY <1>2, <1>3, <2>1, <2>4 DEF Cells
        <5> QED BY <1>2, <2>1, <4>1, <5>1
      <4> QED BY <4>1
    <3> HIDE DEF moved
    <3> QED BY <1>1, <2>2, <2>3, <2>4, <3>1
  <2>5. CASE ~(p < position)
    <3>1. moved(Cell(p))
      BY <1>2, <1>3, <2>1, <2>5
    <3> HIDE DEF moved
    <3> QED BY <1>1, <1>4, <2>1, <2>2, <2>3, <2>5, <3>1
  <2> QED BY <2>4, <2>5
<1>6. queueArrary' \in [Cells(n) -> Values \cup {Nothing}]
  <2>1. ASSUME NEW k \in Cells(n) PROVE After(k) \in Cells(n)
    BY <1>2 DEF After, Cells
  <2> HIDE DEF moved
  <2> QED BY <1>1, <1>2, <2>1
<1>7. Inv' /\ Contents' = [i \in 1 .. (Size - 1) |-> queueArrary'[Cell(i - 1)]]
  BY <1>1, <1>5, <1>6, TailMoves
<1>8. /\ Contents \in Seq(Stored) /\ Len(Contents) = Size
      /\ \A i \in 1 .. Size : Contents[i] = queueArrary[Cell(i - 1)]
  BY ContentsAre
<1>9. position + 1 \in 1 .. Size
  BY <1>2, <1>3
<1>10. RemoveAt(Contents, position + 1) =
         [j \in 1 .. (Size - 1) |-> IF j < position + 1 THEN Contents[j] ELSE Contents[j + 1]]
  <2> DEFINE c == Contents
             x == position + 1
  <2>1. c \in Seq(Stored) /\ Len(c) = Size /\ x \in 1 .. Len(c)
    BY <1>8, <1>9
  <2> HIDE DEF c, x
  <2>2. RemoveAt(c, x) = [j \in 1 .. (Len(c) - 1) |-> IF j < x THEN c[j] ELSE c[j + 1]]
    BY <2>1, RemoveAtIs
  <2> QED BY <2>1, <2>2 DEF c, x
<1>11. ASSUME NEW i \in 1 .. (Size - 1)
       PROVE  queueArrary'[Cell(i - 1)] =
                IF i < position + 1 THEN Contents[i] ELSE Contents[i + 1]
  <2>1. i - 1 \in Cells(Size - 1) /\ i \in 1 .. Size /\ i + 1 \in 1 .. Size
        /\ (i - 1) + 1 = i /\ (i + 1) - 1 = i /\ (i - 1 < position <=> i < position + 1)
    BY <1>2, <1>3 DEF Cells
  <2> QED BY <1>5, <1>8, <2>1
<1>12. Contents' = RemoveAt(Contents, position + 1)
  BY <1>7, <1>10, <1>11
<1>13. position + 1 \in DOMAIN Contents
  BY <1>8, <1>9
<1> QED
  BY <1>1, <1>7, <1>12, <1>13 DEF Queue!Delete, Queue!RemoveAt, RemoveAt
\* An array without elements.
LEMMA Emptied ==
  ASSUME NEW n \in Nat, head' = 0, tail' = 0, allocation_size' = n, ele' = Nothing,
         queueArrary' \in [Cells(n) -> Values \cup {Nothing}], underflow' = FALSE
  PROVE  Inv' /\ Contents' = << >>
<1>1. Bounds(0, 0, n) /\ Live(0, 0, n) = 0
  BY DEF Bounds, Live
<1>2. Ring(head', tail', allocation_size', queueArrary', Stored')
  BY <1>1 DEF Ring, Cells
<1>3. Contents' = << >>
  BY <1>1, NextListed DEF Listed
<1> QED
  BY <1>2, <1>3, NextRing

LEMMA ResizeGood ==
  ASSUME NEW size \in 0 .. MaxSize, Resize(size)
  PROVE  Inv' /\ Queue!Empty
<1>1. size \in Nat
  BY QueueAssumption
<1> QED
  BY <1>1, Emptied DEF Resize, Queue!Empty

LEMMA ClearGood ==
  ASSUME Inv, Clear
  PROVE  Inv' /\ Queue!Empty
<1>1. allocation_size \in Nat /\ queueArrary \in [Cells(allocation_size) -> Values \cup {Nothing}]
  BY DEF Inv, TypeOK
<1>2. /\ allocation_size' \in Nat
      /\ queueArrary' \in [Cells(allocation_size') -> Values \cup {Nothing}]
  BY <1>1 DEF Clear, Cells
<1>3. Inv' /\ Contents' = << >>
  BY <1>2, Emptied DEF Clear
<1> QED
  BY <1>3 DEF Clear, Queue!Empty

LEMMA ShrinkGood ==
  ASSUME Inv, Shrink2MiniSzie
  PROVE  Inv' /\ Queue!Keep
<1> DEFINE n == Fitting
<1>1. /\ head' = 0 /\ tail' = Size /\ allocation_size' = n /\ ele' = Nothing
      /\ UNCHANGED underflow
      /\ queueArrary' = [k \in Cells(n) |-> IF k < Size THEN queueArrary[Cell(k)] ELSE Nothing]
  BY DEF Shrink2MiniSzie
<1>2. /\ Contents \in Seq(Stored) /\ Len(Contents) = Size /\ Size \in Nat
      /\ \A i \in 1 .. Size : Contents[i] = queueArrary[Cell(i - 1)]
      /\ \A p \in Cells(Size) : queueArrary[Cell(p)] \in Stored
  BY ContentsAre DEF Inv, RingInBounds
<1>3. n \in Nat /\ n > Size
  BY <1>2, FittingIs
<1> HIDE DEF n
<1>4. /\ Bounds(0, Size, n) /\ Live(0, Size, n) = Size
  BY <1>2, <1>3 DEF Bounds, Live
<1>5. ASSUME NEW p \in Cells(Size)
      PROVE  /\ At(0, n, p) = p /\ queueArrary'[p] = queueArrary[Cell(p)]
  BY <1>1, <1>2, <1>3 DEF At, Cells
<1>6. queueArrary' \in [Cells(n) -> Values \cup {Nothing}]
  <2>1. \A k \in Cells(n) : k < Size => k \in Cells(Size)
    BY <1>2, <1>3 DEF Cells
  <2> QED BY <1>1, <1>2, <2>1, StoredAre
<1>7. Ring(head', tail', allocation_size', queueArrary', Stored)
  BY <1>1, <1>2, <1>4, <1>5, <1>6 DEF Ring
<1>8. Inv'
  BY <1>1, <1>7, NextRingSame
<1>9. Contents' = [i \in 1 .. Size |-> queueArrary'[At(0, n, i - 1)]]
  BY <1>1, <1>4, NextListed DEF Listed
<1>10. \A i \in 1 .. Size : queueArrary'[At(0, n, i - 1)] = Contents[i]
  <2> SUFFICES ASSUME NEW i \in 1 .. Size PROVE queueArrary'[At(0, n, i - 1)] = Contents[i]
    OBVIOUS
  <2>1. i - 1 \in Cells(Size)
    BY <1>2 DEF Cells
  <2> QED BY <1>2, <1>5, <2>1
<1>11. Contents = [i \in 1 .. Size |-> Contents[i]]
  BY <1>2, SeqIs
<1> QED
  BY <1>1, <1>8, <1>9, <1>10, <1>11 DEF Queue!Keep

----------------------------------------------------------------------------
\* The ring is the queue of AbstractQueue

LEMMA InitGood == Init => Inv /\ Queue!Init
<1> SUFFICES ASSUME Init PROVE Inv /\ Queue!Init
  OBVIOUS
<1>1. Bounds(0, 0, 0) /\ Live(0, 0, 0) = 0
  BY DEF Bounds, Live
<1>2. Ring(head, tail, allocation_size, queueArrary, Stored)
  BY <1>1 DEF Ring, Init, Cells
<1>3. Contents = << >>
  BY <1>1, Here DEF Listed, Init
<1> QED
  BY <1>2, <1>3, InvIsRing DEF Init, Queue!Init

LEMMA StepGood == Inv /\ [Next]_vars => Inv' /\ [Queue!Next]_(Queue!vars)
<1> SUFFICES ASSUME Inv, [Next]_vars PROVE Inv' /\ [Queue!Next]_(Queue!vars)
  OBVIOUS
<1>1. CASE UNCHANGED vars
  BY <1>1 DEF vars, Inv, TypeOK, RingInBounds, Stored, Size, Cell, Contents, Queue!vars
<1>2. CASE \E v \in Values : PushTail(v)
  BY <1>2, PushGood DEF Queue!Next
<1>3. CASE \E v \in Values, index \in 0 .. Size : InsertAtIndex(v, index)
  <2>1. PICK v \in Values, index \in 0 .. Size : InsertAtIndex(v, index)
    BY <1>3
  <2>2. Inv' /\ Queue!Insert(v, index)
    BY <2>1, InsertGood
  <2>3. index \in 0 .. Len(Contents)
    BY ContentsAre
  <2> QED BY <2>2, <2>3 DEF Queue!Next
<1>4. CASE PopHead
  BY <1>4, PopHeadGood DEF Queue!Next
<1>5. CASE PopTail
  BY <1>5, PopTailGood DEF Queue!Next
<1>6. CASE PopDeref
  BY <1>6, PopDerefGood, PopDerefOnEmpty DEF Queue!Next
<1>7. CASE \E position \in Cells(Size) : RemoveAtIndex(position)
  <2>1. PICK position \in Cells(Size) : RemoveAtIndex(position)
    BY <1>7
  <2>2. Inv' /\ Queue!Delete(position)
    BY <2>1, RemoveGood
  <2>3. position \in 0 .. Len(Contents)
    BY ContentsAre DEF Cells
  <2> QED BY <2>2, <2>3 DEF Queue!Next
<1>8. CASE \E size \in 0 .. MaxSize : Resize(size)
  BY <1>8, ResizeGood DEF Queue!Next
<1>9. CASE Clear
  BY <1>9, ClearGood DEF Queue!Next
<1>10. CASE Shrink2MiniSzie
  BY <1>10, ShrinkGood DEF Queue!Next
<1> QED
  BY <1>1, <1>2, <1>3, <1>4, <1>5, <1>6, <1>7, <1>8, <1>9, <1>10 DEF Next

\* Both ends stay inside the array and one cell stays free, whatever sequence of
\* operations and whatever the first size, PopDeref on an empty queue included; and no
\* element is a cell that was not written, until PopDeref finds the queue empty.
THEOREM RingStaysInBounds == Spec => []RingInBounds
<1>1. Inv => RingInBounds
  BY DEF Inv
<1> QED
  BY <1>1, InitGood, StepGood, PTL DEF Spec

\* The type invariant: the array has as many cells as allocation_size says.
THEOREM ArrayTyped == Spec => []TypeOK
<1>1. Inv => TypeOK
  BY DEF Inv
<1> QED
  BY <1>1, InitGood, StepGood, PTL DEF Spec

\* Every operation does to the ring what its name says of a sequence: the wrapping, the
\* unrolling into a doubled array, the shrinking and the shifts of InsertAtIndex and
\* RemoveAtIndex never lose, duplicate or reorder an element.  PopDeref of an empty queue
\* is the one step that is no operation of a sequence.
THEOREM RingIsQueue == Spec => ImplementsQueue
  BY InitGood, StepGood, PTL DEF Spec, ImplementsQueue, Queue!Spec
=============================================================================
