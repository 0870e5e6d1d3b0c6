---------------------- MODULE JackieMemoryPoolProofs -----------------------
(***************************************************************************)
(* What holds of JackieMemoryPool for every set of addresses, every number *)
(* of cells in a page and every number of spare pages.                     *)
(*                                                                         *)
(* A ring is described without following it: next and prev undo each other *)
(* on its pages, and no smaller set of pages is closed under next.  Both   *)
(* survive the list surgery, and the second is what makes Clear reach      *)
(* every page.                                                             *)
(***************************************************************************)
EXTENDS JackieMemoryPool, FiniteSetTheorems, SequenceTheorems, WellFoundedInduction, TLAPS

Links == [next : [Page -> Page \cup {NoPage}], prev : [Page -> Page \cup {NoPage}]]

Paired(l, pages) == \A p \in pages : /\ l.next[p] \in pages /\ l.prev[p] \in pages
                                     /\ l.prev[l.next[p]] = p /\ l.next[l.prev[p]] = p

Closed(l, pages) == \A q \in pages : l.next[q] \in pages

Single(l, pages) == \A some \in SUBSET pages : some # {} /\ Closed(l, some) => some = pages

RingIn(l, pages) == Paired(l, pages) /\ Single(l, pages)

----------------------------------------------------------------------------
(* The list surgery.                                                       *)

\* What Unlinked does to each field, page by page.
LEMMA UnlinkedFields ==
  ASSUME NEW l \in Links, NEW p \in Page, l.next[p] \in Page, l.prev[p] \in Page
  PROVE  /\ Unlinked(l, p) \in Links
         /\ \A q \in Page : Unlinked(l, p).next[q] =
                              IF q = l.prev[p] THEN l.next[p] ELSE l.next[q]
         /\ \A q \in Page : Unlinked(l, p).prev[q] =
                              IF q = l.next[p] THEN l.prev[p] ELSE l.prev[q]
  BY DEF Links, Unlinked

\* Cutting a page out leaves a ring of the others, and next of the page in it.
LEMMA UnlinkedRing ==
  ASSUME NEW l \in Links, NEW pages \in SUBSET Page, NEW p \in pages, RingIn(l, pages)
  PROVE  /\ Unlinked(l, p) \in Links
         /\ RingIn(Unlinked(l, p), pages \ {p})
         /\ pages # {p} => l.next[p] \in pages \ {p}
  <1> DEFINE u == Unlinked(l, p)
  <1>0. l.next[p] \in pages /\ l.prev[p] \in pages
    BY DEF RingIn, Paired
  <1>1. /\ u \in Links
        /\ \A q \in Page : u.next[q] = IF q = l.prev[p] THEN l.next[p] ELSE l.next[q]
        /\ \A q \in Page : u.prev[q] = IF q = l.next[p] THEN l.prev[p] ELSE l.prev[q]
    BY <1>0, UnlinkedFields
  <1> HIDE DEF u
  <1>2. Paired(u, pages \ {p})
    BY <1>0, <1>1 DEF RingIn, Paired
  <1>3. ASSUME NEW some \in SUBSET (pages \ {p}), some # {}, Closed(u, some)
        PROVE  some = pages \ {p}
    <2>1. CASE l.prev[p] \in some
      <3>1. Closed(l, some \cup {p})
        BY <1>0, <1>1, <1>3, <2>1 DEF Closed, RingIn, Paired
      <3> QED  BY <1>3, <3>1 DEF RingIn, Single
    <2>2. CASE l.prev[p] \notin some
      <3>1. Closed(l, some)
        BY <1>0, <1>1, <1>3, <2>2 DEF Closed
      <3> QED  BY <1>3, <3>1 DEF RingIn, Single
    <2> QED  BY <2>1, <2>2
  <1>4. pages # {p} => l.next[p] # p
    <2>1. l.next[p] = p => Closed(l, {p})
      BY DEF Closed
    <2> QED  BY <2>1 DEF RingIn, Single
  <1> QED  BY <1>0, <1>1, <1>2, <1>3, <1>4 DEF RingIn, Single, u

\* A page on its own is a ring.
LEMMA LinkedAloneRing ==
  ASSUME NEW l \in Links, NEW p \in Page
  PROVE  LinkedAlone(l, p) \in Links /\ RingIn(LinkedAlone(l, p), {p})
  BY DEF Links, LinkedAlone, RingIn, Paired, Single, Closed

\* Before the head of a ring there is room for one more page.
LEMMA LinkedLastRing ==
  ASSUME NEW l \in Links, NEW pages \in SUBSET Page, NEW head \in pages,
         NEW p \in Page, p \notin pages, RingIn(l, pages)
  PROVE  LinkedLast(l, p, head) \in Links /\ RingIn(LinkedLast(l, p, head), pages \cup {p})
  <1> DEFINE k == LinkedLast(l, p, head)
             last == l.prev[head]
  <1>0. last \in pages /\ l.next[last] = head
    BY DEF RingIn, Paired
  <1>1. /\ k \in Links
        /\ \A q \in Page : k.next[q] = IF q = last THEN p ELSE IF q = p THEN head ELSE l.next[q]
        /\ \A q \in Page : k.prev[q] = IF q = head THEN p ELSE IF q = p THEN last ELSE l.prev[q]
    BY <1>0 DEF Links, LinkedLast
  <1> HIDE DEF k, last
  <1>2. Paired(k, pages \cup {p})
    <2>1. l.prev[head] = last
      BY DEF last
    <2> QED  BY <1>0, <1>1, <2>1 DEF RingIn, Paired
  <1>3. ASSUME NEW some \in SUBSET (pages \cup {p}), some # {}, Closed(k, some)
        PROVE  some = pages \cup {p}
    <2>1. head \in some \/ some \ {p} # {}
      BY <1>0, <1>1, <1>3 DEF Closed
    <2>2. Closed(l, some \ {p})
      BY <1>0, <1>1, <1>3 DEF RingIn, Paired, Closed
    <2>3. some \ {p} = pages
      BY <1>3, <2>1, <2>2 DEF RingIn, Single
    <2>4. p \in some
      BY <1>0, <1>1, <1>3, <2>3 DEF Closed
    <2> QED  BY <1>3, <2>3, <2>4
  <1> QED  BY <1>1, <1>2, <1>3 DEF RingIn, Single, k

\* A ring depends on the fields of its own pages alone.
LEMMA RingElsewhere ==
  ASSUME NEW l, NEW k, NEW pages, RingIn(l, pages),
         \A q \in pages : k.next[q] = l.next[q] /\ k.prev[q] = l.prev[q]
  PROVE  RingIn(k, pages)
  BY DEF RingIn, Paired, Single, Closed

\* A page changes from one ring to the end of another, which may be empty.
LEMMA PageMoves ==
  ASSUME NEW l \in Links, NEW from \in SUBSET Page, NEW to \in SUBSET Page, NEW p \in from,
         from \cap to = {}, RingIn(l, from), RingIn(l, to),
         NEW head, to # {} => head \in to, NEW size, size = 0 <=> to = {}
  PROVE  /\ Linked(Unlinked(l, p), p, head, size) \in Links
         /\ RingIn(Linked(Unlinked(l, p), p, head, size), from \ {p})
         /\ RingIn(Linked(Unlinked(l, p), p, head, size), to \cup {p})
  <1> DEFINE u == Unlinked(l, p)
             k == Linked(u, p, head, size)
  <1>1. u \in Links /\ RingIn(u, from \ {p})
    BY UnlinkedRing
  <1>2. RingIn(u, to)
    <2>1. l.next[p] \in from /\ l.prev[p] \in from
      BY DEF RingIn, Paired
    <2>2. \A q \in to : u.next[q] = l.next[q] /\ u.prev[q] = l.prev[q]
      BY <2>1, UnlinkedFields
    <2> HIDE DEF u
    <2> QED  BY <2>2, RingElsewhere
  <1> HIDE DEF u
  <1>3. CASE to = {}
    <2>1. k = LinkedAlone(u, p)
      BY <1>3 DEF Linked
    <2>2. k \in Links /\ RingIn(k, {p})
      BY <1>1, <2>1, LinkedAloneRing
    <2>3. \A q \in from \ {p} : k.next[q] = u.next[q] /\ k.prev[q] = u.prev[q]
      BY <1>1, <2>1 DEF LinkedAlone, Links
    <2> HIDE DEF k
    <2>4. RingIn(k, from \ {p})
      BY <1>1, <2>3, RingElsewhere
    <2> QED  BY <1>3, <2>2, <2>4 DEF k, u
  <1>4. CASE to # {}
    <2>1. k = LinkedLast(u, p, head) /\ head \in to /\ p \notin to
      BY <1>4 DEF Linked
    <2>2. k \in Links /\ RingIn(k, to \cup {p})
      BY <1>1, <1>2, <2>1, LinkedLastRing
    <2>3. u.prev[head] \in to
      BY <1>2, <2>1 DEF RingIn, Paired
    <2>4. \A q \in from \ {p} : k.next[q] = u.next[q] /\ k.prev[q] = u.prev[q]
      BY <1>1, <2>1, <2>3 DEF LinkedLast, Links
    <2> HIDE DEF k
    <2>5. RingIn(k, from \ {p})
      BY <1>1, <2>4, RingElsewhere
    <2> QED  BY <2>2, <2>5 DEF k, u
  <1> QED  BY <1>3, <1>4

\* Following next from a page of a ring reaches just the pages of the ring.
LEMMA RingOfHead ==
  ASSUME NEW pages \in SUBSET heap, NEW head \in pages, RingIn(links, pages)
  PROVE  Ring(head) = pages
  <1>1. NextStaysIn(pages)
    BY DEF RingIn, Paired, NextStaysIn
  <1>2. ASSUME NEW some \in SUBSET heap, head \in some, NextStaysIn(some)
        PROVE  pages \subseteq some
    <2>1. Closed(links, some \cap pages)
      BY <1>2 DEF RingIn, Paired, NextStaysIn, Closed
    <2>2. some \cap pages = pages
      BY <1>2, <2>1 DEF RingIn, Single
    <2> QED  BY <2>2
  <1> QED  BY <1>1, <1>2 DEF Ring

----------------------------------------------------------------------------
(* The stacks of free cells.                                               *)

LEMMA PoppedStack ==
  ASSUME NEW C, NEW s \in Seq(C), s # << >>, IsInjective(s)
  PROVE  /\ Popped(s) \in Seq(C) /\ Len(Popped(s)) = Len(s) - 1
         /\ IsInjective(Popped(s))
         /\ Top(s) \in Range(s) /\ Range(Popped(s)) = Range(s) \ {Top(s)}
  <1>0. Len(s) \in Nat /\ Len(s) \in 1 .. Len(s)
    BY EmptySeq
  <1>1. /\ Popped(s) \in Seq(C) /\ Len(Popped(s)) = Len(s) - 1
        /\ \A i \in 1 .. Len(s) - 1 : Popped(s)[i] = s[i]
        /\ Len(s) \in 1 .. Len(s)
    <2>1. \A n \in 1 .. Len(s) :
            /\ SubSeq(s, 1, n - 1) \in Seq(C) /\ Len(SubSeq(s, 1, n - 1)) = n - 1
            /\ \A i \in 1 .. (n - 1) : SubSeq(s, 1, n - 1)[i] = s[i]
      OBVIOUS
    <2> QED  BY <1>0, <2>1 DEF Popped
  <1>2. DOMAIN Popped(s) = 1 .. Len(s) - 1 /\ DOMAIN s = 1 .. Len(s)
    BY <1>1
  <1>3. IsInjective(Popped(s)) /\ Top(s) \in Range(s)
    BY <1>1, <1>2 DEF IsInjective, Range, Top
  <1>4. Range(Popped(s)) \subseteq Range(s) \ {Top(s)}
    BY <1>1, <1>2 DEF IsInjective, Range, Top
  <1>5. Range(s) \ {Top(s)} \subseteq Range(Popped(s))
    BY <1>1, <1>2 DEF Range, Top
  <1> QED  BY <1>1, <1>3, <1>4, <1>5

LEMMA PushedStack ==
  ASSUME NEW C, NEW s \in Seq(C), NEW c \in C, c \notin Range(s), IsInjective(s)
  PROVE  /\ Append(s, c) \in Seq(C) /\ Len(Append(s, c)) = Len(s) + 1
         /\ IsInjective(Append(s, c))
         /\ Range(Append(s, c)) = Range(s) \cup {c}
  <1>1. /\ Append(s, c) \in Seq(C) /\ Len(Append(s, c)) = Len(s) + 1
        /\ \A i \in 1 .. Len(s) : Append(s, c)[i] = s[i]
        /\ Append(s, c)[Len(s) + 1] = c
    OBVIOUS
  <1>2. DOMAIN Append(s, c) = 1 .. Len(s) + 1 /\ DOMAIN s = 1 .. Len(s)
    BY <1>1
  <1>3. IsInjective(Append(s, c))
    BY <1>1, <1>2 DEF IsInjective, Range
  <1>4. Range(Append(s, c)) = Range(s) \cup {c}
    BY <1>1, <1>2 DEF Range
  <1> QED  BY <1>1, <1>3, <1>4

CellsOf(p) == {c \in Cell : c[1] = p}

LEMMA NewStack ==
  ASSUME NEW p \in Page
  PROVE  /\ AllCells(p) \in Seq(Cell) /\ Len(AllCells(p)) = CELLS_SIZE_PER_PAGE
         /\ IsInjective(AllCells(p)) /\ Range(AllCells(p)) = CellsOf(p)
  <1>1. /\ AllCells(p) \in Seq(Cell) /\ Len(AllCells(p)) = CELLS_SIZE_PER_PAGE
        /\ DOMAIN AllCells(p) = 1 .. CELLS_SIZE_PER_PAGE
        /\ \A i \in 1 .. CELLS_SIZE_PER_PAGE : AllCells(p)[i] = <<p, i>>
    BY PoolAssumption DEF AllCells, Cell
  <1>2. IsInjective(AllCells(p))
    BY <1>1 DEF IsInjective
  <1>3. \A i \in 1 .. CELLS_SIZE_PER_PAGE : <<p, i>> \in CellsOf(p)
    BY DEF CellsOf, Cell
  <1>4. \A c \in CellsOf(p) : \E i \in 1 .. CELLS_SIZE_PER_PAGE : c = <<p, i>>
    BY DEF CellsOf, Cell
  <1>5. Range(AllCells(p)) = CellsOf(p)
    <2>1. Range(AllCells(p)) = {<<p, i>> : i \in 1 .. CELLS_SIZE_PER_PAGE}
      BY <1>1 DEF Range
    <2> QED  BY <1>3, <1>4, <2>1
  <1> QED  BY <1>1, <1>2, <1>5

\* A stack of a page's cells that is as long as the page holds all of them.
LEMMA FullStack ==
  ASSUME NEW p \in Page, NEW s \in Seq(Cell), IsInjective(s), Range(s) \subseteq CellsOf(p),
         Len(s) = CELLS_SIZE_PER_PAGE
  PROVE  Range(s) = CellsOf(p)
  <1> DEFINE N == 1 .. CELLS_SIZE_PER_PAGE
             g == [i \in N |-> s[i][2]]
  <1>1. DOMAIN s = N /\ \A i \in N : s[i] \in CellsOf(p)
    BY DEF Range
  <1>2. g \in [N -> N] /\ \A i \in N : s[i] = <<p, g[i]>>
    BY <1>1 DEF CellsOf, Cell
  <1> HIDE DEF g
  <1>3. g \in Injection(N, N)
    <2>1. \A i, j \in N : s[i] = s[j] => i = j
      BY <1>1 DEF IsInjective
    <2>2. ASSUME NEW i \in N, NEW j \in N, g[i] = g[j] PROVE i = j
      <3>1. s[i] = <<p, g[i]>> /\ s[j] = <<p, g[j]>>
        BY <1>2
      <3>2. s[i] = s[j]
        BY <2>2, <3>1
      <3> QED  BY <2>1, <3>2
    <2> QED  BY <1>2, <2>2 DEF Injection, IsInjective
  <1>4. g \in Surjection(N, N)
    BY <1>3, FS_Interval, FS_Injection, PoolAssumption
  <1>5. \A c \in CellsOf(p) : \E j \in N : c = <<p, j>>
    BY DEF CellsOf, Cell
  <1>6. CellsOf(p) \subseteq Range(s)
    <2> SUFFICES ASSUME NEW c \in CellsOf(p) PROVE c \in Range(s)
      OBVIOUS
    <2>1. PICK j \in N : c = <<p, j>>
      BY <1>5
    <2>2. PICK i \in N : g[i] = j
      BY <1>4 DEF Surjection
    <2> QED  BY <1>1, <1>2, <2>1, <2>2 DEF Range
  <1> QED  BY <1>6

\* No stack of a page's cells is longer.
LEMMA StackFits ==
  ASSUME NEW p \in Page, NEW s \in Seq(Cell), IsInjective(s), Range(s) \subseteq CellsOf(p)
  PROVE  Len(s) <= CELLS_SIZE_PER_PAGE
  <1> DEFINE N == 1 .. CELLS_SIZE_PER_PAGE
             M == 1 .. Len(s)
             g == [i \in M |-> s[i][2]]
  <1>1. DOMAIN s = M /\ \A i \in M : s[i] \in CellsOf(p)
    BY DEF Range
  <1>2. g \in [M -> N] /\ \A i \in M : s[i] = <<p, g[i]>>
    BY <1>1 DEF CellsOf, Cell
  <1> HIDE DEF g
  <1>3. g \in Injection(M, N)
    <2>1. \A i, j \in M : s[i] = s[j] => i = j
      BY <1>1 DEF IsInjective
    <2>2. ASSUME NEW i \in M, NEW j \in M, g[i] = g[j] PROVE i = j
      <3>1. s[i] = <<p, g[i]>> /\ s[j] = <<p, g[j]>>
        BY <1>2
      <3>2. s[i] = s[j]
        BY <2>2, <3>1
      <3> QED  BY <2>1, <3>2
    <2> QED  BY <1>2, <2>2 DEF Injection, IsInjective
  <1>4. Cardinality(M) <= Cardinality(N)
    BY <1>3, FS_Interval, FS_Injection, PoolAssumption
  <1>5. Len(s) \in Nat /\ Cardinality(M) = Len(s) /\ Cardinality(N) = CELLS_SIZE_PER_PAGE
    <2>1. Len(s) \in Nat /\ Cardinality(1 .. Len(s)) = IF 1 > Len(s) THEN 0 ELSE Len(s) - 1 + 1
      BY FS_Interval
    <2>2. Cardinality(1 .. CELLS_SIZE_PER_PAGE) =
            IF 1 > CELLS_SIZE_PER_PAGE THEN 0 ELSE CELLS_SIZE_PER_PAGE - 1 + 1
      BY FS_Interval, PoolAssumption
    <2> QED  BY <2>1, <2>2, PoolAssumption
  <1> QED  BY <1>4, <1>5

----------------------------------------------------------------------------
(* The inductive invariant, in three parts.                                *)

\* The stacks and the callers; a page that is not in use has an empty stack.
StacksInv == /\ heap \subseteq Page /\ holders \in [Cell -> Nat]
             /\ freeCells \in [Page -> Seq(Cell)]
             /\ CellsAccounted
             /\ \A p \in Page \ heap : freeCells[p] = << >>

\* The rings, their heads and their counts.
HeadIn(pages, head, size) == /\ head \in Page \cup {NoPage}
                             /\ size = Cardinality(pages)
                             /\ size > 0 => head \in pages

RingsInv == /\ IsFiniteSet(heap) /\ links \in Links
            /\ RingIn(links, Usable) /\ HeadIn(Usable, usablePage, mUsablePagesSize)
            /\ RingIn(links, Unusable) /\ HeadIn(Unusable, unUsablePage, mUnUsablePagesSize)

IInv == StacksInv /\ RingsInv /\ SparePagesBounded

\* What the counts say about the sets.
LEMMA Counts ==
  ASSUME IInv
  PROVE  /\ IsFiniteSet(Usable) /\ IsFiniteSet(Unusable)
         /\ Usable \subseteq heap /\ Unusable \subseteq heap /\ heap \subseteq Page
         /\ mUsablePagesSize \in Nat /\ mUnUsablePagesSize \in Nat
         /\ mUsablePagesSize = 0 <=> Usable = {}
         /\ mUnUsablePagesSize = 0 <=> Unusable = {}
         /\ mUsablePagesSize > 0 => usablePage \in Usable
         /\ mUnUsablePagesSize > 0 => unUsablePage \in Unusable
  <1>1. Usable \subseteq heap /\ Unusable \subseteq heap /\ heap \subseteq Page
    BY DEF Usable, Unusable, IInv, StacksInv
  <1>2. IsFiniteSet(Usable) /\ IsFiniteSet(Unusable)
    BY <1>1, FS_Subset DEF IInv, RingsInv
  <1>3. Cardinality(Usable) \in Nat /\ Cardinality(Unusable) \in Nat
    BY <1>2, FS_CardinalityType
  <1> QED  BY <1>1, <1>2, <1>3, FS_EmptySet DEF IInv, RingsInv, HeadIn

LEMMA InitIInv == Init => IInv
  <1> SUFFICES ASSUME Init PROVE IInv
    OBVIOUS
  <1>1. StacksInv
    BY DEF Init, StacksInv, CellsAccounted, IsInjective, Range, Cell
  <1>2. Usable = {} /\ Unusable = {} /\ heap = {}
    BY DEF Init, Usable, Unusable
  <1>3. RingsInv
    BY <1>2, FS_EmptySet DEF Init, NoLinks, Links, RingsInv, RingIn, Paired, Single, HeadIn
  <1>4. SparePages = {}
    BY <1>2 DEF SparePages
  <1>5. SparePagesBounded
    BY <1>4, FS_EmptySet, PoolAssumption DEF SparePagesBounded
  <1> QED  BY <1>1, <1>3, <1>5 DEF IInv

\* The two rings that Clear walks hold every page between them.
LEMMA ClearFreesAll ==
  ASSUME IInv, Clear
  PROVE  heap' = {} /\ \A p \in heap : freeCells'[p] = << >>
  <1> DEFINE one == IF mUsablePagesSize > 0 THEN Ring(usablePage) ELSE {}
             two == IF mUnUsablePagesSize > 0 THEN Ring(unUsablePage) ELSE {}
  <1>1. one = Usable
    BY Counts, RingOfHead DEF IInv, RingsInv
  <1>2. two = Unusable
    BY Counts, RingOfHead DEF IInv, RingsInv
  <1>3. one \cup two = heap
    BY <1>1, <1>2 DEF Usable, Unusable
  <1> QED  BY <1>3, Counts DEF Clear

----------------------------------------------------------------------------
(* What the operations do to stacks and callers.                           *)

\* A cell leaves the stack of a page in use.
LEMMA HandsOut ==
  ASSUME StacksInv, NEW p \in heap, freeCells[p] # << >>, heap' = heap,
         holders' = HandedOut(Top(freeCells[p])),
         freeCells' = [freeCells EXCEPT ![p] = Popped(@)]
  PROVE  /\ StacksInv'
         /\ Top(freeCells[p]) \in Cell /\ holders[Top(freeCells[p])] = 0
  <1> DEFINE s == freeCells[p]
             c == Top(s)
  <1>1. p \in Page /\ s \in Seq(Cell) /\ IsInjective(s) /\ Range(s) \subseteq CellsOf(p)
    BY DEF StacksInv, CellsAccounted, CellsOf
  <1>2. /\ Popped(s) \in Seq(Cell) /\ IsInjective(Popped(s))
        /\ c \in Range(s) /\ Range(Popped(s)) = Range(s) \ {c}
    BY <1>1, PoppedStack
  <1> HIDE DEF c
  <1>3. c \in Cell /\ c[1] = p /\ holders[c] = 0
    BY <1>1, <1>2 DEF StacksInv, CellsAccounted, CellsOf
  <1>4. /\ holders' \in [Cell -> Nat] /\ holders'[c] = 1
        /\ \A d \in Cell \ {c} : holders'[d] = holders[d]
    BY <1>3 DEF StacksInv, HandedOut, c
  <1>5. /\ freeCells' \in [Page -> Seq(Cell)] /\ freeCells'[p] = Popped(s)
        /\ \A q \in Page \ {p} : freeCells'[q] = freeCells[q]
    BY <1>1, <1>2 DEF StacksInv
  <1> HIDE DEF s
  <1>6. \A q \in Page : IsInjective(freeCells'[q]) /\ Range(freeCells'[q]) \subseteq CellsOf(q)
    BY <1>1, <1>2, <1>5 DEF StacksInv, CellsAccounted, CellsOf, s
  <1>7. \A d \in Cell : d[1] \in heap =>
          holders'[d] = IF d \in Range(freeCells'[d[1]]) THEN 0 ELSE 1
    BY <1>1, <1>2, <1>3, <1>4, <1>5 DEF StacksInv, CellsAccounted, s
  <1>8. \A d \in Cell : holders'[d] > 0 => d[1] \in heap
    BY <1>3, <1>4 DEF StacksInv, CellsAccounted
  <1>9. \A q \in Page \ heap : freeCells'[q] = << >>
    BY <1>5 DEF StacksInv
  <1> QED  BY <1>3, <1>4, <1>5, <1>6, <1>7, <1>8, <1>9 DEF StacksInv, CellsAccounted, CellsOf, c, s

\* A cell comes back on the stack of its page.
LEMMA TakesBack ==
  ASSUME StacksInv, NEW c \in Cell, holders[c] > 0, heap' = heap,
         holders' = [holders EXCEPT ![c] = @ - 1],
         freeCells' = [freeCells EXCEPT ![c[1]] = Append(@, c)]
  PROVE  StacksInv' /\ holders[c] = 1 /\ c[1] \in heap
  <1> DEFINE p == c[1]
             s == freeCells[p]
  <1>1. p \in heap /\ p \in Page
    BY DEF StacksInv, CellsAccounted, Cell
  <1>2. holders[c] = 1 /\ c \notin Range(s)
    BY <1>1 DEF StacksInv, CellsAccounted
  <1>3. s \in Seq(Cell) /\ IsInjective(s) /\ Range(s) \subseteq CellsOf(p)
    BY <1>1 DEF StacksInv, CellsAccounted, CellsOf
  <1>4. /\ Append(s, c) \in Seq(Cell) /\ IsInjective(Append(s, c))
        /\ Range(Append(s, c)) = Range(s) \cup {c}
    BY <1>2, <1>3, PushedStack
  <1>5. /\ holders' \in [Cell -> Nat] /\ holders'[c] = 0
        /\ \A d \in Cell \ {c} : holders'[d] = holders[d]
    BY <1>2 DEF StacksInv
  <1>6. /\ freeCells' \in [Page -> Seq(Cell)] /\ freeCells'[p] = Append(s, c)
        /\ \A q \in Page \ {p} : freeCells'[q] = freeCells[q]
    BY <1>1, <1>4 DEF StacksInv
  <1> HIDE DEF s
  <1>7. \A q \in Page : IsInjective(freeCells'[q]) /\ Range(freeCells'[q]) \subseteq CellsOf(q)
    BY <1>1, <1>3, <1>4, <1>6 DEF StacksInv, CellsAccounted, CellsOf, s
  <1>8. \A d \in Cell : d[1] \in heap =>
          holders'[d] = IF d \in Range(freeCells'[d[1]]) THEN 0 ELSE 1
    BY <1>1, <1>2, <1>4, <1>5, <1>6 DEF StacksInv, CellsAccounted, s
  <1>9. \A d \in Cell : holders'[d] > 0 => d[1] \in heap
    BY <1>1, <1>5 DEF StacksInv, CellsAccounted
  <1>10. \A q \in Page \ heap : freeCells'[q] = << >>
    BY <1>1, <1>6 DEF StacksInv
  <1> QED  BY <1>1, <1>2, <1>5, <1>6, <1>7, <1>8, <1>9, <1>10 DEF StacksInv, CellsAccounted, CellsOf

----------------------------------------------------------------------------
(* The three parts of the invariant, action by action.                     *)

LEMMA StacksStep == IInv /\ Next => StacksInv'
  <1> SUFFICES ASSUME IInv, Next PROVE StacksInv'
    OBVIOUS
  <1> USE DEF IInv
  <1>1. CASE AllocateFromPage
    <2>1. usablePage \in Usable /\ usablePage \in heap /\ freeCells[usablePage] # << >>
      BY <1>1, Counts DEF AllocateFromPage, Usable
    <2> QED  BY <1>1, <2>1, HandsOut DEF AllocateFromPage
  <1>2. CASE AllocateLastOfPage
    <2>1. usablePage \in Usable /\ usablePage \in heap /\ freeCells[usablePage] # << >>
      BY <1>2, Counts DEF AllocateLastOfPage, Usable
    <2> QED  BY <1>2, <2>1, HandsOut DEF AllocateLastOfPage
  <1>3. CASE AllocateFails
    BY <1>3 DEF AllocateFails, StacksInv, CellsAccounted
  <1>4. ASSUME NEW p \in Page, AllocateNewPage(p) PROVE StacksInv'
    <2> DEFINE s == AllCells(p)
               c == Top(s)
    <2>1. /\ s \in Seq(Cell) /\ s # << >> /\ IsInjective(s) /\ Range(s) = CellsOf(p)
      BY NewStack, PoolAssumption
    <2>2. /\ Popped(s) \in Seq(Cell) /\ IsInjective(Popped(s))
          /\ c \in CellsOf(p) /\ Range(Popped(s)) = CellsOf(p) \ {c}
      BY <2>1, PoppedStack
    <2> HIDE DEF s, c
    <2>3. /\ heap' = heap \cup {p} /\ p \in Page \ heap
          /\ freeCells' = [freeCells EXCEPT ![p] = Popped(s)]
          /\ holders' = HandedOut(c)
      BY <1>4 DEF AllocateNewPage, s, c
    <2>4. \A d \in CellsOf(p) : d \in Cell /\ d[1] = p /\ holders[d] = 0
      BY <2>3 DEF StacksInv, CellsAccounted, CellsOf
    <2>5. /\ holders' \in [Cell -> Nat] /\ holders'[c] = 1
          /\ \A d \in Cell \ {c} : holders'[d] = holders[d]
      BY <2>2, <2>3, <2>4 DEF StacksInv, HandedOut
    <2>6. /\ freeCells' \in [Page -> Seq(Cell)] /\ freeCells'[p] = Popped(s)
          /\ \A q \in Page \ {p} : freeCells'[q] = freeCells[q]
      BY <2>2, <2>3 DEF StacksInv
    <2>7. \A q \in Page : IsInjective(freeCells'[q]) /\ Range(freeCells'[q]) \subseteq CellsOf(q)
      BY <2>2, <2>6 DEF StacksInv, CellsAccounted, CellsOf
    <2>8. \A d \in Cell : d[1] \in heap' =>
            holders'[d] = IF d \in Range(freeCells'[d[1]]) THEN 0 ELSE 1
      BY <2>2, <2>3, <2>4, <2>5, <2>6 DEF StacksInv, CellsAccounted, CellsOf
    <2>9. \A d \in Cell : holders'[d] > 0 => d[1] \in heap'
      BY <2>2, <2>3, <2>4, <2>5 DEF StacksInv, CellsAccounted
    <2>10. \A q \in Page \ heap' : freeCells'[q] = << >>
      BY <2>3, <2>6 DEF StacksInv
    <2>11. heap' \subseteq Page
      BY <2>3 DEF StacksInv
    <2> QED  BY <2>5, <2>6, <2>7, <2>8, <2>9, <2>10, <2>11 DEF StacksInv, CellsAccounted, CellsOf
  <1>5. ASSUME NEW c \in Cell, ReclaimToFullPage(c) PROVE StacksInv'
    <2>1. freeCells[c[1]] = << >> /\ <<c>> = Append(<< >>, c)
      BY <1>5 DEF ReclaimToFullPage
    <2>2. freeCells' = [freeCells EXCEPT ![c[1]] = Append(@, c)]
      BY <1>5, <2>1 DEF ReclaimToFullPage
    <2> QED  BY <1>5, <2>2, TakesBack DEF ReclaimToFullPage
  <1>6. ASSUME NEW c \in Cell, ReclaimToPage(c) PROVE StacksInv'
    BY <1>6, TakesBack DEF ReclaimToPage
  <1>7. ASSUME NEW c \in Cell, ReclaimAndFreePage(c) PROVE StacksInv'
    <2> DEFINE p == c[1]
               s == freeCells[p]
    <2>1. /\ holders[c] > 0 /\ Len(s) + 1 = CELLS_SIZE_PER_PAGE
          /\ holders' = [holders EXCEPT ![c] = @ - 1]
          /\ freeCells' = [freeCells EXCEPT ![p] = << >>]
          /\ heap' = heap \ {p}
      BY <1>7 DEF ReclaimAndFreePage, SparePage
    <2>2. p \in heap /\ p \in Page
      BY <2>1 DEF StacksInv, CellsAccounted, Cell
    <2>3. c \notin Range(s) /\ holders[c] = 1
      BY <2>1, <2>2 DEF StacksInv, CellsAccounted
    <2>4. s \in Seq(Cell) /\ IsInjective(s) /\ Range(s) \subseteq CellsOf(p)
      BY <2>2 DEF StacksInv, CellsAccounted, CellsOf
    <2>5. Range(s) \cup {c} = CellsOf(p)
      <3>1. /\ Append(s, c) \in Seq(Cell) /\ Len(Append(s, c)) = CELLS_SIZE_PER_PAGE
            /\ IsInjective(Append(s, c)) /\ Range(Append(s, c)) = Range(s) \cup {c}
        BY <2>1, <2>3, <2>4, PushedStack
      <3>2. Range(s) \cup {c} \subseteq CellsOf(p)
        BY <2>4 DEF CellsOf
      <3> QED  BY <2>2, <3>1, <3>2, FullStack
    <2>6. \A d \in CellsOf(p) \ {c} : holders[d] = 0
      BY <2>2, <2>5 DEF StacksInv, CellsAccounted, CellsOf
    <2>7. /\ holders' \in [Cell -> Nat] /\ holders'[c] = 0
          /\ \A d \in Cell \ {c} : holders'[d] = holders[d]
      BY <2>1, <2>3 DEF StacksInv
    <2>8. /\ freeCells' \in [Page -> Seq(Cell)] /\ freeCells'[p] = << >>
          /\ \A q \in Page \ {p} : freeCells'[q] = freeCells[q]
      BY <2>1, <2>2 DEF StacksInv
    <2>9. \A q \in Page : IsInjective(freeCells'[q]) /\ Range(freeCells'[q]) \subseteq CellsOf(q)
      <3>1. IsInjective(<< >>) /\ Range(<< >>) = {}
        BY DEF IsInjective, Range
      <3> QED  BY <2>8, <3>1 DEF StacksInv, CellsAccounted, CellsOf
    <2>10. \A d \in Cell : d[1] \in heap' =>
             holders'[d] = IF d \in Range(freeCells'[d[1]]) THEN 0 ELSE 1
      BY <2>1, <2>7, <2>8 DEF StacksInv, CellsAccounted
    <2>11. \A d \in Cell : holders'[d] > 0 => d[1] \in heap'
      BY <2>1, <2>6, <2>7 DEF StacksInv, CellsAccounted, CellsOf
    <2>12. \A q \in Page \ heap' : freeCells'[q] = << >>
      BY <2>1, <2>8 DEF StacksInv
    <2>13. heap' \subseteq Page
      BY <2>1 DEF StacksInv
    <2> QED  BY <2>7, <2>8, <2>9, <2>10, <2>11, <2>12, <2>13 DEF StacksInv, CellsAccounted, CellsOf
  <1>8. CASE Clear
    <2>1. heap' = {} /\ \A p \in heap : freeCells'[p] = << >>
      BY <1>8, ClearFreesAll
    <2>2. freeCells' \in [Page -> Seq(Cell)] /\ \A p \in Page : freeCells'[p] = << >>
      BY <1>8, <2>1 DEF Clear, StacksInv
    <2>3. holders' = [c \in Cell |-> 0]
      BY <1>8 DEF Clear
    <2> QED  BY <2>1, <2>2, <2>3 DEF StacksInv, CellsAccounted, IsInjective, Range
  <1> QED  BY <1>1, <1>2, <1>3, <1>4, <1>5, <1>6, <1>7, <1>8 DEF Next, Allocate, Reclaim

\* One page more or less, counted.
LEMMA OneMore ==
  ASSUME NEW pages, IsFiniteSet(pages), NEW p
  PROVE  /\ IsFiniteSet(pages \cup {p}) /\ IsFiniteSet(pages \ {p})
         /\ p \notin pages => Cardinality(pages \cup {p}) = Cardinality(pages) + 1
         /\ p \in pages => Cardinality(pages \ {p}) = Cardinality(pages) - 1
  BY FS_AddElement, FS_RemoveElement

LEMMA RingsStep == IInv /\ Next => RingsInv'
  <1> SUFFICES ASSUME IInv, Next PROVE RingsInv'
    OBVIOUS
  <1>0. StacksInv'
    BY StacksStep
  <1> USE DEF IInv
  <1>1. CASE AllocateFromPage
    <2>1. Usable' = Usable /\ Unusable' = Unusable
      <3>1. usablePage \in Usable /\ Len(freeCells[usablePage]) > 1
        BY <1>1, Counts DEF AllocateFromPage
      <3>2. freeCells[usablePage] \in Seq(Cell) /\ IsInjective(freeCells[usablePage])
        BY <3>1 DEF Usable, StacksInv, CellsAccounted
      <3>3. Popped(freeCells[usablePage]) # << >>
        BY <3>1, <3>2, PoppedStack
      <3> QED  BY <1>1, <3>1, <3>3 DEF AllocateFromPage, Usable, Unusable, StacksInv
    <2> QED  BY <1>1, <2>1 DEF AllocateFromPage, RingsInv, HeadIn
  <1>2. CASE AllocateLastOfPage
    <2> DEFINE p == usablePage
    <2>1. p \in Usable /\ Len(freeCells[p]) = 1 /\ freeCells[p] \in Seq(Cell)
      BY <1>2, Counts DEF AllocateLastOfPage, Usable, StacksInv
    <2>2. Popped(freeCells[p]) = << >>
      <3>1. Len(Popped(freeCells[p])) = 0 /\ Popped(freeCells[p]) \in Seq(Cell)
        BY <2>1, PoppedStack DEF Usable, StacksInv, CellsAccounted
      <3> QED  BY <3>1, EmptySeq
    <2>3. Usable' = Usable \ {p} /\ Unusable' = Unusable \cup {p}
      BY <1>2, <2>1, <2>2 DEF AllocateLastOfPage, Usable, Unusable, StacksInv
    <2>4. /\ links' = Linked(Unlinked(links, p), p, unUsablePage, mUnUsablePagesSize)
          /\ links' \in Links /\ RingIn(links', Usable \ {p}) /\ RingIn(links', Unusable \cup {p})
      <3>1. links' = Linked(Unlinked(links, p), p, unUsablePage, mUnUsablePagesSize)
        BY <1>2 DEF AllocateLastOfPage
      <3>2. /\ links \in Links /\ Usable \in SUBSET Page /\ Unusable \in SUBSET Page
            /\ p \in Usable /\ Usable \cap Unusable = {}
            /\ RingIn(links, Usable) /\ RingIn(links, Unusable)
            /\ Unusable # {} => unUsablePage \in Unusable
            /\ mUnUsablePagesSize = 0 <=> Unusable = {}
        BY <2>1, Counts DEF RingsInv, Unusable
      <3> QED  BY ONLY <3>1, <3>2, PageMoves
    <2>5. Usable # {p} => links.next[p] \in Usable \ {p}
      BY <2>1, Counts, UnlinkedRing DEF RingsInv
    <2>6. p \notin Unusable
      BY <2>1 DEF Unusable
    <2>7. /\ mUsablePagesSize' = Cardinality(Usable \ {p})
          /\ mUnUsablePagesSize' = Cardinality(Unusable \cup {p})
      BY <1>2, <2>1, <2>6, Counts, OneMore DEF AllocateLastOfPage, RingsInv, HeadIn
    <2>8. mUsablePagesSize' > 0 => Usable \ {p} # {}
      BY <2>7, FS_EmptySet
    <2>9. links.next[p] \in Page \cup {NoPage} /\ p \in Page
      BY <2>1, Counts DEF RingsInv, Links
    <2>10. HeadIn(Usable, usablePage, mUsablePagesSize)'
      BY <1>2, <2>3, <2>5, <2>7, <2>8, <2>9 DEF AllocateLastOfPage, HeadIn
    <2>11. HeadIn(Unusable, unUsablePage, mUnUsablePagesSize)'
      BY <1>2, <2>3, <2>7, <2>9, Counts DEF AllocateLastOfPage, HeadIn
    <2> QED  BY <1>2, <2>3, <2>4, <2>10, <2>11 DEF AllocateLastOfPage, RingsInv
  <1>3. CASE AllocateFails
    BY <1>3 DEF AllocateFails, RingsInv, HeadIn, Usable, Unusable
  <1>4. ASSUME NEW p \in Page, AllocateNewPage(p) PROVE RingsInv'
    <2>1. Usable = {} /\ p \notin heap /\ p \notin Unusable
      BY <1>4, Counts DEF AllocateNewPage
    <2>2. Popped(AllCells(p)) # << >>
      <3>1. /\ AllCells(p) \in Seq(Cell) /\ Len(AllCells(p)) = CELLS_SIZE_PER_PAGE
            /\ IsInjective(AllCells(p)) /\ AllCells(p) # << >>
        BY NewStack, PoolAssumption
      <3> QED  BY <3>1, PoppedStack, PoolAssumption
    <2>3. Usable' = {p} /\ Unusable' = Unusable
      BY <1>4, <2>1, <2>2 DEF AllocateNewPage, Usable, Unusable, StacksInv
    <2>4. links' \in Links /\ RingIn(links', {p})
      BY <1>4, LinkedAloneRing DEF AllocateNewPage, RingsInv
    <2>5. RingIn(links', Unusable)
      <3>1. \A q \in Unusable : links'.next[q] = links.next[q] /\ links'.prev[q] = links.prev[q]
        BY <1>4, <2>1, Counts DEF AllocateNewPage, LinkedAlone, RingsInv, Links
      <3> QED  BY <3>1, RingElsewhere DEF RingsInv
    <2>6. IsFiniteSet(heap')
      BY <1>4, OneMore DEF AllocateNewPage, RingsInv
    <2>7. HeadIn(Usable, usablePage, mUsablePagesSize)'
      BY <1>4, <2>3, FS_Singleton DEF AllocateNewPage, HeadIn
    <2>8. HeadIn(Unusable, unUsablePage, mUnUsablePagesSize)'
      BY <1>4, <2>3 DEF AllocateNewPage, HeadIn, RingsInv
    <2> QED  BY <2>3, <2>4, <2>5, <2>6, <2>7, <2>8 DEF RingsInv
  <1>5. ASSUME NEW c \in Cell, ReclaimToFullPage(c) PROVE RingsInv'
    <2> DEFINE p == c[1]
               u == Unlinked(links, p)
    <2>1. p \in Unusable /\ p \notin Usable /\ p \in Page
      BY <1>5 DEF ReclaimToFullPage, Usable, Unusable, StacksInv, CellsAccounted, Cell
    <2>2. <<c>> # << >>
      OBVIOUS
    <2>3. Usable' = Usable \cup {p} /\ Unusable' = Unusable \ {p}
      BY <1>5, <2>1, <2>2 DEF ReclaimToFullPage, Usable, Unusable, StacksInv
    <2>4. /\ links' = Linked(u, p, usablePage, mUsablePagesSize)
          /\ links' \in Links /\ RingIn(links', Unusable \ {p}) /\ RingIn(links', Usable \cup {p})
      <3>1. links' = Linked(u, p, usablePage, mUsablePagesSize)
        BY <1>5 DEF ReclaimToFullPage
      <3>2. /\ links \in Links /\ Unusable \in SUBSET Page /\ Usable \in SUBSET Page
            /\ p \in Unusable /\ Unusable \cap Usable = {}
            /\ RingIn(links, Unusable) /\ RingIn(links, Usable)
            /\ Usable # {} => usablePage \in Usable
            /\ mUsablePagesSize = 0 <=> Usable = {}
        BY <2>1, Counts DEF RingsInv, Unusable
      <3> QED  BY ONLY <3>1, <3>2, PageMoves
    <2>5. Unusable # {p} => links.next[p] \in Unusable \ {p}
      BY <2>1, Counts, UnlinkedRing DEF RingsInv
    <2>6. u.next[p] = links.next[p] /\ links.next[p] \in Page
      <3>1. links.next[p] \in Unusable /\ links.prev[p] \in Unusable
        BY <2>1 DEF RingsInv, RingIn, Paired
      <3> QED  BY <2>1, <3>1, Counts, UnlinkedFields DEF RingsInv
    <2>7. /\ mUsablePagesSize' = Cardinality(Usable \cup {p})
          /\ mUnUsablePagesSize' = Cardinality(Unusable \ {p})
      BY <1>5, <2>1, Counts, OneMore DEF ReclaimToFullPage, RingsInv, HeadIn
    <2>8. mUnUsablePagesSize' > 0 => mUnUsablePagesSize > 1 /\ Unusable \ {p} # {}
      <3>1. mUnUsablePagesSize' = mUnUsablePagesSize - 1 /\ mUnUsablePagesSize \in Nat
        BY <1>5, Counts DEF ReclaimToFullPage
      <3>2. Unusable \ {p} = {} => Cardinality(Unusable \ {p}) = 0
        BY FS_EmptySet
      <3> QED  BY <2>7, <3>1, <3>2
    <2>9. unUsablePage' = IF mUnUsablePagesSize > 1 /\ p = unUsablePage
                            THEN links.next[p] ELSE unUsablePage
      BY <1>5, <2>6 DEF ReclaimToFullPage
    <2>10. HeadIn(Unusable, unUsablePage, mUnUsablePagesSize)'
      BY <2>3, <2>5, <2>6, <2>7, <2>8, <2>9, Counts DEF HeadIn, RingsInv
    <2>11. HeadIn(Usable, usablePage, mUsablePagesSize)'
      BY <1>5, <2>1, <2>3, <2>7, Counts DEF ReclaimToFullPage, HeadIn, RingsInv
    <2> QED  BY <1>5, <2>3, <2>4, <2>10, <2>11 DEF ReclaimToFullPage, RingsInv
  <1>6. ASSUME NEW c \in Cell, ReclaimToPage(c) PROVE RingsInv'
    <2>1. c[1] \in Page /\ freeCells[c[1]] \in Seq(Cell)
      BY DEF Cell, StacksInv
    <2>2. Append(freeCells[c[1]], c) # << >>
      BY <2>1
    <2>3. Usable' = Usable /\ Unusable' = Unusable
      BY <1>6, <2>1, <2>2 DEF ReclaimToPage, Usable, Unusable, StacksInv
    <2> QED  BY <1>6, <2>3 DEF ReclaimToPage, RingsInv, HeadIn
  <1>7. ASSUME NEW c \in Cell, ReclaimAndFreePage(c) PROVE RingsInv'
    <2> DEFINE p == c[1]
               u == Unlinked(links, p)
    <2>1. p \in Usable /\ p \notin Unusable /\ p \in Page
      BY <1>7 DEF ReclaimAndFreePage, Usable, Unusable, StacksInv, CellsAccounted, Cell
    <2>2. Usable' = Usable \ {p} /\ Unusable' = Unusable
      BY <1>7, <2>1 DEF ReclaimAndFreePage, Usable, Unusable, StacksInv
    <2>3. u \in Links /\ RingIn(u, Usable \ {p}) /\ (Usable # {p} => links.next[p] \in Usable \ {p})
      BY <2>1, Counts, UnlinkedRing DEF RingsInv
    <2>4. RingIn(u, Unusable)
      <3>1. links.next[p] \in Usable /\ links.prev[p] \in Usable
        BY <2>1 DEF RingsInv, RingIn, Paired
      <3>2. \A q \in Unusable : u.next[q] = links.next[q] /\ u.prev[q] = links.prev[q]
        BY <2>1, <3>1, Counts, UnlinkedFields DEF RingsInv, Unusable
      <3> HIDE DEF u
      <3> QED  BY <3>2, RingElsewhere DEF RingsInv
    <2>5. /\ links' \in Links
          /\ \A q \in Page \ {p} : links'.next[q] = u.next[q] /\ links'.prev[q] = u.prev[q]
      <3>1. links' = [next |-> [u.next EXCEPT ![p] = NoPage], prev |-> [u.prev EXCEPT ![p] = NoPage]]
        BY <1>7 DEF ReclaimAndFreePage
      <3> HIDE DEF u
      <3> QED  BY <2>1, <2>3, <3>1 DEF Links
    <2>6. RingIn(links', Usable \ {p}) /\ RingIn(links', Unusable)
      <3>1. \A q \in Usable \ {p} : q \in Page \ {p}
        BY Counts
      <3>2. \A q \in Unusable : q \in Page \ {p}
        BY <2>1, Counts
      <3> HIDE DEF u
      <3>3. RingIn(links', Usable \ {p})
        BY <2>3, <2>5, <3>1, RingElsewhere
      <3>4. RingIn(links', Unusable)
        BY <2>4, <2>5, <3>2, RingElsewhere
      <3> QED  BY <3>3, <3>4
    <2>7. mUsablePagesSize' = Cardinality(Usable \ {p}) /\ IsFiniteSet(heap')
      BY <1>7, <2>1, Counts, OneMore DEF ReclaimAndFreePage, RingsInv, HeadIn
    <2>8. mUsablePagesSize' > 0 => Usable \ {p} # {}
      BY <2>7, FS_EmptySet
    <2>9. links.next[p] \in Page \cup {NoPage}
      BY <2>1 DEF RingsInv, Links
    <2>10. usablePage' = IF p = usablePage THEN links.next[p] ELSE usablePage
      BY <1>7 DEF ReclaimAndFreePage
    <2>11. HeadIn(Usable, usablePage, mUsablePagesSize)'
      BY <2>2, <2>3, <2>7, <2>8, <2>9, <2>10, Counts DEF HeadIn, RingsInv
    <2>12. HeadIn(Unusable, unUsablePage, mUnUsablePagesSize)'
      BY <1>7, <2>2 DEF ReclaimAndFreePage, HeadIn, RingsInv
    <2> QED  BY <2>2, <2>5, <2>6, <2>7, <2>11, <2>12 DEF RingsInv
  <1>8. CASE Clear
    <2>1. heap' = {}
      BY <1>8, ClearFreesAll
    <2>2. Usable' = {} /\ Unusable' = {}
      BY <2>1 DEF Usable, Unusable
    <2>3. links' \in Links
      BY <1>8 DEF Clear, RingsInv, Links
    <2>4. RingIn(links, {})' /\ IsFiniteSet(heap')
      BY <2>1, FS_EmptySet DEF RingIn, Paired, Single
    <2>5. /\ mUsablePagesSize' = 0 /\ usablePage' = usablePage
          /\ mUnUsablePagesSize' = 0 /\ unUsablePage' = unUsablePage
      BY <1>8 DEF Clear
    <2>6. HeadIn(Usable, usablePage, mUsablePagesSize)'
      BY <2>2, <2>5, FS_EmptySet DEF RingsInv, HeadIn
    <2>7. HeadIn(Unusable, unUsablePage, mUnUsablePagesSize)'
      BY <2>2, <2>5, FS_EmptySet DEF RingsInv, HeadIn
    <2> QED  BY <2>2, <2>3, <2>4, <2>6, <2>7 DEF RingsInv
  <1> QED  BY <1>1, <1>2, <1>3, <1>4, <1>5, <1>6, <1>7, <1>8 DEF Next, Allocate, Reclaim

LEMMA SpareStep == IInv /\ Next => SparePagesBounded'
  <1> SUFFICES ASSUME IInv, Next PROVE SparePagesBounded'
    OBVIOUS
  <1> USE DEF IInv
  <1>0. IsFiniteSet(SparePages) /\ Cardinality(SparePages) <= MAX_FREE_PAGES
    <2>1. SparePages \subseteq heap
      BY DEF SparePages
    <2> QED  BY <2>1, FS_Subset DEF RingsInv, SparePagesBounded
  <1>1. SUFFICES ASSUME ~ (SparePages' \subseteq SparePages) PROVE SparePagesBounded'
    <2>1. SparePages' \subseteq SparePages =>
            /\ IsFiniteSet(SparePages') /\ Cardinality(SparePages') <= Cardinality(SparePages)
            /\ Cardinality(SparePages) \in Nat /\ Cardinality(SparePages') \in Nat
      BY <1>0, FS_Subset, FS_CardinalityType
    <2> QED  BY <1>0, <2>1, PoolAssumption DEF SparePagesBounded
  <1>2. ASSUME NEW p \in Page, NEW s \in Seq(Cell), Len(s) # CELLS_SIZE_PER_PAGE,
               freeCells' = [freeCells EXCEPT ![p] = s], heap' \subseteq heap \cup {p}
        PROVE  FALSE
    <2>1. \A q \in Page \ {p} : freeCells'[q] = freeCells[q]
      BY <1>2 DEF StacksInv
    <2>2. freeCells'[p] = s
      BY <1>2 DEF StacksInv
    <2>3. heap' \subseteq Page /\ heap \subseteq Page
      BY <1>2 DEF StacksInv
    <2>4. SparePages' \subseteq SparePages
      BY <1>2, <2>1, <2>2, <2>3 DEF SparePages
    <2> QED  BY <1>1, <2>4
  <1>3. ASSUME NEW p \in Page, NEW s \in Seq(Cell), s # << >>, IsInjective(s),
               Len(s) <= CELLS_SIZE_PER_PAGE
        PROVE  Popped(s) \in Seq(Cell) /\ Len(Popped(s)) # CELLS_SIZE_PER_PAGE
    <2>1. Popped(s) \in Seq(Cell) /\ Len(Popped(s)) = Len(s) - 1 /\ Len(s) \in Nat
      BY <1>3, PoppedStack
    <2> QED  BY <1>3, <2>1, PoolAssumption
  <1>4. ASSUME NEW p \in Page PROVE Len(freeCells[p]) <= CELLS_SIZE_PER_PAGE
    BY StackFits DEF StacksInv, CellsAccounted, CellsOf
  <1>5. CASE AllocateFromPage
    <2>1. usablePage \in Page /\ freeCells[usablePage] \in Seq(Cell) /\ freeCells[usablePage] # << >>
          /\ IsInjective(freeCells[usablePage])
      BY <1>5, Counts DEF AllocateFromPage, Usable, StacksInv, CellsAccounted
    <2> QED  BY <1>2, <1>3, <1>4, <1>5, <2>1 DEF AllocateFromPage
  <1>6. CASE AllocateLastOfPage
    <2>1. usablePage \in Page /\ freeCells[usablePage] \in Seq(Cell) /\ freeCells[usablePage] # << >>
          /\ IsInjective(freeCells[usablePage])
      BY <1>6, Counts DEF AllocateLastOfPage, Usable, StacksInv, CellsAccounted
    <2> QED  BY <1>2, <1>3, <1>4, <1>6, <2>1 DEF AllocateLastOfPage
  <1>7. CASE AllocateFails
    BY <1>1, <1>7 DEF AllocateFails, SparePages
  <1>8. ASSUME NEW p \in Page, AllocateNewPage(p) PROVE FALSE
    <2>1. /\ AllCells(p) \in Seq(Cell) /\ AllCells(p) # << >> /\ IsInjective(AllCells(p))
          /\ Len(AllCells(p)) <= CELLS_SIZE_PER_PAGE
      BY NewStack, PoolAssumption
    <2> QED  BY <1>2, <1>3, <1>8, <2>1 DEF AllocateNewPage
  <1>9. ASSUME NEW c \in Cell, ReclaimToFullPage(c) PROVE FALSE
    <2>1. <<c>> \in Seq(Cell) /\ Len(<<c>>) # CELLS_SIZE_PER_PAGE /\ c[1] \in Page
      BY PoolAssumption DEF Cell
    <2> QED  BY <1>2, <1>9, <2>1 DEF ReclaimToFullPage
  <1>10. ASSUME NEW c \in Cell, ReclaimToPage(c) PROVE SparePagesBounded'
    <2> DEFINE p == c[1]
               s == freeCells[p]
    <2>1. p \in Page /\ s \in Seq(Cell)
      BY DEF Cell, StacksInv
    <2>2. Append(s, c) \in Seq(Cell) /\ Len(Append(s, c)) = Len(s) + 1
      BY <2>1
    <2>3. freeCells' = [freeCells EXCEPT ![p] = Append(s, c)] /\ heap' = heap
      BY <1>10 DEF ReclaimToPage
    <2>4. Len(s) + 1 = CELLS_SIZE_PER_PAGE
      BY <1>2, <2>1, <2>2, <2>3
    <2>5. mUsablePagesSize <= MAX_FREE_PAGES
      BY <1>10, <2>4, Counts, PoolAssumption DEF ReclaimToPage, SparePage
    <2>6. SparePages' \subseteq Usable
      <3>1. \A q \in Page \ {p} : freeCells'[q] = freeCells[q]
        BY <2>3 DEF StacksInv
      <3>2. \A q \in heap : Len(freeCells[q]) = CELLS_SIZE_PER_PAGE => q \in Usable
        BY PoolAssumption DEF Usable
      <3>3. p \in heap => p \in Usable
        BY <1>10 DEF ReclaimToPage, Usable
      <3> QED  BY <2>3, <3>1, <3>2, <3>3 DEF SparePages, StacksInv
    <2>7. /\ Cardinality(SparePages') <= Cardinality(Usable)
          /\ Cardinality(SparePages') \in Nat /\ Cardinality(Usable) \in Nat
      BY <2>6, Counts, FS_Subset, FS_CardinalityType
    <2> QED  BY <2>5, <2>7, PoolAssumption DEF SparePagesBounded, RingsInv, HeadIn
  <1>11. ASSUME NEW c \in Cell, ReclaimAndFreePage(c) PROVE FALSE
    <2>1. << >> \in Seq(Cell) /\ Len(<< >>) # CELLS_SIZE_PER_PAGE /\ c[1] \in Page
      BY PoolAssumption DEF Cell
    <2> QED  BY <1>2, <1>11, <2>1 DEF ReclaimAndFreePage
  <1>12. CASE Clear
    BY <1>1, <1>12, ClearFreesAll DEF SparePages
  <1> QED  BY <1>5, <1>6, <1>7, <1>8, <1>9, <1>10, <1>11, <1>12 DEF Next, Allocate, Reclaim

----------------------------------------------------------------------------
(* The theorems.                                                           *)

LEMMA IInvInductive == Spec => []IInv
  <1>1. IInv /\ UNCHANGED vars => IInv'
    <2> SUFFICES ASSUME IInv, UNCHANGED vars PROVE IInv'
      OBVIOUS
    <2>1. StacksInv'
      BY DEF IInv, StacksInv, CellsAccounted, vars
    <2>2. Usable' = Usable /\ Unusable' = Unusable /\ SparePages' = SparePages
      BY DEF vars, Usable, Unusable, SparePages
    <2>3. RingsInv'
      BY <2>2 DEF IInv, RingsInv, HeadIn, vars
    <2>4. SparePagesBounded'
      BY <2>2 DEF IInv, SparePagesBounded
    <2> QED  BY <2>1, <2>3, <2>4 DEF IInv
  <1>2. IInv /\ Next => IInv'
    BY StacksStep, RingsStep, SpareStep DEF IInv
  <1> QED  BY <1>1, <1>2, InitIInv, PTL DEF Spec

\* Every field of the pool and its pages keeps its type.
THEOREM TypeCorrect == Spec => []TypeOK
  <1>1. IInv => TypeOK
    BY Counts DEF IInv, StacksInv, RingsInv, Links, HeadIn, TypeOK
  <1> QED  BY <1>1, IInvInductive, PTL

\* Allocate and Reclaim never lose a cell, hand one out twice, or deallocate a page with
\* a cell in use.
THEOREM CellsAlwaysAccounted == Spec => []CellsAccounted
  <1>1. IInv => CellsAccounted
    BY DEF IInv, StacksInv
  <1> QED  BY <1>1, IInvInductive, PTL

\* Both rings always hold exactly their pages, and are counted right: the list
\* surgery of Allocate and Reclaim is sound for rings of any length.
THEOREM RingsAlwaysExact == Spec => []RingsExact
  <1>1. ASSUME IInv PROVE RingsExact
    <2>1. RingOf(Usable, usablePage, mUsablePagesSize)
      <3>1. mUsablePagesSize > 0 => Ring(usablePage) = Usable
        BY <1>1, Counts, RingOfHead DEF IInv, RingsInv
      <3> QED  BY <1>1, <3>1, Counts DEF IInv, RingsInv, RingOf, RingIn, Paired, HeadIn
    <2>2. RingOf(Unusable, unUsablePage, mUnUsablePagesSize)
      <3>1. mUnUsablePagesSize > 0 => Ring(unUsablePage) = Unusable
        BY <1>1, Counts, RingOfHead DEF IInv, RingsInv
      <3> QED  BY <1>1, <3>1, Counts DEF IInv, RingsInv, RingOf, RingIn, Paired, HeadIn
    <2> QED  BY <2>1, <2>2 DEF RingsExact
  <1> QED  BY <1>1, IInvInductive, PTL

\* The pages without a cell in use never outnumber MAX_FREE_PAGES.
THEOREM SparePagesAlwaysBounded == Spec => []SparePagesBounded
  <1>1. IInv => SparePagesBounded
    BY DEF IInv
  <1> QED  BY <1>1, IInvInductive, PTL

\* The pool implements AbstractPool: every operation hands out a free cell, takes one
\* back from its only user, or forgets all.
THEOREM PoolImplemented == Spec => ImplementsPool
  <1>1. Init => Pool!Init
    BY DEF Init, Pool!Init, Pool!Nobody
  <1>2. ASSUME IInv, [Next]_vars PROVE [Pool!Next]_holders
    <2> USE DEF IInv
    <2>1. CASE UNCHANGED vars
      BY <2>1 DEF vars
    <2>2. ASSUME NEW p \in Page, freeCells[p] # << >>, holders' = HandedOut(Top(freeCells[p])),
                 p \in heap
          PROVE  Pool!Next
      <3>1. Top(freeCells[p]) \in Range(freeCells[p])
        BY <1>2, <2>2, PoppedStack DEF StacksInv, CellsAccounted
      <3>2. Top(freeCells[p]) \in Cell /\ holders[Top(freeCells[p])] = 0
        BY <1>2, <2>2, <3>1 DEF StacksInv, CellsAccounted
      <3>3. holders' = [holders EXCEPT ![Top(freeCells[p])] = 1]
        BY <1>2, <2>2, <3>2 DEF HandedOut, StacksInv
      <3> QED  BY <3>2, <3>3 DEF Pool!Next, Pool!Take
    <2>3. ASSUME NEW c \in Cell, holders[c] > 0, holders' = [holders EXCEPT ![c] = @ - 1]
          PROVE  Pool!Next
      <3>1. holders[c] = 1
        BY <1>2, <2>3 DEF StacksInv, CellsAccounted
      <3>2. holders' = [holders EXCEPT ![c] = 0]
        BY <1>2, <2>3, <3>1 DEF StacksInv
      <3> QED  BY <3>1, <3>2 DEF Pool!Next, Pool!GiveBack
    <2>4. CASE AllocateFromPage \/ AllocateLastOfPage
      <3>1. usablePage \in heap /\ usablePage \in Page /\ freeCells[usablePage] # << >>
        BY <1>2, <2>4, Counts DEF AllocateFromPage, AllocateLastOfPage, Usable
      <3> QED  BY <2>2, <2>4, <3>1 DEF AllocateFromPage, AllocateLastOfPage
    <2>5. CASE AllocateFails
      BY <2>5 DEF AllocateFails
    <2>6. ASSUME NEW p \in Page, AllocateNewPage(p) PROVE Pool!Next
      <3>1. Top(AllCells(p)) \in CellsOf(p)
        <4>1. /\ AllCells(p) \in Seq(Cell) /\ AllCells(p) # << >> /\ IsInjective(AllCells(p))
              /\ Range(AllCells(p)) = CellsOf(p)
          BY NewStack, PoolAssumption
        <4> QED  BY <4>1, PoppedStack
      <3>2. Top(AllCells(p)) \in Cell /\ holders[Top(AllCells(p))] = 0
        BY <1>2, <2>6, <3>1 DEF AllocateNewPage, CellsOf, StacksInv, CellsAccounted
      <3>3. holders' = [holders EXCEPT ![Top(AllCells(p))] = 1]
        BY <1>2, <2>6, <3>2 DEF AllocateNewPage, HandedOut, StacksInv
      <3> QED  BY <3>2, <3>3 DEF Pool!Next, Pool!Take
    <2>7. ASSUME NEW c \in Cell, Reclaim(c) PROVE Pool!Next
      BY <2>3, <2>7 DEF Reclaim, ReclaimToFullPage, ReclaimToPage, ReclaimAndFreePage
    <2>8. CASE Clear
      BY <2>8 DEF Clear, Pool!Next, Pool!Forget, Pool!Nobody
    <2> QED  BY <1>2, <2>1, <2>4, <2>5, <2>6, <2>7, <2>8 DEF Next, Allocate
  <1> QED  BY <1>1, <1>2, IInvInductive, PTL DEF Spec, ImplementsPool, Pool!Spec
=============================================================================
