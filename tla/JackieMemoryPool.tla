-------------------------- MODULE JackieMemoryPool ---------------------------
(***************************************************************************)
(* JackieMemoryPool<Type, CELLS_SIZE_PER_PAGE, MAX_FREE_PAGES>, the pool   *)
(* of cells from which datagram buffers, packets and commands come.  Pages *)
(* with a free cell are on one ring, pages without on the other; both are  *)
(* doubly linked, and each page keeps its free cells on a stack.  Each     *)
(* pool belongs to one thread: an operation is one step.                   *)
(***************************************************************************)
EXTENDS Integers, Sequences, FiniteSets, Functions

CONSTANTS Page,                  \* addresses malloc has for pages
          NoPage,                \* the null pointer
          CELLS_SIZE_PER_PAGE,
          MAX_FREE_PAGES

ASSUME PoolAssumption == /\ NoPage \notin Page
                         /\ CELLS_SIZE_PER_PAGE \in Nat /\ CELLS_SIZE_PER_PAGE > 1
                         /\ MAX_FREE_PAGES \in Nat

\* A cell knows its page: c[1] is parentPage.
Cell == Page \X (1 .. CELLS_SIZE_PER_PAGE)

VARIABLES heap,               \* pages in use by the pool
          freeCells,          \* freeCells[p]: the stack, as long as freeCellsSize
          links,              \* the fields next and prev of all pages
          usablePage, unUsablePage,
          mUsablePagesSize, mUnUsablePagesSize,
          holders             \* holders[c]: how many callers hold the cell c

vars == <<heap, freeCells, links, usablePage, unUsablePage,
          mUsablePagesSize, mUnUsablePagesSize, holders>>

NoLinks == [next |-> [p \in Page |-> NoPage], prev |-> [p \in Page |-> NoPage]]

Init == /\ heap = {} /\ holders = [c \in Cell |-> 0]
        /\ freeCells = [p \in Page |-> << >>]
        /\ links = NoLinks
        /\ usablePage = NoPage /\ unUsablePage = NoPage
        /\ mUsablePagesSize = 0 /\ mUnUsablePagesSize = 0

----------------------------------------------------------------------------
\* The two pieces of list surgery.
Unlinked(l, p) == [next |-> [l.next EXCEPT ![l.prev[p]] = l.next[p]],
                   prev |-> [l.prev EXCEPT ![l.next[p]] = l.prev[p]]]

LinkedAlone(l, p) == [next |-> [l.next EXCEPT ![p] = p],
                      prev |-> [l.prev EXCEPT ![p] = p]]

\* Mutant: the old last page goes on pointing to the head.
LinkedLastForgetful(l, p, head) ==
  [next |-> [l.next EXCEPT ![p] = head],
   prev |-> [l.prev EXCEPT ![p] = l.prev[head], ![head] = p]]

\* Before the head of a ring that is not empty, that is at its end.
LinkedLast(l, p, head) ==
  [next |-> [l.next EXCEPT ![p] = head, ![l.prev[head]] = p],
   prev |-> [l.prev EXCEPT ![p] = l.prev[head], ![head] = p]]

Linked(l, p, head, size) == IF size = 0 THEN LinkedAlone(l, p)
                                        ELSE LinkedLast(l, p, head)

AllCells(p) == [i \in 1 .. CELLS_SIZE_PER_PAGE |-> <<p, i>>]

Top(s) == s[Len(s)]

HandedOut(c) == [holders EXCEPT ![c] = @ + 1]

\* Mutant: drops the other end of the stack.
PoppedFirst(s) == SubSeq(s, 2, Len(s))

Popped(s) == SubSeq(s, 1, Len(s) - 1)

----------------------------------------------------------------------------
\* Allocate() while a usable page has another free cell left.
AllocateFromPage ==
  /\ mUsablePagesSize > 0
  /\ Len(freeCells[usablePage]) > 1
  /\ holders' = HandedOut(Top(freeCells[usablePage]))
  /\ freeCells' = [freeCells EXCEPT ![usablePage] = Popped(@)]
  /\ UNCHANGED <<heap, links, usablePage, unUsablePage,
                 mUsablePagesSize, mUnUsablePagesSize>>

\* The last free cell of the page: the page moves to the other ring.
AllocateLastOfPage ==
  /\ mUsablePagesSize > 0
  /\ Len(freeCells[usablePage]) = 1
  /\ holders' = HandedOut(Top(freeCells[usablePage]))
  /\ freeCells' = [freeCells EXCEPT ![usablePage] = Popped(@)]
  /\ mUsablePagesSize' = mUsablePagesSize - 1
  /\ usablePage' = links.next[usablePage]
  /\ links' = Linked(Unlinked(links, usablePage), usablePage,
                     unUsablePage, mUnUsablePagesSize)
  /\ mUnUsablePagesSize' = mUnUsablePagesSize + 1
  /\ unUsablePage' = IF mUnUsablePagesSize = 0 THEN usablePage ELSE unUsablePage
  /\ UNCHANGED heap

\* No page has a free cell: a new one, in a ring of its own.
AllocateNewPage(p) ==
  /\ mUsablePagesSize = 0
  /\ p \in Page \ heap
  /\ heap' = heap \cup {p}
  /\ usablePage' = p
  /\ mUsablePagesSize' = 1
  /\ links' = LinkedAlone(links, p)
  /\ freeCells' = [freeCells EXCEPT ![p] = Popped(AllCells(p))]
  /\ holders' = HandedOut(Top(AllCells(p)))
  /\ UNCHANGED <<unUsablePage, mUnUsablePagesSize>>

\* malloc has no page: the caller gets a null pointer and asks again.
AllocateFails ==
  /\ mUsablePagesSize = 0
  /\ usablePage' = NoPage
  /\ UNCHANGED <<heap, freeCells, links, unUsablePage,
                 mUsablePagesSize, mUnUsablePagesSize, holders>>

\* InitPage has no cells: the caller gets a null pointer too, but the page, none
\* of whose fields is written, counts as usable.  What its freeCellsSize reads is
\* left to chance; here it is 0.
AllocateWithoutCells(p) ==
  /\ mUsablePagesSize = 0
  /\ p \in Page \ heap
  /\ heap' = heap \cup {p}
  /\ usablePage' = p
  /\ mUsablePagesSize' = 1
  /\ UNCHANGED <<freeCells, links, unUsablePage, mUnUsablePagesSize, holders>>

\* Reclaim() into a page that had no free cell: it changes rings.
ReclaimToFullPage(c) ==
  LET p == c[1]
      unlinked == Unlinked(links, p)
  IN  /\ holders[c] > 0
      /\ freeCells[p] = << >>
      /\ holders' = [holders EXCEPT ![c] = @ - 1]
      /\ freeCells' = [freeCells EXCEPT ![p] = <<c>>]
      /\ mUnUsablePagesSize' = mUnUsablePagesSize - 1
      /\ unUsablePage' = IF mUnUsablePagesSize > 1 /\ p = unUsablePage
                           THEN unlinked.next[p] ELSE unUsablePage
      /\ links' = Linked(unlinked, p, usablePage, mUsablePagesSize)
      /\ mUsablePagesSize' = mUsablePagesSize + 1
      /\ usablePage' = IF mUsablePagesSize = 0 THEN p ELSE usablePage
      /\ UNCHANGED heap

\* Mutants: a page is deallocated although a cell of it is in use; one page too many is
\* kept.
SparePageEarly(p) == mUsablePagesSize > MAX_FREE_PAGES
SparePageLate(p) == /\ Len(freeCells[p]) + 1 = CELLS_SIZE_PER_PAGE
                    /\ mUsablePagesSize > MAX_FREE_PAGES + 1

\* Whether the cell that comes back makes its page one to deallocate.
SparePage(p) == /\ Len(freeCells[p]) + 1 = CELLS_SIZE_PER_PAGE
                /\ mUsablePagesSize > MAX_FREE_PAGES

ReclaimToPage(c) ==
  LET p == c[1]
  IN  /\ holders[c] > 0
      /\ freeCells[p] # << >>
      /\ ~SparePage(p)
      /\ holders' = [holders EXCEPT ![c] = @ - 1]
      /\ freeCells' = [freeCells EXCEPT ![p] = Append(@, c)]
      /\ UNCHANGED <<heap, links, usablePage, unUsablePage,
                     mUsablePagesSize, mUnUsablePagesSize>>

ReclaimAndFreePage(c) ==
  LET p == c[1]
  IN  /\ holders[c] > 0
      /\ freeCells[p] # << >>
      /\ SparePage(p)
      /\ holders' = [holders EXCEPT ![c] = @ - 1]
      /\ usablePage' = IF p = usablePage THEN links.next[p] ELSE usablePage
      /\ links' = LET l == Unlinked(links, p)
                  IN  [next |-> [l.next EXCEPT ![p] = NoPage],
                       prev |-> [l.prev EXCEPT ![p] = NoPage]]
      /\ mUsablePagesSize' = mUsablePagesSize - 1
      /\ freeCells' = [freeCells EXCEPT ![p] = << >>]
      /\ heap' = heap \ {p}
      /\ UNCHANGED <<unUsablePage, mUnUsablePagesSize>>

----------------------------------------------------------------------------
\* The pages that following next from p leads to: those in every set that holds p
\* and does not end along next.
NextStaysIn(pages) == \A q \in pages : links.next[q] \in pages

Ring(p) == {q \in heap : \A pages \in SUBSET heap :
                           p \in pages /\ NextStaysIn(pages) => q \in pages}

\* Clear() walks both rings and frees their pages.
Clear ==
  LET freed == (IF mUsablePagesSize > 0 THEN Ring(usablePage) ELSE {}) \cup
               (IF mUnUsablePagesSize > 0 THEN Ring(unUsablePage) ELSE {})
  IN  /\ heap' = heap \ freed
      /\ freeCells' = [p \in Page |-> IF p \in freed THEN << >> ELSE freeCells[p]]
      /\ links' = [next |-> [p \in Page |-> IF p \in freed THEN NoPage ELSE links.next[p]],
                   prev |-> [p \in Page |-> IF p \in freed THEN NoPage ELSE links.prev[p]]]
      /\ mUsablePagesSize' = 0 /\ mUnUsablePagesSize' = 0
      /\ holders' = [c \in Cell |-> 0]
      /\ UNCHANGED <<usablePage, unUsablePage>>

Allocate == \/ AllocateFromPage \/ AllocateLastOfPage \/ AllocateFails
            \/ \E p \in Page : AllocateNewPage(p)

Reclaim(c) == ReclaimToFullPage(c) \/ ReclaimToPage(c) \/ ReclaimAndFreePage(c)

Next == Allocate \/ (\E c \in Cell : Reclaim(c)) \/ Clear

Spec == Init /\ [][Next]_vars

\* With mallocs that fail half-way through a page, which Spec leaves out.
HalfPageSpec == Init /\ [][Next \/ \E p \in Page : AllocateWithoutCells(p)]_vars

----------------------------------------------------------------------------
Usable == {p \in heap : freeCells[p] # << >>}
Unusable == heap \ Usable

TypeOK ==
  /\ heap \subseteq Page /\ holders \in [Cell -> Nat]
  /\ freeCells \in [Page -> Seq(Cell)]
  /\ links \in [next : [Page -> Page \cup {NoPage}], prev : [Page -> Page \cup {NoPage}]]
  /\ usablePage \in Page \cup {NoPage} /\ unUsablePage \in Page \cup {NoPage}
  /\ mUsablePagesSize \in Nat /\ mUnUsablePagesSize \in Nat

\* A page's stack holds each of its cells at most once, and a cell is on
\* the stack or with one caller, never both and never neither; no page with a cell
\* in use is deallocated (Allocate and Reclaim in any order, pages coming and going).
CellsAccounted ==
  /\ \A p \in Page : IsInjective(freeCells[p])
  /\ \A c \in Cell : c[1] \in heap =>
       holders[c] = IF c \in Range(freeCells[c[1]]) THEN 0 ELSE 1
  /\ \A p \in Page : Range(freeCells[p]) \subseteq {c \in Cell : c[1] = p}
  /\ \A c \in Cell : holders[c] > 0 => c[1] \in heap

RingOf(pages, first, size) ==
  /\ size = Cardinality(pages)
  /\ size > 0 => first \in pages /\ Ring(first) = pages
  /\ \A p \in pages : links.next[p] \in pages /\ links.prev[links.next[p]] = p

\* Following next from usablePage visits exactly the pages with a free cell, from
\* unUsablePage exactly those without, prev undoes next, and both counts are
\* right, whatever pages have moved between the rings or were cut out of them:
\* so Allocate finds a cell and Clear leaves no page behind.
RingsExact ==
  /\ RingOf(Usable, usablePage, mUsablePagesSize)
  /\ RingOf(Unusable, unUsablePage, mUnUsablePagesSize)

SparePages == {p \in heap : Len(freeCells[p]) = CELLS_SIZE_PER_PAGE}

\* "After a certain point, just deallocate empty pages rather than keep them
\* around": pages without any cell in use never number more than MAX_FREE_PAGES.
SparePagesBounded == Cardinality(SparePages) <= MAX_FREE_PAGES

\* The assertions at the end of Allocate: while pages count as usable, the first
\* one has a cell.
AllocateFindsCell == mUsablePagesSize > 0 => freeCells[usablePage] # << >>

Pool == INSTANCE AbstractPool

\* Pages, rings and stacks are a pool: a cell is handed out to one user at a
\* time.
ImplementsPool == Pool!Spec
=============================================================================
