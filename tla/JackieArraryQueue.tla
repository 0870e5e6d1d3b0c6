-------------------------- MODULE JackieArraryQueue --------------------------
(***************************************************************************)
(* JackieArraryQueue<queue_type, QUEUE_INIT_SIZE>: a queue in an array that *)
(* is used as a ring and doubled when it is full.  It holds the pending    *)
(* connection attempts and, in the single-threaded build, the commands,    *)
(* packets and received datagrams.  An operation is one step: its users    *)
(* run it alone or under a lock.                                           *)
(***************************************************************************)
EXTENDS Integers, Sequences

CONSTANTS Values,            \* elements
          Nothing,           \* no element; also an array cell never written
          QUEUE_INIT_SIZE,   \* cells of the first allocation
          MaxSize            \* bound: elements in the queue

ASSUME QueueAssumption == /\ QUEUE_INIT_SIZE \in Nat /\ QUEUE_INIT_SIZE >= 2
                          /\ MaxSize \in Nat
                          /\ Nothing \notin Values

VARIABLES head, tail,        \* cells of the first element and after the last
          allocation_size,   \* cells of queueArrary
          queueArrary,
          ele,               \* the element the last operation handed back
          underflow          \* history: PopDeref found the queue empty, and neither
                             \* Clear nor Resize has emptied it since

vars == <<head, tail, allocation_size, queueArrary, ele, underflow>>

Cells(n) == 0 .. (n - 1)

Init == /\ head = 0 /\ tail = 0
        /\ allocation_size = 0
        /\ queueArrary = [k \in Cells(0) |-> Nothing]
        /\ ele = Nothing
        /\ underflow = FALSE

Size == IF head <= tail THEN tail - head ELSE allocation_size - head + tail

\* Mutant: wraps one cell too late.
AfterTooLate(k) == IF k = allocation_size THEN 0 ELSE k + 1

\* The cell after k, and the cell of the element at a position.
After(k) == IF k + 1 = allocation_size THEN 0 ELSE k + 1
Cell(position) == IF head + position >= allocation_size
                    THEN head + position - allocation_size
                    ELSE head + position

\* Mutant: the new array is filled from the cell 0 on and not from the head.
PushedUnrolled(v) ==
  IF allocation_size = 0
    THEN [head |-> 0, tail |-> 1, size |-> QUEUE_INIT_SIZE,
          array |-> [k \in Cells(QUEUE_INIT_SIZE) |-> IF k = 0 THEN v ELSE Nothing]]
    ELSE LET stored == [queueArrary EXCEPT ![tail] = v]
         IN  IF After(tail) = head
               THEN [head |-> 0, tail |-> allocation_size, size |-> 2 * allocation_size,
                     array |-> [k \in Cells(2 * allocation_size) |->
                                  IF k < allocation_size THEN stored[k] ELSE Nothing]]
               ELSE [head |-> head, tail |-> After(tail), size |-> allocation_size,
                     array |-> stored]

\* What PushTail leaves, given to the operations that begin with it.
Pushed(v) ==
  IF allocation_size = 0
    THEN [head |-> 0, tail |-> 1, size |-> QUEUE_INIT_SIZE,
          array |-> [k \in Cells(QUEUE_INIT_SIZE) |-> IF k = 0 THEN v ELSE Nothing]]
    ELSE LET stored == [queueArrary EXCEPT ![tail] = v]
         IN  IF After(tail) = head
               THEN [head |-> 0, tail |-> allocation_size, size |-> 2 * allocation_size,
                     array |-> [k \in Cells(2 * allocation_size) |->
                                  IF k < allocation_size THEN stored[Cell(k)] ELSE Nothing]]
               ELSE [head |-> head, tail |-> After(tail), size |-> allocation_size,
                     array |-> stored]

PushTail(v) == /\ Size < MaxSize
               /\ LET q == Pushed(v)
                  IN  /\ head' = q.head
                      /\ tail' = q.tail
                      /\ allocation_size' = q.size
                      /\ queueArrary' = q.array
               /\ ele' = Nothing
               /\ UNCHANGED underflow

\* The cell at a position of the queue that PushTail left, and the position of a cell.
CellOf(q, position) == IF q.head + position >= q.size
                         THEN q.head + position - q.size ELSE q.head + position
PositionOf(q, k) == IF k >= q.head THEN k - q.head ELSE k + q.size - q.head

\* PushTail makes room at the end, the elements from index on move up by one.
InsertAtIndex(v, index) ==
  /\ Size < MaxSize
  /\ index <= Size
  /\ LET q == Pushed(v)
         Raised(k) == PositionOf(q, k) > index /\ PositionOf(q, k) <= Size
     IN  /\ head' = q.head
         /\ tail' = q.tail
         /\ allocation_size' = q.size
         /\ queueArrary' = [k \in Cells(q.size) |->
              IF k = CellOf(q, index) THEN v
              ELSE IF Raised(k) THEN q.array[CellOf(q, PositionOf(q, k) - 1)]
              ELSE q.array[k]]
  /\ ele' = Nothing
  /\ UNCHANGED underflow

PopHead == /\ head # tail
           /\ head' = After(head)
           /\ ele' = IF After(head) = 0 THEN queueArrary[allocation_size - 1]
                                        ELSE queueArrary[After(head) - 1]
           /\ UNCHANGED <<tail, allocation_size, queueArrary, underflow>>

PopTail == /\ head # tail
           /\ tail' = IF tail # 0 THEN tail - 1 ELSE allocation_size - 1
           /\ ele' = queueArrary[tail']
           /\ UNCHANGED <<head, allocation_size, queueArrary, underflow>>

\* PopHead that also wipes the cell, and that does not ask whether there is an element:
\* on an empty queue the head moves past the tail, the cell's old content is handed back
\* and the queue is full of what its cells held before.  (Without an array the program
\* ends: nothing follows.)
PopDeref == /\ allocation_size # 0
            /\ head = tail => allocation_size <= MaxSize + 1     \* bound: what becomes full
            /\ head' = After(head)
            /\ ele' = queueArrary[head]
            /\ queueArrary' = [queueArrary EXCEPT ![head] = Nothing]
            /\ underflow' = (underflow \/ head = tail)
            /\ UNCHANGED <<tail, allocation_size>>

\* The elements behind the removed one move down by one.
RemoveAtIndex(position) ==
  /\ head # tail /\ position < Size
  /\ queueArrary' = [k \in Cells(allocation_size) |->
       IF \E p \in position .. (Size - 2) : k = Cell(p)
         THEN queueArrary[After(k)] ELSE queueArrary[k]]
  /\ tail' = IF tail = 0 THEN allocation_size - 1 ELSE tail - 1
  /\ ele' = Nothing
  /\ UNCHANGED <<head, allocation_size, underflow>>

\* Frees the array only if it has grown.
Clear == /\ allocation_size # 0
         /\ IF allocation_size > QUEUE_INIT_SIZE
              THEN /\ allocation_size' = 0
                   /\ queueArrary' = [k \in Cells(0) |-> Nothing]
              ELSE UNCHANGED <<allocation_size, queueArrary>>
         /\ head' = 0 /\ tail' = 0
         /\ ele' = Nothing
         /\ underflow' = FALSE

\* A power of 2 has no odd divisor but 1.
IsPower2(n) == n > 0 /\ \A d \in 2 .. n : n % d = 0 => d % 2 = 0

\* What the loop that doubles 1 until it exceeds Size() stops at.
Fitting == CHOOSE n \in (Size + 1) .. (2 * Size + 1) : IsPower2(n)

Shrink2MiniSzie ==
  /\ allocation_size # 0
  /\ queueArrary' = [k \in Cells(Fitting) |->
                       IF k < Size THEN queueArrary[Cell(k)] ELSE Nothing]
  /\ head' = 0 /\ tail' = Size
  /\ allocation_size' = Fitting
  /\ ele' = Nothing
  /\ UNCHANGED underflow

\* A new array of the given size; the elements of the old one are not copied.
Resize(size) == /\ head' = 0 /\ tail' = 0
                /\ allocation_size' = size
                /\ queueArrary' = [k \in Cells(size) |-> Nothing]
                /\ ele' = Nothing
                /\ underflow' = FALSE

Next == \/ \E v \in Values : PushTail(v)
        \/ \E v \in Values, index \in 0 .. Size : InsertAtIndex(v, index)
        \/ PopHead \/ PopTail \/ PopDeref
        \/ \E position \in Cells(Size) : RemoveAtIndex(position)
        \/ \E size \in 0 .. MaxSize : Resize(size)
        \/ Clear \/ Shrink2MiniSzie

Spec == Init /\ [][Next]_vars

----------------------------------------------------------------------------
TypeOK == /\ allocation_size \in Nat
          /\ queueArrary \in [Cells(allocation_size) -> Values \cup {Nothing}]
          /\ head \in Nat /\ tail \in Nat
          /\ ele \in Values \cup {Nothing}
          /\ underflow \in BOOLEAN

\* What may be between head and tail: cells that were never written, or wiped, only
\* after PopDeref found the queue empty.
Stored == IF underflow THEN Values \cup {Nothing} ELSE Values

\* Both ends stay inside the array and one cell stays free, so that head = tail
\* says empty and never full, whatever PopDeref does; and as long as PopDeref has not
\* found the queue empty, no element is a cell that was not written or was wiped.
RingInBounds ==
  /\ allocation_size = 0 => head = 0 /\ tail = 0
  /\ allocation_size > 0 => head < allocation_size /\ tail < allocation_size
  /\ \A p \in Cells(Size) : queueArrary[Cell(p)] \in Stored

Contents == [i \in 1 .. Size |-> queueArrary[Cell(i - 1)]]

Queue == INSTANCE AbstractQueue WITH contents <- Contents

\* The ring is a sequence, across wrapping, doubling, shrinking and the shifts
\* of InsertAtIndex and RemoveAtIndex; the one step that is not the operation on a
\* sequence is PopDeref on an empty queue.
ImplementsQueue == Queue!Spec
=============================================================================
