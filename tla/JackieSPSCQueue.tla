-------------------------- MODULE JackieSPSCQueue --------------------------
(***************************************************************************)
(* JackieSPSCQueue<elementType, nSize> (JackieSPSCQueue.h): one producer   *)
(* thread in PushTail, one consumer thread in PopHead, no lock.  The queue *)
(* is a ring of bytes with two unsigned cursors that count bytes and wrap  *)
(* at the width of unsigned int.  Both calls sample the other side's       *)
(* cursor, copy, and then publish their own; the barriers of the code keep *)
(* these steps in this order, and the bytes are copied one at a time.      *)
(***************************************************************************)
EXTENDS Integers, Sequences, FiniteSetsExt

CONSTANTS nSize,         \* template argument: elements the queue is made for
          ElementSize,   \* sizeof(elementType)
          CursorMod,     \* unsigned int wraps here: a power of 2
          MaxMessages    \* bound: messages the producer sends

ASSUME SizesAssumption == /\ nSize \in Nat \ {0}
                          /\ ElementSize \in Nat \ {0}
                          /\ MaxMessages \in Nat

\* No odd divisor but 1: what the bit trick n & (n - 1) of the code finds out.
IsPower2(n) == n > 0 /\ \A d \in 2 .. n : n % d = 0 => d % 2 = 0

RoundUpPower2(n) == Min({p \in n .. (2 * n) : IsPower2(p)})

\* m_nSize, the bytes allocated: what the constructor computes.  Where no rounding is
\* needed it stays the number of elements.
RingSize == IF IsPower2(nSize * ElementSize)
              THEN nSize
              ELSE RoundUpPower2(nSize * ElementSize)

ASSUME CursorAssumption == /\ CursorMod \in Nat /\ CursorMod > RingSize
                           /\ IsPower2(CursorMod)

VARIABLES m_nIn, m_nOut,    \* the cursors
          m_pBuffer,        \* the ring: what each byte holds
          pushAt, popAt,    \* where the producer and the consumer are
          pushLen, popLen,  \* m_len of PushTail and of PopHead
          pushed, popped,   \* bytes of this pass that memcpy has moved
          element,          \* the elementType PopHead fills in
          sent, received    \* messages PushTail and PopHead have finished

producer == <<m_nIn, pushAt, pushLen, pushed, sent>>
consumer == <<m_nOut, popAt, popLen, popped, element, received>>
vars == <<producer, consumer, m_pBuffer>>

Garbage == <<0, 0>>         \* a byte no message wrote
Torn == 0                   \* an element put together from several messages
Offsets == 0 .. (ElementSize - 1)

Wrap(n) == n % CursorMod
LessOf(a, b) == IF a < b THEN a ELSE b
Place(cursor, k) == (cursor + k) % RingSize

Init == /\ m_nIn = 0 /\ m_nOut = 0
        /\ m_pBuffer = [i \in 0 .. (RingSize - 1) |-> Garbage]
        /\ pushAt = "idle" /\ popAt = "idle"
        /\ pushLen = 0 /\ popLen = 0
        /\ pushed = 0 /\ popped = 0
        /\ element = [k \in Offsets |-> Garbage]
        /\ sent = 0 /\ received = << >>

----------------------------------------------------------------------------
\* PushTail

CallPush == /\ pushAt = "idle"
            /\ sent < MaxMessages
            /\ pushAt' = "sample"
            /\ pushLen' = 0
            /\ UNCHANGED <<m_nIn, pushed, sent, consumer, m_pBuffer>>

\* Mutants: the cursors compared as if they never wrapped; one byte too few.
RoomNoWrap == RingSize - m_nIn + m_nOut
RoomOneLess == Wrap(RingSize - m_nIn + m_nOut - 1)

Room == Wrap(RingSize - m_nIn + m_nOut)

\* m_len = min(m_ElementSize - m_len, m_nSize - m_nIn + m_nOut): with no room
\* the pass moves nothing and the loop spins.
SampleOut == /\ pushAt = "sample"
             /\ pushLen' = LessOf(ElementSize - pushLen, Room)
             /\ pushed' = 0
             /\ pushAt' = "copy"
             /\ UNCHANGED <<m_nIn, sent, consumer, m_pBuffer>>

\* Bytes up to the end of the ring come from the element; &buffer + l, where
\* the rest comes from, counts elements and not bytes, and lies beyond it.
SourceByte(k) == IF k < RingSize - Place(m_nIn, 0)
                   THEN <<sent + 1, k>> ELSE Garbage

CopyIn == /\ pushAt = "copy"
          /\ pushed < pushLen
          /\ m_pBuffer' = [m_pBuffer EXCEPT ![Place(m_nIn, pushed)] = SourceByte(pushed)]
          /\ pushed' = pushed + 1
          /\ UNCHANGED <<m_nIn, pushAt, pushLen, sent, consumer>>

PublishIn == /\ pushAt = "copy"
             /\ pushed = pushLen
             /\ m_nIn' = Wrap(m_nIn + pushLen)
             /\ IF pushLen < ElementSize
                  THEN pushAt' = "sample" /\ UNCHANGED sent
                  ELSE pushAt' = "idle" /\ sent' = sent + 1
             /\ UNCHANGED <<pushLen, pushed, consumer, m_pBuffer>>

PushTail == CallPush \/ SampleOut \/ CopyIn \/ PublishIn

----------------------------------------------------------------------------
\* PopHead

CallPop == /\ popAt = "idle"
           /\ popAt' = "sample"
           /\ popLen' = 0
           /\ UNCHANGED <<m_nOut, popped, element, received, producer, m_pBuffer>>

Filled == Wrap(m_nIn - m_nOut)

\* Mutant: a whole element is taken, however much of it is there.
SampleInUnchecked == /\ popAt = "sample"
                     /\ popLen' = ElementSize - popLen
                     /\ popped' = 0
                     /\ popAt' = "copy"
                     /\ UNCHANGED <<m_nOut, element, received, producer, m_pBuffer>>

\* Mutant: the last element in the ring is taken for none.
SampleInLeavesLast == /\ popAt = "sample"
                      /\ popLen' = IF Filled <= ElementSize THEN 0 ELSE ElementSize - popLen
                      /\ popped' = 0
                      /\ popAt' = "copy"
                      /\ UNCHANGED <<m_nOut, element, received, producer, m_pBuffer>>

SampleIn == /\ popAt = "sample"
            /\ popLen' = LessOf(ElementSize - popLen, Filled)
            /\ popped' = 0
            /\ popAt' = "copy"
            /\ UNCHANGED <<m_nOut, element, received, producer, m_pBuffer>>

\* &buffer + l lies beyond the caller's element: those bytes miss it.
CopyOut == /\ popAt = "copy"
           /\ popped < popLen
           /\ element' = IF popped < RingSize - Place(m_nOut, 0)
                           THEN [element EXCEPT ![popped] = m_pBuffer[Place(m_nOut, popped)]]
                           ELSE element
           /\ popped' = popped + 1
           /\ UNCHANGED <<m_nOut, popAt, popLen, received, producer, m_pBuffer>>

\* The message whose bytes these are, if they are the bytes of one message.
Decode(bytes) == LET m == bytes[0][1]
                 IN  IF \A k \in Offsets : bytes[k] = <<m, k>> THEN m ELSE Torn

PublishOut == /\ popAt = "copy"
              /\ popped = popLen
              /\ m_nOut' = Wrap(m_nOut + popLen)
              /\ IF popLen < ElementSize
                   THEN popAt' = "sample" /\ UNCHANGED received
                   ELSE popAt' = "idle" /\ received' = Append(received, Decode(element))
              /\ UNCHANGED <<popLen, popped, element, producer, m_pBuffer>>

PopHead == CallPop \/ SampleIn \/ CopyOut \/ PublishOut

Next == PushTail \/ PopHead

Spec == Init /\ [][Next]_vars

\* Each thread is scheduled; the producer has work, the consumer keeps polling.
FairSpec == Spec /\ WF_vars(PushTail) /\ WF_vars(PopHead)

----------------------------------------------------------------------------
Size == Filled \div ElementSize

TypeOK == /\ m_nIn \in 0 .. (CursorMod - 1) /\ m_nOut \in 0 .. (CursorMod - 1)
          /\ m_pBuffer \in [0 .. (RingSize - 1) ->
                             (1 .. MaxMessages) \X Offsets \cup {Garbage}]
          /\ pushAt \in {"idle", "sample", "copy"}
          /\ popAt \in {"idle", "sample", "copy"}
          /\ pushLen \in 0 .. ElementSize /\ popLen \in 0 .. ElementSize
          /\ pushed \in 0 .. ElementSize /\ popped \in 0 .. ElementSize
          /\ element \in [Offsets -> (1 .. MaxMessages) \X Offsets \cup {Garbage}]
          /\ sent \in 0 .. MaxMessages
          /\ received \in Seq(Nat)

\* The cursors are never further apart than the ring is long, also after either
\* has wrapped: the producer cannot lap the consumer.
NeverOverfull == Filled <= RingSize

\* A byte the producer is writing is never one the consumer still has to read:
\* the unlocked copies of the two threads do not meet in the ring.
NoOverlap == pushAt = "copy" /\ pushed < pushLen =>
                (Place(m_nIn, pushed) - Place(m_nOut, 0)) % RingSize >= Filled

\* The messages between the cursors, oldest first.
Queue == [i \in 1 .. Size |->
            Decode([k \in Offsets |-> m_pBuffer[Place(m_nOut, (i - 1) * ElementSize + k)]])]

Fifo == INSTANCE AbstractFifo WITH queue <- Queue

\* The byte ring is a FIFO of whole messages: none is lost, duplicated, torn or
\* overtaken, whatever the interleaving of the two threads' bytes.
ImplementsFifo == Fifo!Spec

\* Every message arrives although both calls wait by spinning.
AllDelivered == <>(Len(received) = MaxMessages)

\* The elements there is room for.  The queues of the application are for 128 pointers,
\* a power of 2 in bytes too: 128 bytes, 16 pointers.
Capacity == IF IsPower2(nSize * ElementSize) THEN nSize \div ElementSize ELSE nSize

\* PushTail never waits while one of these places is free: the sampled cursors never show
\* less room than there is, whatever both sides are in the middle of and after a wrap.
HoldsCapacity == pushAt = "sample" /\ Room = 0 => Size >= Capacity

\* What the constructor's "round up to the next power of 2" and the unit test that pushes
\* nSize elements first and pops them then expect.  Not so: see Capacity.
HoldsNSize == pushAt = "sample" /\ Room = 0 => Size >= nSize
============================================================================
