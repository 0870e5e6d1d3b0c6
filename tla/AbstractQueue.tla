---------------------------- MODULE AbstractQueue ----------------------------
(***************************************************************************)
(* What the double-ended queue of JackieNet promises to its users: it is a *)
(* sequence, positions count from 0, and removing hands back the element.  *)
(* Who takes an element from the empty queue without asking is promised    *)
(* nothing about the elements that are in it from then on.                 *)
(***************************************************************************)
EXTENDS Integers, Sequences, SequencesExt

CONSTANTS Values, Nothing

VARIABLES contents,     \* the elements, head first
          ele,          \* the element the last operation handed back
          underflow     \* an element was taken that was not there

vars == <<contents, ele, underflow>>

Init == contents = << >> /\ ele = Nothing /\ underflow = FALSE

Push(v) == /\ contents' = Append(contents, v)
           /\ ele' = Nothing
           /\ UNCHANGED underflow

Insert(v, position) == /\ position \in 0 .. Len(contents)
                       /\ contents' = InsertAt(contents, position + 1, v)
                       /\ ele' = Nothing
                       /\ UNCHANGED underflow

PopFront == /\ contents # << >>
            /\ ele' = Head(contents)
            /\ contents' = Tail(contents)
            /\ UNCHANGED underflow

PopBack == /\ contents # << >>
           /\ ele' = Last(contents)
           /\ contents' = Front(contents)
           /\ UNCHANGED underflow

Delete(position) == /\ position + 1 \in DOMAIN contents
                    /\ contents' = RemoveAt(contents, position + 1)
                    /\ ele' = Nothing
                    /\ UNCHANGED underflow

\* Anything may be in the queue after that.
Underflow == /\ contents = << >>
             /\ contents' \in Seq(Values \cup {Nothing})
             /\ ele' \in Values \cup {Nothing}
             /\ underflow' = TRUE

Empty == contents' = << >> /\ ele' = Nothing /\ underflow' = FALSE

Keep == UNCHANGED <<contents, underflow>> /\ ele' = Nothing

Next == \/ \E v \in Values : Push(v)
        \/ \E v \in Values, position \in 0 .. Len(contents) : Insert(v, position)
        \/ PopFront \/ PopBack \/ Underflow
        \/ \E position \in 0 .. Len(contents) : Delete(position)
        \/ Empty \/ Keep

Spec == Init /\ [][Next]_vars
=============================================================================
