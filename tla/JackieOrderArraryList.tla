----------------------- MODULE JackieOrderArraryList -----------------------
(***************************************************************************)
(* JackieOrderArraryList<key_type, data_type>: an array list kept in the   *)
(* order of its keys, on which JakieOrderArrayListMap is built.  Every     *)
(* operation is a call of GetIndexFromKey and what is done with its answer;*)
(* each comparison of the binary search is a step, since whether they end  *)
(* is the question.  An element stands for its key.                        *)
(***************************************************************************)
EXTENDS Integers, Sequences, SequencesExt

CONSTANTS Key,       \* a set of integers
          MaxSize    \* bound: no element is inserted beyond it

Operations == {"Exists", "Insert", "Remove", "RemoveIfExists"}

NoCall == [operation |-> "none", key |-> 0]

VARIABLES orderedList, call,
          index, lowerBound, upperBound    \* positions, counted from 0 as in the code

vars == <<orderedList, call, index, lowerBound, upperBound>>

Init == /\ orderedList = << >> /\ call = NoCall
        /\ index = 0 /\ lowerBound = 0 /\ upperBound = 0

Searching == call # NoCall

Element(i) == orderedList[i + 1]

\* What the caller does with a key that is not there, i being where it should go:
\* Remove asserts that it is there, the others leave the list alone.
Absent(operation, key, i) ==
  /\ operation # "Remove"
  /\ orderedList' = IF operation = "Insert" THEN InsertAt(orderedList, i + 1, key)
                                            ELSE orderedList

\* With a key that is there: a duplicate is not inserted.
Present(operation, i) ==
  orderedList' = IF operation \in {"Remove", "RemoveIfExists"}
                   THEN RemoveAt(orderedList, i + 1) ELSE orderedList

Return == call' = NoCall /\ index' = 0 /\ lowerBound' = 0 /\ upperBound' = 0

\* An empty list is not searched.
CallOnEmpty(operation, key) ==
  /\ ~Searching /\ orderedList = << >>
  /\ Absent(operation, key, 0)
  /\ UNCHANGED <<call, index, lowerBound, upperBound>>

Call(operation, key) ==
  /\ ~Searching /\ orderedList # << >>
  /\ operation = "Insert" => Len(orderedList) < MaxSize
  /\ operation = "Remove" => Contains(orderedList, key)
  /\ call' = [operation |-> operation, key |-> key]
  /\ index' = Len(orderedList) \div 2
  /\ lowerBound' = 0 /\ upperBound' = Len(orderedList) - 1
  /\ UNCHANGED orderedList

\* lowerBound + (upperBound - lowerBound) >> 1, in which + binds before >>.
Middle(lower, upper) == (lower + (upper - lower)) \div 2

\* The bounds after a comparison that found no match: a search goes on, or has ended.
Narrow(lower, upper) ==
  \/ /\ lower <= upper
     /\ lowerBound' = lower /\ upperBound' = upper
     /\ index' = Middle(lower, upper)
     /\ UNCHANGED <<orderedList, call>>
  \/ /\ lower > upper
     /\ Absent(call.operation, call.key, lower)
     /\ Return

KeyIsGreater == Searching /\ call.key > Element(index) /\ Narrow(index + 1, upperBound)

KeyIsSmaller == Searching /\ call.key < Element(index) /\ Narrow(lowerBound, index - 1)

KeyIsEqual == /\ Searching /\ call.key = Element(index)
              /\ Present(call.operation, index)
              /\ Return

GetIndexFromKey == KeyIsGreater \/ KeyIsSmaller \/ KeyIsEqual

Next == \/ \E o \in Operations, k \in Key : CallOnEmpty(o, k) \/ Call(o, k)
        \/ GetIndexFromKey

Spec == Init /\ [][Next]_vars

\* The thread that searches runs.
FairSpec == Spec /\ WF_vars(GetIndexFromKey)

----------------------------------------------------------------------------
\* "GetIndexFromKey returns where the insert should go at the same time checks
\* if it is there": every search, of a key that is there or not, comes to an end.
SearchReturns == Searching ~> ~Searching
=============================================================================
