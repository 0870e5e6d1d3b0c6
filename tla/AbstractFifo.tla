---------------------------- MODULE AbstractFifo ----------------------------
(***************************************************************************)
(* What a queue between one producer and one consumer promises: messages   *)
(* 1, 2, 3, ... are received once each, whole, in the order they were sent. *)
(* The n-th message sent is the number n.                                  *)
(***************************************************************************)
EXTENDS Naturals, Sequences

VARIABLES sent,         \* how many messages were sent
          queue,        \* the messages in the queue, oldest first
          received      \* the messages received, in the order of arrival

vars == <<sent, queue, received>>

Init == sent = 0 /\ queue = << >> /\ received = << >>

Send == /\ sent' = sent + 1
        /\ queue' = Append(queue, sent + 1)
        /\ UNCHANGED received

Receive == /\ queue # << >>
           /\ received' = Append(received, Head(queue))
           /\ queue' = Tail(queue)
           /\ UNCHANGED sent

Next == Send \/ Receive

Spec == Init /\ [][Next]_vars
=============================================================================
