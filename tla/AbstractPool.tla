---------------------------- MODULE AbstractPool -----------------------------
(***************************************************************************)
(* What the memory pool of JackieNet promises to its users: a cell it      *)
(* hands out is nobody else's until it is given back.                      *)
(***************************************************************************)
EXTENDS Naturals

CONSTANT Cell

VARIABLE holders      \* holders[c]: how many users hold the cell c

Nobody == [c \in Cell |-> 0]

Init == holders = Nobody

Take(c) == holders[c] = 0 /\ holders' = [holders EXCEPT ![c] = 1]

GiveBack(c) == holders[c] = 1 /\ holders' = [holders EXCEPT ![c] = 0]

\* The pool is cleared: what users held is gone.
Forget == holders' = Nobody

Next == (\E c \in Cell : Take(c) \/ GiveBack(c)) \/ Forget

Spec == Init /\ [][Next]_holders
=============================================================================
