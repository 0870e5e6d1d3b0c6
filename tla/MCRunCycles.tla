---------------------------- MODULE MCRunCycles -----------------------------
(* How many datagram buffers (of each socket), packets and commands a run of *)
(* RunCycles has: the bound that replaces pools which grow without end.      *)
EXTENDS RunCycles

Pools212 == [recvParams |-> 2, packet |-> 1, command |-> 2]
Pools221 == [recvParams |-> 2, packet |-> 2, command |-> 1]
Pools223 == [recvParams |-> 2, packet |-> 2, command |-> 3]
Pools300 == [recvParams |-> 3, packet |-> 0, command |-> 0]
=============================================================================
