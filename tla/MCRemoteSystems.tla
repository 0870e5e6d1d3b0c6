--------------------------- MODULE MCRemoteSystems ---------------------------
(* Three addresses of two machines, two of which collide in the hash table.  *)
EXTENDS RemoteSystems

CONSTANTS a1, a2, a3

MCBucket == (a1 :> 0) @@ (a2 :> 0) @@ (a3 :> 1)
MCIp == (a1 :> 1) @@ (a2 :> 1) @@ (a3 :> 2)
==============================================================================
