------------------------ MODULE MCJackieMemoryPool ------------------------
(* The pages are interchangeable: no definition of JackieMemoryPool prefers  *)
(* an address, and all properties checked with it are safety properties.     *)
EXTENDS JackieMemoryPool, TLC

PageSymmetry == Permutations(Page)
=============================================================================
