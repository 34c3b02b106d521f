----------------------------- MODULE MCThorServer -----------------------------
(* The session core with few connections.  Connections are interchangeable,  *)
(* so the safety runs identify states that differ by a permutation of them.  *)
EXTENDS ThorServer

Symmetry == Permutations(Clients)

===============================================================================
