----------------------------- MODULE MCGateway -----------------------------
(* Model values for TLC.  Connections are interchangeable until they are   *)
(* told apart by their state, so the safety runs use symmetry.             *)
EXTENDS Gateway

CONSTANTS c1, c2, c3, c4, p1, p2

Symmetry == Permutations(Conns) \cup Permutations(Ips)
=============================================================================
