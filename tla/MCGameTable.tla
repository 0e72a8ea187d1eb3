---------------------------- MODULE MCGameTable ----------------------------
(* The table with named users: a1, a2 are connections of ann, b1 of bob.   *)
EXTENDS GameTable

CONSTANTS ann, bob, a1, a2, b1

MCUserOf == [c \in Conn |-> IF c = b1 THEN bob ELSE ann]
=============================================================================
