----------------------------- MODULE MCDispatch -----------------------------
(* Dispatch with two workers of different weights. *)
EXTENDS Dispatch

CONSTANTS w1, w2, h1, h2, h3, t1

MCWeight == [w \in Worker |-> IF w = w1 THEN -1 ELSE 0]
=============================================================================
