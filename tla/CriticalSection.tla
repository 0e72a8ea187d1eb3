-------------------------- MODULE CriticalSection --------------------------
(***************************************************************************)
(* What lualib/skynet/queue.lua promises to the coroutines of one service: *)
(* a critical section that its holder may enter again, and that is free    *)
(* again once the holder has left it as often, by a return or by an error. *)
(***************************************************************************)
EXTENDS Naturals

CONSTANT Co         \* the coroutines

VARIABLE inside     \* how deep each coroutine is in the section

Init == inside = [c \in Co |-> 0]

Enter(c) ==
  /\ \A d \in Co \ {c} : inside[d] = 0
  /\ inside' = [inside EXCEPT ![c] = @ + 1]

Leave(c) ==
  /\ inside[c] > 0
  /\ inside' = [inside EXCEPT ![c] = @ - 1]

\* An error unwinds every level.
Fail(c) ==
  /\ inside[c] > 0
  /\ inside' = [inside EXCEPT ![c] = 0]

Next == \E c \in Co : Enter(c) \/ Leave(c) \/ Fail(c)

Spec == Init /\ [][Next]_inside
=============================================================================
