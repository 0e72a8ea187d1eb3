---------------------------- MODULE MessageFIFO ----------------------------
(***************************************************************************)
(* What a service's message queue promises to the threads that use it: an  *)
(* unbounded first-in first-out queue.  MessageQueue, the ring buffer of   *)
(* skynet-src/skynet_mq.c, is shown to implement this specification.       *)
(***************************************************************************)
EXTENDS Sequences

CONSTANTS
  Message,    \* what a service can be sent
  Nothing     \* the answer of a pop on an empty queue

VARIABLES
  fifo,       \* the messages accepted and not yet handed out, oldest first
  ret         \* what the last pop returned

vars == <<fifo, ret>>

Init ==
  /\ fifo = <<>>
  /\ ret = Nothing

Push(m) ==
  /\ fifo' = Append(fifo, m)
  /\ UNCHANGED ret

PopSome ==
  /\ fifo # <<>>
  /\ ret' = Head(fifo)
  /\ fifo' = Tail(fifo)

PopNone ==
  /\ fifo = <<>>
  /\ ret' = Nothing
  /\ UNCHANGED fifo

Next ==
  \/ \E m \in Message : Push(m)
  \/ PopSome
  \/ PopNone

Spec == Init /\ [][Next]_vars
=============================================================================
