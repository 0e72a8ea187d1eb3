--------------------------- MODULE MCSocketServer ---------------------------
(* SocketServer with a stream socket of any kind first, then connections;  *)
(* the third may be a datagram socket in the slot of the first.            *)
EXTENDS SocketServer

MCKind == [id \in Id |-> IF id = 1 THEN {"O", "L", "B"}
                         ELSE IF id = 3 THEN {"O", "U"} ELSE {"O"}]
=============================================================================
