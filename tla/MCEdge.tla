------------------------------- MODULE MCEdge -------------------------------
(***************************************************************************)
(* A small instance of the server's edge: an outbox with two tasks pushing *)
(* small and oversized frames, and a login limiter with four addresses, two *)
(* of them of one /64, and room for two keys of three.  The two share      *)
(* nothing, so a behaviour is of one or the other.                         *)
(***************************************************************************)
EXTENDS Outbox, AuthLimit

VARIABLE part

MCAddressKey == [a \in Addresses |-> IF a > 1 THEN a - 1 ELSE 1]

Init == OutboxInit /\ AuthInit /\ part \in {"outbox", "auth"}

Next ==
    \/ part = "outbox" /\ OutboxNext /\ UNCHANGED <<part, authVars>>
    \/ part = "auth" /\ AuthNext /\ UNCHANGED <<part, outboxVars>>

EdgeSpec == Init /\ [][Next]_<<part, outboxVars, authVars>> /\ OutboxFairness
=============================================================================
