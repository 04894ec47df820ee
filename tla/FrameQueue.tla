----------------------------- MODULE FrameQueue -----------------------------
(***************************************************************************)
(* What a connection's outbox promises (the module documentation of        *)
(* src/dessplay-rendezvous/src/outbox.rs): frames accepted are delivered   *)
(* in order, once each, until the queue stops for good, and what waits is  *)
(* bounded: a frame joins a queue only if it is empty or within the limit. *)
(***************************************************************************)
EXTENDS Naturals, Sequences, Functions

CONSTANTS Frames, Len_(_), Limit

VARIABLES waiting, delivered, stopped

fqVars == <<waiting, delivered, stopped>>

Bytes(s) == SumFunction([i \in DOMAIN s |-> Len_(s[i])])

FqInit == waiting = <<>> /\ delivered = <<>> /\ stopped = FALSE

FqAccept(f) ==
    /\ ~stopped
    /\ waiting = <<>> \/ Bytes(waiting) + Len_(f) <= Limit
    /\ waiting' = Append(waiting, f)
    /\ UNCHANGED <<delivered, stopped>>

FqDeliver ==
    /\ ~stopped /\ waiting # <<>>
    /\ delivered' = Append(delivered, Head(waiting))
    /\ waiting' = Tail(waiting)
    /\ UNCHANGED stopped

FqStop ==
    /\ ~stopped
    /\ stopped' = TRUE
    /\ waiting' = <<>>
    /\ UNCHANGED delivered

FqNext == (\E f \in Frames : FqAccept(f)) \/ FqDeliver \/ FqStop

FqSpec == FqInit /\ [][FqNext]_fqVars
=============================================================================
