---------------------------- MODULE SyncTheorems ------------------------------
(***************************************************************************)
(* The theorems about StateSync, for any number of clients, connections,   *)
(* keys and environment actions: what the inductive invariants of the      *)
(* modules below say of every run.                                         *)
(***************************************************************************)
EXTENDS WriteProofs, HandshakeProofs, FiniteSetTheorems

\* Time, and a second attempt, for the SMT solver on a slow machine.
USE SMTT(60), Z3T(60)

(* compact::rebuild numbers what it keeps of each map 1, 2, ...: with        *)
(* finitely many keys these are naturals, and none is above the number kept. *)
LEMMA RankBounds == Ranked
<1>1. ASSUME NEW S, S \subseteq Keys
      PROVE  PlacesCounted(S)
  <2>1. IsFiniteSet(S)
    <3>1. S \in SUBSET Keys /\ IsFiniteSet(Keys)
      BY <1>1, KeysAssumption
    <3> QED
      BY <3>1, FS_Subset, Zenon
  <2>2. ASSUME NEW k
        PROVE  Rank(S, k) \in Nat /\ Rank(S, k) <= Cardinality(S)
    <3>1. {j \in S : j <= k} \subseteq S
      OBVIOUS
    <3>2. IsFiniteSet({j \in S : j <= k})
      BY <2>1, <3>1, FS_Subset
    <3> QED
      BY <2>1, <3>1, <3>2, FS_Subset, FS_CardinalityType DEF Rank
  <2> QED
    BY <2>1, <2>2, FS_CardinalityType DEF PlacesCounted
<1>2. \A s : KeptFlags(s) \subseteq Keys /\ KeptPositions(s) \subseteq Keys
  BY DEF KeptFlags, KeptPositions, Keys
<1> QED
  BY <1>1, <1>2 DEF Ranked

(* Type correctness: on every run of the system, for any number of clients,  *)
(* connections and failures, every variable holds a value of its type.       *)
THEOREM TypeCorrect == Spec => []TypeOK
<1>1. TypeInv /\ [Next]_vars => TypeInv'
  BY RankBounds, NextType, Zenon
<1>2. TypeInv => TypeOK
  BY DEF TypeInv
<1> QED
  BY <1>1, <1>2, InitType, PTL DEF Spec

(* The Lamport floor holds on every run: last_issued, on the server and on  *)
(* every client, is at least every timestamp in the state held there and in *)
(* the ops waiting to be replayed into it.                                  *)
THEOREM FloorHolds == Spec => []LamportFloor
<1>1. TypeInv /\ Floors /\ [Next]_vars => TypeInv' /\ Floors'
  BY RankBounds, NextType, NextFloors, Zenon
<1>2. Floors => LamportFloor
  BY ZenonT(60) DEF Floors, ClientBelow, LamportFloor
<1> QED
  BY <1>1, <1>2, InitType, InitFloors, PTL DEF Spec

(* A user's own write shows on every run: right after SyncActor::mutate it  *)
(* is the winner in the client's replica.                                   *)
THEOREM OwnWritesShow == Spec => OwnWriteShows
<1>1. TypeInv /\ Floors /\ [Next]_vars => TypeInv' /\ Floors'
  BY RankBounds, NextType, NextFloors, Zenon
<1>2. TypeInv /\ Floors /\ [Next]_vars
        => [\A c \in Clients, e \in issued' \ issued :
              e.by = c =>
                IF e.op.key = Reg THEN cl'[c].state.reg = e.op.lww
                ELSE cl'[c].state.entries[e.op.key].cell = e.op.lww]_vars
  BY OwnWriteHeld, ZenonT(60)
<1> QED
  BY <1>1, <1>2, InitType, InitFloors, PTL DEF Spec, OwnWriteShows

(* As long as the server does not restart, the hub knows most, for any       *)
(* number of clients, keys, connections and writes: at the server's epoch a  *)
(* client has applied no dot of another session that the server has not.  A  *)
(* restart from an older snapshot takes the server back.                     *)
THEOREM HubKnowsMostHolds == Spec => [](Crashless => HubKnowsMost)
<1>1. HubInv => (Crashless => HubKnowsMost)
  BY KnowsMost, Zenon
<1>2. HubInv /\ [Next]_vars => HubInv'
  BY RankBounds, HubKept, Zenon
<1> QED
  BY <1>1, <1>2, HubInit, PTL DEF Spec

(* No client has the same op twice on its control stream, for any number of  *)
(* clients, connections, writes and datagrams and through compactions and    *)
(* restarts: of the two copies of an eager op only one is fanned out.        *)
THEOREM FannedOutOnceHolds == Spec => []FannedOutOnce
<1>1. HubInv /\ FanOut /\ [Next]_vars => HubInv' /\ FanOut'
  BY RankBounds, HubKept, FanOutKept, Zenon
<1>2. FanOut => FannedOutOnce
  BY Zenon DEF FanOut
<1> QED
  BY <1>1, <1>2, HubInit, FanOutInit, PTL DEF Spec

(* No masked gap, for any number of clients, connections and writes: an op   *)
(* served off a control stream, of any kind but a position, or off a         *)
(* datagram, of any kind, moves its origin's dot clock on the server by one  *)
(* at most.                                                                  *)
THEOREM ServedInSequenceHolds == Spec => ServedInSequence
<1>1. HubInv /\ InSequence /\ [Next]_vars => HubInv' /\ InSequence'
  BY RankBounds, HubKept, InSequenceKept, Zenon
<1>2. HubInv /\ InSequence /\ [Next]_vars =>
        [\A k \in Conns :
            \/ ServeStateOp(k) /\ Head(up[k]).op.key \notin Positions
            \/ ServeDatagram(k)
              => \A a \in Actors : sState'.clock[a] <= sState.clock[a] + 1]_vars
  BY ServedByOne, Zenon
<1> QED
  BY <1>1, <1>2, HubInit, InSequenceInit, PTL DEF Spec, ServedInSequence

(* Stale positions never queue, for any number of clients, connections,      *)
(* sessions and writes: what a client sends as a datagram only is on no      *)
(* control stream, towards the server or from it.                            *)
THEOREM PositionsNeverQueueHolds == Spec => []PositionsNeverQueue
<1>1. HubInv /\ Authored /\ Streams /\ [Next]_vars => HubInv' /\ Authored' /\ Streams'
  BY RankBounds, HubKept, PositionsKept, Zenon
<1>2. HubInv /\ Authored /\ Streams => PositionsNeverQueue
  BY NeverQueued, Zenon DEF HubInv
<1> QED
  BY <1>1, <1>2, HubInit, PositionsInit, PTL DEF Spec

(* NoWedge: nobody is left waiting, or behind, on a connection where nothing *)
(* is under way, wherever compactions, drops and server restarts fall in     *)
(* the handshake of the sync actor with serve_authed.                        *)
THEOREM NoWedgeHolds == Spec => []NoWedge
<1>1. HubInv /\ InSequence /\ Handshake /\ [Next]_vars => HubInv' /\ InSequence' /\ Handshake'
  BY RankBounds, HubKept, InSequenceKept, HandshakeKept, Zenon
<1>2. HubInv /\ Handshake => NoWedge
  BY Unwedged, Zenon
<1> QED
  BY <1>1, <1>2, HubInit, InSequenceInit, HandshakeInit, PTL DEF Spec
=============================================================================
