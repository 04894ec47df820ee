-------------------------- MODULE HandshakeProofs -----------------------------
(***************************************************************************)
(* Lemmas about the conversation on one connection of StateSync: the ops a *)
(* client sends arrive in the order of its dots (InSequence), and the      *)
(* handshake always has its next message on the way (Handshake).           *)
(***************************************************************************)
EXTENDS StateSyncProofs

\* Time, and a second attempt, for the SMT solver on a slow machine.
USE SMTT(60), Z3T(60)

-----------------------------------------------------------------------------
(* What a client says and hears. *)

(* What is in a queue with something in front is the head or behind it. *)
LEMMA ElemsSplit ==
    ASSUME NEW M, NEW q \in Seq(M), q # <<>>
    PROVE  \A x \in Elems(q) : x = Head(q) \/ x \in Elems(Tail(q))
<1>1. /\ Tail(q) \in Seq(M) /\ Len(Tail(q)) = Len(q) - 1 /\ Len(q) \in Nat
      /\ \A i \in 1..Len(Tail(q)) : Tail(q)[i] = q[i + 1]
      /\ Head(q) = q[1]
  OBVIOUS
<1>2. ASSUME NEW i \in 1..Len(q), i # 1
      PROVE  i - 1 \in 1..Len(Tail(q)) /\ Tail(q)[i - 1] = q[i]
  BY <1>1, <1>2
<1> QED
  BY <1>1, <1>2 DEF Elems

(* Only a client that has just been greeted reports what it holds. *)
LEMMA SaysStatus ==
    ASSUME NEW c \in Clients, NEW m, Says(c, m), m.type = "SyncStatus"
    PROVE  Connected(c)
<1>1. \A e, op : StateOp(e, op).type # "SyncStatus"
  BY Zenon DEF StateOp
<1> QED
  BY <1>1, Zenon DEF Says

(* One client's send. *)
LEMMA SaidOne ==
    ASSUME TypeInv, TypeInv', NEW c \in Clients, cl[c].conn \in Conns, NEW m, Says(c, m),
           up' = Send(up, cl[c].conn, m), NEW k \in Conns
    PROVE  UpStep(k)
<1>1. up \in [Conns -> Seq(ClientMsg)] /\ up' \in [Conns -> Seq(ClientMsg)]
  BY Zenon DEF TypeInv, TypeOK
<1>2. up'[k] = IF k = cl[c].conn THEN Append(up[k], m) ELSE up[k]
  BY <1>1, Zenon DEF Send
<1>3. CASE k = cl[c].conn
  <2>1. Append(up[k], m) \in Seq(ClientMsg) /\ up[k] \in Seq(ClientMsg)
    BY <1>1, <1>2, <1>3, Zenon
  <2>2. m \in ClientMsg
    <3>1. Append(up[k], m)[Len(up[k]) + 1] = m /\ Len(up[k]) + 1 \in 1..Len(Append(up[k], m))
      BY <2>1
    <3> QED
      BY <2>1, <3>1
  <2> QED
    BY <1>2, <1>3, <2>2, Zenon DEF UpStep
<1> QED
  BY <1>2, <1>3, Zenon DEF UpStep

(* Every step is one of these for every control stream. *)
LEMMA UpSteps ==
    ASSUME TypeInv, TypeInv', Next, NEW k \in Conns
    PROVE  UpStep(k)
<1>t. up \in [Conns -> Seq(ClientMsg)] /\ cl \in [Clients -> Client]
  BY Zenon DEF TypeInv, TypeOK
<1>l. \A c \in Clients : cl[c].link # "Down" => cl[c].conn \in Conns
  <2>1. \A c \in Clients : cl[c].conn \in Conns \cup {0}
    BY <1>t, Zenon DEF Client
  <2> QED
    BY <2>1, Zenon DEF TypeInv, LinkedHasConn
<1>1. ASSUME NEW c \in Clients, ClientNext(c)
      PROVE  UpStep(k)
  <2>1. CASE MutateMap(c) \/ MutateReg(c) \/ MutatePosition(c)
    <3>1. PICK op \in Op, b \in BOOLEAN : Writing(c, op, b)
      BY <2>1, WrittenOp, Zenon
    <3>2. CASE cl[c].link = "Synced" /\ b
      <4>1. up' = Send(up, cl[c].conn, StateOp(cl[c].epoch, op))
        BY <3>1, <3>2, ZenonT(60) DEF Writing, Mutate
      <4>2. Says(c, StateOp(cl[c].epoch, op))
        BY <3>1, <3>2, Zenon DEF Says
      <4>3. cl[c].conn \in Conns
        BY <1>l, <3>2, Zenon
      <4> QED
        BY <4>1, <4>2, <4>3, SaidOne, Zenon
    <3>3. CASE ~(cl[c].link = "Synced" /\ b)
      BY <3>1, <3>3, ZenonT(60) DEF Writing, Mutate, UpStep
    <3> QED
      BY <3>2, <3>3, Zenon
  <2>2. CASE AskMarkWatched(c)
    <3>1. PICK key \in Flags, v \in Values : up' = Send(up, cl[c].conn, [type |-> "MarkWatched", key |-> key, val |-> v])
      BY <2>2, ZenonT(60) DEF AskMarkWatched
    <3>2. cl[c].conn \in Conns
      BY <1>l, <2>2, Zenon DEF AskMarkWatched
    <3>3. Says(c, [type |-> "MarkWatched", key |-> key, val |-> v])
      BY Zenon DEF Says
    <3> QED
      BY <3>1, <3>2, <3>3, SaidOne, Zenon
  <2>3. CASE Connected(c)
    <3> DEFINE m == [type |-> "SyncStatus", epoch |-> cl[c].epoch, hash |-> View(cl[c].state)]
    <3>1. up' = Send(up, cl[c].conn, m)
      BY <2>3, ZenonT(60) DEF Connected
    <3>2. cl[c].conn \in Conns
      <4>1. cl[c].conn # 0
        BY <2>3, Zenon DEF Connected, Receives
      <4> QED
        BY <1>t, <4>1, Zenon DEF Client
    <3>3. m.type = "SyncStatus"
      BY Zenon
    <3>4. Says(c, m)
      BY <2>3, <3>3, Zenon DEF Says
    <3> QED
      BY <3>1, <3>2, <3>4, SaidOne, Zenon
  <2>4. CASE RecvStateHash(c)
    <3>1. up' = up \/ up' = Send(up, cl[c].conn, [type |-> "RequestMerge"])
      BY <2>4, ZenonT(60) DEF RecvStateHash
    <3>2. cl[c].conn \in Conns
      <4>1. cl[c].conn # 0
        BY <2>4, Zenon DEF RecvStateHash, Receives
      <4> QED
        BY <1>t, <4>1, Zenon DEF Client
    <3>3. Says(c, [type |-> "RequestMerge"])
      BY Zenon DEF Says
    <3>4. CASE up' = up
      BY <3>4, Zenon DEF UpStep
    <3> QED
      BY <3>1, <3>2, <3>3, <3>4, SaidOne, Zenon
  <2>5. CASE PushMerge(c)
    <3> DEFINE m == [type |-> "StateMerge", epoch |-> cl[c].epoch, state |-> cl[c].state]
    <3>1. up' = Send(up, cl[c].conn, m)
      BY <2>5, ZenonT(60) DEF PushMerge
    <3>2. cl[c].conn \in Conns
      BY <1>l, <2>5, Zenon DEF PushMerge
    <3>3. m.type = "StateMerge" /\ m.epoch = cl[c].epoch /\ m.state = cl[c].state
      BY Zenon
    <3>4. Says(c, m)
      BY <2>5, <3>3, Zenon DEF Says
    <3> QED
      BY <3>1, <3>2, <3>4, SaidOne, Zenon
  <2>6. CASE Accept(c) \/ Disconnected(c) \/ RecvStateOp(c) \/ RecvStateMerge(c) \/ RecvStateSnapshot(c)
             \/ RecvDatagram(c) \/ Replay(c) \/ ReplayPosition(c) \/ FlushClient(c) \/ RestartClient(c)
    <3>1. up' = up
      BY <2>6, ZenonT(60) DEF Accept, Disconnected, RecvStateOp, RecvStateMerge, RecvStateSnapshot,
           RecvDatagram, Replay, ReplayPosition, FlushClient, RestartClient, netVars
    <3> QED
      BY <3>1, Zenon DEF UpStep
  <2> QED
    BY <1>1, <2>1, <2>2, <2>3, <2>4, <2>5, <2>6, Zenon DEF ClientNext, ClientReceives
<1>2. ASSUME NEW j \in Conns, ServeReliable(j)
      PROVE  UpStep(k)
  <2>1. PICK type : Serves(j, type)
    BY <1>2, ZenonT(60) DEF ServeReliable, ServeStateOp, ServeSyncStatus, ServeRequestMerge, ServeStateMerge,
         ServeMarkWatched
  <2>2. up[j] # <<>> /\ up'[k] = IF k = j THEN Tail(up[k]) ELSE up[k]
    BY <2>1, ServedHead, Zenon
  <2>3. CASE k = j
    BY <1>2, <2>2, <2>3, Zenon DEF UpStep
  <2> QED
    BY <2>2, <2>3, Zenon DEF UpStep
<1>3. ASSUME NEW j \in Conns, EndConnection(j)
      PROVE  UpStep(k)
  <2>1. /\ up' = [up EXCEPT ![j] = <<>>]
        /\ conns' = [conns EXCEPT ![j].open = FALSE]
    BY <1>3, ZenonT(60) DEF EndConnection
  <2>2. CASE k = j
    <3>1. up'[k] = <<>>
      BY <1>t, <2>1, <2>2, Zenon
    <3>2. ~conns'[k].open
      BY <2>1, <2>2, Zenon DEF TypeInv, TypeOK, Connection
    <3> QED
      BY <3>1, <3>2, Zenon DEF UpStep
  <2>3. CASE k # j
    BY <1>t, <2>1, <2>3, Zenon DEF UpStep
  <2> QED
    BY <2>2, <2>3, Zenon
<1>4. ASSUME NEW j \in Conns, ServeDatagram(j)
      PROVE  UpStep(k)
  BY <1>4, ZenonT(60) DEF ServeDatagram, UpStep
<1>5. ASSUME NEW t \in Tasks, TaskNext(t)
      PROVE  UpStep(k)
  <2>1. up' = up
    BY <1>5, ZenonT(60) DEF TaskNext, TaskSend, TaskBroadcast, TaskRelay, TaskSnapshot, TaskPause, TaskFlush, netVars
  <2> QED
    BY <2>1, Zenon DEF UpStep
<1>6. CASE Compact \/ HashTick \/ ForcePause \/ FlushServer
  <2>1. up' = up
    BY <1>6, ZenonT(60) DEF Compact, HashTick, ForcePause, FlushServer, netVars
  <2> QED
    BY <2>1, Zenon DEF UpStep
<1>7. CASE RestartServer
  <2>1. up' = [j \in Conns |-> <<>>] /\ conns' = [j \in Conns |-> [conns[j] EXCEPT !.open = FALSE]]
    BY <1>7, ZenonT(60) DEF RestartServer
  <2>2. ~conns'[k].open
    BY <2>1, Zenon DEF TypeInv, TypeOK, Connection
  <2> QED
    BY <2>1, <2>2, Zenon DEF UpStep
<1> QED
  BY <1>1, <1>2, <1>3, <1>4, <1>5, <1>6, <1>7, Zenon DEF Next

(* Receiving a state: it is taken, unless it would go back in epochs. *)
LEMMA SyncReceived ==
    ASSUME TypeInv, NEW c \in Clients, RecvStateMerge(c) \/ RecvStateSnapshot(c)
    PROVE  \/ cl' = cl /\ Frame(c).epoch < cl[c].epoch /\ cl[c].link # "AwaitingSync"
           \/ Lands(c)
<1>t. cl[c].epoch \in Nat
  BY ClientFields, Zenon DEF TypeInv
<1>1. PICK type \in {"StateMerge", "StateSnapshot"} : Receives(c, type)
  BY ZenonT(60) DEF RecvStateMerge, RecvStateSnapshot
<1>2. Frame(c) \in Elems(down[cl[c].conn]) /\ Frame(c) \in ServerMsg /\ Frame(c).type = type
  BY <1>1, FrameIn, Zenon
<1>3. IsSync(Frame(c)) /\ Frame(c).epoch \in Nat
  BY <1>2, ServerMsgFields, Zenon DEF IsSync
<1>4. cl[c].link # "Replaying"
  BY <1>1, Zenon DEF Receives
<1>5. ASSUME NEW e, NEW st, Hold(c, e, st), e = Frame(c).epoch,
             Frame(c).epoch < cl[c].epoch => cl[c].link = "AwaitingSync",
             st = Frame(c).state \/ (Frame(c).epoch = cl[c].epoch /\ st = Merge(cl[c].state, Frame(c).state))
      PROVE  Lands(c)
  <2>1. cl'[c].link = Landed(cl[c].link) /\ cl'[c].epoch = e /\ cl'[c].state = st
    BY <1>5, HoldFrame, Zenon
  <2> QED
    BY <1>2, <1>3, <1>4, <1>5, <2>1, Zenon DEF Lands
<1>6. CASE RecvStateMerge(c)
  <2>1. \/ Frame(c).epoch = cl[c].epoch /\ Hold(c, cl[c].epoch, Merge(cl[c].state, Frame(c).state))
        \/ /\ Frame(c).epoch > cl[c].epoch \/ (Frame(c).epoch < cl[c].epoch /\ cl[c].link = "AwaitingSync")
           /\ Hold(c, Frame(c).epoch, Frame(c).state)
        \/ Frame(c).epoch < cl[c].epoch /\ cl[c].link # "AwaitingSync" /\ cl' = cl
    BY <1>6, ZenonT(60) DEF RecvStateMerge
  <2>2. (Frame(c).epoch = cl[c].epoch \/ Frame(c).epoch > cl[c].epoch) => ~(Frame(c).epoch < cl[c].epoch)
    BY <1>3, <1>t
  <2> QED
    BY <1>5, <2>1, <2>2, ZenonT(60)
<1>7. CASE RecvStateSnapshot(c)
  <2>1. \/ /\ Frame(c).epoch < cl[c].epoch => cl[c].link = "AwaitingSync"
           /\ Hold(c, Frame(c).epoch, Frame(c).state)
        \/ Frame(c).epoch < cl[c].epoch /\ cl[c].link # "AwaitingSync" /\ cl' = cl
    BY <1>7, ZenonT(60) DEF RecvStateSnapshot
  <2> QED
    BY <1>5, <2>1, Zenon
<1> QED
  BY <1>6, <1>7, Zenon

(* An op received. *)
LEMMA OpReceived ==
    ASSUME TypeInv, NEW c \in Clients, RecvStateOp(c) \/ RecvDatagram(c)
    PROVE  Idles(c) \/ HearsOp(c)
<1>1. CASE RecvStateOp(c)
  <2>1. Receives(c, "StateOp")
        /\ cl' = [cl EXCEPT ![c] = Remote(cl[c], Frame(c).epoch, Apply(cl[c].state, Frame(c).op), Frame(c).op)]
    BY <1>1, Zenon DEF RecvStateOp
  <2>2. /\ cl'[c].epoch = cl[c].epoch /\ cl'[c].link = cl[c].link
        /\ cl'[c].state = IF Frame(c).epoch = cl[c].epoch THEN Apply(cl[c].state, Frame(c).op) ELSE cl[c].state
    <3>1. cl[c] \in Client
      BY ClientFields, Zenon DEF TypeInv
    <3>2. cl'[c] = Remote(cl[c], Frame(c).epoch, Apply(cl[c].state, Frame(c).op), Frame(c).op)
      BY <2>1, ReplaceFrame, Zenon
    <3> QED
      BY <3>1, <3>2, RemoteFields
  <2>3. Frame(c) \in Elems(down[cl[c].conn]) /\ Frame(c).type = "StateOp" /\ Frame(c) \in ServerMsg
    BY <2>1, FrameIn, Zenon
  <2>4. Frame(c).op \in Op /\ Frame(c) = StateOp(Frame(c).epoch, Frame(c).op)
    BY <2>3, Zenon DEF ServerMsg, StateOp
  <2>5. CASE Frame(c).epoch = cl[c].epoch
    BY <2>2, <2>3, <2>4, <2>5, Zenon DEF HearsOp
  <2> QED
    BY <2>2, <2>5, Zenon DEF Idles
<1>2. CASE RecvDatagram(c)
  <2>1. PICK d \in dgrams :
          /\ d.to = "client" /\ d.conn = cl[c].conn
          /\ cl' = [cl EXCEPT ![c] = Remote(cl[c], d.epoch, ApplyIfOrderly(cl[c].state, d.op), d.op)]
    BY <1>2, Zenon DEF RecvDatagram
  <2>2. /\ cl'[c].link = cl[c].link /\ cl'[c].epoch = cl[c].epoch
        /\ cl'[c].state = IF d.epoch = cl[c].epoch THEN ApplyIfOrderly(cl[c].state, d.op) ELSE cl[c].state
    <3>1. ASSUME NEW e, NEW st, NEW op, cl' = [cl EXCEPT ![c] = Remote(cl[c], e, st, op)]
          PROVE  /\ cl'[c].link = cl[c].link /\ cl'[c].epoch = cl[c].epoch
                 /\ cl'[c].state = IF e = cl[c].epoch THEN st ELSE cl[c].state
      <4>1. cl[c] \in Client
        BY ClientFields, Zenon DEF TypeInv
      <4>2. cl'[c] = Remote(cl[c], e, st, op)
        BY <3>1, ReplaceFrame, Zenon
      <4> QED
        BY <4>1, <4>2, RemoteFields
    <3> QED
      BY <2>1, <3>1, Zenon
  <2>3. d.op \in Op
    BY Zenon DEF TypeInv, TypeOK, Dgram
  <2>4. CASE d.epoch = cl[c].epoch
    BY <2>1, <2>2, <2>3, <2>4, Zenon DEF HearsOp
  <2> QED
    BY <2>2, <2>4, Zenon DEF Idles
<1> QED
  BY <1>1, <1>2, Zenon

(* How a client on a connection moves. *)
LEMMA ClientSteps ==
    ASSUME TypeInv, Next, NEW c \in Clients, cl'[c].conn # 0, ~Accept(c)
    PROVE  ClientStep(c) /\ Stays(c)
<1>t. cl[c] \in Client /\ cl \in [Clients -> Client]
  BY ClientFields, Zenon DEF TypeInv, TypeOK
<1>0. ASSUME cl'[c] = cl[c]
      PROVE  Idles(c) /\ Stays(c)
  BY <1>0, Zenon DEF Idles, Stays
<1>1. CASE MutateMap(c) \/ MutateReg(c) \/ MutatePosition(c)
  <2>1. PICK op \in Op, b \in BOOLEAN : Writing(c, op, b)
    BY <1>1, WrittenOp, Zenon
  <2>2. /\ cl'[c].link = cl[c].link /\ cl'[c].epoch = cl[c].epoch
        /\ cl'[c].state = Apply(cl[c].state, op) /\ Stays(c)
    BY <2>1, MutateFrame, Zenon DEF Writing
  <2> QED
    BY <2>1, <2>2, Zenon DEF Writes, ClientStep
<1>2. CASE AskMarkWatched(c) \/ FlushClient(c)
  <2>1. cl' = cl
    BY <1>2, Zenon DEF AskMarkWatched, FlushClient, cliVars
  <2> QED
    BY <1>0, <2>1, Zenon DEF ClientStep
<1>3. CASE Disconnected(c) \/ RestartClient(c)
  BY <1>3, DisconnectedFrame, RestartFrame, Zenon
<1>4. CASE Connected(c)
  <2>1. cl'[c].link = "AwaitingSync" /\ Stays(c)
    BY <1>t, <1>4, Zenon DEF Connected, Client, Stays
  <2> QED
    BY <1>4, <2>1, Zenon DEF ClientStep
<1>5. CASE RecvStateOp(c) \/ RecvDatagram(c)
  <2>1. Stays(c)
    BY <1>5, RecvFrame, Zenon DEF ClientReceives
  <2> QED
    BY <1>5, <2>1, OpReceived, Zenon DEF ClientStep
<1>6. CASE RecvStateMerge(c) \/ RecvStateSnapshot(c)
  <2>1. Stays(c)
    BY <1>6, RecvFrame, Zenon DEF ClientReceives
  <2>2. CASE cl' = cl
    BY <1>0, <2>2, Zenon DEF ClientStep
  <2> QED
    BY <1>6, <2>1, <2>2, SyncReceived, Zenon DEF ClientStep
<1>7. CASE RecvStateHash(c)
  <2>1. Idles(c)
    BY <1>t, <1>7, Zenon DEF RecvStateHash, Idles, Client
  <2>2. Stays(c)
    BY <1>7, RecvFrame, Zenon DEF ClientReceives
  <2> QED
    BY <2>1, <2>2, Zenon DEF ClientStep
<1>8. CASE Replay(c) \/ ReplayPosition(c) \/ PushMerge(c)
  <2>1. cl[c].link = "Replaying"
    BY <1>8, Zenon DEF Replay, ReplayPosition, PushMerge
  <2> QED
    BY <1>8, <2>1, ReplayFrame, Zenon DEF ClientStep
<1>9. CASE \A d \in Clients : ~ClientNext(d)
  <2>1. cl' = cl
    BY <1>9, ServerStepFrame, ZenonT(60) DEF Next
  <2> QED
    BY <1>0, <2>1, Zenon DEF ClientStep
<1>10. ASSUME NEW d \in Clients, ClientNext(d), d # c
       PROVE  cl'[c] = cl[c]
  BY <1>10, OtherRests, Zenon
<1>11. CASE ClientNext(c)
  BY <1>1, <1>2, <1>3, <1>4, <1>5, <1>6, <1>7, <1>8, <1>11, ZenonT(60) DEF ClientNext, ClientReceives
<1> QED
  BY <1>0, <1>9, <1>10, <1>11, Zenon DEF ClientStep

-----------------------------------------------------------------------------
(* Sequence.  The dots a synced client has spent at the server's epoch are   *)
(* ones the server has, or will have once it has served what is already on   *)
(* the client's stream; the same holds of the dots before each op on it.     *)

On(c) == cl[c].conn # 0 /\ conns[cl[c].conn].open

Linked(c) == cl[c].link \in {"Replaying", "Synced"}

\* A client that has had its initial sync is at no later epoch than the server.
EpochsKnown == \A c \in Clients : On(c) /\ Linked(c) => cl[c].epoch <= sEpoch

UpEpochs == \A k \in Conns : conns[k].open =>
               \A m \in Elems(up[k]) : m.type = "StateOp" => m.epoch <= sEpoch

\* Serving m brings actor a's dot to n.
Lifts(m, a, n) ==
    \/ m.type = "StateMerge" /\ m.epoch = sEpoch /\ n <= m.state.clock[a]
    \/ m.type = "StateOp" /\ m.epoch = sEpoch /\ m.op.key # Reg /\ m.op.actor = a /\ n <= m.op.counter

\* Serving the first i - 1 messages of q does.
Grounded(q, i, a, n) == n <= sState.clock[a] \/ \E j \in 1..(i - 1) : Lifts(q[j], a, n)

\* Serving all of connection k's stream does.
Rises(k, a, n) == n <= sState.clock[a] \/ \E m \in Elems(up[k]) : Lifts(m, a, n)

\* m is an op of this epoch on a map all of whose ops are sent reliably.
Counted(m) == m.type = "StateOp" /\ m.epoch = sEpoch /\ m.op.key # Reg /\ m.op.key \notin Positions

Orderly(q) == \A i \in 1..Len(q) : Counted(q[i]) => Grounded(q, i, q[i].op.actor, q[i].op.counter - 1)

OpsGrounded == \A k \in Conns : conns[k].open => Orderly(up[k])

OwnGrounded == \A c \in Clients :
    On(c) /\ cl[c].link = "Synced" /\ cl[c].epoch = sEpoch =>
        Rises(cl[c].conn, Me(c), cl[c].state.clock[Me(c)])

InSequence == EpochsKnown /\ UpEpochs /\ OpsGrounded /\ OwnGrounded

(* A client on an open connection was on it before. *)
LEMMA OnBack ==
    ASSUME TypeInv, Wiring, Next, NEW c \in Clients, On(c)', ~Accept(c)
    PROVE  /\ On(c) /\ cl'[c].conn = cl[c].conn /\ ~RestartServer
           /\ cl[c].conn \in Conns /\ ClientStep(c) /\ Stays(c)
<1>1. cl'[c].conn = cl[c].conn /\ cl[c].conn # 0
  BY ConnMoves, Zenon DEF On
<1>2. cl[c].conn \in Conns
  BY <1>1, ClientFields, Zenon DEF TypeInv
<1>3. conns[cl[c].conn].user = c /\ c # 0
  BY <1>1, ClientsAssumption, Zenon DEF Wiring, Dialled
<1>4. conns'[cl[c].conn].open
  BY <1>1, Zenon DEF On
<1>5. ~RestartServer /\ conns[cl[c].conn].open
  BY <1>2, <1>3, <1>4, OpenBack, Zenon
<1>6. ClientStep(c) /\ Stays(c)
  BY <1>1, ClientSteps, Zenon
<1> QED
  BY <1>1, <1>2, <1>5, <1>6, Zenon DEF On

(* A client that accepts is not linked. *)
LEMMA AcceptUnlinked ==
    ASSUME TypeInv, NEW c \in Clients, Accept(c)
    PROVE  cl'[c].link = "Down" /\ cl[c].link = "Down"
<1>1. cl[c].link = "Down"
  BY Zenon DEF Accept, TypeInv, LinkedHasConn
<1>2. PICK k \in Conns : cl'[c] = [cl[c] EXCEPT !.conn = k]
  BY AcceptFrame, Zenon
<1> QED
  BY <1>1, <1>2, ClientFields, Zenon DEF TypeInv, Client

(* The epoch of a linked client is one the server has had. *)
LEMMA EpochsMove ==
    ASSUME TypeInv, Wiring, Known, EpochsKnown, Next, NEW c \in Clients, On(c)', Linked(c)'
    PROVE  cl'[c].epoch <= sEpoch /\ ~Accept(c)
<1>1. ~Accept(c)
  BY AcceptUnlinked, Zenon DEF Linked
<1>2. On(c) /\ cl[c].conn \in Conns /\ ClientStep(c)
  BY <1>1, OnBack, Zenon
<1>3. CASE Lands(c)
  <2>1. cl'[c].epoch = Frame(c).epoch /\ IsSync(Frame(c)) /\ Frame(c) \in Elems(down[cl[c].conn])
        /\ Frame(c) \in ServerMsg
    BY <1>3, Zenon DEF Lands
  <2>2. Behind(Frame(c))
    BY <1>2, <2>1, Zenon DEF Known, DownKnown, Sound, On
  <2>3. Frame(c).epoch \in Nat /\ sEpoch \in Nat
    BY <2>1, ServerMsgFields, Zenon DEF IsSync, TypeInv, TypeOK
  <2> QED
    BY <1>1, <2>1, <2>2, <2>3 DEF Behind
<1>4. CASE Linked(c) /\ cl'[c].epoch = cl[c].epoch
  BY <1>1, <1>2, <1>4, Zenon DEF EpochsKnown
<1>5. CASE ~Lands(c)
  <2>1. Linked(c) /\ cl'[c].epoch = cl[c].epoch
    BY <1>2, <1>5, Zenon DEF ClientStep, Linked, Idles, HearsOp, Writes
  <2> QED
    BY <1>4, <2>1, Zenon
<1> QED
  BY <1>3, <1>5, Zenon

(* The ops on a stream are of epochs the server has had. *)
LEMMA UpEpochsMove ==
    ASSUME TypeInv, TypeInv', Wiring, Known, EpochsKnown, UpEpochs, Next, NEW k \in Conns, conns'[k].open,
           NEW m \in Elems(up'[k]), m.type = "StateOp"
    PROVE  m.epoch <= sEpoch
<1>t. up[k] \in Seq(ClientMsg)
  BY Zenon DEF TypeInv, TypeOK
<1>0. conns[k].open \/ conns[k].user = 0
  BY OpenBack, Zenon
<1>1. CASE m \in Elems(up[k])
  <2>1. up[k] # <<>>
    BY <1>1, ElemsShort, Zenon
  <2> QED
    BY <1>0, <1>1, <2>1, Zenon DEF UpEpochs, Wiring, Unused
<1>2. ASSUME NEW c \in Clients, NEW n \in ClientMsg, cl[c].conn = k, Says(c, n), up'[k] = Append(up[k], n), m = n
      PROVE  m.epoch <= sEpoch
  <2>1. PICK op \in Op : cl[c].link = "Synced" /\ n = StateOp(cl[c].epoch, op)
    BY <1>2, Zenon DEF Says
  <2>2. n.epoch = cl[c].epoch
    BY <2>1, Zenon DEF StateOp
  <2>3. k # 0 /\ c # 0
    BY ClientsAssumption DEF Conns
  <2>4. On(c)
    BY <1>0, <1>2, <2>3, Zenon DEF On, Wiring, Dialled
  <2> QED
    BY <1>2, <2>1, <2>2, <2>4, Zenon DEF EpochsKnown, Linked
<1>3. UpStep(k)
  BY UpSteps, Zenon
<1>4. CASE up'[k] = up[k]
  BY <1>1, <1>4, Zenon
<1>5. CASE up[k] # <<>> /\ up'[k] = Tail(up[k])
  BY <1>1, <1>t, <1>5, ElemsTail, Zenon
<1>6. ASSUME NEW c \in Clients, NEW n \in ClientMsg, cl[c].conn = k, Says(c, n), up'[k] = Append(up[k], n)
      PROVE  m.epoch <= sEpoch
  <2>1. m \in Elems(up[k]) \/ m = n
    BY <1>t, <1>6, ElemsAppend
  <2> QED
    BY <1>1, <1>2, <1>6, <2>1, Zenon
<1> QED
  BY <1>3, <1>4, <1>5, <1>6, Zenon DEF UpStep

(* A message served has brought the dots it brings. *)
LEMMA ServedLift ==
    ASSUME TypeInv, NEW k \in Conns, ServeReliable(k), NEW a \in Actors, NEW n \in Int, Lifts(Head(up[k]), a, n)
    PROVE  n <= sState'.clock[a]
<1>t. sState \in CrdtState
  BY Zenon DEF TypeInv, TypeOK
<1>0. PICK type : Serves(k, type)
  BY ZenonT(60) DEF ServeReliable, ServeStateOp, ServeSyncStatus, ServeRequestMerge, ServeStateMerge,
       ServeMarkWatched
<1>1. Head(up[k]) \in ClientMsg /\ Head(up[k]).type \in {"StateMerge", "StateOp"}
  BY <1>0, ServedHead, Zenon DEF Lifts
<1>2. CASE Head(up[k]).type = "StateMerge"
  <2>1. Head(up[k]).type \notin {"StateOp", "SyncStatus", "RequestMerge", "MarkWatched"}
    BY <1>2, Zenon
  <2>2. ServeStateMerge(k)
    BY <2>1, ZenonT(60) DEF ServeReliable, Serves, ServeStateOp, ServeSyncStatus, ServeRequestMerge, ServeMarkWatched
  <2>3. Head(up[k]).epoch = sEpoch /\ n <= Head(up[k]).state.clock[a]
    BY <1>2, Zenon DEF Lifts
  <2>4. sState' = Merge(sState, Head(up[k]).state)
    BY <2>2, <2>3, ZenonT(60) DEF ServeStateMerge
  <2>5. Head(up[k]).state \in CrdtState
    BY <1>1, <1>2, ClientMsgFields, Zenon
  <2>6. /\ Head(up[k]).state.clock[a] \in Nat /\ sState.clock[a] \in Nat
        /\ Merge(sState, Head(up[k]).state).clock[a] \in {sState.clock[a], Head(up[k]).state.clock[a]}
        /\ Head(up[k]).state.clock[a] <= Merge(sState, Head(up[k]).state).clock[a]
    BY <1>t, <2>5, MergeClock, Zenon
  <2> QED
    BY <2>3, <2>4, <2>6
<1>3. CASE Head(up[k]).type = "StateOp"
  <2>1. Head(up[k]).type \notin {"StateMerge", "SyncStatus", "RequestMerge", "MarkWatched"}
    BY <1>3, Zenon
  <2>2. ServeStateOp(k)
    BY <2>1, ZenonT(60) DEF ServeReliable, Serves, ServeStateMerge, ServeSyncStatus, ServeRequestMerge, ServeMarkWatched
  <2>3. Head(up[k]).epoch = sEpoch /\ Head(up[k]).op.key # Reg /\ Head(up[k]).op.actor = a
        /\ n <= Head(up[k]).op.counter
    BY <1>3, Zenon DEF Lifts
  <2>4. sState' = Apply(sState, Head(up[k]).op)
    BY <2>2, <2>3, ZenonT(60) DEF ServeStateOp, ServeOp, ApplyForBroadcast
  <2>5. Head(up[k]).op \in Op /\ Head(up[k]).op.counter \in Nat /\ sState.clock[a] \in Nat
    BY <1>1, <1>3, <1>t, ClientMsgFields, Zenon DEF Op, CrdtState, VClock
  <2>6. Apply(sState, Head(up[k]).op).clock[a] = IF sState.clock[a] < Head(up[k]).op.counter
                                                 THEN Head(up[k]).op.counter ELSE sState.clock[a]
    BY <1>t, <2>3, <2>5, ApplyClock, Zenon
  <2> QED
    BY <2>3, <2>4, <2>5, <2>6
<1> QED
  BY <1>1, <1>2, <1>3, Zenon

(* The server's clock only grows within an epoch. *)
LEMMA ClockGrows ==
    ASSUME TypeInv, TypeInv', Next, ~RestartServer, sEpoch' = sEpoch, NEW a \in Actors, NEW n \in Int, n <= sState.clock[a]
    PROVE  n <= sState'.clock[a]
<1>1. sState.clock[a] \in Nat /\ sState'.clock[a] \in Nat /\ sEpoch \in Nat
  BY Zenon DEF TypeInv, TypeOK, CrdtState, VClock
<1>2. Covers(sState'.clock, sState.clock)
  BY <1>1, ServerForward DEF Forward
<1> QED
  BY <1>1, <1>2 DEF Covers

(* What the stream of an open connection will bring, it brings or goes on to *)
(* bring.                                                                    *)
LEMMA RisesKept ==
    ASSUME TypeInv, TypeInv', Next, NEW k \in Conns, conns'[k].open, sEpoch' = sEpoch,
           NEW a \in Actors, NEW n \in Int, Rises(k, a, n)
    PROVE  Rises(k, a, n)'
<1>t. up[k] \in Seq(ClientMsg)
  BY Zenon DEF TypeInv, TypeOK
<1>0. ~RestartServer
  BY OpenBack, Zenon
<1>1. CASE n <= sState.clock[a]
  BY <1>0, <1>1, ClockGrows, Zenon DEF Rises
<1>2. ASSUME NEW m \in Elems(up[k]), Lifts(m, a, n)
      PROVE  Rises(k, a, n)'
  <2>1. Lifts(m, a, n)'
    BY <1>2, Zenon DEF Lifts
  <2>2. CASE up'[k] = up[k]
    BY <1>2, <2>1, <2>2, Zenon DEF Rises
  <2>3. CASE ServeReliable(k) /\ up[k] # <<>> /\ up'[k] = Tail(up[k])
    <3>1. m = Head(up[k]) \/ m \in Elems(Tail(up[k]))
      BY <1>2, <1>t, <2>3, ElemsSplit, Zenon
    <3>2. CASE m = Head(up[k])
      BY <1>2, <2>3, <3>2, ServedLift, Zenon DEF Rises
    <3> QED
      BY <2>1, <2>3, <3>1, <3>2, Zenon DEF Rises
  <2>4. ASSUME NEW s \in ClientMsg, up'[k] = Append(up[k], s)
        PROVE  Rises(k, a, n)'
    <3>1. m \in Elems(Append(up[k], s))
      BY <1>2, <1>t, <2>4, ElemsAppend, Zenon
    <3> QED
      BY <2>1, <2>4, <3>1, Zenon DEF Rises
  <2> QED
    BY <2>2, <2>3, <2>4, UpSteps, Zenon DEF UpStep
<1> QED
  BY <1>1, <1>2, Zenon DEF Rises

(* The dots before a message are still grounded. *)
LEMMA GroundedKept ==
    ASSUME TypeInv, TypeInv', Next, ~RestartServer, sEpoch' = sEpoch, NEW q, NEW i \in Int,
           NEW a \in Actors, NEW n \in Int, Grounded(q, i, a, n)
    PROVE  Grounded(q, i, a, n)'
<1>1. CASE n <= sState.clock[a]
  BY <1>1, ClockGrows, Zenon DEF Grounded
<1>2. ASSUME NEW j \in 1..(i - 1), Lifts(q[j], a, n)
      PROVE  Grounded(q, i, a, n)'
  <2>1. Lifts(q[j], a, n)'
    BY <1>2, Zenon DEF Lifts
  <2> QED
    BY <2>1, Zenon DEF Grounded
<1> QED
  BY <1>1, <1>2, Zenon DEF Grounded

(* What a counted message is. *)
LEMMA CountedFields ==
    ASSUME NEW q \in Seq(ClientMsg), NEW i \in 1..Len(q), q[i].type = "StateOp"
    PROVE  q[i] \in ClientMsg /\ q[i].op.actor \in Actors /\ q[i].op.counter - 1 \in Int /\ q[i].epoch \in Nat
<1>1. q[i] \in ClientMsg
  OBVIOUS
<1>2. q[i].op \in Op /\ q[i].epoch \in Nat
  BY <1>1, ClientMsgFields, Zenon
<1> QED
  BY <1>1, <1>2 DEF Op

(* The stream of an open connection stays in sequence. *)
LEMMA OrderlyKept ==
    ASSUME TypeInv, TypeInv', Wiring, Known, InSequence, Next, NEW k \in Conns, conns'[k].open, NEW q, q = up'[k]
    PROVE  Orderly(q)'
<1>t. up[k] \in Seq(ClientMsg) /\ q \in Seq(ClientMsg)
  BY Zenon DEF TypeInv, TypeOK
<1>0. ~RestartServer /\ (conns[k].open \/ conns[k].user = 0)
  BY OpenBack, Zenon
<1>1. Orderly(up[k])
  <2>1. CASE conns[k].open
    BY <2>1, Zenon DEF InSequence, OpsGrounded
  <2>2. CASE up[k] = <<>>
    BY <2>2 DEF Orderly
  <2> QED
    BY <1>0, <2>1, <2>2, Zenon DEF Wiring, Unused
<1>e. ASSUME NEW i \in 1..Len(q), Counted(q[i])'
      PROVE  sEpoch' = sEpoch /\ Counted(q[i]) /\ q[i].op.actor \in Actors /\ q[i].op.counter - 1 \in Int
  <2>1. q[i] \in Elems(q) /\ q[i].type = "StateOp" /\ q[i].epoch = sEpoch'
    BY <1>e, Zenon DEF Counted, Elems
  <2>2. q[i].epoch <= sEpoch
    BY <2>1, UpEpochsMove, Zenon DEF InSequence
  <2>3. sEpoch' >= sEpoch /\ sEpoch \in Nat /\ sEpoch' \in Nat
    BY <1>0, ServerForward DEF TypeInv, TypeOK, Forward
  <2>4. sEpoch' = sEpoch
    BY <2>1, <2>2, <2>3
  <2> QED
    BY <1>e, <1>t, <2>1, <2>4, CountedFields, Zenon DEF Counted
<1>2. SUFFICES ASSUME NEW i \in 1..Len(q), Counted(q[i])'
               PROVE  Grounded(q, i, q[i].op.actor, q[i].op.counter - 1)'
  BY Zenon DEF Orderly
<1>3. sEpoch' = sEpoch /\ Counted(q[i]) /\ q[i].op.actor \in Actors /\ q[i].op.counter - 1 \in Int /\ i \in Int
  BY <1>2, <1>e
<1>k. Grounded(q, i, q[i].op.actor, q[i].op.counter - 1) => Grounded(q, i, q[i].op.actor, q[i].op.counter - 1)'
  <2>1. ASSUME NEW a \in Actors, NEW n \in Int, Grounded(q, i, a, n)
        PROVE  Grounded(q, i, a, n)'
    BY <1>0, <1>3, <2>1, GroundedKept, Zenon
  <2> QED
    BY <1>3, <2>1, Zenon
<1>4. CASE q = up[k]
  BY <1>1, <1>3, <1>k, <1>4, Zenon DEF Orderly
<1>5. CASE ServeReliable(k) /\ up[k] # <<>> /\ q = Tail(up[k])
  <2>1. i + 1 \in 1..Len(up[k]) /\ up[k][i + 1] = q[i]
    BY <1>t, <1>5
  <2>2. ASSUME NEW a \in Actors, NEW n \in Int, Grounded(up[k], i + 1, a, n)
        PROVE  Grounded(q, i, a, n)'
    <3>1. CASE n <= sState.clock[a]
      BY <1>0, <1>3, <3>1, ClockGrows, Zenon DEF Grounded
    <3>2. ASSUME NEW j \in 1..i, Lifts(up[k][j], a, n), j = 1
          PROVE  Grounded(q, i, a, n)'
      <4>1. Lifts(Head(up[k]), a, n)
        BY <1>t, <3>2
      <4> QED
        BY <1>5, <4>1, ServedLift, Zenon DEF Grounded
    <3>3. ASSUME NEW j \in 1..i, Lifts(up[k][j], a, n), j # 1
          PROVE  Grounded(q, i, a, n)'
      <4>1. j - 1 \in 1..(i - 1) /\ q[j - 1] = up[k][j]
        BY <1>t, <1>5, <2>1, <3>3
      <4>2. Lifts(q[j - 1], a, n)'
        BY <1>3, <3>3, <4>1, Zenon DEF Lifts
      <4> QED
        BY <4>1, <4>2, Zenon DEF Grounded
    <3>4. (i + 1) - 1 = i
      BY <1>3
    <3> QED
      BY <2>2, <3>1, <3>2, <3>3, <3>4, Zenon DEF Grounded
  <2>3. Grounded(up[k], i + 1, q[i].op.actor, q[i].op.counter - 1)
    BY <1>1, <1>3, <2>1, Zenon DEF Orderly
  <2> QED
    BY <1>3, <2>2, <2>3, Zenon
<1>6. ASSUME NEW c \in Clients, NEW m \in ClientMsg, cl[c].conn = k, Says(c, m), q = Append(up[k], m)
      PROVE  Grounded(q, i, q[i].op.actor, q[i].op.counter - 1)
  <2>1. \A j \in 1..Len(up[k]) : q[j] = up[k][j]
    BY <1>t, <1>6
  <2>2. CASE i \in 1..Len(up[k])
    <3>1. q[i] = up[k][i]
      BY <2>1, <2>2, Zenon
    <3>2. Grounded(up[k], i, q[i].op.actor, q[i].op.counter - 1)
      BY <1>1, <1>3, <2>2, <3>1, Zenon DEF Orderly
    <3>3. \A j \in 1..(i - 1) : q[j] = up[k][j]
      BY <2>1, <2>2
    <3> QED
      BY <3>2, <3>3, Zenon DEF Grounded
  <2>3. CASE i \notin 1..Len(up[k])
    <3>1. i = Len(up[k]) + 1 /\ q[i] = m /\ i - 1 = Len(up[k])
      BY <1>t, <1>2, <1>6, <2>3
    <3>w. PICK op \in Op : cl[c].link = "Synced" /\ m = StateOp(cl[c].epoch, op) /\ Writing(c, op, TRUE)
      BY <1>3, <1>6, <3>1, Zenon DEF Says, Counted
    <3>3. m.op = op /\ m.epoch = cl[c].epoch
      BY <3>w, Zenon DEF StateOp
    <3>2. /\ cl[c].link = "Synced" /\ op.actor = Me(c)
          /\ op.key # Reg => op.counter = cl[c].state.clock[Me(c)] + 1
      BY <1>3, <3>1, <3>3, <3>w, Zenon DEF Writing, Counted
    <3>4. k # 0 /\ c # 0
      BY ClientsAssumption DEF Conns
    <3>5. On(c)
      BY <1>0, <1>6, <3>4, Zenon DEF On, Wiring, Dialled
    <3>6. Rises(k, Me(c), cl[c].state.clock[Me(c)])
      BY <1>3, <1>6, <3>1, <3>2, <3>3, <3>5, Zenon DEF InSequence, OwnGrounded, Counted
    <3>7. q[i].op.actor = Me(c) /\ q[i].op.counter - 1 = cl[c].state.clock[Me(c)]
      <4>1. op.counter = cl[c].state.clock[Me(c)] + 1
        BY <1>3, <3>1, <3>2, <3>3, Zenon DEF Counted
      <4>2. cl[c].state.clock[Me(c)] \in Nat
        BY ActorType, ClientFields, Zenon DEF TypeInv, Me, CrdtState, VClock
      <4> QED
        BY <3>1, <3>2, <3>3, <4>1, <4>2
    <3>8. ASSUME NEW a, NEW n, Rises(k, a, n)
          PROVE  Grounded(q, i, a, n)
      <4>1. ASSUME NEW x \in Elems(up[k]), Lifts(x, a, n)
            PROVE  \E j \in 1..(i - 1) : Lifts(q[j], a, n)
        <5>1. PICK j \in 1..Len(up[k]) : x = up[k][j]
          BY <4>1, Zenon DEF Elems
        <5> QED
          BY <2>1, <3>1, <4>1, <5>1, Zenon
      <4> QED
        BY <3>8, <4>1, Zenon DEF Rises, Grounded
    <3> QED
      BY <3>6, <3>7, <3>8, Zenon
  <2> QED
    BY <2>2, <2>3, Zenon
<1> QED
  BY <1>k, <1>4, <1>5, <1>6, UpSteps, Zenon DEF UpStep

(* A client's own dots stay grounded. *)
LEMMA OwnKept ==
    ASSUME TypeInv, TypeInv', Wiring, Known, InSequence, Next, NEW c \in Clients, On(c)', cl'[c].link = "Synced",
           cl'[c].epoch = sEpoch', NEW k \in Conns, k = cl'[c].conn, NEW a \in Actors, a = Me(c)'
    PROVE  Rises(k, a, cl[c].state.clock[a])'
<1>0. ~Accept(c)
  BY AcceptUnlinked, Zenon
<1>1. On(c) /\ k = cl[c].conn /\ ~RestartServer /\ ClientStep(c) /\ Stays(c)
  BY <1>0, OnBack, Zenon
<1>2. a = Me(c) /\ conns'[k].open
  BY <1>1, Zenon DEF Me, Stays, On
<1>3. sEpoch' = sEpoch
  <2>1. cl'[c].epoch <= sEpoch
    BY EpochsMove, Zenon DEF Linked, InSequence
  <2>2. sEpoch' >= sEpoch /\ sEpoch \in Nat /\ sEpoch' \in Nat
    BY <1>1, ServerForward DEF TypeInv, TypeOK, Forward
  <2> QED
    BY <2>1, <2>2
<1>t. /\ cl[c].state \in CrdtState /\ cl'[c].state \in CrdtState /\ cl[c].epoch \in Nat
      /\ cl[c].state.clock[a] \in Nat /\ cl'[c].state.clock[a] \in Nat
      /\ sState.clock[a] \in Nat /\ up[k] \in Seq(ClientMsg) /\ up'[k] \in Seq(ClientMsg)
  <2>1. cl[c].state \in CrdtState /\ cl'[c].state \in CrdtState /\ cl[c].epoch \in Nat
    BY Zenon DEF TypeInv, TypeOK, Client
  <2> QED
    BY <2>1, Zenon DEF TypeInv, TypeOK, CrdtState, VClock
<1>4. ASSUME cl[c].link = "Synced", cl[c].epoch = sEpoch, cl'[c].state.clock[a] = cl[c].state.clock[a]
      PROVE  Rises(k, a, cl[c].state.clock[a])'
  <2>1. Rises(k, a, cl[c].state.clock[a])
    BY <1>1, <1>2, <1>4, Zenon DEF InSequence, OwnGrounded
  <2>2. ASSUME NEW n \in Nat, Rises(k, a, n)
        PROVE  Rises(k, a, n)'
    BY <1>2, <1>3, <2>2, RisesKept
  <2>3. PICK n \in Nat : n = cl[c].state.clock[a]
    BY <1>t, Zenon
  <2>4. Rises(k, a, n)'
    BY <2>1, <2>2, <2>3, Zenon
  <2> QED
    BY <1>4, <2>3, <2>4, Zenon DEF Rises, Lifts
<1>5. ASSUME cl'[c].state.clock[a] <= sState.clock[a]
      PROVE  Rises(k, a, cl[c].state.clock[a])'
  BY <1>1, <1>3, <1>5, <1>t, ClockGrows DEF Rises
<1>6. ASSUME NEW m \in Elems(up'[k]), Lifts(m, a, cl'[c].state.clock[a])
      PROVE  Rises(k, a, cl[c].state.clock[a])'
  BY <1>3, <1>6, Zenon DEF Rises, Lifts
<1>7. CASE Idles(c)
  BY <1>3, <1>4, <1>7, Zenon DEF Idles
<1>8. CASE HearsOp(c)
  <2>1. PICK op \in Op : /\ cl'[c].state \in {Apply(cl[c].state, op), ApplyIfOrderly(cl[c].state, op)}
                         /\ \/ StateOp(cl[c].epoch, op) \in Elems(down[k])
                            \/ \E d \in dgrams : d.to = "client" /\ d.conn = k /\ d.epoch = cl[c].epoch /\ d.op = op
    BY <1>1, <1>8, Zenon DEF HearsOp
  <2>2. cl[c].link = "Synced" /\ cl[c].epoch = sEpoch
    BY <1>3, <1>8, Zenon DEF HearsOp
  <2>3. Behind(StateOp(cl[c].epoch, op))
    BY <1>1, <2>1, ZenonT(60) DEF Known, DownKnown, DgramKnown, Sound, On
  <2>4. op.key # Reg => op.counter <= sState.clock[op.actor]
    BY <1>t, <2>2, <2>3 DEF Behind, StateOp
  <2>5. cl'[c].state.clock[a] = cl[c].state.clock[a]
        \/ (op.key # Reg /\ a = op.actor /\ cl'[c].state.clock[a] = op.counter)
    <3>1. ASSUME NEW s \in CrdtState, NEW t \in {Apply(s, op), ApplyIfOrderly(s, op)}
          PROVE  t.clock[a] = s.clock[a] \/ (op.key # Reg /\ a = op.actor /\ t.clock[a] = op.counter)
      BY <3>1, AppliedClock, Zenon
    <3> QED
      BY <1>t, <2>1, <3>1, Zenon
  <2> QED
    BY <1>4, <1>5, <2>2, <2>4, <2>5, Zenon
<1>9. CASE Writes(c)
  <2>0. PICK op \in Op, b \in BOOLEAN : Writing(c, op, b) /\ cl'[c].state = Apply(cl[c].state, op)
    BY <1>9, Zenon DEF Writes
  <2>2. cl[c].link = "Synced" /\ cl[c].epoch = sEpoch
    BY <1>3, <1>9, Zenon DEF Writes
  <2>p. CASE op.key \in Positions
    <3>1. op.actor = MyPos(c) /\ MyPos(c) # a
      <4>1. cl[c].session \in 0..MaxClientRestarts
        BY ActorType, Zenon
      <4>2. ActorOf(c, cl[c].session) # PosActorOf(c, cl[c].session)
        BY <4>1, ActorsDistinct
      <4> QED
        BY <1>2, <2>0, <2>p, <4>2, Zenon DEF Writing, Me, MyPos
    <3>2. cl'[c].state.clock[a] = cl[c].state.clock[a]
      BY <1>t, <2>0, <3>1, ApplyClock
    <3> QED
      BY <1>4, <2>2, <3>2, Zenon
  <2>q. SUFFICES ASSUME op.key \notin Positions
                 PROVE  Rises(k, a, cl[c].state.clock[a])'
    BY <2>p, Zenon
  <2>1. b /\ Mutate(c, op, b) /\ op.actor = Me(c) /\ cl'[c].state = Apply(cl[c].state, op)
    BY <2>0, <2>q, Zenon DEF Writing
  <2>3. up' = Send(up, k, StateOp(sEpoch, op))
    BY <1>1, <2>1, <2>2, ZenonT(60) DEF Mutate
  <2>4. up'[k] = Append(up[k], StateOp(sEpoch, op))
    BY <2>3, Zenon DEF Send, TypeInv, TypeOK
  <2>5. StateOp(sEpoch, op) \in Elems(up'[k])
    BY <1>t, <2>2, <2>4, StateOpType, ElemsAppend
  <2>6. cl'[c].state.clock[a] = IF op.key # Reg /\ cl[c].state.clock[a] < op.counter
                                THEN op.counter ELSE cl[c].state.clock[a]
    BY <1>2, <1>t, <2>1, ApplyClock
  <2>7. CASE op.key # Reg /\ cl[c].state.clock[a] < op.counter
    <3>1. Lifts(StateOp(sEpoch, op), a, cl'[c].state.clock[a])
      BY <1>2, <1>t, <2>1, <2>6, <2>7 DEF Lifts, StateOp
    <3> QED
      BY <1>6, <2>5, <3>1, Zenon
  <2> QED
    BY <1>4, <2>2, <2>6, <2>7, Zenon
<1>10. CASE Lands(c)
  <2>1. /\ cl'[c].link = Landed(cl[c].link) /\ IsSync(Frame(c)) /\ Frame(c) \in ServerMsg
        /\ Frame(c) \in Elems(down[k]) /\ cl'[c].epoch = Frame(c).epoch
        /\ \/ cl'[c].state = Frame(c).state
           \/ Frame(c).epoch = cl[c].epoch /\ cl'[c].state = Merge(cl[c].state, Frame(c).state)
    BY <1>1, <1>10, Zenon DEF Lands
  <2>2. cl[c].link = "Synced"
    BY <2>1, Zenon DEF Landed
  <2>3. Behind(Frame(c))
    BY <1>1, <2>1, Zenon DEF Known, DownKnown, Sound, On
  <2>4. Frame(c).state \in CrdtState /\ Frame(c).state.clock[a] \in Nat /\ Frame(c).epoch = sEpoch
    BY <1>3, <2>1, ServerMsgFields, Zenon DEF IsSync, CrdtState, VClock
  <2>5. Frame(c).state.clock[a] <= sState.clock[a]
    <3>1. Covers(sState.clock, Frame(c).state.clock)
      BY <1>t, <2>1, <2>3, <2>4 DEF Behind, TypeInv, TypeOK
    <3> QED
      BY <1>t, <2>4, <3>1, Zenon DEF Covers
  <2>6. CASE cl'[c].state = Frame(c).state
    BY <1>5, <2>5, <2>6, Zenon
  <2>7. CASE Frame(c).epoch = cl[c].epoch /\ cl'[c].state = Merge(cl[c].state, Frame(c).state)
    <3>1. Merge(cl[c].state, Frame(c).state).clock[a] \in {cl[c].state.clock[a], Frame(c).state.clock[a]}
      BY <1>t, <2>4, MergeClock, Zenon
    <3> QED
      BY <1>4, <1>5, <2>2, <2>4, <2>5, <2>7, <3>1, Zenon
  <2> QED
    BY <2>1, <2>6, <2>7, Zenon
<1>11. CASE PushMerge(c) /\ cl'[c].epoch = cl[c].epoch /\ cl'[c].state = cl[c].state
  <2> DEFINE m == [type |-> "StateMerge", epoch |-> cl[c].epoch, state |-> cl[c].state]
  <2>1. up' = Send(up, k, m)
    BY <1>1, <1>11, ZenonT(60) DEF PushMerge
  <2>2. up'[k] = Append(up[k], m)
    BY <2>1, Zenon DEF Send, TypeInv, TypeOK
  <2>3. m \in Elems(up'[k])
    <3>1. m \in ClientMsg
      BY <1>t, Zenon DEF ClientMsg
    <3> QED
      BY <1>t, <2>2, <3>1, ElemsAppend
  <2>4. Lifts(m, a, cl'[c].state.clock[a])
    BY <1>3, <1>11, <1>t DEF Lifts
  <2> QED
    BY <1>6, <2>3, <2>4, Zenon
<1> QED
  BY <1>1, <1>7, <1>8, <1>9, <1>10, <1>11, Zenon DEF ClientStep

(* InSequence is inductive. *)
LEMMA InSequenceKept ==
    ASSUME HubInv, HubInv', InSequence, [Next]_vars
    PROVE  InSequence'
<1>1. CASE Next
  <2>0. TypeInv /\ TypeInv' /\ Wiring /\ Known
    BY Zenon DEF HubInv
  <2>e. ASSUME ~RestartServer
        PROVE  sEpoch' >= sEpoch /\ sEpoch \in Nat /\ sEpoch' \in Nat
    BY <1>1, <2>0, <2>e, ServerForward DEF TypeInv, TypeOK, Forward
  <2>1. EpochsKnown'
    <3>1. SUFFICES ASSUME NEW c \in Clients, On(c)', Linked(c)'
                   PROVE  cl'[c].epoch <= sEpoch'
      BY Zenon DEF EpochsKnown
    <3>2. cl'[c].epoch <= sEpoch /\ ~Accept(c)
      BY <1>1, <2>0, <3>1, EpochsMove, Zenon DEF InSequence
    <3>3. ~RestartServer
      BY <1>1, <2>0, <3>1, <3>2, OnBack, Zenon
    <3>4. cl'[c].epoch \in Nat
      BY <2>0, Zenon DEF TypeInv, TypeOK, Client
    <3> QED
      BY <2>e, <3>2, <3>3, <3>4
  <2>2. UpEpochs'
    <3>1. SUFFICES ASSUME NEW k \in Conns, conns'[k].open, NEW m \in Elems(up'[k]), m.type = "StateOp"
                   PROVE  m.epoch <= sEpoch'
      BY Zenon DEF UpEpochs
    <3>2. m.epoch <= sEpoch
      BY <1>1, <2>0, <3>1, UpEpochsMove, Zenon DEF InSequence
    <3>3. ~RestartServer
      BY <1>1, <2>0, <3>1, OpenBack, Zenon
    <3>4. m.epoch \in Nat
      <4>1. m \in ClientMsg
        BY <2>0, <3>1, ElemsType, Zenon DEF TypeInv, TypeOK
      <4> QED
        BY <3>1, <4>1, ClientMsgFields, Zenon
    <3> QED
      BY <2>e, <3>2, <3>3, <3>4
  <2>3. OpsGrounded'
    <3>1. SUFFICES ASSUME NEW k \in Conns, conns'[k].open
                   PROVE  Orderly(up[k])'
      BY Zenon DEF OpsGrounded
    <3>2. PICK q : q = up'[k]
      BY Zenon
    <3>3. Orderly(q)'
      BY <1>1, <2>0, <3>1, <3>2, OrderlyKept, Zenon
    <3> QED
      BY <3>2, <3>3, Zenon DEF Orderly, Counted, Grounded, Lifts
  <2>4. OwnGrounded'
    <3>1. SUFFICES ASSUME NEW c \in Clients, On(c)', cl'[c].link = "Synced", cl'[c].epoch = sEpoch'
                   PROVE  Rises(cl[c].conn, Me(c), cl[c].state.clock[Me(c)])'
      BY Zenon DEF OwnGrounded
    <3>2. PICK k \in Conns : k = cl'[c].conn
      <4>1. cl'[c].conn \in Conns \cup {0} /\ cl'[c].conn # 0
        BY <2>0, <3>1, Zenon DEF TypeInv, TypeOK, Client, On
      <4> QED
        BY <4>1, Zenon
    <3>3. PICK a \in Actors : a = Me(c)'
      <4>1. cl'[c].session \in Nat /\ left'["session"] \in Nat
        BY <2>0, Zenon DEF TypeInv, TypeOK, Client, Budget
      <4>2. cl'[c].session \in 0..MaxClientRestarts
        BY <2>0, <4>1, BoundsAssumption DEF TypeInv, SessionsBounded
      <4>3. ActorOf(c, cl'[c].session) \in Actors
        BY <4>2, SessionsAssumption, Zenon
      <4> QED
        BY <4>3, Zenon DEF Me
    <3>4. Rises(k, a, cl[c].state.clock[a])'
      BY <1>1, <2>0, <3>1, <3>2, <3>3, OwnKept, Zenon
    <3> QED
      BY <3>2, <3>3, <3>4, Zenon DEF Rises, Lifts
  <2> QED
    BY <2>1, <2>2, <2>3, <2>4, Zenon DEF InSequence
<1>2. CASE UNCHANGED vars
  <2>1. UNCHANGED <<sState, sEpoch, conns, up, cl>>
    BY <1>2, Zenon DEF vars, srvVars, connVars, netVars, cliVars
  <2> QED
    BY <2>1, ZenonT(60) DEF InSequence, EpochsKnown, UpEpochs, OpsGrounded, OwnGrounded, On, Linked, Orderly, Counted,
         Grounded, Rises, Lifts, Me
<1> QED
  BY <1>1, <1>2, Zenon

(* Nobody is connected at the start. *)
LEMMA InSequenceInit ==
    ASSUME Init
    PROVE  InSequence
<1>1. \A k \in Conns : ~conns[k].open
  BY Zenon DEF Init
<1>2. \A c \in Clients : cl[c].conn = 0
  BY Zenon DEF Init, StartedClient
<1> QED
  BY <1>1, <1>2, Zenon DEF InSequence, EpochsKnown, UpEpochs, OpsGrounded, OwnGrounded, On

(* An op served moves no dot clock of the server by more than one, unless it *)
(* is a position off the control stream.                                     *)
LEMMA ServedByOne ==
    ASSUME HubInv, InSequence, NEW k \in Conns, NEW a \in Actors,
           (ServeStateOp(k) /\ Head(up[k]).op.key \notin Positions) \/ ServeDatagram(k)
    PROVE  sState'.clock[a] <= sState.clock[a] + 1
<1>1. TypeInv /\ sState \in CrdtState /\ sState.clock[a] \in Nat
  BY Zenon DEF HubInv, TypeInv, TypeOK, CrdtState, VClock
<1>2. PICK op \in Op, e \in Nat, b \in BOOLEAN :
        /\ ServeOp(k, e, op, b)
        /\ \/ /\ ~b /\ Serves(k, "StateOp") /\ e = Head(up[k]).epoch /\ op = Head(up[k]).op
              /\ op.key \notin Positions
           \/ b /\ Serving(k)
  <2>1. CASE ServeStateOp(k) /\ Head(up[k]).op.key \notin Positions
    <3>1. Serves(k, "StateOp") /\ ServeOp(k, Head(up[k]).epoch, Head(up[k]).op, FALSE)
      BY <2>1, Zenon DEF ServeStateOp
    <3>2. Head(up[k]) \in ClientMsg /\ Head(up[k]).type = "StateOp"
      BY <1>1, <3>1, ServedHead, ZenonT(60)
    <3>3. Head(up[k]).epoch \in Nat /\ Head(up[k]).op \in Op
      BY <3>2, ClientMsgFields, Zenon
    <3> QED
      BY <2>1, <3>1, <3>3, ZenonT(60)
  <2>2. CASE ServeDatagram(k)
    <3>1. PICK d \in dgrams : d.to = "server" /\ ServeOp(k, d.epoch, d.op, TRUE)
      BY <2>2, Zenon DEF ServeDatagram
    <3>2. d.op \in Op /\ d.epoch \in Nat
      BY <1>1, Zenon DEF TypeInv, TypeOK, Dgram
    <3>3. Serving(k)
      BY <2>2, Zenon DEF ServeDatagram
    <3> QED
      BY <3>1, <3>2, <3>3, ZenonT(60)
  <2> QED
    BY <2>1, <2>2, Zenon
<1>3. sState' = IF e = sEpoch THEN ApplyForBroadcast(sState, op, b) ELSE sState
  BY <1>2, Zenon DEF ServeOp
<1>4. CASE e = sEpoch /\ b
  <2>1. sState' = ApplyIfOrderly(sState, op)
    BY <1>3, <1>4, Zenon DEF ApplyForBroadcast
  <2> QED
    BY <1>1, <2>1, OrderlyClock
<1>5. CASE e = sEpoch /\ ~b
  <2>1. sState' = Apply(sState, op)
    BY <1>3, <1>5, Zenon DEF ApplyForBroadcast
  <2>2. /\ Serves(k, "StateOp") /\ Head(up[k]).epoch = sEpoch /\ op = Head(up[k]).op
        /\ op.key \notin Positions
    BY <1>2, <1>5, Zenon
  <2>3. up[k] \in Seq(ClientMsg) /\ up[k] # <<>> /\ conns[k].open /\ Head(up[k]).type = "StateOp"
    BY <1>1, <2>2, ServedHead, Zenon
  <2>4. 1 \in 1..Len(up[k]) /\ up[k][1] = Head(up[k])
    BY <2>3
  <2>5. op.key # Reg => op.counter - 1 <= sState.clock[op.actor]
    <3>1. Orderly(up[k])
      BY <2>3, Zenon DEF InSequence, OpsGrounded
    <3>2. op.key # Reg => Grounded(up[k], 1, op.actor, op.counter - 1)
      BY <2>2, <2>3, <2>4, <3>1, Zenon DEF Orderly, Counted
    <3> QED
      BY <3>2 DEF Grounded
  <2>6. op.counter \in Nat
    BY Zenon DEF Op
  <2>7. Apply(sState, op).clock[a] = IF op.key # Reg /\ a = op.actor /\ sState.clock[a] < op.counter
                                     THEN op.counter ELSE sState.clock[a]
    BY <1>1, ApplyClock, Zenon
  <2> QED
    BY <1>1, <2>1, <2>5, <2>6, <2>7
<1>6. CASE e # sEpoch
  BY <1>1, <1>3, <1>6
<1> QED
  BY <1>2, <1>4, <1>5, <1>6, Zenon

-----------------------------------------------------------------------------
(* The handshake.  What a client on an open connection still lacks is on its *)
(* way: the greeting, its question, the answer to it, or the announcement of *)
(* a compaction.                                                             *)

\* The client's SyncStatus has not been served yet.
Asked(k) == \E m \in Elems(up[k]) : m.type = "SyncStatus"

AskedOnce(q) == \A i, j \in 1..Len(q) : q[i].type = "SyncStatus" /\ q[j].type = "SyncStatus" => i = j

Sending(k) == job[k] # <<>> /\ Head(job[k]).do = "send"

\* A compaction's snapshot has not been broadcast yet.
Announcing == job[Compactor] # <<>> /\ Head(job[Compactor]).do \in {"snapshot", "broadcast"}

PlainJobs == \A t \in Tasks : Heads(t) => Msg(t).type # "AuthOk"

Compacting == job[Compactor] # <<>> /\ Head(job[Compactor]).do = "broadcast" =>
                 /\ Head(job[Compactor]).skip = 0
                 /\ IsSync(Msg(Compactor)) /\ Msg(Compactor).epoch = sEpoch

Greeting(k) ==
    /\ down[k] # <<>> /\ Head(down[k]).type = "AuthOk"
    /\ \A m \in Elems(Tail(down[k])) : m.type # "AuthOk"
    /\ ~Asked(k) /\ ~conns[k].synced

Greeted(k) == \A m \in Elems(down[k]) : m.type # "AuthOk"

Answering(k) == Asked(k) \/ Sending(k) \/ \E m \in Elems(down[k]) : IsSync(m)

\* A state of the server's epoch is on its way to the client.
Updating(k) ==
    \/ Announcing \/ Asked(k)
    \/ Sending(k) /\ Msg(k).epoch = sEpoch
    \/ \E m \in Elems(down[k]) : IsSync(m) /\ m.epoch = sEpoch

ShakesHands(c) ==
    LET k == cl[c].conn IN
    /\ cl[c].link = "Down" => Greeting(k)
    /\ cl[c].link # "Down" => Greeted(k)
    /\ Asked(k) => ~conns[k].synced /\ AskedOnce(up[k])
    /\ cl[c].link = "AwaitingSync" => Answering(k)
    /\ cl[c].link = "Down" \/ (Linked(c) /\ cl[c].epoch = sEpoch) \/ Updating(k)

Handshake == PlainJobs /\ Compacting /\ \A c \in Clients : On(c) => ShakesHands(c)

(* No task greets. *)
LEMMA PlainJobsKept ==
    ASSUME TypeInv, Shapes, PlainJobs, Next
    PROVE  PlainJobs'
<1>1. SUFFICES ASSUME NEW t \in Tasks, Heads(t)'
               PROVE  Msg(t)'.type # "AuthOk"
  BY Zenon DEF PlainJobs
<1>2. CASE job'[t] = job[t]
  BY <1>1, <1>2, Zenon DEF PlainJobs, Heads, Msg
<1>3. CASE NewMsg(Msg(t)')
  BY <1>3, Zenon DEF NewMsg, IsSync
<1> QED
  BY <1>1, <1>2, <1>3, JobMoves, Zenon DEF JobStep

(* Only a compaction moves a running server's epoch. *)
LEMMA EpochStays ==
    ASSUME Next, ~RestartServer, ~Compact
    PROVE  sEpoch' = sEpoch
<1>1. ASSUME NEW c \in Clients, ClientNext(c)
      PROVE  sEpoch' = sEpoch
  BY <1>1, ClientStepFrame, Zenon
<1>2. ASSUME NEW k \in Conns, ServeReliable(k)
      PROVE  sEpoch' = sEpoch
  BY <1>2, ZenonT(60) DEF ServeReliable, ServeStateOp, ServeSyncStatus, ServeRequestMerge, ServeStateMerge,
       ServeMarkWatched, ServeOp, srvVars
<1>3. ASSUME NEW k \in Conns, ServeDatagram(k) \/ EndConnection(k)
      PROVE  sEpoch' = sEpoch
  BY <1>3, ZenonT(60) DEF ServeDatagram, EndConnection, ServeOp, srvVars
<1>4. ASSUME NEW t \in Tasks, TaskNext(t)
      PROVE  sEpoch' = sEpoch
  BY <1>4, ZenonT(60) DEF TaskNext, TaskSend, TaskBroadcast, TaskRelay, TaskSnapshot, TaskPause, TaskFlush, srvVars
<1>5. CASE HashTick \/ ForcePause \/ FlushServer
  BY <1>5, ZenonT(60) DEF HashTick, ForcePause, FlushServer, srvVars
<1> QED
  BY <1>1, <1>2, <1>3, <1>4, <1>5, ZenonT(60) DEF Next

(* A task that has something to do does that first; the compactor has        *)
(* something to do only once a compaction gives it.                          *)
LEMMA BusyTask ==
    ASSUME TypeInv, Next, ~RestartServer, NEW t \in Tasks, job[t] # <<>> \/ (t = Compactor /\ ~Compact)
    PROVE  job'[t] = job[t] \/ TaskNext(t)
<1>1. ASSUME NEW c \in Clients, ClientNext(c)
      PROVE  job'[t] = job[t]
  BY <1>1, ClientStepFrame, Zenon
<1>2. ASSUME NEW k \in Conns, NEW what, Do(k, what), k # t
      PROVE  job'[t] = job[t]
  <2>1. k \in Tasks
    BY TaskNames, Zenon
  <2> QED
    BY <1>2, <2>1, DoFrame, Zenon
<1>3. ASSUME NEW k \in Conns, ServeReliable(k) \/ ServeDatagram(k) \/ EndConnection(k)
      PROVE  job'[t] = job[t]
  <2>1. Serving(k)
    BY <1>3, ZenonT(60) DEF ServeReliable, ServeStateOp, ServeSyncStatus, ServeRequestMerge, ServeStateMerge,
         ServeMarkWatched, ServeDatagram, EndConnection, Serves
  <2>2. k # t
    BY <2>1, TaskNames, Zenon DEF Serving
  <2>3. job' = job \/ \E what : Do(k, what)
    <3>1. CASE ServeReliable(k)
      BY <3>1, ZenonT(60) DEF ServeReliable, ServeStateOp, ServeSyncStatus, ServeRequestMerge, ServeStateMerge,
           ServeMarkWatched, ServeOp
    <3>2. CASE ServeDatagram(k) \/ EndConnection(k)
      BY <3>2, ZenonT(60) DEF ServeDatagram, EndConnection, ServeOp
    <3> QED
      BY <1>3, <3>1, <3>2, Zenon
  <2> QED
    BY <1>2, <2>2, <2>3, Zenon
<1>4. ASSUME NEW u \in Tasks, TaskNext(u), u # t
      PROVE  job'[t] = job[t]
  <2>1. PICK what : Do(u, what)
    BY <1>4, ZenonT(60) DEF TaskNext, TaskSend, TaskBroadcast, TaskRelay, TaskSnapshot, TaskPause, TaskFlush
  <2> QED
    BY <1>4, <2>1, DoFrame, Zenon
<1>5. CASE Compact \/ HashTick \/ ForcePause
  <2>1. PICK u, what : /\ job[u] = <<>> /\ Do(u, what)
                       /\ (u = Compactor /\ Compact) \/ u = Hasher \/ u = Sweeper
    <3>1. CASE Compact
      BY <3>1, ZenonT(60) DEF Compact
    <3>2. CASE HashTick
      BY <3>2, ZenonT(60) DEF HashTick
    <3>3. CASE ForcePause
      BY <3>3, ZenonT(60) DEF ForcePause
    <3> QED
      BY <1>5, <3>1, <3>2, <3>3, Zenon
  <2>2. u \in Tasks /\ u # t
    BY <2>1, TaskNames, Zenon
  <2> QED
    BY <2>1, <2>2, DoFrame, Zenon
<1>6. CASE FlushServer
  BY <1>6, ZenonT(60) DEF FlushServer
<1> QED
  BY <1>1, <1>3, <1>4, <1>5, <1>6, ZenonT(60) DEF Next

(* The compactor broadcasts the state of the present epoch, to everyone. *)
LEMMA CompactingKept ==
    ASSUME TypeInv, Shapes, Compacting, Next
    PROVE  Compacting'
<1>0. Compactor \in Tasks
  BY TaskNames, Zenon
<1>1. SUFFICES ASSUME job'[Compactor] # <<>>, Head(job'[Compactor]).do = "broadcast"
               PROVE  Head(job'[Compactor]).skip = 0 /\ IsSync(Msg(Compactor)') /\ Msg(Compactor)'.epoch = sEpoch'
  BY Zenon DEF Compacting
<1>2. ~RestartServer
  <2>1. RestartServer => job'[Compactor] = <<>>
    BY <1>0, ZenonT(60) DEF RestartServer
  <2> QED
    BY <1>1, <2>1, Zenon
<1>3. ~Compact
  <2>1. Compact => Do(Compactor, <<[do |-> "snapshot", type |-> "StateSnapshot"], [do |-> "flush"]>>)
    BY ZenonT(60) DEF Compact
  <2>2. Compact => job'[Compactor] = <<[do |-> "snapshot", type |-> "StateSnapshot"], [do |-> "flush"]>>
    BY <1>0, <2>1, DoFrame, Zenon
  <2> QED
    BY <1>1, <2>2
<1>4. sEpoch' = sEpoch
  BY <1>2, <1>3, EpochStays, Zenon
<1>5. CASE job'[Compactor] = job[Compactor]
  BY <1>1, <1>4, <1>5, Zenon DEF Compacting, Msg
<1>6. CASE TaskNext(Compactor)
  <2>1. job[Compactor] \in Seq(Job) /\ job[Compactor] # <<>> /\ Proper(Compactor, job[Compactor])
    BY <1>0, <1>6, ZenonT(60) DEF TaskNext, TaskSend, TaskBroadcast, TaskRelay, TaskSnapshot, TaskPause, TaskFlush, Todo,
         TypeInv, TypeOK, Shapes
  <2>2. Tail(job[Compactor]) # <<>> => Head(Tail(job[Compactor])).do = "flush"
    BY <2>1, ProperTail, Zenon
  <2>3. job'[Compactor] # Tail(job[Compactor])
    <3>1. "flush" # "broadcast"
      BY Zenon
    <3> QED
      BY <1>1, <2>2, <3>1, Zenon
  <2>4. ~TaskPause(Compactor)
    <3>1. TaskPause(Compactor) => Compactor = Sweeper
      BY <2>1, ZenonT(60) DEF TaskPause, Todo, Proper
    <3> QED
      BY <3>1, TaskNames, Zenon
  <2>5. TaskSnapshot(Compactor)
    <3>1. \A what : Do(Compactor, what) => job'[Compactor] = what
      BY <1>0, DoFrame, Zenon
    <3> QED
      BY <1>6, <2>3, <2>4, <3>1, ZenonT(60) DEF TaskNext, TaskSend, TaskBroadcast, TaskRelay, TaskFlush
  <2> DEFINE msg == [type |-> Head(job[Compactor]).type, epoch |-> sEpoch, state |-> sState]
             w == [do |-> "broadcast", skip |-> 0, msg |-> msg]
  <2>6. Do(Compactor, <<w>> \o Tail(job[Compactor])) /\ Head(job[Compactor]).do = "snapshot"
    BY <2>5, ZenonT(60) DEF TaskSnapshot, Todo
  <2>7. Head(job[Compactor]).type \in {"StateMerge", "StateSnapshot"}
    <3>1. Head(job[Compactor]) \in Job
      BY <2>1, QueueParts, Zenon
    <3> QED
      BY <2>6, <3>1, SnapshotFields, Zenon
  <2>8. Head(job'[Compactor]) = w
    <3> HIDE DEF w
    <3>0. ASSUME NEW what, Do(Compactor, what)
          PROVE  job'[Compactor] = what
      BY <1>0, <3>0, DoFrame, Zenon
    <3>1. job'[Compactor] = <<w>> \o Tail(job[Compactor])
      BY <2>6, <3>0, Zenon
    <3>2. Head(<<w>> \o Tail(job[Compactor])) = w
      BY <2>1, ProperTail, Zenon
    <3> QED
      BY <3>1, <3>2, Zenon
  <2>9. Msg(Compactor)' = msg /\ Head(job'[Compactor]).skip = 0
    <3>1. w.msg = msg /\ w.skip = 0
      BY Zenon
    <3> HIDE DEF w, msg
    <3> QED
      BY <2>8, <3>1, Zenon DEF Msg
  <2>10. msg.epoch = sEpoch /\ IsSync(msg)
    BY <2>7, Zenon DEF IsSync
  <2> QED
    BY <1>4, <2>9, <2>10, Zenon
<1> QED
  BY <1>0, <1>2, <1>3, <1>5, <1>6, BusyTask, Zenon

-----------------------------------------------------------------------------
(* A client on an open connection, in a step that leaves it there. *)

\* c was and stays on connection k.
Attached(c, k) ==
    /\ On(c) /\ cl[c].conn = k /\ On(c)' /\ cl'[c].conn = k /\ k \in Conns
    /\ conns[k].open /\ conns'[k].open /\ conns[k].user = c
    /\ ~RestartServer /\ ClientStep(c) /\ Stays(c)

(* Appending leaves the front of a queue as it is. *)
LEMMA AppendShape ==
    ASSUME NEW M, NEW q \in Seq(M), q # <<>>, NEW m \in M
    PROVE  /\ Append(q, m) # <<>> /\ Head(Append(q, m)) = Head(q)
           /\ Tail(Append(q, m)) = Append(Tail(q), m) /\ Tail(q) \in Seq(M)
OBVIOUS

(* Its connection is its own. *)
LEMMA AttachedOn ==
    ASSUME TypeInv, Wiring, Next, NEW c \in Clients, On(c)', ~Accept(c)
    PROVE  /\ Attached(c, cl[c].conn) /\ c # 0
           /\ \A d \in Clients : cl[d].conn = cl[c].conn => d = c
<1>1. /\ On(c) /\ cl'[c].conn = cl[c].conn /\ ~RestartServer
      /\ cl[c].conn \in Conns /\ ClientStep(c) /\ Stays(c)
  BY OnBack, Zenon
<1>2. conns[cl[c].conn].open /\ conns'[cl[c].conn].open /\ cl[c].conn # 0
  BY <1>1, Zenon DEF On
<1>3. \A d \in Clients : cl[d].conn = cl[c].conn => conns[cl[c].conn].user = d
  BY <1>2, Zenon DEF Wiring, Dialled
<1>4. c # 0
  BY ClientsAssumption, Zenon
<1> QED
  BY <1>1, <1>2, <1>3, <1>4, Zenon DEF Attached

(* What comes off and what is put on its control stream. *)
LEMMA DownOf ==
    ASSUME TypeInv, Wiring, Next, NEW c \in Clients, ~Accept(c), NEW k, Attached(c, k)
    PROVE  \/ down'[k] = down[k]
           \/ ClientReceives(c) /\ down[k] # <<>> /\ down'[k] = Tail(down[k])
           \/ \E t \in Tasks : Queues(t, k) /\ down'[k] = Append(down[k], Msg(t))
<1>1. /\ k = cl[c].conn /\ On(c)' /\ k \in Conns /\ conns[k].user = c /\ cl'[c].conn # 0
  BY Zenon DEF Attached, On
<1>2. c # 0 /\ \A d \in Clients : cl[d].conn = k => d = c
  BY <1>1, AttachedOn, Zenon
<1>3. ~Disconnected(c) /\ ~RestartClient(c)
  BY <1>1, DisconnectedFrame, RestartFrame, Zenon
<1> QED
  BY <1>1, <1>2, <1>3, DownSteps, ZenonT(60) DEF DownStep

(* A greeting received. *)
LEMMA GreetingReceived ==
    ASSUME TypeInv, NEW c \in Clients
    PROVE  /\ Connected(c) => /\ cl'[c].link = "AwaitingSync" /\ Frame(c).type = "AuthOk"
                              /\ Frame(c) \in Elems(down[cl[c].conn]) /\ cl[c].conn \in Conns
                              /\ down[cl[c].conn] # <<>>
                              /\ down'[cl[c].conn] = Tail(down[cl[c].conn])
                              /\ Asked(cl[c].conn)'
           /\ ClientReceives(c) /\ Frame(c).type = "AuthOk" => Connected(c)
           /\ ClientReceives(c) /\ IsSync(Frame(c)) => RecvStateMerge(c) \/ RecvStateSnapshot(c)
<1>t. cl[c] \in Client /\ cl \in [Clients -> Client] /\ up \in [Conns -> Seq(ClientMsg)]
      /\ down \in [Conns -> Seq(ServerMsg)]
  BY ClientFields, Zenon DEF TypeInv, TypeOK
<1>1. ASSUME Connected(c)
      PROVE  /\ cl'[c].link = "AwaitingSync" /\ Frame(c).type = "AuthOk"
             /\ Frame(c) \in Elems(down[cl[c].conn]) /\ cl[c].conn \in Conns /\ down[cl[c].conn] # <<>>
             /\ down'[cl[c].conn] = Tail(down[cl[c].conn]) /\ Asked(cl[c].conn)'
  <2> DEFINE m == [type |-> "SyncStatus", epoch |-> cl[c].epoch, hash |-> View(cl[c].state)]
  <2>1. Receives(c, "AuthOk") /\ cl' = [cl EXCEPT ![c].link = "AwaitingSync"] /\ up' = Send(up, cl[c].conn, m)
    BY <1>1, ZenonT(60) DEF Connected
  <2>2. cl[c].conn \in Conns /\ Frame(c) \in Elems(down[cl[c].conn]) /\ Frame(c).type = "AuthOk"
    BY <2>1, FrameIn, Zenon
  <2>3. cl'[c].link = "AwaitingSync" /\ cl'[c].conn = cl[c].conn
    BY <1>t, <2>1, Zenon DEF Client
  <2>4. down[cl[c].conn] # <<>> /\ down'[cl[c].conn] = Tail(down[cl[c].conn])
    BY <1>t, <2>1, <2>2, Zenon DEF Receives
  <2>5. m \in ClientMsg /\ m.type = "SyncStatus"
    BY ClientFields, ViewType, Zenon DEF TypeInv, ClientMsg
  <2> HIDE DEF m
  <2>6. up'[cl[c].conn] = Append(up[cl[c].conn], m)
    BY <1>t, <2>1, <2>2, Zenon DEF Send
  <2>7. m \in Elems(up'[cl[c].conn])
    BY <1>t, <2>2, <2>5, <2>6, ElemsAppend
  <2>8. Asked(cl[c].conn)'
    BY <2>3, <2>5, <2>7, Zenon DEF Asked
  <2> QED
    BY <2>2, <2>3, <2>4, <2>8, Zenon
<1>2. ASSUME NEW type, Receives(c, type)
      PROVE  Frame(c).type = type
  BY <1>2, Zenon DEF Receives, Frame
<1>3. ASSUME ClientReceives(c), Frame(c).type = "AuthOk"
      PROVE  Connected(c)
  <2>1. Frame(c).type \notin {"StateOp", "StateMerge", "StateSnapshot", "StateHash"}
    BY <1>3, Zenon
  <2> QED
    BY <1>2, <1>3, <2>1, ZenonT(60) DEF ClientReceives, RecvStateOp, RecvStateMerge, RecvStateSnapshot, RecvStateHash
<1>4. ASSUME ClientReceives(c), IsSync(Frame(c))
      PROVE  RecvStateMerge(c) \/ RecvStateSnapshot(c)
  <2>1. Frame(c).type \notin {"StateOp", "AuthOk", "StateHash"}
    BY <1>4, Zenon DEF IsSync
  <2> QED
    BY <1>2, <1>4, <2>1, ZenonT(60) DEF ClientReceives, RecvStateOp, Connected, RecvStateHash
<1> QED
  BY <1>1, <1>3, <1>4, Zenon

(* Who asks. *)
LEMMA AskedBack ==
    ASSUME TypeInv, TypeInv', Wiring, Next, NEW c \in Clients, ~Accept(c), NEW k, Attached(c, k), Asked(k)'
    PROVE  Asked(k) \/ Connected(c)
<1>1. /\ k = cl[c].conn /\ On(c)' /\ k \in Conns /\ conns'[k].open
  BY Zenon DEF Attached, On
<1>2. \A d \in Clients : cl[d].conn = k => d = c
  BY <1>1, AttachedOn, Zenon
<1>t. up[k] \in Seq(ClientMsg)
  BY <1>1, Zenon DEF TypeInv, TypeOK
<1>3. PICK m \in Elems(up'[k]) : m.type = "SyncStatus"
  BY Zenon DEF Asked
<1>4. CASE up'[k] = up[k]
  BY <1>3, <1>4, Zenon DEF Asked
<1>5. CASE up[k] # <<>> /\ up'[k] = Tail(up[k])
  <2>1. m \in Elems(up[k])
    BY <1>3, <1>t, <1>5, ElemsTail, Zenon
  <2> QED
    BY <1>3, <2>1, Zenon DEF Asked
<1>6. ASSUME NEW n \in ClientMsg, Says(c, n), up'[k] = Append(up[k], n)
      PROVE  Asked(k) \/ Connected(c)
  <2>1. m \in Elems(up[k]) \/ m = n
    BY <1>3, <1>t, <1>6, ElemsAppend, Zenon
  <2>2. CASE m = n
    BY <1>3, <1>6, <2>2, SaysStatus, Zenon
  <2> QED
    BY <1>3, <2>1, <2>2, Zenon DEF Asked
<1> QED
  BY <1>1, <1>2, <1>4, <1>5, <1>6, UpSteps, ZenonT(60) DEF UpStep

(* Whom the server answers. *)
LEMMA AskedKept ==
    ASSUME TypeInv, TypeInv', Next, NEW k \in Conns, conns'[k].open, Asked(k)
    PROVE  Asked(k)' \/ ServeSyncStatus(k)
<1>t. up[k] \in Seq(ClientMsg)
  BY Zenon DEF TypeInv, TypeOK
<1>1. PICK m \in Elems(up[k]) : m.type = "SyncStatus"
  BY Zenon DEF Asked
<1>2. CASE up'[k] = up[k]
  BY <1>1, <1>2, Zenon DEF Asked
<1>3. CASE ServeReliable(k) /\ up[k] # <<>> /\ up'[k] = Tail(up[k])
  <2>1. m = Head(up[k]) \/ m \in Elems(Tail(up[k]))
    BY <1>1, <1>3, <1>t, ElemsSplit, Zenon
  <2>2. CASE m = Head(up[k])
    <3>1. Head(up[k]).type \notin {"StateOp", "RequestMerge", "StateMerge", "MarkWatched"}
      BY <1>1, <2>2, Zenon
    <3> QED
      BY <1>3, <3>1, ZenonT(60) DEF ServeReliable, Serves, ServeStateOp, ServeRequestMerge, ServeStateMerge, ServeMarkWatched
  <2>3. CASE m \in Elems(Tail(up[k]))
    BY <1>1, <1>3, <2>3, Zenon DEF Asked
  <2> QED
    BY <2>1, <2>2, <2>3, Zenon
<1>4. ASSUME NEW n \in ClientMsg, up'[k] = Append(up[k], n)
      PROVE  Asked(k)'
  <2>1. m \in Elems(up'[k])
    BY <1>1, <1>4, <1>t, ElemsAppend
  <2> QED
    BY <1>1, <2>1, Zenon DEF Asked
<1> QED
  BY <1>2, <1>3, <1>4, UpSteps, Zenon DEF UpStep

(* An answer being given, or about to be given, reaches the stream. *)
LEMMA SendingKept ==
    ASSUME TypeInv, Shapes, Next, NEW c \in Clients, NEW k, Attached(c, k), Sending(k)
    PROVE  /\ IsSync(Msg(k))
           /\ \/ job'[k] = job[k]
              \/ Msg(k) \in Elems(down'[k])
<1>1. k \in Conns /\ k \in Tasks /\ ~RestartServer /\ Live(k)
  BY TaskNames, Zenon DEF Attached, Live
<1>2. job[k] # <<>> /\ Head(job[k]).do = "send" /\ Heads(k)
  BY Zenon DEF Sending, Heads
<1>3. Head(job[k]).to = k /\ IsSync(Msg(k))
  BY <1>1, <1>2, Zenon DEF Shapes, Proper, Msg
<1>4. CASE TaskNext(k)
  <2>1. "send" \notin {"broadcast", "relay", "snapshot", "pause", "flush"}
    BY Zenon
  <2>2. TaskSend(k)
    BY <1>2, <1>4, <2>1, ZenonT(60) DEF TaskNext, TaskBroadcast, TaskRelay, TaskSnapshot, TaskPause, TaskFlush, Todo
  <2>3. down' = Send(down, k, Msg(k))
    BY <1>1, <1>3, <2>2, ZenonT(60) DEF TaskSend, Queue, Msg
  <2>4. down'[k] = Append(down[k], Msg(k)) /\ down[k] \in Seq(ServerMsg)
    BY <1>1, <2>3, Zenon DEF Send, TypeInv, TypeOK
  <2>5. Msg(k) \in ServerMsg
    BY <1>1, <1>2, MsgType, Zenon DEF TypeInv
  <2> QED
    BY <1>3, <2>4, <2>5, ElemsAppend, Zenon
<1> QED
  BY <1>1, <1>2, <1>3, <1>4, BusyTask, Zenon

(* An announcement reaches every client on an open connection. *)
LEMMA AnnouncingKept ==
    ASSUME TypeInv, Shapes, Wiring, Compacting, Next, NEW c \in Clients, NEW k, Attached(c, k), Announcing
    PROVE  \/ Announcing'
           \/ \E m \in Elems(down'[k]) : IsSync(m) /\ m.epoch = sEpoch
<1>0. k \in Conns /\ Compactor \in Tasks /\ ~RestartServer /\ Live(k) /\ k # 0
  BY TaskNames, Zenon DEF Attached, Live, On
<1>1. job[Compactor] # <<>>
  BY Zenon DEF Announcing
<1>2. CASE job'[Compactor] = job[Compactor]
  BY <1>2, Zenon DEF Announcing
<1>3. CASE TaskSnapshot(Compactor)
  <2>1. PICK w : w.do = "broadcast" /\ Do(Compactor, <<w>> \o Tail(job[Compactor]))
    <3> DEFINE msg == [type |-> Head(job[Compactor]).type, epoch |-> sEpoch, state |-> sState]
    <3>1. Do(Compactor, <<[do |-> "broadcast", skip |-> 0, msg |-> msg]>> \o Tail(job[Compactor]))
      BY <1>3, ZenonT(60) DEF TaskSnapshot
    <3> HIDE DEF msg
    <3>2. [do |-> "broadcast", skip |-> 0, msg |-> msg].do = "broadcast"
      BY Zenon
    <3> QED
      BY <3>1, <3>2, Zenon
  <2>2. ASSUME NEW what, Do(Compactor, what)
        PROVE  job'[Compactor] = what
    BY <1>0, <2>2, DoFrame, Zenon
  <2>3. job'[Compactor] = <<w>> \o Tail(job[Compactor])
    BY <2>1, <2>2, Zenon
  <2>4. job[Compactor] \in Seq(Job) /\ Proper(Compactor, job[Compactor])
    BY <1>0, Zenon DEF TypeInv, TypeOK, Shapes
  <2>5. <<w>> \o Tail(job[Compactor]) # <<>> /\ Head(<<w>> \o Tail(job[Compactor])) = w
    BY <1>1, <2>4, ProperTail, Zenon
  <2> QED
    BY <2>1, <2>3, <2>5, Zenon DEF Announcing
<1>4. CASE TaskBroadcast(Compactor)
  <2>1. Head(job[Compactor]).do = "broadcast" /\ Heads(Compactor)
    BY <1>1, <1>4, ZenonT(60) DEF TaskBroadcast, Todo, Heads
  <2>2. Head(job[Compactor]).skip = 0 /\ IsSync(Msg(Compactor)) /\ Msg(Compactor).epoch = sEpoch
    BY <1>1, <2>1, Zenon DEF Compacting
  <2>3. registry[c] = k
    BY <1>0, Zenon DEF Attached, Wiring, Dialled
  <2>4. down'[k] = Append(down[k], Msg(Compactor))
    BY <1>0, <1>4, <2>2, <2>3, ZenonT(60) DEF TaskBroadcast, Recipients, Msg
  <2>5. Msg(Compactor) \in ServerMsg /\ down[k] \in Seq(ServerMsg)
    BY <1>0, <2>1, MsgType, Zenon DEF TypeInv, TypeOK
  <2>6. Msg(Compactor) \in Elems(down'[k])
    BY <2>4, <2>5, ElemsAppend, Zenon
  <2> QED
    BY <2>2, <2>6, Zenon
<1>5. CASE TaskSend(Compactor) \/ TaskRelay(Compactor) \/ TaskPause(Compactor) \/ TaskFlush(Compactor)
  <2>1. Head(job[Compactor]).do \in {"send", "relay", "pause", "flush"}
    BY <1>5, ZenonT(60) DEF TaskSend, TaskRelay, TaskPause, TaskFlush, Todo
  <2> QED
    BY <2>1, Zenon DEF Announcing
<1> QED
  BY <1>0, <1>1, <1>2, <1>3, <1>4, <1>5, BusyTask, Zenon DEF TaskNext

-----------------------------------------------------------------------------

(* A connection's loop answers the first SyncStatus. *)
LEMMA SyncedMoves ==
    ASSUME TypeInv, Next, NEW k \in Conns, conns[k].user # 0, ~RestartServer
    PROVE  conns'[k].synced = conns[k].synced \/ ServeSyncStatus(k)
<1>t. conns \in [Conns -> Connection] /\ conns[k] \in Connection
  BY Zenon DEF TypeInv, TypeOK
<1>1. ASSUME NEW c \in Clients, Accept(c)
      PROVE  conns'[k] = conns[k]
  <2>1. PICK j \in Conns : conns[j].user = 0 /\ conns' = [conns EXCEPT ![j] = [user |-> c, open |-> TRUE, synced |-> FALSE]]
    BY <1>1, AcceptFrame, Zenon
  <2>2. j # k
    BY <2>1, Zenon
  <2> QED
    BY <1>t, <2>1, <2>2, Zenon
<1>2. ASSUME NEW j \in Conns, ServeSyncStatus(j), j # k
      PROVE  conns'[k] = conns[k]
  <2>1. conns' = [conns EXCEPT ![j].synced = TRUE]
    BY <1>2, ZenonT(60) DEF ServeSyncStatus
  <2> QED
    BY <1>2, <1>t, <2>1, Zenon
<1>3. ASSUME NEW j \in Conns, EndConnection(j)
      PROVE  conns'[k].synced = conns[k].synced
  <2>1. conns' = [conns EXCEPT ![j].open = FALSE]
    BY <1>3, ZenonT(60) DEF EndConnection
  <2> QED
    BY <1>t, <2>1, Zenon DEF Connection
<1>4. CASE (\A c \in Clients : ~Accept(c)) /\ (\A j \in Conns : ~ServeSyncStatus(j) /\ ~EndConnection(j))
  <2>1. conns' = conns
    BY <1>4, ConnsFrame, Zenon
  <2> QED
    BY <2>1, Zenon
<1> QED
  BY <1>1, <1>2, <1>3, <1>4, Zenon

(* The loop's answer. *)
LEMMA Answered ==
    ASSUME TypeInv, NEW k \in Conns, ServeSyncStatus(k)
    PROVE  /\ Asked(k) /\ up[k] # <<>> /\ Head(up[k]).type = "SyncStatus" /\ up'[k] = Tail(up[k])
           /\ ~conns[k].synced => Sending(k)' /\ IsSync(Msg(k)') /\ Msg(k)'.epoch = sEpoch
<1>1. Serves(k, "SyncStatus")
  BY Zenon DEF ServeSyncStatus
<1>2. /\ up[k] # <<>> /\ Head(up[k]) \in Elems(up[k]) /\ Head(up[k]).type = "SyncStatus" /\ up'[k] = Tail(up[k])
  BY <1>1, ServedHead, Zenon
<1>3. Asked(k)
  BY <1>2, Zenon DEF Asked
<1>4. ASSUME ~conns[k].synced
      PROVE  Sending(k)' /\ IsSync(Msg(k)') /\ Msg(k)'.epoch = sEpoch
  <2>1. PICK type \in {"StateMerge", "StateSnapshot"} :
          Do(k, <<[do |-> "send", to |-> k, msg |-> [type |-> type, epoch |-> sEpoch, state |-> sState]]>>)
    <3>1. Do(k, <<[do |-> "send", to |-> k,
                   msg |-> [type |-> IF Head(up[k]).epoch = sEpoch /\ Head(up[k]).hash = View(sState)
                                     THEN "StateMerge" ELSE "StateSnapshot",
                            epoch |-> sEpoch, state |-> sState]]>>)
      BY <1>4, ZenonT(60) DEF ServeSyncStatus
    <3>2. (IF Head(up[k]).epoch = sEpoch /\ Head(up[k]).hash = View(sState)
           THEN "StateMerge" ELSE "StateSnapshot") \in {"StateMerge", "StateSnapshot"}
      BY Zenon
    <3> QED
      BY <3>1, <3>2, Zenon
  <2> DEFINE msg == [type |-> type, epoch |-> sEpoch, state |-> sState]
             w == [do |-> "send", to |-> k, msg |-> msg]
  <2>2. msg.epoch = sEpoch /\ IsSync(msg) /\ w.do = "send" /\ w.msg = msg
    BY Zenon DEF IsSync
  <2>3. Do(k, <<w>>)
    BY <2>1, Zenon
  <2> HIDE DEF w, msg
  <2>4. job'[k] = <<w>>
    BY <2>3, DoFrame, TaskNames, Zenon
  <2>5. job'[k] # <<>> /\ Head(job'[k]) = w
    BY <2>4
  <2> QED
    BY <2>2, <2>5, Zenon DEF Sending, Msg
<1> QED
  BY <1>2, <1>3, <1>4, Zenon

(* A client that is not greeted yet. *)
LEMMA GreetingKept ==
    ASSUME TypeInv, TypeInv', Wiring, PlainJobs, Next, NEW c \in Clients, ~Accept(c), NEW k, Attached(c, k),
           ShakesHands(c), cl'[c].link = "Down"
    PROVE  Greeting(k)'
<1>0. /\ k = cl[c].conn /\ k \in Conns /\ conns[k].user # 0 /\ ~RestartServer /\ ClientStep(c)
  BY ClientsAssumption, Zenon DEF Attached
<1>1. cl[c].link = "Down"
  BY <1>0, Zenon DEF ClientStep, Idles, HearsOp, Writes, Lands, Landed
<1>2. Greeting(k)
  BY <1>0, <1>1, Zenon DEF ShakesHands
<1>3. ~Connected(c)
  <2>1. Connected(c) => cl'[c].link = "AwaitingSync"
    BY GreetingReceived, Zenon
  <2> QED
    BY <2>1, Zenon
<1>4. ~Asked(k)'
  BY <1>2, <1>3, AskedBack, Zenon DEF Greeting
<1>5. ~conns'[k].synced
  <2>1. ~ServeSyncStatus(k)
    BY <1>0, <1>2, Answered, Zenon DEF Greeting
  <2> QED
    BY <1>0, <1>2, <2>1, SyncedMoves, Zenon DEF Greeting
<1>t. down[k] \in Seq(ServerMsg)
  BY <1>0, Zenon DEF TypeInv, TypeOK
<1>6. CASE down'[k] = down[k]
  BY <1>2, <1>4, <1>5, <1>6, Zenon DEF Greeting
<1>7. ~ClientReceives(c)
  BY <1>0, <1>2, <1>3, GreetingReceived, Zenon DEF Greeting, Frame
<1>8. ASSUME NEW t \in Tasks, Queues(t, k), down'[k] = Append(down[k], Msg(t))
      PROVE  Greeting(k)'
  <2>1. Msg(t) \in ServerMsg /\ Heads(t)
    BY <1>8, MsgType, Zenon DEF Queues, TypeInv
  <2>2. Msg(t).type # "AuthOk"
    BY <2>1, Zenon DEF PlainJobs
  <2>3. down[k] # <<>>
    BY <1>2, Zenon DEF Greeting
  <2>4. /\ Append(down[k], Msg(t)) # <<>> /\ Head(Append(down[k], Msg(t))) = Head(down[k])
        /\ Tail(Append(down[k], Msg(t))) = Append(Tail(down[k]), Msg(t))
        /\ Tail(down[k]) \in Seq(ServerMsg)
    BY <1>t, <2>1, <2>3, AppendShape, Zenon
  <2>5. \A x : x \in Elems(Append(Tail(down[k]), Msg(t))) <=> x \in Elems(Tail(down[k])) \/ x = Msg(t)
    <3>1. ASSUME NEW q \in Seq(ServerMsg), NEW n \in ServerMsg
          PROVE  \A x : x \in Elems(Append(q, n)) <=> x \in Elems(q) \/ x = n
      BY <3>1, ElemsAppend, Zenon
    <3> QED
      BY <2>1, <2>4, <3>1, Zenon
  <2> QED
    BY <1>2, <1>4, <1>5, <1>8, <2>2, <2>4, <2>5, ZenonT(60) DEF Greeting
<1> QED
  BY <1>6, <1>7, <1>8, DownOf, Zenon

(* A client that is greeted is not greeted again. *)
LEMMA GreetedKept ==
    ASSUME TypeInv, TypeInv', Wiring, PlainJobs, Next, NEW c \in Clients, ~Accept(c), NEW k, Attached(c, k),
           ShakesHands(c), cl'[c].link # "Down"
    PROVE  Greeted(k)'
<1>0. /\ k = cl[c].conn /\ k \in Conns /\ ClientStep(c)
  BY Zenon DEF Attached
<1>t. down[k] \in Seq(ServerMsg)
  BY <1>0, Zenon DEF TypeInv, TypeOK
<1>1. CASE cl[c].link = "Down"
  <2>1. Connected(c)
    BY <1>0, <1>1, Zenon DEF ClientStep, Idles, HearsOp, Writes, Lands, Landed
  <2>2. down'[k] = Tail(down[k])
    BY <1>0, <2>1, GreetingReceived, Zenon
  <2>3. \A m \in Elems(Tail(down[k])) : m.type # "AuthOk"
    BY <1>0, <1>1, Zenon DEF ShakesHands, Greeting
  <2> QED
    BY <2>2, <2>3, Zenon DEF Greeted
<1>2. CASE cl[c].link # "Down"
  <2>1. Greeted(k)
    BY <1>0, <1>2, Zenon DEF ShakesHands
  <2>2. CASE down'[k] = down[k]
    BY <2>1, <2>2, Zenon DEF Greeted
  <2>3. CASE down[k] # <<>> /\ down'[k] = Tail(down[k])
    <3>1. \A x \in Elems(Tail(down[k])) : x \in Elems(down[k])
      BY <1>t, <2>3, ElemsTail, Zenon
    <3> QED
      BY <2>1, <2>3, <3>1, Zenon DEF Greeted
  <2>4. ASSUME NEW t \in Tasks, Queues(t, k), down'[k] = Append(down[k], Msg(t))
        PROVE  Greeted(k)'
    <3>1. Msg(t) \in ServerMsg /\ Heads(t)
      BY <2>4, MsgType, Zenon DEF Queues, TypeInv
    <3>2. Msg(t).type # "AuthOk"
      BY <3>1, Zenon DEF PlainJobs
    <3>3. \A x : x \in Elems(Append(down[k], Msg(t))) <=> x \in Elems(down[k]) \/ x = Msg(t)
      BY <1>t, <3>1, ElemsAppend
    <3> QED
      BY <2>1, <2>4, <3>2, <3>3, Zenon DEF Greeted
  <2> QED
    BY <2>2, <2>3, <2>4, DownOf, Zenon
<1> QED
  BY <1>1, <1>2, Zenon

(* Only a client that is down is greeted. *)
LEMMA GreetedWhenDown ==
    ASSUME TypeInv, NEW c \in Clients, On(c), ShakesHands(c), Connected(c)
    PROVE  cl[c].link = "Down" /\ Greeting(cl[c].conn)
<1>1. Frame(c).type = "AuthOk" /\ Frame(c) \in Elems(down[cl[c].conn])
  BY GreetingReceived, Zenon
<1> QED
  BY <1>1, Zenon DEF ShakesHands, Greeted

(* A client asks once. *)
LEMMA AskedOnceKept ==
    ASSUME TypeInv, TypeInv', Wiring, Next, NEW c \in Clients, ~Accept(c), NEW k, Attached(c, k),
           ShakesHands(c), Asked(k)', NEW q, q = up'[k]
    PROVE  ~conns'[k].synced /\ AskedOnce(q)
<1>0. /\ k = cl[c].conn /\ k \in Conns /\ conns[k].user # 0 /\ ~RestartServer /\ On(c) /\ On(c)'
  BY ClientsAssumption, Zenon DEF Attached
<1>o. \A d \in Clients : cl[d].conn = k => d = c
  BY <1>0, AttachedOn, Zenon
<1>t. up[k] \in Seq(ClientMsg) /\ q \in Seq(ClientMsg)
  BY <1>0, Zenon DEF TypeInv, TypeOK
<1>n. ASSUME ~Asked(k), NEW i \in 1..Len(up[k])
      PROVE  up[k][i].type # "SyncStatus"
  BY <1>n, Zenon DEF Asked, Elems
<1>1. AskedOnce(up[k]) /\ ~conns[k].synced
  <2>1. CASE Asked(k)
    BY <1>0, <2>1, Zenon DEF ShakesHands
  <2>2. CASE ~Asked(k)
    <3>1. Connected(c)
      BY <2>2, AskedBack, Zenon
    <3>2. ~conns[k].synced
      BY <1>0, <3>1, GreetedWhenDown, Zenon DEF Greeting
    <3> QED
      BY <1>n, <2>2, <3>2, Zenon DEF AskedOnce
  <2> QED
    BY <2>1, <2>2, Zenon
<1>2. ASSUME ServeSyncStatus(k)
      PROVE  FALSE
  <2>1. Asked(k) /\ up[k] # <<>> /\ Head(up[k]).type = "SyncStatus" /\ q = Tail(up[k])
    BY <1>0, <1>2, Answered, Zenon
  <2>2. PICK m \in Elems(q) : m.type = "SyncStatus"
    BY Zenon DEF Asked
  <2>3. PICK i \in 1..Len(q) : m = q[i]
    BY <2>2, Zenon DEF Elems
  <2>4. i + 1 \in 1..Len(up[k]) /\ up[k][i + 1] = m /\ 1 \in 1..Len(up[k]) /\ up[k][1] = Head(up[k]) /\ i + 1 # 1
    BY <1>t, <2>1, <2>3
  <2> QED
    BY <1>1, <2>1, <2>2, <2>4, Zenon DEF AskedOnce
<1>3. ~conns'[k].synced
  BY <1>0, <1>1, <1>2, SyncedMoves, Zenon
<1>4. ASSUME q = up[k]
      PROVE  AskedOnce(q)
  BY <1>1, <1>4, Zenon
<1>5. ASSUME up[k] # <<>>, q = Tail(up[k])
      PROVE  AskedOnce(q)
  <2>1. SUFFICES ASSUME NEW i \in 1..Len(q), NEW j \in 1..Len(q), q[i].type = "SyncStatus", q[j].type = "SyncStatus"
                 PROVE  i = j
    BY Zenon DEF AskedOnce
  <2>2. /\ i + 1 \in 1..Len(up[k]) /\ up[k][i + 1] = q[i]
        /\ j + 1 \in 1..Len(up[k]) /\ up[k][j + 1] = q[j]
    BY <1>t, <1>5, <2>1
  <2>3. i + 1 = j + 1
    BY <1>1, <2>1, <2>2, Zenon DEF AskedOnce
  <2> QED
    BY <2>1, <2>3
<1>6. ASSUME NEW n \in ClientMsg, Says(c, n), q = Append(up[k], n)
      PROVE  AskedOnce(q)
  <2>1. \A i \in 1..Len(q) : (i \in 1..Len(up[k]) /\ q[i] = up[k][i]) \/ (i = Len(up[k]) + 1 /\ q[i] = n)
    BY <1>t, <1>6
  <2>2. n.type = "SyncStatus" => ~Asked(k)
    <3>1. n.type = "SyncStatus" => Connected(c)
      BY <1>6, SaysStatus, Zenon
    <3> QED
      BY <1>0, <3>1, GreetedWhenDown, Zenon DEF Greeting
  <2>3. n.type = "SyncStatus" => \A i \in 1..Len(up[k]) : up[k][i].type # "SyncStatus"
    BY <1>n, <2>2, Zenon
  <2> QED
    BY <1>1, <2>1, <2>3, ZenonT(60) DEF AskedOnce
<1> QED
  BY <1>3, <1>4, <1>5, <1>6, <1>0, <1>o, UpSteps, ZenonT(60) DEF UpStep, Attached

(* A state on its way stays on its way until the client takes or refuses it. *)
LEMMA SyncKept ==
    ASSUME TypeInv, Wiring, Next, NEW c \in Clients, ~Accept(c), NEW k, Attached(c, k),
           NEW m \in Elems(down[k]), IsSync(m)
    PROVE  \/ m \in Elems(down'[k])
           \/ cl'[c] = cl[c] /\ m.epoch < cl[c].epoch /\ cl[c].link \notin {"AwaitingSync", "Replaying"}
           \/ Lands(c) /\ cl'[c].epoch = m.epoch
<1>0. k = cl[c].conn /\ k \in Conns
  BY Zenon DEF Attached
<1>t. down[k] \in Seq(ServerMsg)
  BY <1>0, Zenon DEF TypeInv, TypeOK
<1>1. CASE down'[k] = down[k]
  BY <1>1, Zenon
<1>2. CASE ClientReceives(c) /\ down[k] # <<>> /\ down'[k] = Tail(down[k])
  <2>1. m = Head(down[k]) \/ m \in Elems(down'[k])
    BY <1>2, <1>t, ElemsSplit, Zenon
  <2>2. CASE m = Head(down[k])
    <3>1. Frame(c) = m
      BY <1>0, <2>2, Zenon DEF Frame
    <3>2. RecvStateMerge(c) \/ RecvStateSnapshot(c)
      BY <1>2, <3>1, GreetingReceived, Zenon
    <3>3. cl[c].link # "Replaying"
      BY <3>2, ZenonT(60) DEF RecvStateMerge, RecvStateSnapshot, Receives
    <3>4. Lands(c) => cl'[c].epoch = m.epoch
      BY <3>1, Zenon DEF Lands
    <3>5. \/ cl' = cl /\ Frame(c).epoch < cl[c].epoch /\ cl[c].link # "AwaitingSync"
          \/ Lands(c)
      BY <3>2, SyncReceived, Zenon
    <3> QED
      BY <3>1, <3>3, <3>4, <3>5, Zenon
  <2> QED
    BY <2>1, <2>2, Zenon
<1>3. ASSUME NEW t \in Tasks, Queues(t, k), down'[k] = Append(down[k], Msg(t))
      PROVE  m \in Elems(down'[k])
  <2>1. Msg(t) \in ServerMsg
    BY <1>3, MsgType, Zenon DEF Queues, TypeInv
  <2> QED
    BY <1>3, <1>t, <2>1, ElemsAppend, Zenon
<1> QED
  BY <1>1, <1>2, <1>3, DownOf, Zenon

(* A question asked is still asked, or is being answered. *)
LEMMA QuestionKept ==
    ASSUME TypeInv, TypeInv', Next, NEW c \in Clients, NEW k, Attached(c, k), ShakesHands(c), Asked(k)
    PROVE  Asked(k)' \/ (Sending(k)' /\ Msg(k)'.epoch = sEpoch)
<1>0. k = cl[c].conn /\ k \in Conns /\ conns'[k].open
  BY Zenon DEF Attached
<1>1. ~conns[k].synced
  BY <1>0, Zenon DEF ShakesHands
<1> QED
  BY <1>0, <1>1, AskedKept, Answered, Zenon

(* A client waiting for its initial sync is going to have it. *)
LEMMA AnswerKept ==
    ASSUME TypeInv, TypeInv', Shapes, Wiring, Next, NEW c \in Clients, ~Accept(c), NEW k, Attached(c, k),
           ShakesHands(c), cl'[c].link = "AwaitingSync"
    PROVE  Answering(k)'
<1>0. k = cl[c].conn /\ k = cl'[c].conn /\ k \in Conns /\ ClientStep(c)
  BY Zenon DEF Attached
<1>1. CASE Connected(c)
  BY <1>0, <1>1, GreetingReceived, Zenon DEF Answering, Asked
<1>2. CASE ~Connected(c)
  <2>1. cl[c].link = "AwaitingSync" /\ ~Lands(c)
    BY <1>0, <1>2, Zenon DEF ClientStep, Idles, HearsOp, Writes, Lands, Landed
  <2>2. Answering(k)
    BY <1>0, <2>1, Zenon DEF ShakesHands
  <2>3. CASE Asked(k)
    BY <2>3, QuestionKept, Zenon DEF Answering
  <2>4. CASE Sending(k)
    <3>1. IsSync(Msg(k)) /\ (job'[k] = job[k] \/ Msg(k) \in Elems(down'[k]))
      BY <2>4, SendingKept, Zenon
    <3> QED
      BY <2>4, <3>1, Zenon DEF Answering, Sending
  <2>5. ASSUME NEW m \in Elems(down[k]), IsSync(m)
        PROVE  Answering(k)'
    <3>1. m \in Elems(down'[k])
      BY <2>1, <2>5, SyncKept, Zenon
    <3> QED
      BY <2>5, <3>1, Zenon DEF Answering
  <2> QED
    BY <2>2, <2>3, <2>4, <2>5, Zenon DEF Answering
<1> QED
  BY <1>1, <1>2, Zenon

(* A compaction announces itself. *)
LEMMA CompactAnnounces ==
    ASSUME TypeInv, Compact
    PROVE  Announcing'
<1> DEFINE w == [do |-> "snapshot", type |-> "StateSnapshot"]
           v == [do |-> "flush"]
<1>1. Do(Compactor, <<w, v>>)
  BY ZenonT(60) DEF Compact
<1>2. w.do = "snapshot"
  BY Zenon
<1> HIDE DEF w, v
<1>3. ASSUME NEW what, Do(Compactor, what)
      PROVE  job'[Compactor] = what
  BY <1>3, DoFrame, TaskNames, Zenon
<1>4. job'[Compactor] = <<w, v>>
  BY <1>1, <1>3, Zenon
<1>5. job'[Compactor] # <<>> /\ Head(job'[Compactor]) = w
  BY <1>4
<1> QED
  BY <1>2, <1>5, Zenon DEF Announcing

(* A client is at the server's epoch, or is going to be. *)
LEMMA UpdateKept ==
    ASSUME TypeInv, TypeInv', Shapes, Wiring, Known, EpochsKnown, Compacting, Next,
           NEW c \in Clients, ~Accept(c), NEW k, Attached(c, k), ShakesHands(c)
    PROVE  cl'[c].link = "Down" \/ (Linked(c)' /\ cl'[c].epoch = sEpoch') \/ Updating(k)'
<1>0. /\ k = cl[c].conn /\ k = cl'[c].conn /\ k \in Conns /\ ClientStep(c) /\ On(c) /\ ~RestartServer /\ conns[k].open
  BY Zenon DEF Attached
<1>t. cl[c].epoch \in Nat /\ sEpoch \in Nat /\ cl[c].link \in {"Down", "AwaitingSync", "Replaying", "Synced"}
  BY ClientFields, Zenon DEF TypeInv, TypeOK, Link
<1>1. CASE Compact
  BY <1>1, CompactAnnounces, Zenon DEF Updating
<1>2. CASE Connected(c)
  BY <1>0, <1>2, GreetingReceived, Zenon DEF Updating, Asked
<1>3. CASE ~Compact /\ ~Connected(c)
  <2>0. sEpoch' = sEpoch
    BY <1>0, <1>3, EpochStays, Zenon
  <2>1. CASE cl[c].link = "Down"
    BY <1>0, <1>3, <2>1, Zenon DEF ClientStep, Idles, HearsOp, Writes, Lands, Landed
  <2>2. CASE Linked(c) /\ cl[c].epoch = sEpoch
    <3>1. CASE Lands(c)
      <4>1. /\ cl'[c].epoch = Frame(c).epoch /\ IsSync(Frame(c)) /\ Frame(c) \in Elems(down[k])
            /\ Frame(c) \in ServerMsg
            /\ Frame(c).epoch < cl[c].epoch => cl[c].link = "AwaitingSync"
        BY <1>0, <3>1, Zenon DEF Lands
      <4>2. Behind(Frame(c))
        BY <1>0, <4>1, Zenon DEF Known, DownKnown, Sound
      <4>3. Frame(c).epoch \in Nat
        BY <4>1, ServerMsgFields, Zenon DEF IsSync
      <4>4. cl'[c].epoch = sEpoch
        BY <1>t, <2>2, <4>1, <4>2, <4>3, Zenon DEF Behind, Linked
      <4>5. Linked(c)'
        BY <2>2, <3>1, Zenon DEF Linked, Lands, Landed
      <4> QED
        BY <2>0, <4>4, <4>5, Zenon
    <3>2. CASE ~Lands(c)
      <4>1. cl'[c].link \in {"Replaying", "Synced"} /\ cl'[c].epoch = cl[c].epoch
        BY <1>0, <1>3, <2>2, <3>2, Zenon DEF ClientStep, Linked, Idles, HearsOp, Writes
      <4> QED
        BY <2>0, <2>2, <4>1, Zenon DEF Linked
    <3> QED
      BY <3>1, <3>2, Zenon
  <2>3. CASE Announcing
    BY <2>0, <2>3, AnnouncingKept, Zenon DEF Updating
  <2>4. CASE Asked(k)
    BY <2>0, <2>4, QuestionKept, Zenon DEF Updating
  <2>5. CASE Sending(k) /\ Msg(k).epoch = sEpoch
    <3>1. IsSync(Msg(k)) /\ (job'[k] = job[k] \/ Msg(k) \in Elems(down'[k]))
      BY <2>5, SendingKept, Zenon
    <3> QED
      BY <2>0, <2>5, <3>1, Zenon DEF Updating, Sending, Msg
  <2>6. ASSUME NEW m \in Elems(down[k]), IsSync(m), m.epoch = sEpoch
        PROVE  cl'[c].link = "Down" \/ (Linked(c)' /\ cl'[c].epoch = sEpoch') \/ Updating(k)'
    <3>1. CASE m \in Elems(down'[k])
      BY <2>0, <2>6, <3>1, Zenon DEF Updating
    <3>2. CASE cl'[c] = cl[c] /\ m.epoch < cl[c].epoch /\ cl[c].link \notin {"AwaitingSync", "Replaying"}
      <4>1. cl[c].link # "Synced"
        BY <1>0, <1>t, <2>6, <3>2 DEF EpochsKnown, Linked
      <4> QED
        BY <1>t, <3>2, <4>1, Zenon
    <3>3. CASE Lands(c) /\ cl'[c].epoch = m.epoch
      <4>1. cl'[c].link \in {"Down", "Replaying", "Synced"}
        BY <1>t, <3>3, Zenon DEF Lands, Landed
      <4> QED
        BY <2>0, <2>6, <3>3, <4>1, Zenon DEF Linked
    <3> QED
      BY <2>6, <3>1, <3>2, <3>3, SyncKept, Zenon
  <2> QED
    BY <1>0, <2>1, <2>2, <2>3, <2>4, <2>5, <2>6, ZenonT(60) DEF ShakesHands, Updating
<1> QED
  BY <1>1, <1>2, <1>3, Zenon

(* A client that is accepted is being greeted. *)
LEMMA AcceptedGreeting ==
    ASSUME TypeInv, TypeInv', Wiring, NEW c \in Clients, Accept(c)
    PROVE  ShakesHands(c)'
<1>1. PICK k \in Conns :
        /\ conns[k].user = 0
        /\ conns' = [conns EXCEPT ![k] = [user |-> c, open |-> TRUE, synced |-> FALSE]]
        /\ down' = Send(down, k, [type |-> "AuthOk"])
        /\ cl'[c] = [cl[c] EXCEPT !.conn = k]
  BY AcceptFrame, Zenon
<1>t. conns \in [Conns -> Connection] /\ cl[c] \in Client /\ down \in [Conns -> Seq(ServerMsg)]
  BY Zenon DEF TypeInv, TypeOK
<1>2. up' = up
  BY ZenonT(60) DEF Accept
<1>3. up[k] = <<>> /\ down[k] = <<>>
  BY <1>1, Zenon DEF Wiring, Unused
<1>4. cl'[c].conn = k /\ ~conns'[k].synced
  BY <1>1, <1>t, Zenon DEF Client
<1>5. cl'[c].link = "Down"
  BY AcceptUnlinked, Zenon
<1>6. down'[k] = Append(<<>>, [type |-> "AuthOk"])
  BY <1>1, <1>3, <1>t, Zenon DEF Send
<1>e. Elems(<<>>) = {}
  BY DEF Elems
<1>7. ~Asked(k)'
  BY <1>2, <1>3, <1>e, Zenon DEF Asked
<1>8. Greeting(k)'
  <2>1. /\ down'[k] # <<>> /\ Head(down'[k]) = [type |-> "AuthOk"] /\ Tail(down'[k]) = <<>>
    BY <1>6
  <2>2. Elems(Tail(down'[k])) = {}
    BY <1>e, <2>1, Zenon
  <2>3. Head(down'[k]).type = "AuthOk"
    BY <2>1
  <2> QED
    BY <1>4, <1>7, <2>1, <2>2, <2>3, Zenon DEF Greeting
<1>9. "Down" # "AwaitingSync"
  BY Zenon
<1> QED
  BY <1>4, <1>5, <1>7, <1>8, <1>9, ZenonT(60) DEF ShakesHands

(* The handshake is kept. *)
LEMMA HandshakeKept ==
    ASSUME HubInv, HubInv', InSequence, Handshake, [Next]_vars
    PROVE  Handshake'
<1>1. CASE Next
  <2>0. /\ TypeInv /\ TypeInv' /\ Shapes /\ Wiring /\ Known /\ EpochsKnown
        /\ PlainJobs /\ Compacting
    BY Zenon DEF HubInv, InSequence, Handshake
  <2>1. PlainJobs' /\ Compacting'
    BY <1>1, <2>0, PlainJobsKept, CompactingKept, Zenon
  <2>2. ASSUME NEW c \in Clients, On(c)'
        PROVE  ShakesHands(c)'
    <3>1. CASE Accept(c)
      BY <2>0, <3>1, AcceptedGreeting, Zenon
    <3>2. CASE ~Accept(c)
      <4>1. PICK k : k = cl[c].conn
        BY Zenon
      <4>2. Attached(c, k)
        BY <1>1, <2>0, <2>2, <3>2, <4>1, AttachedOn, Zenon
      <4>3. On(c) /\ cl'[c].conn = k
        BY <4>2, Zenon DEF Attached
      <4>4. ShakesHands(c)
        BY <4>3, Zenon DEF Handshake
      <4>5. cl'[c].link = "Down" => Greeting(k)'
        BY <1>1, <2>0, <3>2, <4>2, <4>4, GreetingKept, Zenon
      <4>6. cl'[c].link # "Down" => Greeted(k)'
        BY <1>1, <2>0, <3>2, <4>2, <4>4, GreetedKept, Zenon
      <4>7. PICK q : q = up'[k]
        BY Zenon
      <4>8. Asked(k)' => ~conns'[k].synced /\ AskedOnce(q)
        BY <1>1, <2>0, <3>2, <4>2, <4>4, <4>7, AskedOnceKept, Zenon
      <4>9. cl'[c].link = "AwaitingSync" => Answering(k)'
        BY <1>1, <2>0, <3>2, <4>2, <4>4, AnswerKept, Zenon
      <4>10. cl'[c].link = "Down" \/ (Linked(c)' /\ cl'[c].epoch = sEpoch') \/ Updating(k)'
        BY <1>1, <2>0, <3>2, <4>2, <4>4, UpdateKept, Zenon
      <4> QED
        BY <4>3, <4>5, <4>6, <4>7, <4>8, <4>9, <4>10, ZenonT(60) DEF ShakesHands, AskedOnce
    <3> QED
      BY <3>1, <3>2, Zenon
  <2> QED
    BY <2>1, <2>2, Zenon DEF Handshake
<1>2. CASE UNCHANGED vars
  BY <1>2, ZenonT(120) DEF vars, netVars, connVars, cliVars, srvVars, Handshake, PlainJobs, Compacting, ShakesHands,
       On, Heads, Msg, Greeting, Greeted, Asked, AskedOnce, Answering, Updating, Sending, Announcing, Linked
<1> QED
  BY <1>1, <1>2

(* Nobody is linked at the start, and nothing is being sent. *)
LEMMA HandshakeInit ==
    ASSUME Init
    PROVE  Handshake
<1>1. \A c \in Clients : ~On(c)
  BY DEF Init, StartedClient, On
<1>2. \A t \in Tasks : job[t] = <<>>
  BY DEF Init
<1>3. job[Compactor] = <<>>
  BY <1>2, TaskNames
<1> QED
  BY <1>1, <1>2, <1>3, Zenon DEF Handshake, PlainJobs, Compacting, Heads

(* A client whose handshake is in order is not wedged. *)
LEMMA Unwedged ==
    ASSUME HubInv, Handshake
    PROVE  NoWedge
<1>1. SUFFICES ASSUME NEW c \in Clients, registry[c] # 0, cl[c].conn = registry[c],
                      Settled(cl[c].conn), cl[c].link # "Replaying"
               PROVE  cl[c].link = "Synced" /\ cl[c].epoch = sEpoch
  BY Zenon DEF NoWedge
<1>2. PICK k : k = cl[c].conn
  OBVIOUS
<1>3. /\ up[k] = <<>> /\ down[k] = <<>> /\ job[k] = <<>> /\ job[Compactor] = <<>> /\ On(c)
  BY <1>1, <1>2, Zenon DEF Settled, On
<1>4. ShakesHands(c)
  BY <1>1, <1>3, Zenon DEF Handshake
<1>5. Elems(up[k]) = {} /\ Elems(down[k]) = {}
  BY <1>3 DEF Elems
<1>6. ~Asked(k) /\ ~Sending(k) /\ ~Announcing /\ ~Answering(k) /\ ~Updating(k) /\ ~Greeting(k)
  BY <1>3, <1>5, Zenon DEF Asked, Sending, Announcing, Answering, Updating, Greeting
<1>7. cl[c].link # "Down" /\ Linked(c) /\ cl[c].epoch = sEpoch
  BY <1>2, <1>4, <1>6, Zenon DEF ShakesHands
<1> QED
  BY <1>1, <1>7 DEF Linked
=============================================================================
