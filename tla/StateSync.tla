------------------------------ MODULE StateSync ------------------------------
(***************************************************************************)
(* State synchronisation: the clients' sync actors                         *)
(* (dessplay/src/actors/sync.rs) and the rendezvous server                 *)
(* (dessplay-rendezvous/src/server.rs) that is their hub.                  *)
(*                                                                         *)
(* The server runs on a multi-threaded runtime: one task per connection    *)
(* and a few background tasks.  A task holds the state lock for a section  *)
(* and then, unlocked, queues what it has to send, so sections and sends   *)
(* of different tasks interleave.  job[t] is what task t has still to do   *)
(* before it takes its next input.  A client's sync actor is a single task *)
(* handling one command at a time.                                         *)
(*                                                                         *)
(* Connections are numbered as they are accepted (conn_id).  The control   *)
(* stream is reliable and ordered in each direction; datagrams are lost,   *)
(* delayed and reordered.  What was queued for a client that has given up  *)
(* on a connection is gone; what it had sent may still be served.          *)
(***************************************************************************)
EXTENDS LwwMap, Sequences

CONSTANTS Clients,
          ActorOf(_, _),   \* ActorId of a client's n-th session, in watched
          PosActorOf(_, _),  \* the same ActorId, in playback_position
          PositionOf(_),   \* a client's user, as a key of playback_position
          Clocks,          \* shared-clock readings a stamp may see
          Values,          \* values clients write to the map
          Alarm            \* whether the 30 s hash broadcast runs

\* Bounds on how often the environment acts.
CONSTANTS MaxConns, MaxMapWrites, MaxRegWrites, MaxTicks, MaxMarks, MaxDrops,
          MaxCompactions, MaxPauses, MaxClientRestarts, MaxServerRestarts,
          Datagrams        \* 1 where eager datagram copies are sent, 0 elsewhere

ASSUME SessionsAssumption ==
    \A c \in Clients, n \in 0..MaxClientRestarts :
        {ActorOf(c, n), PosActorOf(c, n)} \subseteq Actors \ {Server, ServerPos}
\* An ActorId is a hash of the username and a random nonce: no two sessions share one.
ASSUME ActorsDistinct ==
    \A c, d \in Clients : \A m, n \in 0..MaxClientRestarts :
        /\ ActorOf(c, m) = ActorOf(d, n) => c = d /\ m = n
        /\ PosActorOf(c, m) = PosActorOf(d, n) => c = d /\ m = n
        /\ ActorOf(c, m) # PosActorOf(d, n)
ASSUME ClientsAssumption == 0 \notin Clients   \* 0 stands for no user
ASSUME InputsAssumption ==
    /\ Clocks \subseteq Nat
    /\ Values \subseteq Nat \ {0}
    /\ Alarm \in BOOLEAN
    /\ \A c \in Clients : PositionOf(c) \in Positions
ASSUME BoundsAssumption ==
    /\ {MaxConns, MaxMapWrites, MaxRegWrites, MaxTicks, MaxMarks, MaxDrops, MaxCompactions,
        MaxPauses, MaxClientRestarts, MaxServerRestarts, Datagrams} \subseteq Nat

VARIABLES
    sState, sEpoch, sLast,   \* Shared: state, epoch, last_issued
    sDisk,                   \* the snapshot in the server's storage
    registry,                \* the connection registered for each client, or 0
    conns,                   \* per connection: its user and its serve loop
    job,                     \* per server task: what it has still to do
    up, down,                \* control stream of each connection, per direction
    dgrams,                  \* datagrams in flight
    cl,                      \* per client: its SyncActor and its connection
    cDisk,                   \* the snapshot in each client's storage
    issued,                  \* history: every op a client has issued
    left                     \* how often the environment may still act

srvVars == <<sState, sEpoch, sLast, sDisk>>
connVars == <<registry, conns>>
netVars == <<up, down, dgrams>>
cliVars == <<cl, cDisk, issued>>
vars == <<srvVars, connVars, job, netVars, cliVars, left>>

-----------------------------------------------------------------------------
Conns == 1..MaxConns

\* Server tasks: one per connection, named by it, and the compaction schedule,
\* the hash broadcast and the presence sweeper.
Compactor == 0
Hasher == -1
Sweeper == -2
Tasks == Conns \cup {Compactor, Hasher, Sweeper}

Snapshot == [epoch : Nat, state : CrdtState]

ClientMsg ==
    [type : {"SyncStatus"}, epoch : Nat, hash : Views]
    \cup [type : {"StateOp"}, epoch : Nat, op : Op]
    \cup [type : {"StateMerge"}, epoch : Nat, state : CrdtState]
    \cup [type : {"MarkWatched"}, key : Flags, val : Nat]
    \cup [type : {"RequestMerge"}]

ServerMsg ==
    [type : {"StateOp"}, epoch : Nat, op : Op]
    \cup [type : {"StateMerge", "StateSnapshot"}, epoch : Nat, state : CrdtState]
    \cup [type : {"StateHash"}, epoch : Nat, hash : Views]
    \cup [type : {"AuthOk"}]

\* What a server task may have left to do: queue a message on one connection's
\* outbox, broadcast one, relay one as a datagram only, take a snapshot to send
\* to everyone, apply a forced pause already stamped, save the state.
Job ==
    [do : {"send"}, to : Conns, msg : ServerMsg]
    \cup [do : {"broadcast"}, skip : Conns \cup {0}, msg : ServerMsg]
    \cup [do : {"relay"}, skip : Conns \cup {0},
          msg : [type : {"StateOp"}, epoch : Nat, op : Op]]
    \cup [do : {"snapshot"}, type : {"StateMerge", "StateSnapshot"}]
    \cup [do : {"pause"}, ts : Nat]
    \cup [do : {"flush"}]

Link == {"Down", "AwaitingSync", "Replaying", "Synced"}

\* position is offline_position, a sequence of one op at most; ticked tells
\* whether there is a last_reliable_position.
Client ==
    [session : Nat, state : CrdtState, epoch : Nat, last : Nat, link : Link,
     conn : Conns \cup {0}, buffer : Seq(Op), position : Seq(Op), ticked : BOOLEAN,
     mismatches : Nat, heals : Nat]

\* A connection's user (0: not accepted yet), whether its serve loop runs, and
\* whether that loop has answered a SyncStatus (initial_sync_sent).
Connection == [user : Clients \cup {0}, open : BOOLEAN, synced : BOOLEAN]

Dgram == [conn : Conns, to : {"server", "client"}, epoch : Nat, op : Op]

\* How an op left its author: not at all (the link was down), on the control
\* stream and as a datagram, or as a datagram only.
Via == {"offline", "eager", "datagram"}

Budget == {"map", "reg", "tick", "mark", "drop", "compact", "pause", "session", "crash", "datagram"}

(* Every variable holds a value of its type. *)
TypeOK ==
    /\ sState \in CrdtState /\ sEpoch \in Nat /\ sLast \in Nat
    /\ sDisk \in Snapshot
    /\ registry \in [Clients -> Conns \cup {0}]
    /\ conns \in [Conns -> Connection]
    /\ job \in [Tasks -> Seq(Job)]
    /\ up \in [Conns -> Seq(ClientMsg)]
    /\ down \in [Conns -> Seq(ServerMsg)]
    /\ dgrams \subseteq Dgram
    /\ cl \in [Clients -> Client]
    /\ cDisk \in [Clients -> Snapshot]
    /\ issued \subseteq [op : Op, by : Clients, via : Via]
    /\ left \in [Budget -> Nat]

-----------------------------------------------------------------------------
MaxOf(a, b) == IF a < b THEN b ELSE a

Allowance ==
    [b \in Budget |-> CASE b = "map" -> MaxMapWrites
                       [] b = "reg" -> MaxRegWrites
                       [] b = "tick" -> MaxTicks
                       [] b = "mark" -> MaxMarks
                       [] b = "drop" -> MaxDrops
                       [] b = "compact" -> MaxCompactions
                       [] b = "pause" -> MaxPauses
                       [] b = "session" -> MaxClientRestarts
                       [] b = "crash" -> MaxServerRestarts
                       [] b = "datagram" -> Datagrams]

NoSnapshot == [epoch |-> 0, state |-> EmptyState]

\* A SyncActor as it starts, from a stored snapshot
StartedClient(session, snap, floor) ==
    [session |-> session, state |-> snap.state, epoch |-> snap.epoch, last |-> floor,
     link |-> "Down", conn |-> 0, buffer |-> <<>>, position |-> <<>>, ticked |-> FALSE,
     mismatches |-> 0, heals |-> 0]

Init ==
    /\ sState = EmptyState /\ sEpoch = 1 /\ sLast = 0
    /\ sDisk = [epoch |-> 1, state |-> EmptyState]
    /\ registry = [c \in Clients |-> 0]
    /\ conns = [k \in Conns |-> [user |-> 0, open |-> FALSE, synced |-> FALSE]]
    /\ job = [t \in Tasks |-> <<>>]
    /\ up = [k \in Conns |-> <<>>]
    /\ down = [k \in Conns |-> <<>>]
    /\ dgrams = {}
    /\ cl = [c \in Clients |-> StartedClient(0, NoSnapshot, 0)]
    /\ cDisk = [c \in Clients |-> NoSnapshot]
    /\ issued = {}
    /\ left = Allowance

\* The environment acts once more of kind b.
Spend(b) == left[b] > 0 /\ left' = [left EXCEPT ![b] = @ - 1]

-----------------------------------------------------------------------------
(* The wire. *)

\* Some client is still on connection k.
Live(k) == \E c \in Clients : cl[c].conn = k

Send(q, k, m) == [q EXCEPT ![k] = Append(@, m)]

\* send_to / PeerConn::send: queue m for the client of connection k
Queue(k, m) == down' = IF Live(k) THEN Send(down, k, m) ELSE down

StateOp(epoch, op) == [type |-> "StateOp", epoch |-> epoch, op |-> op]

\* The datagram copies of an op that go to the given connections
Eager(to, ks, epoch, op) ==
    IF left["datagram"] > 0 THEN {[conn |-> k, to |-> to, epoch |-> epoch, op |-> op] : k \in ks} ELSE {}

-----------------------------------------------------------------------------
(* The client: local writes. *)

\* Faulty Stamp: the reading before this one, and no Lamport floor.
StampBehind(last, now) == now - 1

Stamp(last, now) == MaxOf(now, last + 1)

\* Faulty Mutate: the op is sent or buffered but not applied locally.
MutateUnapplied(c, op, reliable) ==
    LET r == cl[c]
        online == r.link = "Synced"
    IN  /\ r.link # "Replaying"
        /\ cl' = [cl EXCEPT ![c] =
               [r EXCEPT !.last = op.lww.ts,
                         !.buffer = IF online THEN r.buffer ELSE Append(r.buffer, op)]]
        /\ up' = IF online THEN Send(up, r.conn, StateOp(r.epoch, op)) ELSE up
        /\ dgrams' = dgrams
        /\ issued' = issued \cup {[op |-> op, by |-> c, via |-> "eager"]}
        /\ UNCHANGED <<srvVars, connVars, job, down, cDisk>>

\* SyncActor::mutate, past the grace check: the op is applied locally, then sent
\* if the link is synced (as a datagram, and if reliable on the control stream),
\* kept for the next sync otherwise.  Of the positions only the last is kept.
Mutate(c, op, reliable) ==
    LET r == cl[c]
        online == r.link = "Synced"
        position == op.key \in Positions
    IN  /\ r.link # "Replaying"
        /\ cl' = [cl EXCEPT ![c] =
               [r EXCEPT !.last = op.lww.ts,
                         !.state = Apply(r.state, op),
                         !.buffer = IF online \/ position THEN r.buffer ELSE Append(r.buffer, op),
                         !.position = IF online \/ ~position THEN r.position ELSE <<op>>,
                         !.ticked = r.ticked \/ (online /\ position /\ reliable)]]
        /\ up' = IF online /\ reliable THEN Send(up, r.conn, StateOp(r.epoch, op)) ELSE up
        /\ dgrams' = IF online THEN dgrams \cup Eager("server", {r.conn}, r.epoch, op)
                     ELSE dgrams
        /\ issued' = issued \cup {[op |-> op, by |-> c,
                                    via |-> IF ~online THEN "offline"
                                            ELSE IF reliable THEN "eager" ELSE "datagram"]}
        /\ UNCHANGED <<srvVars, connVars, job, down, cDisk>>

\* Mutation::SetWatched: map_put takes the session actor's next dot
MutateMap(c) ==
    LET actor == ActorOf(c, cl[c].session) IN
    /\ Spend("map")
    /\ \E k \in Flags, v \in Values, now \in Clocks :
         Mutate(c, [actor |-> actor, counter |-> cl[c].state.clock[actor] + 1, key |-> k,
                    lww |-> [ts |-> Stamp(cl[c].last, now), val |-> v]], TRUE)

\* Mutation::SetPlaybackIntent: reg_put
MutateReg(c) ==
    /\ Spend("reg")
    /\ \E v \in {Paused, Playing}, now \in Clocks :
         Mutate(c, [actor |-> ActorOf(c, cl[c].session), counter |-> 0, key |-> Reg,
                    lww |-> [ts |-> Stamp(cl[c].last, now), val |-> v]], TRUE)

\* Where a user is in the file; positions are told apart by their stamps.
Somewhere == 1

\* Mutation::SetPlaybackPosition: the user's own key.  It is due on the control
\* stream when none was sent there yet, or POSITION_RELIABLE_INTERVAL ago.
MutatePosition(c) ==
    LET actor == PosActorOf(c, cl[c].session) IN
    /\ Spend("tick")
    /\ \E due \in BOOLEAN, now \in Clocks :
         /\ cl[c].ticked \/ due
         /\ Mutate(c, [actor |-> actor, counter |-> cl[c].state.clock[actor] + 1,
                       key |-> PositionOf(c),
                       lww |-> [ts |-> Stamp(cl[c].last, now), val |-> Somewhere]], due)

\* The episode browser asks the server to set a watched flag.
AskMarkWatched(c) ==
    /\ Spend("mark")
    /\ cl[c].link = "Synced"
    /\ \E k \in Flags, v \in Values :
         up' = Send(up, cl[c].conn, [type |-> "MarkWatched", key |-> k, val |-> v])
    /\ UNCHANGED <<srvVars, connVars, job, down, dgrams, cliVars>>

-----------------------------------------------------------------------------
(* The client: the connection. *)

\* The network actor dials; the server authenticates the connection and, under
\* the registry lock, queues AuthOk and registers it, superseding whatever was
\* registered for the user.
Accept(c) ==
    /\ cl[c].conn = 0
    /\ \E k \in Conns :
         /\ conns[k].user = 0
         /\ \A j \in Conns : j < k => conns[j].user # 0
         /\ conns' = [conns EXCEPT ![k] = [user |-> c, open |-> TRUE, synced |-> FALSE]]
         /\ registry' = [registry EXCEPT ![c] = k]
         /\ cl' = [cl EXCEPT ![c].conn = k]
         /\ down' = Send(down, k, [type |-> "AuthOk"])
    /\ UNCHANGED <<srvVars, job, up, dgrams, cDisk, issued, left>>

\* The client gives up on its connection: SyncCommand::Disconnected.
Disconnected(c) ==
    LET k == cl[c].conn IN
    /\ k # 0
    /\ cl[c].link # "Replaying"
    /\ \/ conns[k].open /\ Spend("drop")
       \/ ~conns[k].open /\ UNCHANGED left
    /\ cl' = [cl EXCEPT ![c].conn = 0, ![c].link = "Down", ![c].mismatches = 0]
    /\ down' = [down EXCEPT ![k] = <<>>]
    /\ dgrams' = {d \in dgrams : d.conn # k}
    /\ UNCHANGED <<srvVars, connVars, job, up, cDisk, issued>>

-----------------------------------------------------------------------------
(* The client: messages from the server. *)

\* The next frame of c's control stream is of the given type.
Receives(c, type) ==
    LET q == down[cl[c].conn] IN
    /\ cl[c].conn # 0 /\ cl[c].link # "Replaying"
    /\ q # <<>> /\ Head(q).type = type
    /\ down' = [down EXCEPT ![cl[c].conn] = Tail(q)]

Frame(c) == Head(down[cl[c].conn])

\* SyncCommand::Connected: report what we hold and wait for the initial sync
Connected(c) ==
    /\ Receives(c, "AuthOk")
    /\ cl' = [cl EXCEPT ![c].link = "AwaitingSync"]
    /\ up' = Send(up, cl[c].conn, [type |-> "SyncStatus", epoch |-> cl[c].epoch,
                                   hash |-> View(cl[c].state)])
    /\ UNCHANGED <<srvVars, connVars, job, dgrams, cDisk, issued, left>>

\* Faulty Remote: no epoch gate.
RemoteUngated(r, epoch, newState, op) ==
    [r EXCEPT !.last = MaxOf(@, op.lww.ts), !.state = newState]

\* remote(StateOp): the epoch gate, then observe and apply
Remote(r, epoch, newState, op) ==
    IF epoch # r.epoch THEN r
    ELSE [r EXCEPT !.last = MaxOf(r.last, op.lww.ts), !.state = newState]

RecvStateOp(c) ==
    LET m == Frame(c) IN
    /\ Receives(c, "StateOp")
    /\ cl' = [cl EXCEPT ![c] = Remote(cl[c], m.epoch, Apply(cl[c].state, m.op), m.op)]
    /\ UNCHANGED <<srvVars, connVars, job, up, dgrams, cDisk, issued, left>>

RecvDatagram(c) ==
    \E d \in dgrams :
        /\ d.to = "client" /\ d.conn = cl[c].conn /\ cl[c].link # "Replaying"
        /\ cl' = [cl EXCEPT ![c] = Remote(cl[c], d.epoch, ApplyIfOrderly(cl[c].state, d.op), d.op)]
        /\ dgrams' = dgrams \ {d}
        /\ UNCHANGED <<srvVars, connVars, job, up, down, cDisk, issued, left>>

\* synced: the first sync of a connection goes on to replay the offline buffer;
\* a mid-session heal has nothing to push.
Landed(link) == IF link = "AwaitingSync" THEN "Replaying" ELSE link

\* Faulty Hold: the stamps of the new state are not observed.
HoldUnobserved(c, epoch, st) ==
    cl' = [cl EXCEPT ![c].state = st, ![c].epoch = epoch,
                     ![c].mismatches = 0, ![c].link = Landed(@)]

\* The state is now st at the given epoch: raise the Lamport floor to it.
Hold(c, epoch, st) ==
    \E floor \in Stamps(st) :
        /\ IsMaxStamp(floor, st)
        /\ cl' = [cl EXCEPT ![c].state = st, ![c].epoch = epoch, ![c].last = MaxOf(@, floor),
                            ![c].mismatches = 0, ![c].link = Landed(@)]

\* remote(StateMerge): merge at our epoch, adopt a newer one, or an older one
\* inside the connect window
RecvStateMerge(c) ==
    LET m == Frame(c)
        r == cl[c]
    IN  /\ Receives(c, "StateMerge")
        /\ \/ m.epoch = r.epoch /\ Hold(c, r.epoch, Merge(r.state, m.state))
           \/ (m.epoch > r.epoch \/ (m.epoch < r.epoch /\ r.link = "AwaitingSync"))
              /\ Hold(c, m.epoch, m.state)
           \/ m.epoch < r.epoch /\ r.link # "AwaitingSync" /\ UNCHANGED cl
        /\ UNCHANGED <<srvVars, connVars, job, up, dgrams, cDisk, issued, left>>

\* Faulty RecvStateSnapshot: an older epoch is refused in the connect window too.
RecvSnapshotForwardOnly(c) ==
    LET m == Frame(c) IN
    /\ Receives(c, "StateSnapshot")
    /\ IF m.epoch < cl[c].epoch THEN UNCHANGED cl ELSE Hold(c, m.epoch, m.state)
    /\ UNCHANGED <<srvVars, connVars, job, up, dgrams, cDisk, issued, left>>

\* remote(StateSnapshot): adopt, unless it goes back in epochs mid-session
RecvStateSnapshot(c) ==
    LET m == Frame(c)
        r == cl[c]
        refused == m.epoch < r.epoch /\ r.link # "AwaitingSync"
    IN  /\ Receives(c, "StateSnapshot")
        /\ \/ ~refused /\ Hold(c, m.epoch, m.state)
           \/ refused /\ UNCHANGED cl
        /\ UNCHANGED <<srvVars, connVars, job, up, dgrams, cDisk, issued, left>>

HealAttemptsEscalate == 3

\* Faulty RecvStateHash: a mismatch is never counted.
RecvHashUncounted(c) ==
    /\ Receives(c, "StateHash")
    /\ cl' = [cl EXCEPT ![c].mismatches = 0]
    /\ UNCHANGED <<srvVars, connVars, job, up, dgrams, cDisk, issued, left>>

\* remote(StateHash): the second mismatch in a row asks for a heal.  heals is
\* only compared with 0 and HEAL_ATTEMPTS_ESCALATE, so it is not counted past it.
RecvStateHash(c) ==
    LET m == Frame(c)
        r == cl[c]
        matches == View(r.state) = m.hash
        heal == ~matches /\ r.mismatches + 1 >= 2
    IN  /\ Receives(c, "StateHash")
        /\ cl' = [cl EXCEPT ![c] =
               IF m.epoch # r.epoch THEN r
               ELSE IF matches THEN [r EXCEPT !.mismatches = 0, !.heals = 0]
               ELSE IF heal
                 THEN [r EXCEPT !.mismatches = 0,
                                !.heals = IF r.heals < HealAttemptsEscalate THEN r.heals + 1
                                          ELSE r.heals]
               ELSE [r EXCEPT !.mismatches = r.mismatches + 1]]
        /\ up' = IF m.epoch = r.epoch /\ heal THEN Send(up, r.conn, [type |-> "RequestMerge"])
                 ELSE up
        /\ UNCHANGED <<srvVars, connVars, job, dgrams, cDisk, issued, left>>

\* The rest of synced, which the actor runs to its end before any other command:
\* apply the offline buffer op by op, then the position, and push the full state up.
Replay(c) ==
    /\ cl[c].link = "Replaying" /\ cl[c].buffer # <<>>
    /\ cl' = [cl EXCEPT ![c].state = Apply(@, Head(cl[c].buffer)), ![c].buffer = Tail(@)]
    /\ UNCHANGED <<srvVars, connVars, job, netVars, cDisk, issued, left>>

ReplayPosition(c) ==
    /\ cl[c].link = "Replaying" /\ cl[c].buffer = <<>> /\ cl[c].position # <<>>
    /\ cl' = [cl EXCEPT ![c].state = Apply(@, Head(cl[c].position)), ![c].position = Tail(@)]
    /\ UNCHANGED <<srvVars, connVars, job, netVars, cDisk, issued, left>>

PushMerge(c) ==
    /\ cl[c].link = "Replaying" /\ cl[c].buffer = <<>> /\ cl[c].position = <<>>
    /\ cl' = [cl EXCEPT ![c].link = "Synced"]
    /\ up' = Send(up, cl[c].conn, [type |-> "StateMerge", epoch |-> cl[c].epoch,
                                   state |-> cl[c].state])
    /\ UNCHANGED <<srvVars, connVars, job, down, dgrams, cDisk, issued, left>>

\* flush_to_storage, on its tick or at shutdown
FlushClient(c) ==
    LET now == [epoch |-> cl[c].epoch, state |-> cl[c].state] IN
    /\ left["session"] > 0   \* bound: only where a restart can still read it
    /\ cl[c].link # "Replaying" /\ cDisk[c] # now
    /\ cDisk' = [cDisk EXCEPT ![c] = now]
    /\ UNCHANGED <<srvVars, connVars, job, netVars, cl, issued, left>>

\* The client process ends and starts again from its storage (or, after a
\* /resync, from nothing) as a new actor.
RestartClient(c) ==
    LET k == cl[c].conn IN
    /\ Spend("session")
    /\ \E snap \in {cDisk[c], NoSnapshot},
          floor \in Stamps(cDisk[c].state) \cup {0} :
         /\ IsMaxStamp(floor, snap.state)
         /\ cl' = [cl EXCEPT ![c] = StartedClient(cl[c].session + 1, snap, floor)]
         /\ cDisk' = [cDisk EXCEPT ![c] = snap]
    /\ down' = IF k = 0 THEN down ELSE [down EXCEPT ![k] = <<>>]
    /\ dgrams' = {d \in dgrams : d.conn # k}
    /\ UNCHANGED <<srvVars, connVars, job, up, issued>>

-----------------------------------------------------------------------------
(* The server: a connection's serve loop (serve_authed). *)

\* The loop of connection k is ready for its next message.
Serving(k) == conns[k].open /\ job[k] = <<>>

Serves(k, type) ==
    /\ Serving(k)
    /\ up[k] # <<>> /\ Head(up[k]).type = type
    /\ up' = [up EXCEPT ![k] = Tail(@)]

Do(t, what) == job' = [job EXCEPT ![t] = what]

\* Faulty RelayTransport: a position that came as a datagram goes out on the
\* control streams, too.
RelayEager(op, viaDatagram) == "broadcast"

\* relay_transport: a position that came as a datagram goes out as one only
RelayTransport(op, viaDatagram) ==
    IF viaDatagram /\ op.key \in Positions THEN "relay" ELSE "broadcast"

\* StateOp: observe; drop another epoch's op; apply; fan out what was new
ServeOp(k, epoch, op, viaDatagram) ==
    LET current == epoch = sEpoch IN
    /\ sLast' = MaxOf(sLast, op.lww.ts)
    /\ sState' = IF current THEN ApplyForBroadcast(sState, op, viaDatagram) ELSE sState
    /\ Do(k, IF current /\ Refanout(sState, op, viaDatagram)
             THEN <<[do |-> RelayTransport(op, viaDatagram), skip |-> k,
                     msg |-> StateOp(epoch, op)]>>
             ELSE <<>>)
    /\ UNCHANGED <<sEpoch, sDisk>>

ServeStateOp(k) ==
    /\ Serves(k, "StateOp")
    /\ ServeOp(k, Head(up[k]).epoch, Head(up[k]).op, FALSE)
    /\ UNCHANGED <<connVars, down, dgrams, cliVars, left>>

ServeDatagram(k) ==
    /\ Serving(k)
    /\ \E d \in dgrams :
         /\ d.to = "server" /\ d.conn = k
         /\ ServeOp(k, d.epoch, d.op, TRUE)
         /\ dgrams' = dgrams \ {d}
    /\ UNCHANGED <<connVars, up, down, cliVars, left>>

\* SyncStatus: a merge for an identical replica, a snapshot for any other.  The
\* snapshot is taken under the lock and queued after it.
ServeSyncStatus(k) ==
    LET m == Head(up[k])
        identical == m.epoch = sEpoch /\ m.hash = View(sState)
    IN  /\ Serves(k, "SyncStatus")
        /\ conns' = [conns EXCEPT ![k].synced = TRUE]
        /\ Do(k, IF conns[k].synced THEN <<>>
                 ELSE <<[do |-> "send", to |-> k,
                         msg |-> [type |-> IF identical THEN "StateMerge" ELSE "StateSnapshot",
                                  epoch |-> sEpoch, state |-> sState]]>>)
        /\ UNCHANGED <<srvVars, registry, down, dgrams, cliVars, left>>

\* RequestMerge: a snapshot, whatever the requester holds
ServeRequestMerge(k) ==
    /\ Serves(k, "RequestMerge")
    /\ Do(k, <<[do |-> "send", to |-> k,
                msg |-> [type |-> "StateSnapshot", epoch |-> sEpoch, state |-> sState]]>>)
    /\ UNCHANGED <<srvVars, connVars, down, dgrams, cliVars, left>>

\* StateMerge: the upward half of the handshake.  Merged at the server's epoch
\* only; then everyone gets a merge, from a snapshot taken after the unlock.
ServeStateMerge(k) ==
    LET m == Head(up[k])
        merged == Merge(sState, m.state)
    IN  /\ Serves(k, "StateMerge")
        /\ \/ /\ m.epoch = sEpoch
              /\ sState' = merged
              /\ \E floor \in Stamps(merged) :
                    IsMaxStamp(floor, merged) /\ sLast' = MaxOf(sLast, floor)
              /\ Do(k, <<[do |-> "snapshot", type |-> "StateMerge"]>>)
           \/ m.epoch # sEpoch /\ UNCHANGED <<sState, sLast, job>>
        /\ UNCHANGED <<sEpoch, sDisk, connVars, down, dgrams, cliVars, left>>

\* handle_mark_watched: stamped and applied under one lock, broadcast after it
ServeMarkWatched(k) ==
    LET m == Head(up[k]) IN
    /\ Serves(k, "MarkWatched")
    /\ \/ /\ View(sState).map[m.key] # m.val
          /\ \E now \in Clocks :
               LET ts == Stamp(sLast, now)
                   op == [actor |-> Server, counter |-> sState.clock[Server] + 1,
                          key |-> m.key, lww |-> [ts |-> ts, val |-> m.val]]
               IN  /\ sLast' = ts
                   /\ sState' = Apply(sState, op)
                   /\ Do(k, <<[do |-> "broadcast", skip |-> 0, msg |-> StateOp(sEpoch, op)]>>)
       \/ View(sState).map[m.key] = m.val /\ UNCHANGED <<sState, sLast, job>>
    /\ UNCHANGED <<sEpoch, sDisk, connVars, down, dgrams, cliVars, left>>

\* The connection is dead and its serve loop notices: deregister it unless a
\* newer connection of the user has superseded it.
EndConnection(k) ==
    /\ Serving(k)
    /\ \/ ~Live(k) /\ UNCHANGED left
       \/ Live(k) /\ Spend("drop")
    /\ conns' = [conns EXCEPT ![k].open = FALSE]
    /\ registry' = [c \in Clients |-> IF registry[c] = k THEN 0 ELSE registry[c]]
    /\ up' = [up EXCEPT ![k] = <<>>]
    /\ dgrams' = {d \in dgrams : d.conn # k}
    /\ UNCHANGED <<srvVars, job, down, cliVars>>

-----------------------------------------------------------------------------
(* The server: background tasks. *)

\* Faulty Compact: the rebuilt state is not broadcast.
CompactSilently ==
    /\ job[Compactor] = <<>>
    /\ Spend("compact")
    /\ sState' = Rebuild(sState, sLast)
    /\ sLast' = RebuildLast(sState, sLast)
    /\ sEpoch' = sEpoch + 1
    /\ Do(Compactor, <<[do |-> "flush"]>>)
    /\ UNCHANGED <<sDisk, connVars, netVars, cliVars>>

\* compact_state: rebuild, swap and epoch bump under one lock; the snapshot that
\* is broadcast is taken after the unlock, and the state is saved last.
Compact ==
    /\ job[Compactor] = <<>>
    /\ Spend("compact")
    /\ \E now \in Clocks :
         LET base == MaxOf(sLast, now - 1) IN
         /\ sState' = Rebuild(sState, base)
         /\ sLast' = RebuildLast(sState, base)
    /\ sEpoch' = sEpoch + 1
    /\ Do(Compactor, <<[do |-> "snapshot", type |-> "StateSnapshot"], [do |-> "flush"]>>)
    /\ UNCHANGED <<sDisk, connVars, netVars, cliVars>>

\* The hash broadcast's tick.  Bound: the previous hash has been received and
\* a heal it led to has been asked for (the period is 30 s).
HashTick ==
    /\ Alarm /\ job[Hasher] = <<>>
    /\ \E c \in Clients : registry[c] # 0
    /\ \A k \in Conns : /\ \A i \in 1..Len(down[k]) : down[k][i].type # "StateHash"
                       /\ \A i \in 1..Len(up[k]) : up[k][i].type # "RequestMerge"
    /\ Do(Hasher, <<[do |-> "broadcast", skip |-> 0,
                     msg |-> [type |-> "StateHash", epoch |-> sEpoch, hash |-> View(sState)]]>>)
    /\ UNCHANGED <<srvVars, connVars, netVars, cliVars, left>>

\* force_pause, through server_write: the stamp is taken before the lock
ForcePause ==
    /\ job[Sweeper] = <<>>
    /\ Spend("pause")
    /\ \E now \in Clocks :
         LET ts == Stamp(sLast, now) IN
         /\ sLast' = ts
         /\ Do(Sweeper, <<[do |-> "pause", ts |-> ts]>>)
    /\ UNCHANGED <<sState, sEpoch, sDisk, connVars, netVars, cliVars>>

\* Shared::flush
FlushServer ==
    LET now == [epoch |-> sEpoch, state |-> sState] IN
    /\ left["crash"] > 0   \* bound: only where a restart can still read it
    /\ sDisk # now
    /\ sDisk' = now
    /\ UNCHANGED <<sState, sEpoch, sLast, connVars, job, netVars, cliVars, left>>

\* The server dies, or is stopped and its database restored from a backup, and
\* starts again from the last snapshot saved.
RestartServer ==
    /\ Spend("crash")
    /\ sState' = sDisk.state
    /\ sEpoch' = sDisk.epoch
    /\ \E floor \in Stamps(sDisk.state) : IsMaxStamp(floor, sDisk.state) /\ sLast' = floor
    /\ registry' = [c \in Clients |-> 0]
    /\ conns' = [k \in Conns |-> [conns[k] EXCEPT !.open = FALSE]]
    /\ job' = [t \in Tasks |-> <<>>]
    /\ up' = [k \in Conns |-> <<>>]
    /\ dgrams' = {d \in dgrams : d.to # "server"}
    /\ UNCHANGED <<sDisk, down, cliVars>>

-----------------------------------------------------------------------------
(* The server: the unlocked part of a task. *)

\* The next thing task t has to do.
Todo(t, do) == job[t] # <<>> /\ Head(job[t]).do = do

TaskSend(t) ==
    /\ Todo(t, "send")
    /\ Queue(Head(job[t]).to, Head(job[t]).msg)
    /\ Do(t, Tail(job[t]))
    /\ UNCHANGED <<srvVars, connVars, up, dgrams, cliVars, left>>

\* The registered connections of a broadcast: all but one
Recipients(skip) == {k \in Conns : k # skip /\ Live(k) /\ \E c \in Clients : registry[c] = k}

\* broadcast_op (Eager) / broadcast_control
TaskBroadcast(t) ==
    LET w == Head(job[t])
        to == Recipients(w.skip)
    IN  /\ Todo(t, "broadcast")
        /\ down' = [k \in Conns |-> IF k \in to THEN Append(down[k], w.msg) ELSE down[k]]
        /\ dgrams' = IF w.msg.type = "StateOp"
                     THEN dgrams \cup Eager("client", to, w.msg.epoch, w.msg.op) ELSE dgrams
        /\ Do(t, Tail(job[t]))
        /\ UNCHANGED <<srvVars, connVars, up, cliVars, left>>

\* broadcast_op (DatagramOnly)
TaskRelay(t) ==
    LET w == Head(job[t]) IN
    /\ Todo(t, "relay")
    /\ dgrams' = dgrams \cup Eager("client", Recipients(w.skip), w.msg.epoch, w.msg.op)
    /\ Do(t, Tail(job[t]))
    /\ UNCHANGED <<srvVars, connVars, up, down, cliVars, left>>

\* Shared::snapshot, then broadcast_control
TaskSnapshot(t) ==
    LET w == Head(job[t])
        msg == [type |-> w.type, epoch |-> sEpoch, state |-> sState]
    IN  /\ Todo(t, "snapshot")
        /\ Do(t, <<[do |-> "broadcast", skip |-> 0, msg |-> msg]>> \o Tail(job[t]))
        /\ UNCHANGED <<srvVars, connVars, netVars, cliVars, left>>

\* The locked section of server_write: apply the pause with the stamp taken
\* earlier, at whatever the epoch is now, and broadcast it
TaskPause(t) ==
    LET op == [actor |-> Server, counter |-> 0, key |-> Reg,
               lww |-> [ts |-> Head(job[t]).ts, val |-> Paused]]
    IN  /\ Todo(t, "pause")
        /\ sState' = Apply(sState, op)
        /\ Do(t, <<[do |-> "broadcast", skip |-> 0, msg |-> StateOp(sEpoch, op)]>> \o Tail(job[t]))
        /\ UNCHANGED <<sEpoch, sLast, sDisk, connVars, netVars, cliVars, left>>

TaskFlush(t) ==
    /\ Todo(t, "flush")
    /\ sDisk' = [epoch |-> sEpoch, state |-> sState]
    /\ Do(t, Tail(job[t]))
    /\ UNCHANGED <<sState, sEpoch, sLast, connVars, netVars, cliVars, left>>

-----------------------------------------------------------------------------
ClientReceives(c) ==
    \/ Connected(c) \/ RecvStateOp(c) \/ RecvStateMerge(c)
    \/ RecvStateSnapshot(c) \/ RecvStateHash(c)

ClientNext(c) ==
    \/ MutateMap(c) \/ MutateReg(c) \/ MutatePosition(c) \/ AskMarkWatched(c)
    \/ Accept(c) \/ Disconnected(c)
    \/ ClientReceives(c) \/ RecvDatagram(c) \/ Replay(c) \/ ReplayPosition(c) \/ PushMerge(c)
    \/ FlushClient(c) \/ RestartClient(c)

ServeReliable(k) ==
    \/ ServeStateOp(k) \/ ServeSyncStatus(k) \/ ServeRequestMerge(k)
    \/ ServeStateMerge(k) \/ ServeMarkWatched(k)

TaskNext(t) ==
    \/ TaskSend(t) \/ TaskBroadcast(t) \/ TaskRelay(t)
    \/ TaskSnapshot(t) \/ TaskPause(t) \/ TaskFlush(t)

Next ==
    \/ \E c \in Clients : ClientNext(c)
    \/ \E k \in Conns : ServeReliable(k) \/ ServeDatagram(k) \/ EndConnection(k)
    \/ \E t \in Tasks : TaskNext(t)
    \/ Compact \/ HashTick \/ ForcePause \/ FlushServer \/ RestartServer

Spec == Init /\ [][Next]_vars

-----------------------------------------------------------------------------
(* Safety. *)

\* Every stamp of the ops in q is at most n.
OpsBelow(q, n) == \A i \in 1..Len(q) : q[i].lww.ts <= n

(* The Lamport floor (lww.rs, "Timestamp discipline"): last_issued, on the   *)
(* server and on every client, is at least every timestamp in the state held *)
(* there and in the ops waiting to be replayed into it, however the state    *)
(* got there: op, datagram, merge, snapshot, compaction or storage.          *)
LamportFloor ==
    /\ AllBelow(sState, sLast)
    /\ \A c \in Clients : /\ AllBelow(cl[c].state, cl[c].last)
                          /\ OpsBelow(cl[c].buffer, cl[c].last)
                          /\ OpsBelow(cl[c].position, cl[c].last)

(* A user's own write shows: right after SyncActor::mutate it is the winner  *)
(* in the client's replica, whatever that had seen before.                   *)
OwnWriteShows ==
    [][\A c \in Clients, e \in issued' \ issued :
          e.by = c =>
            IF e.op.key = Reg THEN cl'[c].state.reg = e.op.lww
            ELSE cl'[c].state.entries[e.op.key].cell = e.op.lww]_vars

\* The actors of client c's sessions so far.
Sessions(c) == UNION {{ActorOf(c, n), PosActorOf(c, n)} : n \in 0..cl[c].session}

(* The hub knows most: a client at the server's epoch has applied no dot of  *)
(* another client's, or of the server, that the server has not.  Were it     *)
(* otherwise the client would drop the op that really carries the dot as     *)
(* already seen.                                                             *)
HubKnowsMost ==
    \A c \in Clients : cl[c].epoch = sEpoch =>
        \A a \in Actors \ Sessions(c) : cl[c].state.clock[a] <= sState.clock[a]

\* Nothing is under way between the server and the client of connection k.
Settled(k) ==
    /\ conns[k].open /\ up[k] = <<>> /\ down[k] = <<>>
    /\ job[k] = <<>> /\ job[Compactor] = <<>>

(* No wedge: a registered connection with nothing under way on it belongs to *)
(* a client that is synced, at the server's epoch.  A client left waiting    *)
(* for its initial sync, or at an epoch whose ops and hashes it drops, would *)
(* stay silently out of step: the divergence alarm skips other epochs.       *)
NoWedge ==
    \A c \in Clients :
        registry[c] # 0 /\ cl[c].conn = registry[c] /\ Settled(cl[c].conn) /\ cl[c].link # "Replaying"
            => cl[c].link = "Synced" /\ cl[c].epoch = sEpoch

(* No masked gap: an op served on a connection, by stream or by datagram,    *)
(* moves its origin's dot clock on the server by one at most.  A jump would  *)
(* make the server drop the op in between as already seen.  Only a position  *)
(* off the control stream may jump, over positions sent as datagrams that    *)
(* never came: it replaces them all.                                         *)
ServedInSequence ==
    [][\A k \in Conns :
         \/ ServeStateOp(k) /\ Head(up[k]).op.key \notin Positions
         \/ ServeDatagram(k)
           => \A a \in Actors : sState'.clock[a] <= sState.clock[a] + 1]_vars

(* "Stale positions never queue on the control stream" (server.rs, on        *)
(* RelayTransport): a position its author sent as a datagram only is on no   *)
(* control stream, to the server or from it.                                 *)
PositionsNeverQueue ==
    \A k \in Conns, e \in issued :
        e.via = "datagram" =>
            /\ \A i \in 1..Len(up[k]) : up[k][i].type = "StateOp" => up[k][i].op # e.op
            /\ \A i \in 1..Len(down[k]) : down[k][i].type = "StateOp" => down[k][i].op # e.op

(* Deduplication: of the two copies of an eager op only one is fanned out,   *)
(* so no client has the same op twice on its control stream.                 *)
FannedOutOnce ==
    \A k \in Conns : \A i, j \in 1..Len(down[k]) :
        i # j /\ down[k][i].type = "StateOp" => down[k][i] # down[k][j]

(* A restored server is not re-polluted: whatever value an upward merge puts *)
(* in the server's map is an edit its sender made while not synced, so a     *)
(* client's old replica never carries back what a restart from an older      *)
(* snapshot has discarded.                                                   *)
MergeBringsOnlyOfflineEdits ==
    [][\A k \in Conns : ServeStateMerge(k) =>
         \A key \in Flags :
            View(sState').map[key] \notin {0, View(sState).map[key]} =>
               \E e \in issued : /\ e.via = "offline" /\ e.by = conns[k].user /\ e.op.key = key
                                 /\ e.op.lww = sState'.entries[key].cell]_vars

\* Everything sent has been handled and every client is synced.
Quiet ==
    /\ \A t \in Tasks : job[t] = <<>>
    /\ \A k \in Conns : up[k] = <<>> /\ down[k] = <<>>
    /\ \A c \in Clients : cl[c].link = "Synced" /\ registry[c] = cl[c].conn

\* The server's state has the op's write, or one that beats it.
Reflected(op) ==
    ~Before(IF op.key = Reg THEN sState.reg ELSE sState.entries[op.key].cell, op.lww)

(* "The offline buffer -- everything generated while down -- is always       *)
(* preserved and replayed": once all is quiet the server has every edit made *)
(* in the present session while the client's link was not synced.            *)
OfflineEditsReachServer ==
    Quiet => \A e \in issued :
        /\ e.via = "offline"
        /\ e.op.actor \in {ActorOf(e.by, cl[e.by].session), PosActorOf(e.by, cl[e.by].session)}
        => Reflected(e.op)

(* "One reliable send per second as a catch-up baseline": once all is quiet  *)
(* and only datagrams are left in flight, which may never arrive, every      *)
(* client has each position that was sent reliably, or a later one.          *)
PositionsCatchUp ==
    Quiet => \A e \in issued, c \in Clients :
        e.op.key \in Positions /\ e.via = "eager" =>
            ~Before(cl[c].state.entries[e.op.key].cell, e.op.lww)

(* "A server write issued causally after a client's always dominates": when  *)
(* a forced pause is applied and the intent is Playing after it, the winner  *)
(* is a press of play that a client issued, never a value the server had     *)
(* already seen when it stamped the pause.                                   *)
PauseBeatenOnlyByAPress ==
    [][\A t \in Tasks :
          TaskPause(t) /\ sState'.reg.val = Playing
            => \E e \in issued : e.op.key = Reg /\ e.op.lww = sState'.reg]_vars

-----------------------------------------------------------------------------
(* Liveness.  Every task and actor runs on; frames of a live connection      *)
(* arrive; a client whose connection is gone notices and dials again; the    *)
(* hash broadcast keeps ticking.  Datagrams, writes and failures are owed    *)
(* nothing.                                                                  *)

NoticeClosed(c) == cl[c].conn # 0 /\ ~conns[cl[c].conn].open /\ Disconnected(c)

Fairness ==
    /\ \A c \in Clients :
         /\ WF_vars(ClientReceives(c)) /\ WF_vars(Replay(c))
         /\ WF_vars(ReplayPosition(c)) /\ WF_vars(PushMerge(c))
         /\ WF_vars(Accept(c)) /\ WF_vars(NoticeClosed(c))
    /\ \A k \in Conns : WF_vars(ServeReliable(k)) /\ WF_vars(~Live(k) /\ EndConnection(k))
    /\ \A t \in Tasks : WF_vars(TaskNext(t))
    /\ WF_vars(HashTick)

\* Every client is synced and shows what the server shows.
Converged == \A c \in Clients : cl[c].link = "Synced" /\ View(cl[c].state) = View(sState)

(* Whatever races, losses and reconnects there were, once they stop every    *)
(* client comes to show the server's view and goes on showing it: the        *)
(* divergence alarm finds and heals every difference that is left.           *)
Heals == <>[]Converged
=============================================================================
