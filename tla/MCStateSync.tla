----------------------------- MODULE MCStateSync -----------------------------
(* Small instances of StateSync for TLC. *)
EXTENDS StateSync, TLC

CONSTANTS c1, c2, srv

MCClients == {c1, c2}
MCActorOf(c, n) == <<c, n, "watched">>
MCPosActorOf(c, n) == <<c, n, "position">>
MCPositionOf(c) == IF c = c1 THEN 11 ELSE 12
MCServer == <<srv, 0, "watched">>
MCServerPos == <<srv, 0, "position">>
MCActors == {MCServer, MCServerPos}
            \cup (MCClients \X (0..MaxClientRestarts) \X {"watched", "position"})

\* Both clients have connected, one after the other, and nobody has written yet.
ConnOf == (c1 :> 1) @@ (c2 :> 2)
SyncedState ==
    /\ sState = EmptyState /\ sEpoch = 1 /\ sLast = 0
    /\ sDisk = [epoch |-> 1, state |-> EmptyState]
    /\ registry = ConnOf
    /\ conns = [k \in Conns |->
                  IF k \in {1, 2}
                  THEN [user |-> CHOOSE c \in Clients : ConnOf[c] = k, open |-> TRUE, synced |-> TRUE]
                  ELSE [user |-> 0, open |-> FALSE, synced |-> FALSE]]
    /\ job = [t \in Tasks |-> <<>>]
    /\ up = [k \in Conns |-> <<>>]
    /\ down = [k \in Conns |-> <<>>]
    /\ dgrams = {}
    /\ cl = [c \in Clients |->
               [StartedClient(0, NoSnapshot, 0) EXCEPT !.epoch = 1, !.link = "Synced", !.conn = ConnOf[c]]]
    /\ cDisk = [c \in Clients |-> [epoch |-> 0, state |-> EmptyState]]
    /\ issued = {}
SyncedInit == SyncedState /\ left = Allowance
SyncedSpec == SyncedInit /\ [][Next]_vars

\* The environment does only what B says.
Only(B) == [b \in Budget |-> IF b \in B THEN Allowance[b] ELSE 0]

\* A connection is lost around a compaction; a forced pause meets one; datagrams
\* carry writes; they carry positions, and a connection is lost; a client restarts.
ReconnectInit ==
    /\ SyncedState
    /\ left \in {[Only({"map", "drop", "compact"}) EXCEPT !["map"] = 1],
                [Only({"map", "pause", "compact", "datagram"}) EXCEPT !["map"] = 1],
                Only({"map", "reg", "datagram"}),
                Only({"tick", "drop", "datagram"}),
                [Only({"map", "tick", "session"}) EXCEPT !["map"] = 1, !["tick"] = 1]}
ReconnectSpec == ReconnectInit /\ [][Next]_vars

\* Broadcasts overtake each other, or the server restarts around a compaction.
HealInit ==
    /\ SyncedState
    /\ left \in {Only({"mark"}), Only({"crash", "compact"})}
HealSpec == HealInit /\ [][Next]_vars /\ Fairness
=============================================================================
