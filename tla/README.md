# Dessplay in TLA+

Dessplay is a watch-party player: a group of clients play the same local files in
step, sharing a playlist, a play/pause intent, seeks, chat and watch history. A
single rendezvous server is the hub: every client holds one QUIC connection to it,
and it relays replicated state, presence and file transfers. This directory holds
TLA+ models of the parts of that system where order and failure decide the outcome,
the TLC runs that check them, and TLAPS proofs of the invariants that matter most.

Contents: [the system](#1-the-system) · [modules](#2-modules) ·
[StateSync](#3-statesync-replication-between-clients-and-hub) ·
[Presence](#4-presence-who-is-there-and-what-happens-when-they-leave) ·
[Player](#5-player-the-actor-and-mpv) · [Transfers](#6-transfers-files-from-peers) ·
[the server's edge](#7-the-servers-edge-outboxes-and-login-limiter) ·
[runs](#8-runs) · [proofs](#9-proofs) · [disagreements found](#10-where-code-and-text-disagree) ·
[limits](#11-what-the-models-leave-out).

## 1. The system

| part | source | state | operations | what is hard | must hold |
|---|---|---|---|---|---|
| Replicated state | `dessplay-core/src/state.rs`, `lww.rs`, `compact.rs`, `vendor/crdts` | LWW registers, observed-remove maps of LWW cells, one dot clock per map | `apply`, `apply_if_orderly`, `apply_for_broadcast`, `merge`, `view`, `compact::rebuild` | ops duplicated or out of order; merges with a state that has forgotten something | same winner in any order; no op dropped as "already seen" that was not |
| Sync actor (client) | `dessplay/src/actors/sync.rs` | replica, epoch, offline buffer, `last_issued`, link state, alarm counters | local mutations, the remote messages, flush, restart | writes while the link is down or half up; a repair racing new ops | own writes land; offline edits survive; never stuck at an old epoch |
| State service (server) | `dessplay-rendezvous/src/server.rs` | hub replica, epoch, stamp floor, snapshot on disk, connection tasks | handshake, ops, merges, mark-watched, hash tick, compaction, flush, restart | one task per connection, locks released between apply and broadcast; two copies of an op, of which the first served decides | the hub knows at least what clients know; every client follows each epoch; positions do not hold up the control stream |
| Presence and playback control (server) | `server.rs`, `derive.rs` | registry of peers, grace windows, `grace_file`, known users, playback registers | register, drop, Goodbye, sweeps, forced pause, rejoin anchors, EOF, peer lists | a handler is a chain of short lock sections; others run between them | every drop is answered; windows belong to the absent and end; a user who timed out and departed holds no seek authority |
| Outboxes, transfer relay, throttle | `outbox.rs`, `server.rs`, `auth_limit.rs` | byte counter, closed flag; bound transfer links; per-address budgets | push/drain; bind, open, pump; judge | concurrent pushes at the limit; supersession | disconnect once, deliver in order; a budget neither lost nor exceeded |
| Network actor | `actors/network.rs` | control connection, transfer link, stashed opens, op channel | connect, reconnect, open stream | opens across reconnects | every open is answered |
| Download scheduler, file actor | `download.rs`, `chunkstore.rs`, `actors/file.rs` | chunks written and verified, requests in flight, sources and their clocks, data streams | plan, receive, verify, snub, cancel, re-solicit | endgame duplicates, lost streams, latches that nobody clears | verified is good; a source is neither overcommitted nor forgotten; wanted files arrive |
| Player actor, mpv connection, drift | `actors/player.rs`, `player/mpv.rs`, `drift.rs` | loaded file, expected echoes, pending user seek, crash counters | commands, player events, corrections, relaunch | events of the previous file; echoes of own commands; crash loops | nothing of one file is told of another; the player comes back |
| Time sync, playlist order, AniDB worker, stores | `timesync.rs`, `playlist.rs`, `anidb/`, `*storage.rs` | samples; positions; lookup queue; snapshots | | retries, crashes between steps | |
| IRC bridge, torrent import, AI features, terminal UI, roguelike, parsing | | | | external services, presentation or pure text | |

`PROJECT.json` lists the same parts one by one, with what is modelled of each, and
every hazard with its source line and the properties that watch it.

How they interact: a client's session code and player turn the user's actions into
mutations of the replicated state through the sync actor. The server applies them,
fans them out and, in the same connection task, runs the presence hooks (reconcile
grace windows, follow laggards, pin rejoin anchors), which in turn write the state
as the server. Peer lists tell the clients who is there; the gating rules in
`derive.rs` then decide, on every client and on the server alike, whether playback
may run.

## 2. Modules

| module | models | kind |
|---|---|---|
| `LwwMap` | `lww.rs`, `map.rs`, `vclock.rs`, the `CrdtState` operations of `state.rs`, and compaction, as operators | pure operators |
| `StateSync` | sync actor and the state half of the server, with the links between them | extends `LwwMap` |
| `Presence` | the server's registry, playback control and the gating rules it evaluates | state machine |
| `Mpv` | mpv as the reader of `player/mpv.rs` sees it, and that reader | state machine (mpv itself external) |
| `Drift` | the drift controller | pure operators |
| `Player` | the player actor | extends `Drift`, `Mpv` |
| `Download` | the download scheduler and the chunk store | pure operators on the scheduler's state |
| `Transfers` | file actor and network actor around the scheduler, with peers and relay as environment | extends `Download` |
| `FrameQueue` | what an outbox promises | abstract specification |
| `Outbox` | a connection's outbound queue, one atomic access a step | implements `FrameQueue` |
| `AuthBudget` | what the login limiter promises | abstract specification |
| `AuthLimit` | the login limiter's table | implements `AuthBudget` |
| `MCStateSync`, `MCPresence`, `MCPlayer`, `MCTransfers`, `MCEdge` | instances for TLC: model values, starting states, and the scenarios that say which faults and acts may happen together | |
| `StateSyncProofs` | algebra of the LWW cell; lemmas on the types of `StateSync` and on what the hub knows | TLAPS |
| `WriteProofs` | lemmas on stamps, on the fan-out of ops and on where positions travel | TLAPS |
| `HandshakeProofs` | lemmas on the order of dots on a connection and on the handshake | TLAPS |
| `SyncTheorems` | the theorems about `StateSync`, from the three modules above | TLAPS |
| `PresenceProofs` | the invariants of `Presence` | TLAPS |
| `PlayerProofs` | the safety properties of `Player` | TLAPS |
| `TransfersProofs` | the invariants of `Transfers`, and how its handlers assign chunks to sources | TLAPS |
| `EdgeProofs` | the limiter's rate, the outbox's account, and that they implement `AuthBudget` and `FrameQueue` | TLAPS |

Names follow the source: `RecvStateMerge` is the `StateMerge` arm of the sync
actor's message handler, `ServeOp` is the `StateOp` arm of `serve_authed`, `RunOpen` is `open_grace_window`.
The exact lines of each definition are in the `map` of `PROJECT.json`.
Definitions placed right before the one they resemble (`RegisterKeepsFile`,
`MutateUnapplied`, ...) are deliberately faulty variants; no specification uses
them, and they serve to show that each property can fail.

## 3. StateSync: replication between clients and hub

**Replica** (`LwwMap`). A state is a dot clock, entries (each with the clock of the
dots that made it and an LWW cell) and one LWW register, the playback intent. The
entries are two maps in one: `watched`, with a key for each file in `Flags`, and
`playback_position`, with a key for each user in `Positions`. They differ in how
their ops travel: a watched flag always goes out on the control stream, a position
mostly as a datagram only. In the code each map has a clock of its own; here an actor
has a name in each map (`ActorOf`, `PosActorOf`), and one clock counts for all names,
which is the same because `Map` treats every key and actor by itself. The other maps
and registers of `CrdtState` are handled by the same code and are delivered like
`watched` and the intent. `Before` is the order of stamps with the value as tie
break; `Apply` drops an op whose dot is not newer than the clock, as
`crdts::Map` does; `Merge` is the dot-store merge with its four cases
(`OneSided`, `Common`, `TwoSided`); `Rebuild` is compaction: it keeps what is worth
keeping, restamps everything and starts a clock of its own. `View` is what
the divergence hash is taken of, the view without the positions, so equal hashes are
equal views.

**Client** `cl[c]`: session number, replica, epoch, offline buffer and offline
position, `last_issued`, link stage (`Down`, `AwaitingSync`, `Replaying`, `Synced`),
connection, whether a position was ever sent reliably, counters of the alarm.
`Mutate` is `SyncActor::mutate` past its grace check: apply, then send or keep. A
position is kept by itself, the last one only; online it goes out as a datagram, and
on the control stream too when a second has passed since the last that did
(`MutatePosition`; time is left out, so any tick but the first may be due or not).
A restart (`RestartClient`) is a new session with a new actor id, from
whatever snapshot was last flushed.

**Server** `sState`, `sEpoch`, `sLast`, `sDisk`, the registry of live connections
and one task per connection plus the compactor, the hash ticker and the sweeper.
A handler is split where the state lock is released: what it has still to do is
the task's `job`, a sequence of `send`, `broadcast`, `relay`, `snapshot`, `pause` and
`flush` steps, and other tasks run in between. `relay` is a broadcast by datagram
only, which `RelayTransport` picks for a position that came as a datagram. A broadcast
to all recipients is one step; in the code it may be suspended between two recipients
(`send_datagram` is awaited), which no property here tells apart: each speaks of
one connection at a time or of a moment when no task has anything left to do.

**Links.** Each connection is a pair of FIFO queues (QUIC's control stream); a
dropped connection loses what is queued on it towards the client at once, while the
server goes on serving what has reached it until its task notices the loss. Eager copies of an op
travel as datagrams: a set, received in any order or never.

**Time.** A stamp is `max(now, last_issued + 1)`; `now` is any value of `Clocks`,
so no result rests on clocks agreeing.

**Bounds.** `MaxConns` counts connections ever made, the `Max...` constants count
writes, drops, compactions, forced pauses and restarts. They are spent from `left`
and appear in no other guard. Deadlock is not checked in most runs because a
bounded environment runs out; the liveness run checks it.

## 4. Presence: who is there, and what happens when they leave

**Registry** `peers[u]`: the connection an entry names, its stage (`Present`,
`Lost`, `Departed`), ticks since it was lost, and the ticks left of a grace window;
`graceFile` is the file the open windows protect. **Playback**: intent,
now-playing, seek authority (`User`, `Server`, `Laggard`, `Anchor`). **Per user and
file**: holds, acknowledgements, availability, the loaded file, saved positions,
watched files. `serving[u]` is the set of connections of `u` being served; there
can be two while one supersedes the other.

A handler (`Register`, `Lost`, `Goodbye`, `Superseded`, the client messages, the
sweep `Tick`) does its first lock section at once and leaves the rest in
`job[t]` as a program of sections; `Section(t)` runs the head. Where the code reads
the registry in one section and acts on it in the next, the copy travels in the
step (`infos`), so that it may be stale when used. `unanswered` is a history
variable: the users whose drop was a playback event not yet followed by a window,
a pause or a return.

Positions are reduced to whose samples count (`Loaded`, `SavedPosition`), time to
sweeps: `Tick` passes one unit and happens only when no task is busy, an assumption
that a handler ends well within the sweep period of a second. Handlers may start,
and interleave with the sweep's sections, as soon as it has begun. A client may send any
message in any state: the refusals its own UI makes during a grace window are a
race anyway, and are not assumed.

## 5. Player: the actor and mpv

**mpv** (`Mpv`). `mpv` is the program: path, the file being opened, paused, at,
end reached. Commands travel in `cmds` and are run one by one (`RunPause`,
`RunLoadFile`, `RunSeek`, `RunQuery`); events travel in `events`, at most
`MaxEvents` of them. `reader` is `Translate` of `player/mpv.rs` with the held pause
of `read_loop`: a pause is withheld until the next event or a timeout tells
whether `keep-open` made it (`HoldTimesOut`), a finished seek is followed by a
query for where it landed. The user at the keyboard is part of the environment:
`Press`, `Scrubs`, `DragIn`.

**Actor** (`Player`). `current` is the file last commanded, `observed` the path mpv
last reported; `OnCurrentFile` is `player_on_current_file`. `believed` and
`pauseEchoes`, `seekEchoes` are the expected-state tracking, `userSeek` a seek
waiting out the debounce, `graceLock` the refusal of seeks and pauses in an outage
window. Life: `launch` (a background launch), `reattach` (attach mode waits for
the user's mpv), `deaths` and `recent` (the crash counter and its window). There
is one action per command and per player event, each the whole handler with the
`apply_desired_pause` or `seek_programmatic` at its end.

Events carry `of`, the file that was up when mpv sent them, and `by`, whose act
they report: neither is visible to the actor, and both exist for the properties.
Positions are a handful of points; drift is measured by the environment, in units
in which `Drift`'s clamped slew is exact. Time is left out, so every timer may
fire as soon as it is armed.

## 6. Transfers: files from peers

**Scheduler** (`Download`). Its calls are operators from a result record to a
result record: the active downloads `dl`, and the cancels, chunk requests,
hash requests and completions it returns. `PlanAll` is the two-pass fill of the
pipelines (urgent chunks first, then bulk, over all files in rank order, through
`PlanSource` and `Take`); `OnChunkData`, `Verify` and `CancelElsewhere` take in a
chunk; `Snub`, `Stalled`, `Resolicited` and `RequeueSource` are what keeps a silent
or dying source from wedging a file. Clocks are kept as distances from now and
capped where the code only compares them.

**File actor**. `RunActions` is `run_download_actions` with `send_on_stream`,
`queue_for_stream` and `on_download_complete`; the handlers (`Tick`,
`SetDownloads`, `OnReply`, `OnArrival`, `OnAnswer`, `AdoptLocalCopy`, `Restart`)
make a scheduler call and run what it returns. `streams` and `pending` are
`download_streams` and `pending_streams`, with the stream generations that make a
late close stale.

**Network actor**. `link` runs through `down`, `auth`, `dial`, `up`; opens are
stashed while there is no link (`Stash`), forwarded into a bounded channel while
there is one (`Forward`), and become tasks that hand over a stream or fail
(`Opens`, `OpenFails`). A lost link cuts the streams on it and turns its tasks into
orphans; a lost connection drops the op channel as well and answers with a reset.

**Environment**. A peer is honest, silent, wrong (bad hashes and bytes) or holds
another encode and says so (`never`); the relay may lose a reply; the session
repeats its plan or changes it. Which of these may happen, and how often, is the
scenario's budget `left`.

## 7. The server's edge: outboxes and login limiter

**Outbox**. Two tasks push while the writer drains. `queued` and `closed` are
atomics, so each `load`, `fetch_add`, `swap` and `send` is a step of its own. The
refinement mapping to `FrameQueue` takes as waiting the frame the writer has
received and not yet written followed by the channel, and as stopped a writer that
has failed or left its loop. It says that frames are delivered in order, once each
and without gaps, and that one is accepted only into an empty queue or within the
limit.

**AuthLimit**. `judge` runs under the limiter's lock and is one step, split by
verdict. The table `fullAt` holds one instant per key; `Debt` is what an address
owes. The mapping to `AuthBudget` takes the debt of every key, tracked or not, so
that the sweeps and the cap of the table have to be invisible, but for the one
thing the code gives up: with `MAX_TRACKED` addresses in debt, the failure of
another goes unrecorded. `spent` and `since` only observe: they count recorded
failures since an arbitrary moment.

## 8. Runs

The sync and presence runs start from everyone connected and synced
(`SyncedInit`, `PlayingInit`), a state `Spec` reaches by its own steps; this saves
TLC the handshakes and changes nothing it can reach afterwards within the bounds.
Two clients are the least that have an "other"; two connections are used up at the
start and each further one is a reconnect. The other runs start from `Init`.

| run | instance | checks | shows |
|---|---|---|---|
| `sync_reconnect` | 4 connections; five mixes of up to 2 map writes, 2 positions, 1 register write, datagrams, 1 drop, compaction, forced pause, restart of a client | `TypeOK`, `LamportFloor`, `HubKnowsMost`, `FannedOutOnce`, `NoWedge`, `OwnWriteShows`, `ServedInSequence`, `PositionsNeverQueue` | stamps dominate what was seen on both sides; a client never has a dot the hub lacks; the eager copy may overtake the stream and still no gap is masked and nothing is fanned out twice; no position sent as a datagram ends up on a control stream; nobody is left at an old epoch when a compaction meets a reconnect |
| `sync_heals` | 2 mark-watched requests on 2 connections, or 1 restart of the server and 1 compaction; alarm on | `NoWedge`, `Heals` | broadcasts overtake each other, epochs go back, and the clients follow; the hash alarm brings every client to the hub's view for good |
| `presence` | 2 users (one committed to the series, one not, whose player may still be on another file), 2 files, one reconnect, one client action, 2 busy tasks | `TypeOK`, `GraceFileMatches`, `WindowsOfTheAbsent`, `PresentIffServed`, `DropsAnswered`, `WindowsRunOut`, `NoGhostAuthority` | the registry stays consistent and every absence is dealt with, in all interleavings of two handlers |
| `player` | 2 files and one of the user's; nine scenarios of two to five acts or deaths | `TypeOK`, `RightFile`, `GraceHolds`, `NeverStranded`, `Returns` | nothing observed of one file is told of another; no scrub outlives a grace lock; a player that is gone is on its way back unless the actor gave up, and comes back |
| `transfers` | 2 peers, 2 files of 3 chunks in blocks of 2, pipeline of 1; fifteen scenarios of up to two faults | `TypeOK`, `InFlightNeeded`, `VerifiedGood`, `ToldPlayable`, `SharedBudget`, `BulkOnce`, `Answered`, `Completes` | verified blocks are good, budgets are kept over all files, the group is told the truth about playability, every stream open is answered and every wanted file arrives |
| `edge` | 2 pushers of 2 frames, small or oversized; 4 addresses under 3 keys, table of 2 | `AuthTypeOK`, `Accounted`, `RateLimited`, `OutboxImplements`, `AuthImplements`, `Released` | outbox and limiter implement what they promise; a closed outbox lets go of its backlog |
| `buffer_lost`, `pause_beaten`, `restored_server`, `position_behind`, `stale_peer_list`, `launch_unpauses` | see section 10 | one property each | a disagreement of code and text |

*Why these bounds.* One reconnect, one compaction and one write are enough to put
each of them before, between and after the steps of the others; a second write
lets a datagram overtake its predecessor, and a second position lets one be sent as
a datagram only. `Datagrams` turns the datagram copies on. The mixes of
`sync_reconnect` (`ReconnectInit`) and `sync_heals` (`HealInit`) pair what can
interfere; `HubKnowsMost` does not survive a restart of the server, which is
therefore in `sync_heals`. Two busy tasks
(`MaxBusy`) are what every race of section 4 needs, since each is a handler that
reads, another that changes, and the first that acts. `DepartAfter = 1 < Grace = 2`
keeps the order of the code's constants (`DEPART_AFTER_MILLIS`, 30 s, and `OUTAGE_GRACE_MILLIS`, 3 min), so that
a window outlives the move to Departed. `Values = {2}` is Watched, which compaction keeps. In `player` a load that
overtakes another, a command that overtakes an event and a death in between need
two loads, two waiting events and three deaths (`CRASH_GIVE_UP_COUNT`). In
`transfers` three chunks give a full block and a short one, a window of one chunk
and an endgame; a pipeline of one makes every second request a matter of the
shared budget; buffers of one and two overflow. Faults that meet in one scenario
are those whose recoveries share a latch. In `edge` a limit of two bytes and frames
of one and three have every push at, below or above it. Symmetry is not used: the
clients, users and peers differ in the initial state or are ordered by the code.

*Fairness.* In `sync_heals`: weak fairness for receiving on a live connection,
for replaying and pushing after a sync, for dialling again and noticing a closed
connection, for serving reliable frames, for every task's remaining steps, and for
the hash tick. In `player`: mpv and the actor keep working, a launch reports, and a
player that is launched or waited for again and again comes up in the end
(strong fairness of `Connect`, since probes fail and are repeated). In `transfers`:
the actors' loops, the timer, connections that come up in the end, peers that
misbehaved behaving again, and the session sending its plan again while the
file actor lacks a file of it or one of its sources (`Refreshed`), but not otherwise,
so that a stalled download has to be revived by the scheduler itself; where a handler
leaves nothing behind when it has nothing to do, this is written as "infinitely
often there is nothing left for it to do", which is the same and cheaper to check.
In `edge`: the tasks run, and nothing makes a peer read. That is what the runtime
gives: actors and tasks are `tokio` tasks that loop on their channels, and ticks
are interval timers. Nothing is assumed of datagrams, of user input or of failures.

*Mutants.* For each property of each passing run `PROJECT.json` names a faulty
variant of a modelled definition (a dropped guard, a missing observe, a lost reset)
under which TLC finds that property violated.

## 9. Proofs

All theorems are about the specifications from `Init`, for any sets of clients,
users, keys, peers and files and any bounds, from the named assumptions on the
constants in the component modules: finite sets of keys, peers, files and pushing
tasks; bounds in `Nat`; no key in both maps; a server actor that is no client session's, and no actor
shared by two sessions (an `ActorId` hashes a random nonce); timers of at least one
tick; drift bands in order; a crash limit above two; starting plans and disks of
their types, and plans that rank the file that plays first, if at all
(`anchored_download_order`). TLC evaluates each of them on the instances.

Sums, folds and loops are reasoned about by the least counterexample: a table of
the partial results exists, and were one of them wrong, the first wrong one would
contradict the step before it (`TableExists`, `TableSums` in `EdgeProofs`,
`FoldKeeps`, `SameTotals` in `TransfersProofs`).

### The cell, and StateSync

- `LwwApplyCommutes`, `LwwApplyAssociates`: a cell's winner depends neither on the
  order nor on the grouping of writes.
- `TypeCorrect`. `TypeOK` is not inductive: a client's actor id must stay in
  `Actors`, which needs sessions bounded by the restarts left (`SessionsBounded`),
  and a client that is not Down must have a connection to send on
  (`LinkedHasConn`). `TypeInv` adds both.
- `FloorHolds`, `OwnWritesShow`, from `Floors`. The floor on a replica is preserved
  by every path that changes it, because each observes the maximal stamp of what it
  takes in: apply, datagram, merge, snapshot, compaction, restart. A forced pause is
  stamped in one section and applied in a later one, so its stamp must stay below
  the floor while it waits. Own writes then show, because a fresh stamp is above
  everything held.
- `HubKnowsMostHolds`: `Spec => [](Crashless => HubKnowsMost)`. As long as the server
  has not restarted, no client is ahead of it. A restart from an older snapshot takes
  the server back behind its clients, so the theorem claims nothing after one. `HubInv`
  adds to the types the form of what is on the wire (`Shapes`, `Wiring`) and `Known`:
  whatever is on its way to a client, in a task's hands, in a datagram, in a replica
  or in a client's snapshot is of an earlier epoch or covered by the hub's clock, a
  client's own dots apart.
- `FannedOutOnceHolds`, from `FanOut`: what is queued to a client or about to be has
  been applied by the server; two tasks never fan out the same op; and what a
  task is about to fan out is in no queue yet.
- `PositionsNeverQueueHolds`, from `Streams`: a position on a control stream, or in the
  hands of a task that is to broadcast it, was issued by a client and not as a datagram
  only. That is kept only if no later write can be the same op as one already on its
  way, so `Authored` adds that the ops of a client's session are stamped below its
  floor: the next one has a stamp, and a restarted client an actor, of its own.
- `ServedInSequenceHolds`, from `InSequence`: on every open connection, each op of
  this epoch on a map other than the positions is preceded, by what the server has or by what is ahead of it in the
  queue, with its actor's previous dot (`OpsGrounded`); a synced client's own dots
  are all served or queued (`OwnGrounded`).
- `NoWedgeHolds`, from `Handshake`: a client waiting for its initial sync has asked,
  or is being answered, or the answer is on its way; a client at an older epoch has a
  state of the server's epoch coming (`ShakesHands`). With nothing under way neither
  is left.

### Presence

- `PresenceTypes`, `GraceFileAlwaysMatches`, `WindowsStayWithTheAbsent`,
  `PresenceFollowsService`, `DropsGetAnswered`, `WindowsEnd`,
  `AuthorityGetsRescued`. They share one inductive invariant,
  `IInv == TypeOK /\ StepsOK /\ Fresh /\ RegistryOK /\ Answered /\ Expiring`, with
  `Silent /\ Rescuing` besides for the last:
  - `StepsOK`: what a pending section carries is what its kind needs: only a
    viewer's task judges a drop or opens a window, and `open`, `follow` and `eof`
    name a file;
  - `Fresh`: no connection later than the one a user's entry names is served or has
    work pending, so that registering starts from nothing;
  - `RegistryOK`: the three registry properties themselves;
  - `Answered`: a user in `unanswered` has a pause pending in some task, or a
    judgement or an opening in a task of their own;
  - `Expiring`: while a window is at zero the sweep's `expire`, or a section that
    closes the windows, is pending;
  - `Silent`: a user whom a sweep counts as lost is not served, and nothing pending
    can give them authority; `Rescuing`: while a lost user who has departed holds
    authority, a pending section takes it from them.

  When no task is busy nothing is pending, and `Answered`, `Expiring` and `Rescuing`
  become `DropsAnswered`, `WindowsRunOut` and `NoGhostAuthority`. The step proof
  treats each section once: lemmas on programs (`HeadAndTail`, `ContinueJob`,
  `ShortPrograms`) say what remains pending after it.

### Player

- `PlayerTypes`, `AlwaysTheRightFile`, `GraceAlwaysHolds`, `NeverLeftStranded`,
  from one inductive invariant, `PlayerInv`. `RightFile` is far
  from inductive: the actor judges an event by the path it has observed, while the
  event was attributed by a reader that is ahead of it by everything in the channel.
  - `MpvInv` bridges the two: the reader's `last_path` is the path the actor will
    have observed once it has taken all waiting events (`Up`), and each waiting
    event that speaks of a file meets an actor that has observed that file's path
    or none (`Attributed`). While mpv is up no exit is waiting (`NoExit`), and the
    reader still awaits each position query of its own (`Awaited`).
  - `Held`: the estimate and a scrub under way are of the file last commanded.
  - `Life`: a player, a launch and a probe exclude each other, each leaves the crash
    counter below its limit, and without a player no path is observed.

  mpv's steps need only `MpvInv` (`MpvPreserves`); each handler has one lemma, and
  takes an event by `Taken`, which says what the event can be of.

### Transfers

- `TransfersTyped`, `InFlightIsNeeded`, `VerifiedIsGood`, `ToldIsPlayable`, from one
  inductive invariant,
  `IInv == FileInv /\ DiskInv /\ NetInv /\ ChannelInv /\ EnvInv`:
  - `FileInv`: every download is `Sound`: a verified block is written in full and
    holds no bad chunk, what is in flight is needed, and no source has been asked
    too often. With hashes, it counts as playable exactly when its chunks make it
    so (`Settled`), and the group was told what it counts as (`Told`);
  - `DiskInv`: what a partial file on disk lacks are chunks of it;
  - `NetInv`: the stash of opens and the op channel are within their depths;
  - `ChannelInv`, `EnvInv`: what is on its way to the actors is what peers and
    relay can send.

  A call of the scheduler takes downloads to downloads and a list of commands, and
  `Good` says of such a result what `FileInv` says of the state. Each call has one
  lemma (`plan_all`, `on_chunk_data`, `tick`, `requeue_source`, ...); the loops over
  files and sources keep `Good` by `FoldKeeps`. `ToldPlayable` needs the order within
  a handler: progress is told after the last change of the store and of the anchor.
- `BulkIsAssignedOnce`, `BudgetIsShared`, of every step from a state of `IInv`. They
  compare what is in flight after a handler with what was before, so each call has a
  second fact: it only takes requests back (`Fewer`), perhaps followed by planning
  (`Refills`, `Resupplies`). Taking back satisfies both properties; planning keeps
  them source by source, since asking makes no chunk urgent (`AskingUrgent`), what is
  asked for beyond the urgent is in flight nowhere (`TakeBulk`) and fits into what the
  pipeline leaves (`TakeFits`). The latter counts pairs of a file and a chunk: the
  sums over files count such pairs (`HeldCounts`, `BulkCounts`), and of the first `n`
  candidates there are at most `n`, because their order is total (`ForemostFew`).

  `set_downloads` plans after each file of a plan, and giving the file that plays new
  sources may move its window, so that chunks assigned twice as urgent no longer are.
  That cannot happen after an assignment: the file that plays is the plan's first,
  which `PlanOK` assumes and `wanted_entries` with `anchored_download_order` provides.

### Outbox and limiter

- `AccountedHolds`, `OutboxIsFrameQueue`. The account must be kept while a push is
  between its counter and its send: `Ledger` says the counter is what is in the
  channel, in the writer's hand and in the pushes counted and not yet sent. For the
  refinement `Within` adds that what waits and what is let in stay within the limit,
  but for one frame let into an empty queue.
- `AuthTypes`, `AuthInvariant`, `AuthRate`, `AuthRefines`. `RateLimited` is
  not inductive: what is spent must be weighed against what is still owed. The
  invariant adds, for every key, `spent * Refill <= (now - since) + Debt` and
  `Debt <= Capacity`: a failure adds `Refill` to both sides of the first, time
  moves debt into `now - since`, and the throttle keeps the second. The refinement
  needs, for each verdict, that the step changes the debt of the judged key only;
  sweeping removes keys that owe nothing (`WrongDebt`, `UntrackedDebt`).

### Only model-checked

- `Heals`, `Returns`, `Answered` (of `Transfers`), `Completes` and `Released`:
  liveness under fairness is beyond the prover.

Every other property of a passing run is proved.

## 10. Where code and text disagree

1. **Offline edits lost with the link** (`buffer_lost`). `synced()` empties the
   offline buffer into the replica before the upward merge is delivered. If the
   link dies in between, the hashes differ at the next handshake, a snapshot
   answers, and the edits are gone. `docs/sync-state.md:831` calls the buffer
   "always preserved and replayed".
2. **A forced pause beaten by a compaction** (`pause_beaten`). `server_write`
   stamps before it takes the state lock; a compaction in between restamps the old
   Playing intent above the pause. `server.rs:230-233` says such a write "always
   dominates".
3. **A stale union let into a restored server** (`restored_server`). The broadcast
   after one client's upward merge also reaches a client that still awaits its
   initial sync; it takes the merge for the answer and pushes its own state up.
   `docs/sync-state.md:815-818` describes the hash gate as the defence against
   just that.
4. **The last peer list may be an old one** (`stale_peer_list`).
   `broadcast_peer_list` copies the registry under its lock and queues the list
   later; of two calls the older copy can go out last. `server.rs:980-981` says it
   pushes "the current peer list".
5. **The reliable position tick may not be relayed reliably** (`position_behind`).
   Of the tick's two copies the server relays the one it serves first. When that is
   the datagram, `relay_transport` makes it a datagram only, and the reliable copy,
   already applied, is not relayed. If that one datagram is lost the peer has no
   position from that second, and since datagrams apply in sequence only, none of the
   following ones before a tick is relayed on the control stream.
   `server.rs:149-152` says that "a position that arrived reliably (the 1s catch-up
   tick, sent eager by the client)" is relayed eagerly, and
   `docs/network-design.md:642-643` calls it "a catch-up baseline".
6. **A launched mpv presses play** (`launch_unpauses`). mpv announces a property
   when it is first observed, and an idle one is not paused. Nobody expects that
   flip, so the actor sends `UserUnpaused`, on which the session latches Playing
   and clears the user's own override: at every start, and after a crash, where
   `player.rs:1223` says the relaunch "comes up paused". `player.rs:205` describes
   the output as "The user unpaused in the player."

Smaller differences of wording seen on the way, with no run: the merge is
broadcast also when it changed nothing (`sync-state.md:822-824` says only if it
did); the EOF transition takes the immediately next playlist entry
(`sync-state.md:290-291` says the next unwatched one).

## 11. What the models leave out

- Chat, lookup requests and map removal; the grow-only sets need no order. Of the
  mutations, those of a watched flag, the intent and the position; the others choose
  other keys and values.
- Where a user is in the file: positions are told apart by dot and stamp. That a
  position is lost, and not replayed, when it was only sent as a datagram is intended.
- The offline hold (`SyncCommand::OfflineHold`), which makes the sync actor serve a
  paused view while the link is down, and the grace lock, which refuses a write before
  it is stamped. `OwnWriteShows` is therefore about the replica: under an offline hold
  a press of play is in the replica, and the view served stays paused.
- Hash collisions: the view is compared itself. `Heals` is checked for broadcasts
  that overtake each other and for a restarted server; the alarm says nothing of
  positions, which its hash leaves out.
- In `Presence`, a server write is one step; its stamp race is in `StateSync`. In
  `StateSync` the only presence hook is the forced pause; a merge runs the same
  hooks as an op.
- Known users grow old after a week in the code; in the model they stay known.
  `record_seen` and the reading of offline known users are part of the section
  next to them.
- Advancing `next_ep` in the List at the end of a file; the presence run has no
  seeder (the theorems cover any set of seeders).
- The authority of a user who said Goodbye: `NoGhostAuthority` speaks of users who
  timed out.
- In `Player`: overlays, subtitles, screenshots; the extrapolation of the position
  estimate between observations. A `Loaded` names no file, so the actor takes that of
  a file it has since replaced for the new one's: the resume point is then sought, and
  the estimate seeded, too early. The model does the same, and `RightFile`, which is
  about what was observed of a file, does not count the seeded zero as observed of the
  old one. Two differences of attribution were seen besides
  the one of section 10: the pre-load pause is told as the user's when a dragged-in
  file ends the load it belongs to, and a seek's echo is when the same file is
  loaded again before it.
- In `Transfers`: write errors, chunks of a wrong size, which take the same way, and
  the downloads abandoned for them; partial and malformed bitfields: a peer that has
  anything has all of it; the backoff after lost streams is modelled and no property
  needs it; the serving
  side (`on_serve_stream`, `serve_transfer`); the throttle on progress writes;
  files of different sizes. Commands from the file actor reach the network actor at
  once, and relayed replies come in any order.
- In `Outbox`: the writer's exit when the last handle is dropped. An oversized frame
  is exempt from the limit only in an empty queue, so a frame pushed behind it
  while it is being written overflows; `FrameQueue` promises no more.
- Everything marked `not_modelled` in `PROJECT.json`, with the reason there: most
  of the repository by volume (terminal UI, game, parsing, AI features, imports)
  is presentation, sequential text processing or calls to external services, where
  no order of steps decides an outcome, and which the repository's own property
  tests reach better.
