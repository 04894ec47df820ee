----------------------------- MODULE Transfers -----------------------------
(***************************************************************************)
(* Pulling files from peers: the file actor's side of the data streams     *)
(* (src/dessplay/src/actors/file.rs), which makes the scheduler's calls    *)
(* (Download.tla) and carries its chunk requests, and the network actor's  *)
(* side (src/dessplay/src/actors/network.rs), which opens the streams over *)
(* a transfer link that lives and dies with the control connection.        *)
(*                                                                         *)
(* Chunk requests for (peer, file) travel on one data stream.  While there *)
(* is none they wait in pending_streams, whose entry is the latch that a   *)
(* stream was asked for: only an answer of the network actor (the stream,  *)
(* a failure, a link reset) or the end of the download removes it.         *)
(*                                                                         *)
(* The peers, the server's relay and the session's plan are the            *)
(* environment, modelled from what the code receives from them.            *)
(***************************************************************************)
EXTENDS Download

CONSTANTS
    OpenBuffer,     \* PENDING_OPEN_BUFFER
    OpsDepth,       \* depth of the transfer link's op channel
    MaxStreamEvents, \* bound: depth of the stream-event channel
    Plans,          \* the plans the session may turn to
    Scenarios       \* initial moods, plan, partial files and fault budgets

ASSUME TransfersAssumption ==
    {OpenBuffer, OpsDepth, MaxStreamEvents} \subseteq Nat \ {0}

VARIABLES
    \* the file actor
    dl,         \* downloads: the scheduler's active files
    view,       \* its priority and now_playing
    local,      \* local_files
    shown,      \* last_playable_written
    streams,    \* download_streams: key -> [gen, owes, ended]
    pending,    \* pending_streams: key -> chunks queued for a stream asked for
    gen,        \* stream_generation
    disk,       \* partial files a restart finds: None or the absent chunks
    \* the network actor
    link,       \* control connection and transfer link
    opens,      \* pending_opens
    ops,        \* the transfer link's op channel
    tasks,      \* open_data_stream tasks on the current transfer connection
    orphans,    \* ... on one that has died
    \* channels
    answers,    \* network events on their way to the file actor
    arrivals,   \* stream events on their way to the file actor
    mail,       \* peers' replies on the relay
    \* the environment
    mood,       \* how a peer behaves at the moment
    offer,      \* the session's want-set: [order, playing, present, play, idle]
    left        \* what is left of each fault's budget

fileVars == <<dl, view, local, shown, streams, pending, gen, disk>>
netVars == <<link, opens, ops, tasks, orphans>>
envVars == <<mood, offer, left>>
vars == <<fileVars, netVars, answers, arrivals, mail, envVars>>

Fault == {"drop", "link", "open", "close", "lose", "sulk", "plan", "restart", "late", "found"}
\* A "wrong" peer serves bad hashes and bytes, a "never" peer holds another
\* encode under the file's name and says so.
Moods == {"honest", "wrong", "silent", "never"}
Spend(b) == left[b] > 0 /\ left' = [left EXCEPT ![b] = @ - 1]

\* Plans name files and peers, and rank what plays first if they rank it
\* (anchored_download_order); a partial file lacks some of its chunks.
PlanOK(o) ==
    /\ o.order \in Seq(Files) /\ o.present \subseteq Peers
    /\ \A i \in DOMAIN o.order : o.order[i] = o.playing => i = 1
DiskOK(absent) == absent = {None} \/ absent \subseteq Chunks

ASSUME ScenariosAssumption ==
    /\ \A o \in Plans : PlanOK(o)
    /\ \A s \in Scenarios :
         /\ s.mood \in [Peers -> Moods] /\ s.left \in [Fault -> Nat]
         /\ PlanOK(s.offer)
         /\ DOMAIN s.disk = Files /\ \A f \in Files : DiskOK(s.disk[f])

Linked == link \in {"dial", "up"}
Reply == [kind : {"hashes", "lies", "never", "avail"}, key : Key]

-----------------------------------------------------------------------------
(* From the file actor to the network actor.  Commands are handled at once: *)
(* nothing overtakes them on their channel.                                *)

Failed(k) == [kind |-> "failed", key |-> k, cut |-> FALSE]
Closed(k, g) ==
    [kind |-> "closed", key |-> k, gen |-> g, chunk |-> None, good |-> FALSE]
Reset == [kind |-> "reset", key |-> <<>>, cut |-> FALSE]
FailedAll(S) == SetToSeq({Failed(k) : k \in S})

\* SendPeer and OpenTransferStream while a transfer link exists: try_send,
\* and forward_open answers an open that does not fit.
Forward(asks, fresh, extra) ==
    LET sends == SetToSeq({[kind |-> "ask", key |-> k] : k \in asks})
                    \o SetToSeq({[kind |-> "open", key |-> k] : k \in fresh})
        room == OpsDepth - Len(ops)
        over == {k \in fresh : \E i \in room + 1 .. Len(sends) :
                                  sends[i] = [kind |-> "open", key |-> k]}
    IN  /\ ops' = ops \o SubSeq(sends, 1, Min({room, Len(sends)}))
        /\ answers' = extra \o FailedAll(over)
        /\ opens' = opens

\* A mutant: an open past the buffer is dropped without an answer.
StashSilent(fresh, extra) ==
    LET new == fresh \ opens
        kept == CHOOSE S \in SUBSET new :
                    Cardinality(S) = Min({OpenBuffer - Cardinality(opens), Cardinality(new)})
    IN  /\ opens' = opens \cup kept
        /\ answers' = extra
        /\ ops' = ops

\* ... and while none exists: stash_open_or_discard, and the same arms of
\* run_connection before AuthOk.
Stash(fresh, extra) ==
    LET new == fresh \ opens
        over == CHOOSE S \in SUBSET new :
                    Cardinality(S) = Max({Cardinality(opens \cup new) - OpenBuffer, 0})
    IN  /\ opens' = opens \cup (new \ over)
        /\ answers' = extra \o FailedAll(over)
        /\ ops' = ops

ToNetwork(asks, fresh, extra) ==
    /\ IF Linked THEN Forward(asks, fresh, extra) ELSE Stash(fresh, extra)
    /\ UNCHANGED <<link, tasks, orphans>>

-----------------------------------------------------------------------------
(* run_download_actions *)

\* A mutant: only a changed progress figure is reported.
ReportsProgressOnly(old, new) == new.bps # old.bps

\* A Progress action: the verified fraction or the playability changed.
Reports(old, new) == <<new.bps, new.playable>> # <<old.bps, old.playable>>

OfFiles(S) == {k \in Key : k[2] \in S}

\* Carry out a scheduler call's result: send_on_stream and queue_for_stream
\* for chunk control, the relay for solicitations, on_download_complete for
\* completed files.  base is the actor's streams and pending entries, broken
\* the streams whose reader has ended and whose write fails.
RunActions(r, base, extra) ==
    \E broken \in SUBSET {k \in DOMAIN base.streams : base.streams[k].ended} :
        LET used == {k \in Key : r.cancel[k] # {} \/ r.request[k] # {}}
            live == Without(base.streams, broken \cap used)
            queued == {k \in Key : r.request[k] # {} /\ k \notin DOMAIN live}
            carried == [k \in DOMAIN live |->
                          IF live[k].ended THEN live[k]
                          ELSE [live[k] EXCEPT !.owes = (@ \ r.cancel[k]) \cup r.request[k]]]
            waiting == [k \in DOMAIN base.pending \cup queued |->
                          IF k \in DOMAIN live THEN base.pending[k]
                          ELSE (IF k \in DOMAIN base.pending
                                THEN base.pending[k] \ r.cancel[k] ELSE {})
                               \cup r.request[k]]
        IN  /\ broken \subseteq used
            /\ dl' = r.dl
            /\ local' = local \cup r.done
            /\ streams' = Without(carried, OfFiles(r.done))
            /\ pending' = Without(waiting, OfFiles(r.done))
            /\ shown' = [f \in Files |->
                 IF f \notin DOMAIN r.dl THEN None
                 ELSE LET old == IF f \in DOMAIN dl THEN dl[f] ELSE NewDownload(FALSE, {}, 0)
                      IN  IF Reports(old, r.dl[f])
                          THEN IF r.dl[f].playable THEN 1 ELSE 0
                          ELSE shown[f]]
            /\ ToNetwork(r.ask, queued \ DOMAIN base.pending, extra)

Own == [streams |-> streams, pending |-> pending]

-----------------------------------------------------------------------------
(* The file actor's handlers *)

\* on_tick.  A clock unit is far longer than the actor needs to empty its
\* channels, so none passes while they hold anything.  While the network or
\* a peer that is not silent has something to do, one passes only within the
\* budget: an answer may be late, not forever.
Busy ==
    \/ link # "up" \/ ops # <<>> \/ mail # {}
    \/ \E k \in Key : tasks[k] + orphans[k] > 0
    \/ \E k \in DOMAIN streams : streams[k].owes # {} /\ mood[k[1]] # "silent"

Tick(elapsed) ==
    /\ elapsed => answers = <<>> /\ arrivals = <<>>
    /\ IF elapsed /\ Busy THEN Spend("late") ELSE left' = left
    /\ RunActions(TickAll(Result(dl), view, elapsed), Own, answers)
    /\ UNCHANGED <<view, gen, disk, arrivals, mail, mood, offer>>

\* set_downloads: cancel what is no longer wanted, rank, start or refresh
\* what is to be fetched and not held already.  An idle file is wanted and
\* ranked but not to be fetched now (fetch: None).
Ranking(o) == [order |-> o.order, playing |-> o.playing]

Planned(o) ==
    LET Fresh(f) == NewDownload(disk[f] # {None}, disk[f], o.play)
        kept == Without(dl, DOMAIN dl \ Range(o.order))
    IN  FoldLeft(LAMBDA acc, f : IF f \in local \cup o.idle THEN acc
                                 ELSE SetSources(acc, f, Fresh(f), o.present, o.play, Ranking(o)),
                 Result(kept), o.order)

SetDownloads(o) ==
    LET dropped == DOMAIN dl \ Range(o.order)
    IN  /\ RunActions(Planned(o),
                      [streams |-> Without(streams, OfFiles(dropped)),
                       pending |-> Without(pending, OfFiles(dropped))], answers)
        /\ view' = Ranking(o)
        /\ disk' = [f \in Files |-> IF f \in dropped THEN {None} ELSE disk[f]]
        /\ UNCHANGED <<gen, arrivals, mail>>

\* adopt_local_copy: the file turned up through another channel, which ends
\* its download (cancel_peer_download); the next tick uses the budget freed.
AdoptLocalCopy(f) ==
    /\ f \notin local
    /\ Spend("found")
    /\ local' = local \cup {f}
    /\ dl' = Without(dl, {f})
    /\ streams' = Without(streams, OfFiles({f}))
    /\ pending' = Without(pending, OfFiles({f}))
    /\ shown' = [shown EXCEPT ![f] = None]
    /\ disk' = [disk EXCEPT ![f] = IF f \in DOMAIN dl THEN {None} ELSE @]
    /\ UNCHANGED <<view, gen, netVars, answers, arrivals, mail, mood, offer>>

\* A relayed reply of a peer: on_peer_message.
OnReply(m) ==
    LET p == m.key[1]
        f == m.key[2]
        r == Result(dl)
    IN  /\ m \in mail
        /\ mail' = mail \ {m}
        /\ RunActions(
             CASE m.kind = "avail" -> OnAvailability(r, f, p, Chunks, view)
               [] m.kind = "never" -> OnCannotServe(r, f, p, view)
               [] OTHER -> OnBlockHashes(r, f, p, m.kind = "hashes", view),
             Own, answers)
        /\ UNCHANGED <<view, gen, disk, arrivals, envVars>>

\* on_stream_event: a chunk, or the end of a stream's reader.  A stream dropped
\* because a write failed takes its reader with it, so its end may be told or not.
OnArrival ==
    LET e == Head(arrivals)
        p == e.key[1]
        f == e.key[2]
        stale == e.key \in DOMAIN streams /\ streams[e.key].gen # e.gen
    IN  /\ arrivals # <<>>
        /\ arrivals' = Tail(arrivals)
        /\ \/ /\ e.kind = "data"
              /\ RunActions(OnChunkData(Result(dl), f, p, e.chunk, e.good, view),
                            Own, answers)
           \/ /\ e.kind = "closed" /\ ~stale
              /\ RunActions(OnSourceStreamLost(Result(dl), f, p, view),
                            [Own EXCEPT !.streams = Without(@, {e.key})], answers)
           \/ /\ e.kind = "closed" /\ (stale \/ e.key \notin DOMAIN streams)
              /\ UNCHANGED <<dl, local, shown, streams, pending, netVars, answers>>
        /\ UNCHANGED <<view, gen, disk, mail, envVars>>

\* on_transfer_stream_failed, for each key of S
FailPending(S) ==
    LET hit == S \ DOMAIN streams
    IN  /\ pending' = Without(pending, hit)
        /\ dl' = [f \in DOMAIN dl |-> [dl[f] EXCEPT !.src = [p \in DOMAIN @ |->
                    IF <<p, f>> \in hit THEN Requeued(@[p]) ELSE @[p]]]]

\* An answer of the network actor: on_download_stream (which flushes what
\* queued for the stream), on_transfer_stream_failed, on_transfer_link_reset.
\* The reader of a stream whose connection has died meanwhile ends at once.
OnAnswer ==
    LET e == Head(answers)
        k == e.key
        queue == IF k \in DOMAIN pending THEN pending[k] ELSE {}
        stream == [gen |-> gen + 1, owes |-> {}, ended |-> e.cut]
    IN  /\ answers # <<>>
        /\ \/ /\ e.kind = "opened" /\ k[2] \in DOMAIN dl
              /\ RunActions([Result(dl) EXCEPT !.request[k] = queue],
                            [streams |-> [x \in DOMAIN streams \cup {k} |->
                                            IF x = k THEN stream ELSE streams[x]],
                             pending |-> Without(pending, {k})],
                            Tail(answers))
              /\ gen' = gen + 1
              /\ arrivals' = arrivals \o IF e.cut THEN <<Closed(k, gen + 1)>> ELSE <<>>
           \/ /\ e.kind = "opened" /\ k[2] \notin DOMAIN dl
              /\ answers' = Tail(answers)
              /\ pending' = Without(pending, {k})
              /\ UNCHANGED <<dl, local, shown, streams, gen, arrivals, netVars>>
           \/ /\ e.kind \in {"failed", "reset"}
              /\ answers' = Tail(answers)
              /\ FailPending(IF e.kind = "failed" THEN {k} ELSE DOMAIN pending)
              /\ UNCHANGED <<local, shown, streams, gen, arrivals, netVars>>
        /\ UNCHANGED <<view, disk, mail, envVars>>

\* The process dies and starts again.  Partial files stay on disk, their
\* bookkeeping does not; what was complete is found again.
Restart ==
    /\ Spend("restart")
    /\ disk' = [f \in Files |-> IF f \in DOMAIN dl
                                THEN Chunks \ (dl[f].written \ dl[f].bad) ELSE disk[f]]
    /\ dl' = <<>> /\ streams' = <<>> /\ pending' = <<>> /\ gen' = 0
    /\ view' = [order |-> <<>>, playing |-> None]
    /\ shown' = [f \in Files |-> None]
    /\ link' = "down" /\ opens' = {} /\ ops' = <<>>
    /\ tasks' = [k \in Key |-> 0] /\ orphans' = [k \in Key |-> 0]
    /\ answers' = <<>> /\ arrivals' = <<>> /\ mail' = {}
    /\ UNCHANGED <<local, mood, offer>>

-----------------------------------------------------------------------------
(* The network actor *)

\* The transport connects and Auth is sent.
Connect ==
    /\ link = "down"
    /\ link' = "auth"
    /\ UNCHANGED <<fileVars, opens, ops, tasks, orphans, answers, arrivals, mail, envVars>>

\* A connection attempt fails: Disconnected, which the session passes on as
\* a link reset.
ConnectFails ==
    /\ link = "down"
    /\ Spend("drop")
    /\ answers' = Append(answers, Reset)
    /\ UNCHANGED <<fileVars, netVars, arrivals, mail, mood, offer>>

\* AuthOk: a transfer link is spawned and takes the buffered opens.
AuthOk ==
    /\ link = "auth"
    /\ link' = "dial"
    /\ LET sends == SetToSeq({[kind |-> "open", key |-> k] : k \in opens})
           fit == Min({OpsDepth, Len(sends)})
       IN  /\ ops' = SubSeq(sends, 1, fit)
           /\ answers' = answers \o FailedAll({sends[i].key : i \in fit + 1 .. Len(sends)})
    /\ opens' = {}
    /\ UNCHANGED <<fileVars, tasks, orphans, arrivals, mail, envVars>>

\* run_transfer_link: the transfer connection is bound and announced.
LinkUp ==
    /\ link = "dial"
    /\ link' = "up"
    /\ UNCHANGED <<fileVars, opens, ops, tasks, orphans, answers, arrivals, mail, envVars>>

\* The link loop takes an op: it sends a solicitation, which the peer answers
\* as it is minded to, or spawns open_data_stream.
Pump ==
    LET op == Head(ops)
        p == op.key[1]
        Says(kinds) == {[kind |-> x, key |-> op.key] : x \in kinds}
    IN  /\ link = "up" /\ ops # <<>>
        /\ ops' = Tail(ops)
        /\ \/ /\ op.kind = "ask"
              /\ mail' = mail \cup
                   CASE mood[p] = "never" -> Says({"never"})
                     [] mood[p] = "silent" -> {}
                     [] mood[p] = "wrong" -> Says({"lies", "avail"})
                     [] OTHER -> Says({"hashes", "avail"})
              /\ tasks' = tasks
           \/ /\ op.kind = "open"
              /\ tasks' = [tasks EXCEPT ![op.key] = @ + 1]
              /\ mail' = mail
        /\ UNCHANGED <<fileVars, link, opens, orphans, answers, arrivals, envVars>>

\* open_data_stream hands over the stream, ...
Opens(k) ==
    /\ tasks[k] > 0
    /\ tasks' = [tasks EXCEPT ![k] = @ - 1]
    /\ answers' = Append(answers, [kind |-> "opened", key |-> k, cut |-> FALSE])
    /\ UNCHANGED <<fileVars, link, opens, ops, orphans, arrivals, mail, envVars>>

\* ... or reports failure, as it must once its connection has died.
OpenFails(k) ==
    /\ \/ /\ orphans[k] > 0
          /\ orphans' = [orphans EXCEPT ![k] = @ - 1]
          /\ UNCHANGED <<tasks, left>>
       \/ /\ tasks[k] > 0
          /\ tasks' = [tasks EXCEPT ![k] = @ - 1]
          /\ Spend("open")
          /\ UNCHANGED orphans
    /\ answers' = Append(answers, Failed(k))
    /\ UNCHANGED <<fileVars, link, opens, ops, arrivals, mail, mood, offer>>

\* A transfer connection dies: the readers of its streams end, streams not
\* yet handed over are dead, and its open tasks will fail.
Cut ==
    LET live == {k \in DOMAIN streams : ~streams[k].ended}
    IN  /\ streams' = [k \in DOMAIN streams |->
                         [streams[k] EXCEPT !.ended = TRUE, !.owes = {}]]
        /\ arrivals' = arrivals \o SetToSeq({Closed(k, streams[k].gen) : k \in live})
        /\ tasks' = [k \in Key |-> 0]
        /\ orphans' = [k \in Key |-> orphans[k] + tasks[k]]
        /\ mail' = {}
        /\ UNCHANGED <<dl, view, local, shown, pending, gen, disk, opens>>

Dead(e) == IF e.kind = "opened" THEN [e EXCEPT !.cut = TRUE] ELSE e
DeadAnswers == [i \in DOMAIN answers |-> Dead(answers[i])]

\* The transfer connection is lost; the link redials and keeps its ops.
LinkLost ==
    /\ link = "up"
    /\ Spend("link")
    /\ link' = "dial"
    /\ Cut
    /\ answers' = DeadAnswers
    /\ UNCHANGED <<ops, mood, offer>>

\* The control connection is lost, and the transfer link with it.
ConnectionLost ==
    /\ link # "down"
    /\ Spend("drop")
    /\ link' = "down"
    /\ ops' = <<>>
    /\ Cut
    /\ answers' = Append(DeadAnswers, Reset)
    /\ UNCHANGED <<mood, offer>>

-----------------------------------------------------------------------------
(* The peers, the relay and the session's plan *)

\* serve_transfer sends a chunk it owes, in any order.
Serve(k, c) ==
    /\ k \in DOMAIN streams /\ ~streams[k].ended /\ c \in streams[k].owes
    /\ mood[k[1]] # "silent"
    /\ Len(arrivals) < MaxStreamEvents
    /\ streams' = [streams EXCEPT ![k].owes = @ \ {c}]
    /\ arrivals' = Append(arrivals, [kind |-> "data", key |-> k, gen |-> 0,
                                     chunk |-> c, good |-> mood[k[1]] = "honest"])
    /\ UNCHANGED <<dl, view, local, shown, pending, gen, disk, netVars, answers, mail, envVars>>

\* A stream ends at the uploader's end.
ServeEnds(k) ==
    /\ k \in DOMAIN streams /\ ~streams[k].ended
    /\ Spend("close")
    /\ streams' = [streams EXCEPT ![k].ended = TRUE, ![k].owes = {}]
    /\ arrivals' = Append(arrivals, Closed(k, streams[k].gen))
    /\ UNCHANGED <<dl, view, local, shown, pending, gen, disk, netVars, answers, mail, mood, offer>>

LoseReply(m) ==
    /\ m \in mail
    /\ Spend("lose")
    /\ mail' = mail \ {m}
    /\ UNCHANGED <<fileVars, netVars, answers, arrivals, mood, offer>>

\* A peer stops answering or serving for a while, ...
Sulk(p) ==
    /\ mood[p] = "honest"
    /\ Spend("sulk")
    /\ mood' = [mood EXCEPT ![p] = "silent"]
    /\ UNCHANGED <<fileVars, netVars, answers, arrivals, mail, offer>>

\* ... and a peer that misbehaved behaves again.
Heal(p) ==
    /\ mood[p] \in {"wrong", "silent"}
    /\ mood' = [mood EXCEPT ![p] = "honest"]
    /\ UNCHANGED <<fileVars, netVars, answers, arrivals, mail, offer, left>>

\* The session repeats its plan, ...
Refresh ==
    /\ SetDownloads(offer)
    /\ UNCHANGED envVars

\* ... or changes it: the playlist, who is present, where playback is.
Replan(o) ==
    /\ o # offer
    /\ Spend("plan")
    /\ offer' = o
    /\ SetDownloads(o)
    /\ mood' = mood

-----------------------------------------------------------------------------

\* A session just connected, with nothing started; an earlier run may have
\* left partial files.
Init ==
    /\ dl = <<>> /\ view = [order |-> <<>>, playing |-> None]
    /\ local = {} /\ shown = [f \in Files |-> None]
    /\ streams = <<>> /\ pending = <<>> /\ gen = 0
    /\ link = "dial" /\ opens = {} /\ ops = <<>>
    /\ tasks = [k \in Key |-> 0] /\ orphans = [k \in Key |-> 0]
    /\ answers = <<>> /\ arrivals = <<>> /\ mail = {}
    /\ \E s \in Scenarios : 
         mood = s.mood /\ offer = s.offer /\ disk = s.disk /\ left = s.left

FileStep ==
    \/ \E elapsed \in BOOLEAN : Tick(elapsed)
    \/ OnArrival
    \/ OnAnswer
    \/ \E m \in mail : OnReply(m)

NetStep ==
    \/ Connect \/ AuthOk \/ LinkUp \/ Pump
    \/ \E k \in Key : Opens(k) \/ OpenFails(k)

EnvStep ==
    \/ \E k \in Key, c \in Chunks : Serve(k, c)
    \/ \E p \in Peers : Heal(p)
    \/ Refresh

FaultStep ==
    \/ ConnectFails \/ LinkLost \/ ConnectionLost \/ Restart
    \/ \E k \in Key : ServeEnds(k)
    \/ \E m \in mail : LoseReply(m)
    \/ \E p \in Peers : Sulk(p)
    \/ \E o \in Plans : Replan(o)
    \/ \E f \in Files : AdoptLocalCopy(f)

Next == FileStep \/ NetStep \/ EnvStep \/ FaultStep

Spec == Init /\ [][Next]_vars

\* Nothing is left to do for a tick at this instant and for the clock; the
\* session's plan is known, with every source it offers.
Ticked == TickAll(Result(dl), view, FALSE) = Result(dl)
Aged == Busy \/ answers # <<>> \/ TickAll(Result(dl), view, TRUE) = Result(dl)
Refreshed ==
    /\ view = Ranking(offer)
    /\ \A f \in Range(offer.order) \ (local \cup offer.idle) :
         f \in DOMAIN dl /\ offer.present \ dl[f].denied \subseteq Sources(dl[f])

\* The actors' loops run, connections come up in the end, peers that
\* misbehaved behave again and the session repeats its plan.  Where a handler
\* leaves nothing of its work behind, its fairness is stated as that: it is
\* infinitely often the case that there is nothing for it to do.
FairSpec ==
    /\ Spec
    /\ []<>Ticked /\ []<>Aged /\ []<>Refreshed
    /\ []<>(arrivals = <<>>) /\ []<>(mail = {}) /\ WF_vars(OnAnswer)
    /\ WF_vars(Connect) /\ WF_vars(AuthOk) /\ WF_vars(LinkUp) /\ WF_vars(Pump)
    /\ WF_vars(\E k \in Key : Opens(k) \/ OpenFails(k))
    /\ WF_vars(\E k \in Key, c \in Chunks : Serve(k, c))
    /\ WF_vars(\E p \in Peers : Heal(p))

-----------------------------------------------------------------------------
(* Properties *)

\* Types, with the bounds the code keeps to: the solicitation attempts, the
\* op channel and the stash of opens.
TypeOK ==
    /\ DOMAIN dl \subseteq Files
    /\ \A f \in DOMAIN dl :
         /\ dl[f].written \subseteq Chunks /\ dl[f].bad \subseteq dl[f].written
         /\ dl[f].verified \subseteq Blocks
         /\ Sources(dl[f]) \subseteq Peers /\ dl[f].denied \subseteq Peers
         /\ \A p \in Sources(dl[f]) :
              /\ dl[f].src[p].inFlight \subseteq Chunks
              /\ dl[f].src[p].attempts \in 0 .. MaxSolicitAttempts
    /\ local \subseteq Files /\ shown \in [Files -> {None, 0, 1}]
    /\ DOMAIN streams \subseteq Key /\ DOMAIN pending \subseteq Key
    /\ link \in {"down", "auth", "dial", "up"}
    /\ opens \subseteq Key /\ Cardinality(opens) <= OpenBuffer
    /\ Len(ops) <= OpsDepth /\ mail \subseteq Reply
    /\ tasks \in [Key -> Nat] /\ orphans \in [Key -> Nat]
    /\ mood \in [Peers -> Moods] /\ left \in [Fault -> Nat]

\* A chunk that is on its way from a source is still needed: one that arrived
\* meanwhile from another source, or whose block verified, was retracted
\* (cancel_elsewhere), so no source's budget is spent on it and no snub
\* follows from it.
InFlightNeeded ==
    \A f \in DOMAIN dl : Flying(dl[f]) \subseteq Needed(dl[f])

\* A verified block holds only good bytes, whatever peers send, in whatever
\* order chunks, duplicates, hashes and restarts come: chunks are never
\* overwritten once their block verified (ChunkStore::verify, on_chunk_data).
VerifiedGood ==
    \A f \in DOMAIN dl : \A c \in dl[f].bad : BlockOf(c) \notin dl[f].verified

\* What the group was told last of a download's playability (the Progress
\* action, written through last_playable_written) is so, although the
\* playback anchor moves between verifications and plans come and go.
ToldPlayable ==
    \A f \in DOMAIN dl : dl[f].hashes => ((shown[f] = 1) = Playable(dl[f]))

\* Urgent chunks apart, what a source is asked for over all the downloads
\* never grows past the pipeline: plan_all's shared budget, kept across
\* requeues, snubs and changes of plan (tests/download_props.rs states it for
\* one call at a time).
BulkHeld(d, p, playing) ==
    IF p \in Sources(d) THEN d.src[p].inFlight \ Urgent(d, playing) ELSE {}

SharedBudget ==
    [][\A p \in Peers :
         MapThenSumSet(LAMBDA f : Cardinality(BulkHeld(dl'[f], p, view'.playing = f)),
                       DOMAIN dl')
            <= Max({PipelineDepth, Load(dl, p)})]_vars

\* No step puts a chunk on its way from a second source unless it is urgent:
\* plan_requests' single assignment of bulk chunks.
BulkOnce ==
    [][\A f \in DOMAIN dl' : \A p, q \in Sources(dl'[f]) :
         p # q => \A c \in dl'[f].src[p].inFlight \cap dl'[f].src[q].inFlight :
            \/ c \in Urgent(dl'[f], view'.playing = f)
            \/ f \in DOMAIN dl /\ {p, q} \subseteq Sources(dl[f])
                 /\ c \in dl[f].src[p].inFlight \cap dl[f].src[q].inFlight]_vars

\* Every stream asked for is answered: an entry of pending_streams, the latch
\* that keeps a second open from being asked for, never stays for ever,
\* whatever becomes of the open (stashed, over a full buffer, in the op
\* channel of a link that dies, in a task whose connection dies).
Answered == \A k \in Key : []<>(k \notin DOMAIN pending)

\* A file that is wanted, to be fetched and offered by a peer that can serve
\* it arrives or stops being wanted, through lost connections, failed opens,
\* lost replies, silent and wrong peers and restarts: no combination of the
\* latches (solicited, pending_streams, in_flight, retry_at) wedges it.
Fetching(f) ==
    /\ f \in Range(offer.order) \ offer.idle
    /\ \E p \in offer.present : mood[p] # "never"

Completes == \A f \in Files : []<>(f \in local \/ ~Fetching(f))
=============================================================================
