------------------------------ MODULE Download ------------------------------
(***************************************************************************)
(* The download scheduler (src/dessplay/src/download.rs) over the chunk    *)
(* store (src/dessplay/src/chunkstore.rs), as operators on its state.      *)
(*                                                                         *)
(* The scheduler is synchronous: every call takes the state to the next    *)
(* one and returns messages for the caller to send.  A call is modelled    *)
(* by an operator on a result record, [dl, cancel, request, ask, done]:    *)
(* the active downloads, the Cancels and then the ChunkRequests to send,   *)
(* by (peer, file), the BlockHashRequests, and the completed files.        *)
(* Transfers.tla makes the calls.                                          *)
(*                                                                         *)
(* Time is kept relative to now: silent is now - last_progress, wait is    *)
(* retry_at - now, since[c] is now - first_requested[c], each capped where *)
(* it is only compared with a bound.  All files have the same size.        *)
(***************************************************************************)
EXTENDS Integers, Sequences, FiniteSets, FiniteSetsExt

CONSTANTS
    Peers,              \* peer ids, naturals: plan_requests sorts by id
    Files,              \* file hashes, naturals: unranked files sort by hash
    Size,               \* chunks in a file
    ChunksPerBlock,     \* CHUNKS_PER_BLOCK
    PipelineDepth,      \* config.pipeline_depth
    MaxSources,         \* config.max_sources
    SnubTimeout,        \* config.snub_timeout_millis, in clock units
    UrgentAge,          \* config.urgent_age_millis, in clock units
    BackoffCap,         \* CAP_MILLIS of stream_backoff, in clock units
    MaxSolicitAttempts, \* MAX_SOLICIT_ATTEMPTS
    Cooldown            \* GIVE_UP_COOLDOWN_MULTIPLIER

ASSUME DownloadAssumption ==
    /\ Peers \subseteq Nat /\ IsFiniteSet(Peers)
    /\ Files \subseteq Nat /\ IsFiniteSet(Files)
    /\ {Size, ChunksPerBlock, PipelineDepth, MaxSources, SnubTimeout,
        UrgentAge, BackoffCap, MaxSolicitAttempts, Cooldown} \subseteq Nat \ {0}

None == -1
Key == Peers \X Files

\* A loop over a sequence, and a sequence of a set's members in some order:
\* FoldLeft and SetToSeq of SequencesExt, over the same fold of Folds.  That
\* module is not extended, for tlapm carries every definition in scope through
\* every step it checks.
FoldLeft(op(_, _), base, q) ==
    MapThenFoldSet(LAMBDA x, acc : op(acc, x), base, LAMBDA i : q[i], LAMBDA S : Max(S), DOMAIN q)
SetToSeq(S) == CHOOSE q \in [1 .. Cardinality(S) -> S] : IsInjective(q)

-----------------------------------------------------------------------------
(* The chunk store *)

Chunks == 0 .. Size - 1
BlockOf(c) == c \div ChunksPerBlock
Blocks == {BlockOf(c) : c \in Chunks}
ChunksOf(b) == {c \in Chunks : BlockOf(c) = b}

\* needed_chunks
Needed(d) == {c \in Chunks : c \notin d.written /\ BlockOf(c) \notin d.verified}

\* write_chunk.  bad holds the written chunks whose bytes are wrong.
WriteChunk(d, c, good) ==
    [d EXCEPT !.written = @ \cup {c}, !.bad = IF good THEN @ \ {c} ELSE @ \cup {c}]

\* A mutant: verification that does not look at the bytes.
VerifyTrusting(d) ==
    IF d.hashes
    THEN [d EXCEPT !.verified = @ \cup {b \in Blocks : ChunksOf(b) \subseteq d.written}]
    ELSE d

\* verify, through verify_and_collect: nothing verifies without block hashes.
Verify(d) ==
    LET full == {b \in Blocks \ d.verified : ChunksOf(b) \subseteq d.written}
        good == {b \in full : ChunksOf(b) \cap d.bad = {}}
        cleared == UNION {ChunksOf(b) : b \in full \ good}
    IN  IF d.hashes
        THEN [d EXCEPT !.verified = @ \cup good,
                       !.written = @ \ cleared,
                       !.bad = @ \ cleared]
        ELSE d

Window == Size \div 5 + 1

\* playable_from
Playable(d) ==
    \A c \in Chunks : c \in d.play .. d.play + Window - 1 => BlockOf(c) \in d.verified

-----------------------------------------------------------------------------
(* Downloads and their sources *)

NewSource ==
    [has |-> {}, inFlight |-> {}, silent |-> 0, solicited |-> FALSE,
     replied |-> FALSE, attempts |-> 0, dead |-> 0, wait |-> 0]

\* What start inserts.  ChunkStore::open takes every chunk of a partial file
\* left on disk as written; absent holds those whose bytes never arrived.
NewDownload(resumed, absent, play) ==
    [written |-> IF resumed THEN Chunks ELSE {},
     bad |-> IF resumed THEN absent ELSE {},
     verified |-> {}, hashes |-> FALSE, src |-> <<>>, denied |-> {},
     play |-> play, since |-> <<>>, bps |-> 0, playable |-> FALSE]

Sources(d) == DOMAIN d.src
Flying(d) == UNION {d.src[p].inFlight : p \in Sources(d)}

\* The shared budget: a source's outstanding chunks over all the downloads.
Load(dl, p) ==
    MapThenSumSet(LAMBDA f : Cardinality(dl[f].src[p].inFlight),
                  {f \in DOMAIN dl : p \in Sources(dl[f])})

\* stream_backoff, in clock units
Backoff(losses) ==
    IF losses <= 1 THEN 0 ELSE Min({2 ^ (losses - 2), BackoffCap})

\* The loss counter saturates where the backoff no longer grows.
MaxDead == CHOOSE n \in 2 .. BackoffCap + 2 :
              Backoff(n) = BackoffCap /\ Backoff(n - 1) < BackoffCap

Without(f, S) == [x \in DOMAIN f \ S |-> f[x]]

\* One clock unit passes for a download.
Elapse(d) ==
    [d EXCEPT
        !.since = [c \in DOMAIN @ |-> Min({@[c] + 1, UrgentAge})],
        !.src = [p \in Sources(d) |->
                   [d.src[p] EXCEPT !.silent = Min({@ + 1, SnubTimeout * Cooldown}),
                                    !.wait = Max({@ - 1, 0})]]]

-----------------------------------------------------------------------------
(* Planning chunk requests *)

Endgame(d) == Cardinality(Needed(d)) <= PipelineDepth

\* The window, rounded out to whole blocks.
InWindow(d, c) ==
    /\ BlockOf(c) >= BlockOf(d.play)
    /\ c < ((d.play + Window + ChunksPerBlock - 1) \div ChunksPerBlock) * ChunksPerBlock

Urgent(d, playing) ==
    {c \in Needed(d) :
        \/ Endgame(d)
        \/ playing /\ InWindow(d, c) /\ c \in DOMAIN d.since /\ d.since[c] >= UrgentAge}

Rarity(d, c) == Cardinality({p \in Sources(d) : c \in d.src[p].has})

\* The order of bulk candidates: the window by index, then rarest first.
Before(d, a, b) ==
    IF InWindow(d, a) # InWindow(d, b) THEN InWindow(d, a)
    ELSE IF InWindow(d, a) \/ Rarity(d, a) = Rarity(d, b) THEN a < b
    ELSE Rarity(d, a) < Rarity(d, b)

Foremost(d, S, n) == {c \in S : Cardinality({b \in S : Before(d, b, c)}) < n}

\* Mutants of Take: bulk slots that count this file's requests only, and bulk
\* chunks that may be on their way from another source.
TakeOwnBudget(dl, f, p, playing) ==
    LET d == dl[f]
        s == d.src[p]
        urgent == Urgent(d, playing)
        rank == Cardinality({q \in Sources(d) : q < p})
        bulk == IF rank >= MaxSources THEN {}
                ELSE ((Needed(d) \cap s.has) \ urgent) \ Flying(d)
    IN  IF s.wait > 0 THEN {}
        ELSE ((urgent \cap s.has) \ s.inFlight)
                \cup Foremost(d, bulk, Max({PipelineDepth - Cardinality(s.inFlight), 0}))

TakeAssigned(dl, f, p, playing) ==
    LET d == dl[f]
        s == d.src[p]
        urgent == Urgent(d, playing)
        rank == Cardinality({q \in Sources(d) : q < p})
        bulk == IF rank >= MaxSources THEN {}
                ELSE ((Needed(d) \cap s.has) \ urgent) \ s.inFlight
    IN  IF s.wait > 0 THEN {}
        ELSE ((urgent \cap s.has) \ s.inFlight)
                \cup Foremost(d, bulk, Max({PipelineDepth - Load(dl, p), 0}))

\* The chunks plan_requests takes from source p: every urgent one it has,
\* and bulk ones nobody else is fetching as far as the shared budget goes.
Take(dl, f, p, playing) ==
    LET d == dl[f]
        s == d.src[p]
        urgent == Urgent(d, playing)
        rank == Cardinality({q \in Sources(d) : q < p})
        bulk == IF rank >= MaxSources THEN {}
                ELSE ((Needed(d) \cap s.has) \ urgent) \ Flying(d)
    IN  IF s.wait > 0 THEN {}
        ELSE ((urgent \cap s.has) \ s.inFlight)
                \cup Foremost(d, bulk, Max({PipelineDepth - Load(dl, p), 0}))

\* One source of plan_requests' loop.
PlanSource(r, f, p, playing) ==
    LET take == Take(r.dl, f, p, playing)
    IN  [r EXCEPT !.dl[f].src[p].inFlight = @ \cup take,
                  !.dl[f].since = [c \in DOMAIN @ \cup take |->
                                     IF c \in DOMAIN @ THEN @[c] ELSE 0],
                  !.request[<<p, f>>] = @ \cup take]

\* The members of S, sorted.
InOrder(S, Ahead(_, _)) ==
    [i \in 1 .. Cardinality(S) |->
        CHOOSE x \in S : Cardinality({y \in S : Ahead(y, x)}) = i - 1]

\* One file of plan_all's loop
PlanFile(r, f, playing, sweep) ==
    LET d == r.dl[f]
        budget == \E p \in Sources(d) : Load(r.dl, p) < PipelineDepth
        possible == (playing = f /\ DOMAIN d.since # {}) \/ Endgame(d)
    IN  IF \/ f \notin DOMAIN r.dl
           \/ Sources(d) = {} \/ ~d.hashes \/ ~(budget \/ (sweep /\ possible))
        THEN r
        ELSE FoldLeft(LAMBDA acc, p : PlanSource(acc, f, p, playing = f),
                      r, InOrder(Sources(d), <))

\* priority_ordered_files.  view is what set_priority was last told,
\* [order, playing]: unranked files come last, and equals go by hash.
Ordered(dl, view) ==
    LET Rank(f) == IF f \in Range(view.order)
                   THEN Max({i \in DOMAIN view.order : view.order[i] = f})
                   ELSE Len(view.order) + 1
        Ahead(f, g) == Rank(f) < Rank(g) \/ (Rank(f) = Rank(g) /\ f < g)
    IN  InOrder(DOMAIN dl, Ahead)

\* plan_all
PlanAll(r, view, sweep) ==
    FoldLeft(LAMBDA acc, f : PlanFile(acc, f, view.playing, sweep),
             r, Ordered(r.dl, view))

-----------------------------------------------------------------------------
(* The calls *)

Result(dl) ==
    [dl |-> dl, cancel |-> [k \in Key |-> {}], request |-> [k \in Key |-> {}],
     ask |-> {}, done |-> {}]

\* progress_and_solicit
ProgressAndSolicit(r, f) ==
    LET d == r.dl[f]
        mute == {p \in Sources(d) : ~d.src[p].solicited /\ d.src[p].has = {}}
        asked == [p \in Sources(d) |-> [d.src[p] EXCEPT !.solicited = @ \/ p \in mute]]
    IN  IF f \notin DOMAIN r.dl THEN r
        ELSE IF d.verified = Blocks
        THEN [r EXCEPT !.dl = Without(@, {f}), !.done = @ \cup {f}]
        ELSE [r EXCEPT !.ask = @ \cup (mute \X {f}),
                       !.dl[f] = IF d.hashes
                                 THEN [d EXCEPT !.src = asked,
                                                !.bps = Cardinality(d.verified),
                                                !.playable = Playable(d)]
                                 ELSE [d EXCEPT !.src = asked]]

\* progress_and_refill
ProgressAndRefill(r, f, view) ==
    PlanAll(ProgressAndSolicit(r, f), view, FALSE)

\* set_sources, and start before it when f is not active
SetSources(r, f, fresh, offered, play, view) ==
    LET d == IF f \in DOMAIN r.dl THEN r.dl[f] ELSE fresh
        denied == d.denied \cap offered
        src == [p \in (Sources(d) \cap offered) \cup (offered \ denied) |->
                  IF p \in Sources(d) THEN d.src[p] ELSE NewSource]
        e == [d EXCEPT !.play = play, !.denied = denied, !.src = src]
    IN  ProgressAndRefill(
            [r EXCEPT !.dl = [g \in DOMAIN @ \cup {f} |-> IF g = f THEN e ELSE @[g]]],
            f, view)

\* FileAvailability
OnAvailability(r, f, p, has, view) ==
    IF f \notin DOMAIN r.dl THEN r
    ELSE ProgressAndRefill(
            IF p \in Sources(r.dl[f]) THEN [r EXCEPT !.dl[f].src[p].has = has] ELSE r,
            f, view)

\* CannotServe
OnCannotServe(r, f, p, view) ==
    IF f \notin DOMAIN r.dl THEN r
    ELSE ProgressAndRefill(
            [r EXCEPT !.dl[f].src = Without(@, {p}), !.dl[f].denied = @ \cup {p}],
            f, view)

\* on_block_hashes; match is block_hashes_match
OnBlockHashes(r, f, p, match, view) ==
    LET d == r.dl[f]
        heard == IF p \in Sources(d) THEN [d EXCEPT !.src[p].replied = TRUE] ELSE d
    IN  IF f \notin DOMAIN r.dl \/ d.hashes THEN r
        ELSE IF ~match
        THEN ProgressAndRefill([r EXCEPT !.dl[f].src = Without(@, {p})], f, view)
        ELSE ProgressAndRefill(
                [r EXCEPT !.dl[f] = Verify([heard EXCEPT !.hashes = TRUE])], f, view)

\* A mutant: what arrived stays in flight with the others it was asked of.
CancelElsewhereNever(r, f, p, c) == r

\* cancel_elsewhere
CancelElsewhere(r, f, p, c) ==
    LET src == r.dl[f].src
        others == {q \in DOMAIN src \ {p} : c \in src[q].inFlight}
    IN  [r EXCEPT !.dl[f].src = [q \in DOMAIN src |->
                      IF q \in others THEN [src[q] EXCEPT !.inFlight = @ \ {c}] ELSE src[q]],
                  !.cancel = [k \in Key |->
                      IF k[2] = f /\ k[1] \in others THEN @[k] \cup {c} ELSE @[k]]]

\* on_chunk_data
OnChunkData(r, f, p, c, good, view) ==
    LET d == r.dl[f]
        e == IF p \in Sources(d)
             THEN [d EXCEPT !.src[p].silent = 0, !.src[p].dead = 0,
                            !.src[p].inFlight = @ \ {c}]
             ELSE d
        heard == [r EXCEPT !.dl[f] = e]
        wrote == CancelElsewhere([heard EXCEPT !.dl[f] = WriteChunk(e, c, good)], f, p, c)
    IN  IF f \notin DOMAIN r.dl THEN r
        ELSE IF c \in d.written THEN CancelElsewhere(heard, f, p, c)
        ELSE ProgressAndRefill([wrote EXCEPT !.dl[f] = Verify(@)], f, view)

\* requeue_source, and what it makes of the source
Requeued(s) ==
    LET losses == Min({s.dead + 1, MaxDead})
    IN  [s EXCEPT !.inFlight = {}, !.solicited = FALSE, !.silent = 0,
                  !.dead = losses, !.wait = Backoff(losses)]

RequeueSource(r, f, p) ==
    IF f \notin DOMAIN r.dl \/ p \notin Sources(r.dl[f]) THEN r
    ELSE [r EXCEPT !.dl[f].src[p] = Requeued(@)]

\* on_source_stream_lost
OnSourceStreamLost(r, f, p, view) ==
    ProgressAndRefill(RequeueSource(r, f, p), f, view)

\* Mutants: a source is only asked again while the hashes are missing; the
\* attempts are never reset.
StalledPending(d, s) ==
    /\ ~d.hashes
    /\ s.solicited /\ s.inFlight = {}
    /\ s.has = {} \/ ~s.replied
    /\ s.silent >= SnubTimeout

ResolicitedUncapped(s) == [s EXCEPT !.silent = 0, !.attempts = @ + 1]

\* A solicited source of d that has not fully answered, and is to be asked
\* again: past MaxSolicitAttempts only after the cooldown.
Stalled(d, s) ==
    /\ s.solicited /\ s.inFlight = {}
    /\ s.has = {} \/ (~d.hashes /\ ~s.replied)
    /\ s.silent >= IF s.attempts >= MaxSolicitAttempts
                   THEN SnubTimeout * Cooldown ELSE SnubTimeout

Resolicited(s) ==
    [s EXCEPT !.silent = 0,
              !.attempts = IF @ >= MaxSolicitAttempts THEN 1 ELSE @ + 1]

\* snub
Snub(r, f) ==
    LET d == r.dl[f]
        snubbed == {p \in Sources(d) :
                      d.src[p].inFlight # {} /\ d.src[p].silent >= SnubTimeout}
        again == {p \in Sources(d) \ snubbed : Stalled(d, d.src[p])}
    IN  IF f \notin DOMAIN r.dl THEN r
        ELSE [r EXCEPT !.dl[f].src = [p \in Sources(d) \ snubbed |->
                          IF p \in again THEN Resolicited(d.src[p]) ELSE d.src[p]],
                       !.cancel = [k \in Key |->
                          IF k[2] = f /\ k[1] \in snubbed
                          THEN d.src[k[1]].inFlight ELSE @[k]],
                       !.ask = @ \cup (again \X {f})]

\* tick; elapsed says that a clock unit has passed since the last one
TickAll(r, view, elapsed) ==
    LET aged == IF elapsed THEN [r EXCEPT !.dl = [f \in DOMAIN @ |-> Elapse(@[f])]]
                ELSE r
        swept == FoldLeft(LAMBDA acc, f : ProgressAndSolicit(Snub(acc, f), f),
                          aged, Ordered(r.dl, view))
    IN  PlanAll(swept, view, TRUE)
=============================================================================
