------------------------------- MODULE LwwMap -------------------------------
(***************************************************************************)
(* The replicated data of DessPlay, as pure operators: the last-writer-    *)
(* wins register (dessplay-core/src/lww.rs), the vector clocks and the     *)
(* keyed map of the vendored crdts crate (vendor/crdts/src), and the       *)
(* CrdtState built from them (dessplay-core/src/state.rs) with the three   *)
(* ways an op is applied, the state merge, the resolved view and the       *)
(* compaction rebuild.                                                     *)
(*                                                                         *)
(* CrdtState holds twelve maps, four registers, two grow-only sets and a   *)
(* list.  They never interact, so the model keeps one of each kind whose   *)
(* delivery discipline differs: a map that clients and the server both     *)
(* write (watched), the one whose ops may travel as datagrams only         *)
(* (playback_position) and a register both write (playback_intent).  The   *)
(* sets and the list are order-free like the register.                     *)
(*                                                                         *)
(* The two maps have no key in common, and each counts its dots apart: an  *)
(* ActorId is one member of Actors in watched and another one in           *)
(* playback_position.  Map::apply and Map::merge treat every key and every *)
(* actor by itself, so one clock and one set of entries hold both maps.    *)
(***************************************************************************)
EXTENDS Integers, FiniteSets

CONSTANTS Actors,      \* who counts dots: per map, every client session and the server
          Server,      \* ActorId::SERVER, in watched
          ServerPos,   \* ActorId::SERVER, in playback_position
          Flags,       \* the files, keys of watched, in the BTreeMap's order
          Positions    \* the users, keys of playback_position, in the BTreeMap's order

Keys == Flags \cup Positions

ASSUME ActorsAssumption == Server \in Actors /\ ServerPos \in Actors /\ Server # ServerPos
ASSUME KeysAssumption == Keys \subseteq Nat \ {0} /\ IsFiniteSet(Keys)
ASSUME MapsApart == Flags \cap Positions = {}

-----------------------------------------------------------------------------
(* Lww<V> and LwwCell<V>.  A cell never written (None) is NoLww: stamps    *)
(* start at 1, so it is below every write.  Values are naturals, compared  *)
(* the way the derived Ord compares them.                                  *)

Lww == [ts : Nat, val : Nat]

NoLww == [ts |-> 0, val |-> 0]

Before(a, b) == a.ts < b.ts \/ (a.ts = b.ts /\ a.val < b.val)

LwwApply(current, op) == IF Before(current, op) THEN op ELSE current

-----------------------------------------------------------------------------
(* VClock: an absent actor counts 0. *)

VClock == [Actors -> Nat]

ZeroClock == [a \in Actors |-> 0]

Covers(c, d) == \A a \in Actors : c[a] >= d[a]

ClockMerge(c, d) == [a \in Actors |-> IF c[a] < d[a] THEN d[a] ELSE c[a]]

\* reset_remove / clone_without: forget the actors that base has caught up with
Without(c, base) == [a \in Actors |-> IF base[a] >= c[a] THEN 0 ELSE c[a]]

Intersection(c, d) == [a \in Actors |-> IF c[a] = d[a] THEN c[a] ELSE 0]

-----------------------------------------------------------------------------
(* Map<K, LwwCell<V>>: a clock, and per key an entry with the dots that    *)
(* edited it.  An entry with an empty clock is one the BTreeMap does not   *)
(* hold.  The code never sends Op::Rm, so nothing is ever deferred.        *)

Entry == [clock : VClock, cell : Lww]

NoEntry == [clock |-> ZeroClock, cell |-> NoLww]

Held(e) == e.clock # ZeroClock

\* The key of a register op, which has no key and no dot (its counter is 0)
Reg == 0

Op == [actor : Actors, counter : Nat, key : Keys \cup {Reg}, lww : Lww]

CrdtState == [clock : VClock, entries : [Keys -> Entry], reg : Lww]

EmptyState == [clock |-> ZeroClock, entries |-> [k \in Keys |-> NoEntry], reg |-> NoLww]

MapApply(s, op) ==
    LET e == s.entries[op.key] IN
    [clock   |-> [s.clock EXCEPT ![op.actor] = op.counter],
     entries |-> [s.entries EXCEPT ![op.key] =
                    [clock |-> [e.clock EXCEPT ![op.actor] = op.counter],
                     cell  |-> LwwApply(e.cell, op.lww)]],
     reg     |-> s.reg]

\* The op's dot lies beyond what this origin has applied.
Advances(s, op) == s.clock[op.actor] < op.counter

\* The op's dot is exactly the origin's next.
NextInSequence(s, op) == s.clock[op.actor] + 1 = op.counter

RegApply(s, op) ==
    [clock |-> s.clock, entries |-> s.entries, reg |-> LwwApply(s.reg, op.lww)]

\* CrdtState::apply
Apply(s, op) ==
    IF op.key = Reg THEN RegApply(s, op)
    ELSE IF Advances(s, op) THEN MapApply(s, op) ELSE s

\* Faulty ApplyIfOrderly: any dot beyond the last one passes for the next.
ApplyAheadOfGap(s, op) ==
    IF op.key = Reg THEN RegApply(s, op)
    ELSE IF Advances(s, op) THEN MapApply(s, op) ELSE s

\* CrdtState::apply_if_orderly: a map op off a datagram must not mask a gap
ApplyIfOrderly(s, op) ==
    IF op.key = Reg THEN RegApply(s, op)
    ELSE IF NextInSequence(s, op) THEN MapApply(s, op) ELSE s

\* CrdtState::apply_for_broadcast: the new state, and whether this copy fans out
ApplyForBroadcast(s, op, viaDatagram) ==
    IF viaDatagram THEN ApplyIfOrderly(s, op) ELSE Apply(s, op)

\* Faulty Refanout: the reliable copy of a map op always fans out.
RefanoutReliable(s, op, viaDatagram) ==
    IF op.key = Reg THEN Before(s.reg, op.lww)
    ELSE IF viaDatagram THEN NextInSequence(s, op) ELSE TRUE

Refanout(s, op, viaDatagram) ==
    IF op.key = Reg THEN Before(s.reg, op.lww)
    ELSE IF viaDatagram THEN NextInSequence(s, op) ELSE Advances(s, op)

-----------------------------------------------------------------------------
(* Map::merge.  An entry only one side holds is dropped when the other     *)
(* side's map clock covers it (that side must have seen and removed it);   *)
(* an entry both hold is dropped when no dot of it is left in common.      *)

OneSided(e, otherClock) ==
    IF Covers(otherClock, e.clock) THEN NoEntry
    ELSE [clock |-> Without(e.clock, otherClock), cell |-> e.cell]

Common(ours, ourClock, theirs, theirClock) ==
    ClockMerge(Intersection(ours.clock, theirs.clock),
               ClockMerge(Without(theirs.clock, ourClock), Without(ours.clock, theirClock)))

TwoSided(ours, ourClock, theirs, theirClock) ==
    LET common == Common(ours, ourClock, theirs, theirClock) IN
    IF common = ZeroClock THEN NoEntry
    ELSE [clock |-> common, cell |-> LwwApply(ours.cell, theirs.cell)]

MergeEntry(ours, ourClock, theirs, theirClock) ==
    CASE Held(ours) /\ Held(theirs)  -> TwoSided(ours, ourClock, theirs, theirClock)
      [] Held(ours) /\ ~Held(theirs) -> OneSided(ours, theirClock)
      [] ~Held(ours)                 -> OneSided(theirs, ourClock)

\* CrdtState::merge
Merge(s, t) ==
    [clock   |-> ClockMerge(s.clock, t.clock),
     entries |-> [k \in Keys |-> MergeEntry(s.entries[k], s.clock, t.entries[k], t.clock)],
     reg     |-> LwwApply(s.reg, t.reg)]

-----------------------------------------------------------------------------
(* Values and reads. *)

\* The map's values: the watched flag, in bool's order
Unwatched == 1
Watched == 2

\* PlaybackIntent, in its derived order; a register never written reads Paused
Paused == 1
Playing == 2

\* CrdtState::view / view_hash: winners only, no stamps, no clocks and no
\* positions.  The hash is modelled as the view itself (SHA-256 collisions are
\* not).
View(s) ==
    [map |-> [k \in Flags |-> IF Held(s.entries[k]) THEN s.entries[k].cell.val ELSE 0],
     reg |-> IF s.reg = NoLww THEN Paused ELSE s.reg.val]

Views == [map : [Flags -> Nat], reg : Nat]

Stamps(s) == {s.reg.ts} \cup {s.entries[k].cell.ts : k \in Keys}

AllBelow(s, n) == \A t \in Stamps(s) : t <= n

\* CrdtState::max_lww_timestamp, as a relation
IsMaxStamp(m, s) == m \in Stamps(s) /\ AllBelow(s, m)

-----------------------------------------------------------------------------
(* compact::rebuild: the resolved values written again into an empty state *)
(* by the server actor, each with the next stamp above last: the watched   *)
(* flags in key order (those that are false are dropped), the intent, and  *)
(* the positions in key order.                                             *)

KeptFlags(s) == {k \in Flags : Held(s.entries[k]) /\ s.entries[k].cell.val = Watched}

KeptPositions(s) == {k \in Positions : Held(s.entries[k])}

Rank(S, k) == Cardinality({j \in S : j <= k})

\* The stamp of the intent, after those of the flags
IntentStamp(s, last) == last + Cardinality(KeptFlags(s)) + 1

RebuildLast(s, last) == IntentStamp(s, last) + Cardinality(KeptPositions(s))

\* The n-th write of a map into the empty state
Rewritten(actor, n, last, val) ==
    [clock |-> [ZeroClock EXCEPT ![actor] = n], cell |-> [ts |-> last + n, val |-> val]]

RebuiltEntry(s, last, k) ==
    IF k \in KeptFlags(s) THEN Rewritten(Server, Rank(KeptFlags(s), k), last, Watched)
    ELSE IF k \in KeptPositions(s)
      THEN Rewritten(ServerPos, Rank(KeptPositions(s), k), IntentStamp(s, last),
                     s.entries[k].cell.val)
    ELSE NoEntry

Rebuild(s, last) ==
    [clock   |-> [ZeroClock EXCEPT ![Server] = Cardinality(KeptFlags(s)),
                                   ![ServerPos] = Cardinality(KeptPositions(s))],
     entries |-> [k \in Keys |-> RebuiltEntry(s, last, k)],
     reg     |-> [ts |-> IntentStamp(s, last), val |-> View(s).reg]]
=============================================================================
