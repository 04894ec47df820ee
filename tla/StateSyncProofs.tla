-------------------------- MODULE StateSyncProofs -----------------------------
(***************************************************************************)
(* Lemmas about the operators of LwwMap and the steps of StateSync: what the *)
(* replicated state, the queues and the jobs hold, how every step moves each *)
(* of them.  Then: every step keeps every variable in its type (TypeInv),  *)
(* and what is under way between the server and its clients accounted for  *)
(* (HubInv).                                                               *)
(***************************************************************************)
EXTENDS StateSync, TLAPS

\* Time, and a second attempt, for the SMT solver on a slow machine.
USE SMTT(60), Z3T(60)

-----------------------------------------------------------------------------
(* The register is a join: what LwwCell::apply keeps depends neither on    *)
(* the order nor on the number of deliveries.                              *)

(* LwwCell::apply keeps one of the two writes. *)
LEMMA LwwApplyType ==
    ASSUME NEW a \in Lww, NEW b \in Lww
    PROVE  LwwApply(a, b) \in Lww /\ LwwApply(a, b) \in {a, b}
BY Zenon DEF LwwApply

(* LwwCell::apply is commutative. *)
THEOREM LwwApplyCommutes ==
    ASSUME NEW a \in Lww, NEW b \in Lww
    PROVE  LwwApply(a, b) = LwwApply(b, a)
BY DEF LwwApply, Before, Lww

(* LwwCell::apply is associative. *)
THEOREM LwwApplyAssociates ==
    ASSUME NEW a \in Lww, NEW b \in Lww, NEW c \in Lww
    PROVE  LwwApply(LwwApply(a, b), c) = LwwApply(a, LwwApply(b, c))
BY DEF LwwApply, Before, Lww

(* Delivering a write again changes nothing. *)
THEOREM LwwApplyIdempotent ==
    ASSUME NEW a \in Lww, NEW b \in Lww
    PROVE  LwwApply(LwwApply(a, b), b) = LwwApply(a, b)
BY Zenon DEF LwwApply, Before, Lww

-----------------------------------------------------------------------------
(* Types. *)

(* An empty state is a CrdtState. *)
LEMMA EmptyStateType == EmptyState \in CrdtState
BY Zenon DEF EmptyState, CrdtState, NoEntry, Entry, NoLww, Lww, ZeroClock, VClock

(* Map::apply yields a CrdtState. *)
LEMMA MapApplyType ==
    ASSUME NEW s \in CrdtState, NEW op \in Op, op.key # Reg
    PROVE  MapApply(s, op) \in CrdtState
<1>1. op.key \in Keys /\ op.actor \in Actors /\ op.counter \in Nat /\ op.lww \in Lww
  BY Zenon DEF Op
<1>2. s.clock \in VClock /\ s.entries \in [Keys -> Entry] /\ s.reg \in Lww
  BY Zenon DEF CrdtState
<1>3. [s.clock EXCEPT ![op.actor] = op.counter] \in VClock
  BY <1>1, <1>2, Zenon DEF VClock
<1> DEFINE e == s.entries[op.key]
<1>4. e \in Entry /\ e.clock \in VClock /\ e.cell \in Lww
  BY <1>1, <1>2, Zenon DEF Entry
<1> DEFINE f == [clock |-> [e.clock EXCEPT ![op.actor] = op.counter],
                 cell  |-> LwwApply(e.cell, op.lww)]
<1>5. f \in Entry
  BY <1>1, <1>4, LwwApplyType, Zenon DEF Entry, VClock
<1>6. [s.entries EXCEPT ![op.key] = f] \in [Keys -> Entry]
  BY <1>2, <1>5, ZenonT(60)
<1> QED
  BY <1>2, <1>3, <1>6, Zenon DEF MapApply, CrdtState

(* LwwCell::apply on the register yields a CrdtState. *)
LEMMA RegApplyType ==
    ASSUME NEW s \in CrdtState, NEW op \in Op
    PROVE  RegApply(s, op) \in CrdtState
<1>1. s.reg \in Lww /\ op.lww \in Lww
  BY Zenon DEF CrdtState, Op
<1>2. LwwApply(s.reg, op.lww) \in Lww
  BY <1>1, LwwApplyType, Zenon
<1> QED
  BY <1>2, Zenon DEF RegApply, CrdtState

(* Every way of applying an op yields a CrdtState. *)
LEMMA ApplyType ==
    ASSUME NEW s \in CrdtState, NEW op \in Op
    PROVE  /\ Apply(s, op) \in CrdtState
           /\ ApplyIfOrderly(s, op) \in CrdtState
           /\ \A b \in BOOLEAN : ApplyForBroadcast(s, op, b) \in CrdtState
BY MapApplyType, RegApplyType, Zenon DEF Apply, ApplyIfOrderly, ApplyForBroadcast

(* The vector-clock operations yield vector clocks. *)
LEMMA ClockTypes ==
    ASSUME NEW c \in VClock, NEW d \in VClock
    PROVE  /\ ClockMerge(c, d) \in VClock
           /\ Without(c, d) \in VClock
           /\ Intersection(c, d) \in VClock
           /\ ZeroClock \in VClock
BY Zenon DEF ClockMerge, Without, Intersection, ZeroClock, VClock

(* Merging one key yields an entry. *)
LEMMA MergeEntryType ==
    ASSUME NEW e \in Entry, NEW f \in Entry, NEW c \in VClock, NEW d \in VClock
    PROVE  MergeEntry(e, c, f, d) \in Entry
<1>1. /\ e.clock \in VClock /\ e.cell \in Lww
      /\ f.clock \in VClock /\ f.cell \in Lww
  BY Zenon DEF Entry
<1>2. NoEntry \in Entry
  BY ClockTypes, Zenon DEF NoEntry, Entry, NoLww, Lww
<1>3. OneSided(e, d) \in Entry /\ OneSided(f, c) \in Entry
  BY <1>1, <1>2, ClockTypes, Zenon DEF OneSided, Entry
<1>4. Common(e, c, f, d) \in VClock
  BY <1>1, ClockTypes, Zenon DEF Common
<1>5. TwoSided(e, c, f, d) \in Entry
  BY <1>1, <1>2, <1>4, LwwApplyType, Zenon DEF TwoSided, Entry
<1> QED
  BY <1>3, <1>5, Zenon DEF MergeEntry

(* CrdtState::merge yields a CrdtState. *)
LEMMA MergeType ==
    ASSUME NEW s \in CrdtState, NEW t \in CrdtState
    PROVE  Merge(s, t) \in CrdtState
<1>1. /\ s.clock \in VClock /\ s.entries \in [Keys -> Entry] /\ s.reg \in Lww
      /\ t.clock \in VClock /\ t.entries \in [Keys -> Entry] /\ t.reg \in Lww
  BY Zenon DEF CrdtState
<1>2. ClockMerge(s.clock, t.clock) \in VClock /\ LwwApply(s.reg, t.reg) \in Lww
  BY <1>1, ClockTypes, LwwApplyType, Zenon
<1>3. [k \in Keys |-> MergeEntry(s.entries[k], s.clock, t.entries[k], t.clock)]
        \in [Keys -> Entry]
  BY <1>1, MergeEntryType, Zenon
<1> QED
  BY <1>2, <1>3, Zenon DEF Merge, CrdtState

(* A view has the type of a view. *)
LEMMA ViewType ==
    ASSUME NEW s \in CrdtState
    PROVE  View(s) \in Views
BY Zenon DEF View, Views, CrdtState, Entry, Lww, Paused, Keys

\* compact::rebuild: how many entries are kept, and each one's place, are counts.
PlacesCounted(S) ==
    /\ Cardinality(S) \in Nat
    /\ \A k : Rank(S, k) \in Nat /\ Rank(S, k) <= Cardinality(S)

Ranked == \A s : PlacesCounted(KeptFlags(s)) /\ PlacesCounted(KeptPositions(s))

(* compact::rebuild takes the stamps of the flags, of the intent and of the  *)
(* positions in turn.                                                        *)
LEMMA RebuildStamps ==
    ASSUME Ranked, NEW s, NEW last \in Nat
    PROVE  /\ IntentStamp(s, last) \in Nat /\ RebuildLast(s, last) \in Nat
           /\ last < IntentStamp(s, last) /\ IntentStamp(s, last) <= RebuildLast(s, last)
           /\ \A k : /\ last + Rank(KeptFlags(s), k) \in Nat
                     /\ last + Rank(KeptFlags(s), k) < IntentStamp(s, last)
           /\ \A k : /\ IntentStamp(s, last) + Rank(KeptPositions(s), k) \in Nat
                     /\ IntentStamp(s, last) + Rank(KeptPositions(s), k) <= RebuildLast(s, last)
<1> DEFINE f == Cardinality(KeptFlags(s))
           p == Cardinality(KeptPositions(s))
<1>1. f \in Nat /\ p \in Nat
  BY Zenon DEF Ranked, PlacesCounted
<1>2. /\ \A k : Rank(KeptFlags(s), k) \in Nat /\ Rank(KeptFlags(s), k) <= f
      /\ \A k : Rank(KeptPositions(s), k) \in Nat /\ Rank(KeptPositions(s), k) <= p
  BY Zenon DEF Ranked, PlacesCounted
<1>3. IntentStamp(s, last) = last + f + 1 /\ RebuildLast(s, last) = IntentStamp(s, last) + p
  BY Zenon DEF IntentStamp, RebuildLast
<1> HIDE DEF f, p
<1>4. IntentStamp(s, last) \in Nat /\ last < IntentStamp(s, last)
  BY <1>1, <1>3
<1>5. ASSUME NEW k
      PROVE  /\ last + Rank(KeptFlags(s), k) \in Nat
             /\ last + Rank(KeptFlags(s), k) < IntentStamp(s, last)
             /\ IntentStamp(s, last) + Rank(KeptPositions(s), k) \in Nat
             /\ IntentStamp(s, last) + Rank(KeptPositions(s), k) <= RebuildLast(s, last)
  <2>1. /\ Rank(KeptFlags(s), k) \in Nat /\ Rank(KeptFlags(s), k) <= f
        /\ Rank(KeptPositions(s), k) \in Nat /\ Rank(KeptPositions(s), k) <= p
    BY <1>2, Zenon
  <2> QED
    BY <1>1, <1>3, <1>4, <2>1
<1> QED
  BY <1>1, <1>3, <1>4, <1>5

(* A write into the rebuilt state is an entry. *)
LEMMA RewrittenType ==
    ASSUME NEW actor \in Actors, NEW n \in Nat, NEW last, last + n \in Nat, NEW val \in Nat
    PROVE  Rewritten(actor, n, last, val) \in Entry
<1>1. [ZeroClock EXCEPT ![actor] = n] \in VClock
  BY ZenonT(60) DEF ZeroClock, VClock
<1> QED
  BY <1>1, Zenon DEF Rewritten, Entry, Lww

(* compact::rebuild yields a CrdtState. *)
LEMMA RebuildType ==
    ASSUME Ranked, NEW s \in CrdtState, NEW last \in Nat
    PROVE  /\ Rebuild(s, last) \in CrdtState
           /\ RebuildLast(s, last) \in Nat
           /\ RebuildLast(s, last) >= last
<1>1. RebuildLast(s, last) \in Nat /\ RebuildLast(s, last) >= last /\ IntentStamp(s, last) \in Nat
  BY RebuildStamps
<1>2. Rebuild(s, last).clock \in VClock
  <2>1. Cardinality(KeptFlags(s)) \in Nat /\ Cardinality(KeptPositions(s)) \in Nat
    BY Zenon DEF Ranked, PlacesCounted
  <2> QED
    BY <2>1, ZenonT(60) DEF Rebuild, ZeroClock, VClock
<1>3. [ts |-> IntentStamp(s, last), val |-> View(s).reg] \in Lww
  BY <1>1, ViewType, Zenon DEF Views, Lww
<1>4. NoEntry \in Entry
  BY Zenon DEF NoEntry, Entry, NoLww, Lww, ZeroClock, VClock
<1>5. ASSUME NEW k \in Keys
      PROVE  RebuiltEntry(s, last, k) \in Entry
  <2>1. Rank(KeptFlags(s), k) \in Nat /\ Rank(KeptPositions(s), k) \in Nat
    BY Zenon DEF Ranked, PlacesCounted
  <2>s. /\ last + Rank(KeptFlags(s), k) \in Nat
        /\ IntentStamp(s, last) + Rank(KeptPositions(s), k) \in Nat
    BY RebuildStamps, Zenon
  <2>w. Watched \in Nat
    BY DEF Watched
  <2>2. Rewritten(Server, Rank(KeptFlags(s), k), last, Watched) \in Entry
    BY <2>1, <2>s, <2>w, RewrittenType, ActorsAssumption, Zenon
  <2>3. s.entries[k].cell.val \in Nat
    BY Zenon DEF CrdtState, Entry, Lww
  <2>4. Rewritten(ServerPos, Rank(KeptPositions(s), k), IntentStamp(s, last),
                  s.entries[k].cell.val) \in Entry
    BY <2>1, <2>s, <2>3, RewrittenType, ActorsAssumption, Zenon
  <2> QED
    BY <1>4, <2>2, <2>4, Zenon DEF RebuiltEntry
<1>6. Rebuild(s, last).entries \in [Keys -> Entry]
  BY <1>5, Zenon DEF Rebuild
<1> QED
  BY <1>1, <1>2, <1>3, <1>6, Zenon DEF Rebuild, CrdtState

-----------------------------------------------------------------------------
(* Stamps. *)

(* The stamps of a state are naturals. *)
LEMMA StampsNat ==
    ASSUME NEW s \in CrdtState
    PROVE  Stamps(s) \subseteq Nat
<1>1. s.reg.ts \in Nat /\ \A k \in Keys : s.entries[k].cell.ts \in Nat
  BY DEF CrdtState, Entry, Lww
<1> QED
  BY <1>1, Zenon DEF Stamps

-----------------------------------------------------------------------------
(* Messages, jobs and queues. *)

(* What a message from the server carries, by its type. *)
LEMMA ServerMsgFields ==
    ASSUME NEW m \in ServerMsg
    PROVE  /\ m.type = "StateOp" => m.epoch \in Nat /\ m.op \in Op
           /\ m.type \in {"StateMerge", "StateSnapshot"} => m.epoch \in Nat /\ m.state \in CrdtState
           /\ m.type = "StateHash" => m.epoch \in Nat /\ m.hash \in Views
BY Zenon DEF ServerMsg

(* What a message from a client carries, by its type. *)
LEMMA ClientMsgFields ==
    ASSUME NEW m \in ClientMsg
    PROVE  /\ m.type = "StateOp" => m.epoch \in Nat /\ m.op \in Op
           /\ m.type = "StateMerge" => m.epoch \in Nat /\ m.state \in CrdtState
           /\ m.type = "SyncStatus" => m.epoch \in Nat /\ m.hash \in Views
           /\ m.type = "MarkWatched" => m.key \in Flags /\ m.key \in Keys /\ m.val \in Nat
BY Zenon DEF ClientMsg, Keys

(* What a job carries, by what it does. *)
LEMMA JobFields ==
    ASSUME NEW w \in Job
    PROVE  /\ w.do = "send" => w.to \in Conns /\ w.msg \in ServerMsg
           /\ w.do \in {"broadcast", "relay"} => w.skip \in Conns \cup {0} /\ w.msg \in ServerMsg
BY ZenonT(60) DEF Job, ServerMsg

LEMMA RelayFields ==
    ASSUME NEW w \in Job, w.do = "relay"
    PROVE  w.msg.type = "StateOp"
BY Zenon DEF Job

LEMMA SnapshotFields ==
    ASSUME NEW w \in Job, w.do = "snapshot"
    PROVE  w.type \in {"StateMerge", "StateSnapshot"}
BY Zenon DEF Job

LEMMA PauseFields ==
    ASSUME NEW w \in Job, w.do = "pause"
    PROVE  w.ts \in Nat
BY Zenon DEF Job

(* A StateOp message may travel either way. *)
LEMMA StateOpType ==
    ASSUME NEW e \in Nat, NEW op \in Op
    PROVE  StateOp(e, op) \in ClientMsg /\ StateOp(e, op) \in ServerMsg
BY Zenon DEF StateOp, ClientMsg, ServerMsg

(* The head and the tail of a non-empty queue. *)
LEMMA QueueParts ==
    ASSUME NEW M, NEW q \in Seq(M), q # <<>>
    PROVE  Head(q) \in M /\ Tail(q) \in Seq(M)
OBVIOUS

(* Short lists of jobs are lists of jobs. *)
LEMMA JobLists ==
    /\ <<>> \in Seq(Job)
    /\ \A w \in Job : <<w>> \in Seq(Job)
    /\ \A v, w \in Job : <<v, w>> \in Seq(Job)
    /\ \A w \in Job, q \in Seq(Job) : <<w>> \o q \in Seq(Job)
OBVIOUS

(* MaxOf is a maximum. *)
LEMMA MaxOfProperties ==
    ASSUME NEW a \in Nat, NEW b \in Nat
    PROVE  MaxOf(a, b) \in Nat /\ MaxOf(a, b) >= a /\ MaxOf(a, b) >= b
BY DEF MaxOf

(* SyncActor::stamp and Shared::stamp go above last_issued. *)
LEMMA StampProperties ==
    ASSUME NEW last \in Nat, NEW now \in Nat
    PROVE  Stamp(last, now) \in Nat /\ Stamp(last, now) > last
BY DEF Stamp, MaxOf

-----------------------------------------------------------------------------
(* Type correctness.  To be inductive the type invariant needs that a      *)
(* client's session number stays within the bound on restarts, so that its *)
(* actor is one of Actors, and that a link that is not down has a          *)
(* connection to send on.                                                  *)

SessionsBounded == \A c \in Clients : cl[c].session + left["session"] <= MaxClientRestarts

LinkedHasConn == \A c \in Clients : cl[c].link # "Down" => cl[c].conn # 0

TypeInv == TypeOK /\ SessionsBounded /\ LinkedHasConn

(* A client's present actors are two of Actors. *)
LEMMA ActorType ==
    ASSUME TypeInv, NEW c \in Clients
    PROVE  /\ ActorOf(c, cl[c].session) \in Actors /\ PosActorOf(c, cl[c].session) \in Actors
           /\ cl[c].session \in 0..MaxClientRestarts
<1>1. cl[c].session \in Nat /\ left["session"] \in Nat
  BY Zenon DEF TypeInv, TypeOK, Client, Budget
<1>2. cl[c].session \in 0..MaxClientRestarts
  BY <1>1, BoundsAssumption DEF TypeInv, SessionsBounded
<1> QED
  BY <1>2, SessionsAssumption, Zenon

(* The parts of a client's record. *)
LEMMA ClientFields ==
    ASSUME TypeOK, NEW c \in Clients
    PROVE  /\ cl[c] \in Client
           /\ cl[c].session \in Nat /\ cl[c].state \in CrdtState /\ cl[c].epoch \in Nat
           /\ cl[c].last \in Nat /\ cl[c].link \in Link /\ cl[c].conn \in Conns \cup {0}
           /\ cl[c].buffer \in Seq(Op) /\ cl[c].position \in Seq(Op) /\ cl[c].ticked \in BOOLEAN
           /\ cl[c].mismatches \in Nat /\ cl[c].heals \in Nat
BY Zenon DEF TypeOK, Client

(* The budgets of the next state allow no more restarts than this one's. *)
LeftOK == left' \in [Budget -> Nat] /\ left'["session"] <= left["session"]

(* The next frame of a client's control stream is a server message. *)
LEMMA ReceivesType ==
    ASSUME TypeOK, NEW c \in Clients, NEW type, Receives(c, type)
    PROVE  /\ Frame(c) \in ServerMsg /\ Frame(c).type = type
           /\ down' \in [Conns -> Seq(ServerMsg)]
           /\ cl[c].conn \in Conns /\ cl[c].link # "Replaying"
<1>1. cl[c].conn \in Conns /\ cl[c].link # "Replaying"
  BY ClientFields, Zenon DEF Receives
<1>2. down[cl[c].conn] \in Seq(ServerMsg) /\ down[cl[c].conn] # <<>>
  BY <1>1, Zenon DEF TypeOK, Receives
<1> QED
  BY <1>1, <1>2, QueueParts, Zenon DEF Receives, Frame, TypeOK

-----------------------------------------------------------------------------
(* Type correctness: the server. *)

(* The next message of a connection is a client message. *)
LEMMA ServesType ==
    ASSUME TypeOK, NEW k \in Conns, NEW type, Serves(k, type)
    PROVE  /\ Head(up[k]) \in ClientMsg /\ Head(up[k]).type = type
           /\ up' \in [Conns -> Seq(ClientMsg)]
<1>1. up[k] \in Seq(ClientMsg) /\ up[k] # <<>>
  BY Zenon DEF TypeOK, Serves
<1> QED
  BY <1>1, QueueParts, Zenon DEF Serves, TypeOK

(* A job that broadcasts a message. *)
LEMMA BroadcastJob ==
    ASSUME NEW m \in ServerMsg, NEW k \in Conns \cup {0}
    PROVE  [do |-> "broadcast", skip |-> k, msg |-> m] \in Job
BY Zenon DEF Job

(* A job that relays an op. *)
LEMMA RelayJob ==
    ASSUME NEW e \in Nat, NEW op \in Op, NEW b \in BOOLEAN, NEW k \in Conns
    PROVE  [do |-> RelayTransport(op, b), skip |-> k, msg |-> StateOp(e, op)] \in Job
<1>1. [do |-> "broadcast", skip |-> k, msg |-> StateOp(e, op)] \in Job
  BY BroadcastJob, StateOpType, Zenon
<1>2. [do |-> "relay", skip |-> k, msg |-> StateOp(e, op)] \in Job
  BY Zenon DEF Job, StateOp
<1> QED
  BY <1>1, <1>2, Zenon DEF RelayTransport

(* A job that sends a message. *)
LEMMA SendJob ==
    ASSUME NEW m \in ServerMsg, NEW k \in Conns
    PROVE  [do |-> "send", to |-> k, msg |-> m] \in Job
BY Zenon DEF Job

(* A message that carries a state. *)
LEMMA StateMsgType ==
    ASSUME NEW type \in {"StateMerge", "StateSnapshot"}, NEW e \in Nat, NEW st \in CrdtState
    PROVE  [type |-> type, epoch |-> e, state |-> st] \in ServerMsg
BY Zenon DEF ServerMsg

(* An op the server issues for a watched flag. *)
LEMMA MarkOpType ==
    ASSUME TypeOK, NEW key \in Keys, NEW v \in Nat, NEW ts \in Nat
    PROVE  [actor |-> Server, counter |-> sState.clock[Server] + 1, key |-> key,
            lww |-> [ts |-> ts, val |-> v]] \in Op
<1>1. Server \in Actors /\ sState.clock \in VClock
  BY ActorsAssumption, Zenon DEF TypeOK, CrdtState
<1>2. sState.clock[Server] + 1 \in Nat
  BY <1>1 DEF VClock
<1> QED
  BY <1>1, <1>2, Zenon DEF Op, Lww

(* The op of a forced pause. *)
LEMMA PauseOpType ==
    ASSUME NEW ts \in Nat
    PROVE  [actor |-> Server, counter |-> 0, key |-> Reg, lww |-> [ts |-> ts, val |-> Paused]] \in Op
BY ActorsAssumption, Zenon DEF Op, Lww, Paused

(* The next job of a task. *)
LEMMA TodoType ==
    ASSUME TypeOK, NEW t \in Tasks, NEW do, Todo(t, do)
    PROVE  Head(job[t]) \in Job /\ Head(job[t]).do = do /\ Tail(job[t]) \in Seq(Job)
<1>1. job[t] \in Seq(Job) /\ job[t] # <<>>
  BY Zenon DEF TypeOK, Todo
<1> QED
  BY <1>1, QueueParts, Zenon DEF Todo

-----------------------------------------------------------------------------
(* Queues, by what is in them. *)

Elems(q) == {q[i] : i \in 1..Len(q)}

(* What a queue holds is of its type; its head is in it. *)
LEMMA ElemsType ==
    ASSUME NEW M, NEW q \in Seq(M)
    PROVE  /\ \A m \in Elems(q) : m \in M
           /\ q # <<>> => Head(q) \in Elems(q)
BY DEF Elems

(* Appending adds one message. *)
LEMMA ElemsAppend ==
    ASSUME NEW M, NEW q \in Seq(M), NEW m \in M
    PROVE  \A x : x \in Elems(Append(q, m)) <=> x \in Elems(q) \/ x = m
<1>1. /\ Append(q, m) \in Seq(M) /\ Len(Append(q, m)) = Len(q) + 1
      /\ \A i \in 1..Len(q) : Append(q, m)[i] = q[i]
      /\ Append(q, m)[Len(q) + 1] = m
      /\ Len(q) \in Nat
  OBVIOUS
<1>2. 1..(Len(q) + 1) = 1..Len(q) \cup {Len(q) + 1}
  BY <1>1
<1> HIDE DEF Elems
<1> QED
  BY <1>1, <1>2, Zenon DEF Elems

(* Taking the head leaves nothing new. *)
LEMMA ElemsTail ==
    ASSUME NEW M, NEW q \in Seq(M), q # <<>>
    PROVE  \A x \in Elems(Tail(q)) : x \in Elems(q)
<1>1. /\ Tail(q) \in Seq(M) /\ Len(Tail(q)) = Len(q) - 1 /\ Len(q) \in Nat
      /\ \A i \in 1..Len(Tail(q)) : Tail(q)[i] = q[i + 1] /\ i + 1 \in 1..Len(q)
  OBVIOUS
<1> QED
  BY <1>1, Zenon DEF Elems

(* Short queues. *)
LEMMA ElemsShort ==
    /\ \A x : x \notin Elems(<<>>)
    /\ \A m, x : x \in Elems(<<m>>) <=> x = m
BY DEF Elems

-----------------------------------------------------------------------------
(* What a client's steps leave alone. *)

\* No client but c changes.
Others(c) == \A d \in Clients : d # c => cl'[d] = cl[d]

\* c stays on its connection, in its session.
Stays(c) == cl'[c].conn = cl[c].conn /\ cl'[c].session = cl[c].session

(* A local write changes the writer's state, floor and buffers. *)
LEMMA MutateFrame ==
    ASSUME TypeInv, NEW c \in Clients, NEW op \in Op, NEW b, Mutate(c, op, b)
    PROVE  /\ Others(c) /\ Stays(c)
           /\ cl'[c].link = cl[c].link /\ cl'[c].epoch = cl[c].epoch
           /\ cl'[c].state = Apply(cl[c].state, op)
           /\ cl'[c].buffer = IF cl[c].link = "Synced" \/ op.key \in Positions THEN cl[c].buffer
                             ELSE Append(cl[c].buffer, op)
           /\ cl'[c].position = IF cl[c].link = "Synced" \/ op.key \notin Positions THEN cl[c].position
                               ELSE <<op>>
<1>1. cl \in [Clients -> Client] /\ cl[c] \in Client
  BY Zenon DEF TypeInv, TypeOK
<1> QED
  BY <1>1, Zenon DEF Mutate, Others, Stays, Client

(* An op from the network changes the state, at the op's epoch, and nothing  *)
(* else but the floor.                                                       *)
LEMMA RemoteFields ==
    ASSUME NEW r \in Client, NEW e, NEW st, NEW op
    PROVE  /\ Remote(r, e, st, op).conn = r.conn /\ Remote(r, e, st, op).session = r.session
           /\ Remote(r, e, st, op).link = r.link /\ Remote(r, e, st, op).buffer = r.buffer
           /\ Remote(r, e, st, op).position = r.position
           /\ Remote(r, e, st, op).epoch = r.epoch
           /\ Remote(r, e, st, op).state = IF e = r.epoch THEN st ELSE r.state
BY Zenon DEF Remote, Client

(* Replacing one client's record. *)
LEMMA ReplaceFrame ==
    ASSUME TypeInv, NEW c \in Clients, NEW r, cl' = [cl EXCEPT ![c] = r]
    PROVE  Others(c) /\ cl'[c] = r
BY Zenon DEF TypeInv, TypeOK, Others

(* An op received leaves all but state and floor. *)
LEMMA RecvOpFrame ==
    ASSUME TypeInv, NEW c \in Clients, NEW e, NEW st, NEW op,
           cl' = [cl EXCEPT ![c] = Remote(cl[c], e, st, op)]
    PROVE  /\ Others(c) /\ Stays(c) /\ cl'[c].buffer = cl[c].buffer /\ cl'[c].position = cl[c].position
           /\ cl'[c].link = cl[c].link /\ cl'[c].epoch = cl[c].epoch
           /\ cl'[c].state = IF e = cl[c].epoch THEN st ELSE cl[c].state
<1>1. cl[c] \in Client
  BY Zenon DEF TypeInv, TypeOK
<1>2. Others(c) /\ cl'[c] = Remote(cl[c], e, st, op)
  BY ReplaceFrame, Zenon
<1> QED
  BY <1>1, <1>2, RemoteFields DEF Stays

(* Taking over a state leaves the session, the connection and the buffers. *)
LEMMA HoldFrame ==
    ASSUME TypeInv, NEW c \in Clients, NEW e, NEW st, Hold(c, e, st)
    PROVE  /\ Others(c) /\ Stays(c) /\ cl'[c].buffer = cl[c].buffer /\ cl'[c].position = cl[c].position
           /\ cl'[c].link = Landed(cl[c].link) /\ cl'[c].epoch = e /\ cl'[c].state = st
<1>1. cl \in [Clients -> Client] /\ cl[c] \in Client
  BY Zenon DEF TypeInv, TypeOK
<1>2. PICK floor : cl' = [cl EXCEPT ![c].state = st, ![c].epoch = e, ![c].last = MaxOf(@, floor),
                                    ![c].mismatches = 0, ![c].link = Landed(@)]
  BY ZenonT(60) DEF Hold
<1> HIDE DEF Landed, MaxOf
<1> QED
  BY <1>1, <1>2, Zenon DEF Others, Stays, Client

(* SyncActor handling a frame or a datagram stays where it is. *)
LEMMA RecvFrame ==
    ASSUME TypeInv, NEW c \in Clients, ClientReceives(c) \/ RecvDatagram(c)
    PROVE  /\ Others(c) /\ Stays(c) /\ cl'[c].buffer = cl[c].buffer /\ cl'[c].position = cl[c].position
           /\ ~Connected(c) => cl'[c].link \in {cl[c].link, Landed(cl[c].link)}
<1>1. cl \in [Clients -> Client] /\ cl[c] \in Client
  BY Zenon DEF TypeInv, TypeOK
<1>2. CASE Connected(c)
  BY <1>1, <1>2, Zenon DEF Connected, Others, Stays, Client
<1>3. CASE RecvStateOp(c)
  BY <1>3, RecvOpFrame, ZenonT(60) DEF RecvStateOp
<1>4. CASE RecvDatagram(c)
  <2>1. PICK d \in dgrams :
          cl' = [cl EXCEPT ![c] = Remote(cl[c], d.epoch, ApplyIfOrderly(cl[c].state, d.op), d.op)]
    BY <1>4, ZenonT(60) DEF RecvDatagram
  <2> QED
    BY <2>1, RecvOpFrame, ZenonT(60)
<1>u. ASSUME UNCHANGED cl
      PROVE  /\ Others(c) /\ Stays(c) /\ cl'[c].buffer = cl[c].buffer
             /\ cl'[c].position = cl[c].position /\ cl'[c].link = cl[c].link
  BY <1>u, Zenon DEF Others, Stays
<1>5. CASE RecvStateMerge(c)
  BY <1>5, <1>u, HoldFrame, ZenonT(60) DEF RecvStateMerge
<1>6. CASE RecvStateSnapshot(c)
  BY <1>6, <1>u, HoldFrame, ZenonT(60) DEF RecvStateSnapshot
<1>7. CASE RecvStateHash(c)
  BY <1>1, <1>7, Zenon DEF RecvStateHash, Others, Stays, Client
<1> QED
  BY <1>2, <1>3, <1>4, <1>5, <1>6, <1>7, Zenon DEF ClientReceives

(* Replaying the offline buffer, and the push after it, stay where they are. *)
LEMMA ReplayFrame ==
    ASSUME TypeInv, NEW c \in Clients, Replay(c) \/ ReplayPosition(c) \/ PushMerge(c)
    PROVE  /\ Others(c) /\ Stays(c) /\ cl'[c].epoch = cl[c].epoch
           /\ Replay(c) => /\ cl'[c].link = cl[c].link /\ cl'[c].buffer = Tail(cl[c].buffer)
                           /\ cl'[c].state = Apply(cl[c].state, Head(cl[c].buffer))
                           /\ cl'[c].position = cl[c].position
           /\ ReplayPosition(c) => /\ cl'[c].link = cl[c].link /\ cl'[c].buffer = cl[c].buffer
                                   /\ cl'[c].position = Tail(cl[c].position)
                                   /\ cl'[c].state = Apply(cl[c].state, Head(cl[c].position))
           /\ PushMerge(c) => /\ cl'[c].link = "Synced" /\ cl'[c].buffer = cl[c].buffer
                              /\ cl'[c].position = cl[c].position /\ cl'[c].state = cl[c].state
<1>1. cl \in [Clients -> Client] /\ cl[c] \in Client
  BY Zenon DEF TypeInv, TypeOK
<1>2. CASE Replay(c)
  <2>1. ~ReplayPosition(c) /\ ~PushMerge(c)
    BY <1>2, Zenon DEF Replay, ReplayPosition, PushMerge
  <2> QED
    BY <1>1, <1>2, <2>1, ZenonT(60) DEF Replay, Others, Stays, Client
<1>3. CASE ReplayPosition(c)
  <2>1. ~Replay(c) /\ ~PushMerge(c)
    BY <1>3, Zenon DEF Replay, ReplayPosition, PushMerge
  <2> QED
    BY <1>1, <1>3, <2>1, ZenonT(60) DEF ReplayPosition, Others, Stays, Client
<1>4. CASE PushMerge(c)
  <2>1. ~Replay(c) /\ ~ReplayPosition(c)
    BY <1>4, Zenon DEF Replay, ReplayPosition, PushMerge
  <2> QED
    BY <1>1, <1>4, <2>1, ZenonT(60) DEF PushMerge, Others, Stays, Client
<1> QED
  BY <1>2, <1>3, <1>4, Zenon

(* A client that gives up on its connection keeps its state and buffers. *)
LEMMA DisconnectedFrame ==
    ASSUME TypeInv, NEW c \in Clients, Disconnected(c)
    PROVE  /\ Others(c) /\ cl'[c].conn = 0 /\ cl'[c].link = "Down"
           /\ cl'[c].session = cl[c].session /\ cl'[c].buffer = cl[c].buffer
           /\ cl'[c].position = cl[c].position
           /\ cl'[c].epoch = cl[c].epoch /\ cl'[c].state = cl[c].state
<1>1. cl \in [Clients -> Client] /\ cl[c] \in Client
  BY Zenon DEF TypeInv, TypeOK
<1> QED
  BY <1>1, Zenon DEF Disconnected, Others, Client

(* A connecting client keeps everything else. *)
LEMMA AcceptFrame ==
    ASSUME TypeInv, NEW c \in Clients, Accept(c)
    PROVE  \E k \in Conns :
             /\ conns[k].user = 0
             /\ conns' = [conns EXCEPT ![k] = [user |-> c, open |-> TRUE, synced |-> FALSE]]
             /\ registry' = [registry EXCEPT ![c] = k]
             /\ down' = Send(down, k, [type |-> "AuthOk"])
             /\ Others(c) /\ cl'[c] = [cl[c] EXCEPT !.conn = k]
<1>1. cl \in [Clients -> Client] /\ cl[c] \in Client
  BY Zenon DEF TypeInv, TypeOK
<1> QED
  BY <1>1, ZenonT(60) DEF Accept, Others

(* A client that restarts is a new session, off line, at one of the two      *)
(* snapshots it may start from.                                              *)
LEMMA RestartFrame ==
    ASSUME TypeInv, NEW c \in Clients, RestartClient(c)
    PROVE  /\ Others(c) /\ cl'[c].conn = 0 /\ cl'[c].link = "Down" /\ cl'[c].buffer = <<>> /\ cl'[c].position = <<>>
           /\ cl'[c].session = cl[c].session + 1
           /\ \E snap \in {cDisk[c], NoSnapshot} :
                 /\ cl'[c].epoch = snap.epoch /\ cl'[c].state = snap.state
                 /\ cDisk' = [cDisk EXCEPT ![c] = snap]
<1>1. cl \in [Clients -> Client] /\ cl[c] \in Client
  BY Zenon DEF TypeInv, TypeOK
<1>2. PICK snap \in {cDisk[c], NoSnapshot}, floor \in Stamps(cDisk[c].state) \cup {0} :
          /\ cl' = [cl EXCEPT ![c] = StartedClient(cl[c].session + 1, snap, floor)]
          /\ cDisk' = [cDisk EXCEPT ![c] = snap]
  BY ZenonT(60) DEF RestartClient
<1>3. Others(c) /\ cl'[c] = StartedClient(cl[c].session + 1, snap, floor)
  BY <1>2, ReplaceFrame, Zenon
<1>4. /\ cl'[c].conn = 0 /\ cl'[c].link = "Down" /\ cl'[c].buffer = <<>> /\ cl'[c].position = <<>>
      /\ cl'[c].session = cl[c].session + 1
      /\ cl'[c].epoch = snap.epoch /\ cl'[c].state = snap.state
  BY <1>3 DEF StartedClient
<1> QED
  BY <1>2, <1>3, <1>4, Zenon

-----------------------------------------------------------------------------
(* What each kind of step leaves alone. *)

(* A client's steps leave the server's state, tasks and storage alone. *)
LEMMA ClientStepFrame ==
    ASSUME NEW c \in Clients, ClientNext(c)
    PROVE  UNCHANGED <<sState, sEpoch, sLast, sDisk, job>>
<1>1. CASE MutateMap(c) \/ MutateReg(c) \/ MutatePosition(c)
  BY <1>1, ZenonT(60) DEF MutateMap, MutateReg, MutatePosition, Mutate, srvVars
<1>2. CASE AskMarkWatched(c) \/ Accept(c) \/ Disconnected(c)
  BY <1>2, ZenonT(60) DEF AskMarkWatched, Accept, Disconnected, srvVars
<1>3. CASE ClientReceives(c)
  BY <1>3, ZenonT(60) DEF ClientReceives, Connected, RecvStateOp, RecvStateMerge, RecvStateSnapshot,
         RecvStateHash, srvVars
<1>4. CASE RecvDatagram(c) \/ Replay(c) \/ ReplayPosition(c) \/ PushMerge(c) \/ FlushClient(c) \/ RestartClient(c)
  BY <1>4, ZenonT(60) DEF RecvDatagram, Replay, ReplayPosition, PushMerge, FlushClient, RestartClient, srvVars
<1> QED
  BY <1>1, <1>2, <1>3, <1>4, Zenon DEF ClientNext

(* The server's steps leave the clients alone. *)
LEMMA ServerStepFrame ==
    ASSUME \/ \E k \in Conns : ServeReliable(k) \/ ServeDatagram(k) \/ EndConnection(k)
           \/ \E t \in Tasks : TaskNext(t)
           \/ Compact \/ HashTick \/ ForcePause \/ FlushServer \/ RestartServer
    PROVE  UNCHANGED <<cl, cDisk, issued>>
<1>1. ASSUME NEW k \in Conns, ServeReliable(k)
      PROVE  UNCHANGED <<cl, cDisk, issued>>
  BY <1>1, ZenonT(60) DEF ServeReliable, ServeStateOp, ServeSyncStatus, ServeRequestMerge, ServeStateMerge,
         ServeMarkWatched, cliVars
<1>2. ASSUME NEW k \in Conns, ServeDatagram(k) \/ EndConnection(k)
      PROVE  UNCHANGED <<cl, cDisk, issued>>
  BY <1>2, ZenonT(60) DEF ServeDatagram, EndConnection, cliVars
<1>3. ASSUME NEW t \in Tasks, TaskNext(t)
      PROVE  UNCHANGED <<cl, cDisk, issued>>
  BY <1>3, ZenonT(60) DEF TaskNext, TaskSend, TaskBroadcast, TaskRelay, TaskSnapshot, TaskPause, TaskFlush, cliVars
<1>4. ASSUME Compact \/ HashTick \/ ForcePause \/ FlushServer \/ RestartServer
      PROVE  UNCHANGED <<cl, cDisk, issued>>
  BY <1>4, ZenonT(60) DEF Compact, HashTick, ForcePause, FlushServer, RestartServer, cliVars
<1> QED
  BY <1>1, <1>2, <1>3, <1>4, ZenonT(60)

(* Only dialling, answering a SyncStatus, the end of a connection and a      *)
(* server restart touch the registry or a connection.                        *)
LEMMA ConnsFrame ==
    ASSUME Next, \A c \in Clients : ~Accept(c), \A k \in Conns : ~ServeSyncStatus(k) /\ ~EndConnection(k),
           ~RestartServer
    PROVE  UNCHANGED <<registry, conns>>
<1>1. ASSUME NEW c \in Clients, ClientNext(c)
      PROVE  UNCHANGED <<registry, conns>>
  <2>1. CASE MutateMap(c) \/ MutateReg(c) \/ MutatePosition(c) \/ AskMarkWatched(c) \/ Disconnected(c)
    BY <2>1, ZenonT(60) DEF MutateMap, MutateReg, MutatePosition, Mutate, AskMarkWatched, Disconnected, connVars
  <2>2. CASE ClientReceives(c)
    BY <2>2, ZenonT(60) DEF ClientReceives, Connected, RecvStateOp, RecvStateMerge, RecvStateSnapshot,
           RecvStateHash, connVars
  <2>3. CASE RecvDatagram(c) \/ Replay(c) \/ ReplayPosition(c) \/ PushMerge(c) \/ FlushClient(c) \/ RestartClient(c)
    BY <2>3, ZenonT(60) DEF RecvDatagram, Replay, ReplayPosition, PushMerge, FlushClient, RestartClient, connVars
  <2> QED
    BY <1>1, <2>1, <2>2, <2>3, Zenon DEF ClientNext
<1>2. ASSUME NEW k \in Conns, ServeReliable(k) \/ ServeDatagram(k) \/ EndConnection(k)
      PROVE  UNCHANGED <<registry, conns>>
  BY <1>2, ZenonT(60) DEF ServeReliable, ServeStateOp, ServeRequestMerge, ServeStateMerge, ServeMarkWatched,
         ServeDatagram, connVars
<1>3. ASSUME NEW t \in Tasks, TaskNext(t)
      PROVE  UNCHANGED <<registry, conns>>
  BY <1>3, ZenonT(60) DEF TaskNext, TaskSend, TaskBroadcast, TaskRelay, TaskSnapshot, TaskPause, TaskFlush, connVars
<1>4. ASSUME Compact \/ HashTick \/ ForcePause \/ FlushServer
      PROVE  UNCHANGED <<registry, conns>>
  BY <1>4, ZenonT(60) DEF Compact, HashTick, ForcePause, FlushServer, connVars
<1> QED
  BY <1>1, <1>2, <1>3, <1>4, ZenonT(60) DEF Next

-----------------------------------------------------------------------------
(* Where messages come from. *)

IsSync(m) == m.type \in {"StateMerge", "StateSnapshot"}

\* Task t is about to queue a message, and the message.
Heads(t) == job[t] # <<>> /\ Head(job[t]).do \in {"send", "broadcast", "relay"}

Msg(t) == Head(job[t]).msg

\* Task t queues its message for the client of connection k.
Queues(t, k) ==
    /\ Heads(t) /\ Live(k)
    /\ \/ TaskSend(t) /\ Head(job[t]).to = k
       \/ TaskBroadcast(t) /\ Head(job[t]).skip # k /\ \E c \in Clients : registry[c] = k

\* What happens to a control stream downwards.
DownStep(k) ==
    \/ down'[k] = down[k]
    \/ down'[k] = <<>> /\ \E c \in Clients : cl[c].conn = k /\ (Disconnected(c) \/ RestartClient(c))
    \/ /\ \E c \in Clients : cl[c].conn = k /\ ClientReceives(c)
       /\ down[k] # <<>> /\ down'[k] = Tail(down[k])
    \/ /\ \E c \in Clients : Accept(c) /\ cl'[c].conn = k
       /\ conns[k].user = 0 /\ down'[k] = Append(down[k], [type |-> "AuthOk"])
    \/ \E t \in Tasks : Queues(t, k) /\ down'[k] = Append(down[k], Msg(t))

\* A task is queueing the message.
FromTask(m) == \E t \in Tasks : Heads(t) /\ m = Msg(t) /\ (TaskSend(t) \/ TaskBroadcast(t))

(* The message a task is about to queue is a server message. *)
LEMMA MsgType ==
    ASSUME TypeOK, NEW t \in Tasks, Heads(t)
    PROVE  Msg(t) \in ServerMsg /\ Head(job[t]) \in Job
<1>1. job[t] \in Seq(Job) /\ job[t] # <<>>
  BY Zenon DEF TypeOK, Heads
<1>2. Head(job[t]) \in Job
  BY <1>1, QueueParts, Zenon
<1> QED
  BY <1>2, JobFields, Zenon DEF Heads, Msg

(* Queueing on one control stream. *)
LEMMA SendFrame ==
    ASSUME NEW M, NEW q \in [Conns -> Seq(M)], NEW j \in Conns, NEW m \in M
    PROVE  \A k \in Conns : Send(q, j, m)[k] = IF k = j THEN Append(q[k], m) ELSE q[k]
BY Zenon DEF Send

(* Every step is one of these for every control stream. *)
LEMMA DownSteps ==
    ASSUME TypeInv, Next, NEW k \in Conns
    PROVE  DownStep(k)
<1>t. down \in [Conns -> Seq(ServerMsg)] /\ down[k] \in Seq(ServerMsg) /\ TypeOK
      /\ cl \in [Clients -> Client]
  BY Zenon DEF TypeInv, TypeOK
<1>1. ASSUME NEW c \in Clients, ClientNext(c), ~Accept(c)
      PROVE  DownStep(k)
  <2>1. CASE MutateMap(c) \/ MutateReg(c) \/ MutatePosition(c) \/ AskMarkWatched(c)
    BY <2>1, ZenonT(60) DEF MutateMap, MutateReg, MutatePosition, Mutate, AskMarkWatched, DownStep
  <2>2. CASE Disconnected(c) \/ RestartClient(c)
    <3>1. down'[k] = down[k] \/ (down'[k] = <<>> /\ cl[c].conn = k)
      BY <1>t, <2>2, ZenonT(60) DEF Disconnected, RestartClient
    <3> QED
      BY <2>2, <3>1, Zenon DEF DownStep
  <2>3. CASE ClientReceives(c)
    <3>1. PICK type : Receives(c, type)
      BY <2>3, ZenonT(60) DEF ClientReceives, Connected, RecvStateOp, RecvStateMerge, RecvStateSnapshot,
           RecvStateHash
    <3>2. down'[k] = down[k] \/ (down'[k] = Tail(down[k]) /\ down[k] # <<>> /\ cl[c].conn = k)
      BY <1>t, <3>1, ZenonT(60) DEF Receives
    <3> QED
      BY <2>3, <3>2, Zenon DEF DownStep
  <2>4. CASE RecvDatagram(c) \/ Replay(c) \/ ReplayPosition(c) \/ PushMerge(c) \/ FlushClient(c)
    BY <2>4, ZenonT(60) DEF RecvDatagram, Replay, ReplayPosition, PushMerge, FlushClient, netVars, DownStep
  <2> QED
    BY <1>1, <2>1, <2>2, <2>3, <2>4, Zenon DEF ClientNext
<1>2. ASSUME NEW c \in Clients, Accept(c)
      PROVE  DownStep(k)
  <2>1. PICK j \in Conns : /\ down' = Send(down, j, [type |-> "AuthOk"]) /\ cl'[c] = [cl[c] EXCEPT !.conn = j]
                           /\ conns[j].user = 0
    BY <1>2, AcceptFrame, Zenon
  <2>2. [type |-> "AuthOk"] \in ServerMsg
    BY Zenon DEF ServerMsg
  <2>3. down'[k] = IF k = j THEN Append(down[k], [type |-> "AuthOk"]) ELSE down[k]
    BY <1>t, <2>1, <2>2, SendFrame
  <2>4. cl'[c].conn = j
    BY <1>t, <2>1, Zenon DEF Client
  <2> QED
    BY <1>2, <2>1, <2>3, <2>4, Zenon DEF DownStep
<1>3. ASSUME NEW j \in Conns, ServeReliable(j) \/ ServeDatagram(j) \/ EndConnection(j)
      PROVE  DownStep(k)
  <2>1. down' = down
    BY <1>3, ZenonT(60) DEF ServeReliable, ServeStateOp, ServeSyncStatus, ServeRequestMerge, ServeStateMerge,
         ServeMarkWatched, ServeDatagram, EndConnection
  <2> QED
    BY <2>1, Zenon DEF DownStep
<1>4. ASSUME NEW t \in Tasks, TaskNext(t)
      PROVE  DownStep(k)
  <2>1. CASE TaskRelay(t) \/ TaskSnapshot(t) \/ TaskPause(t) \/ TaskFlush(t)
    BY <2>1, ZenonT(60) DEF TaskRelay, TaskSnapshot, TaskPause, TaskFlush, netVars, DownStep
  <2>2. CASE TaskSend(t)
    <3>1. Heads(t) /\ Msg(t) \in ServerMsg /\ Head(job[t]) \in Job /\ Head(job[t]).do = "send"
      BY <1>t, <2>2, MsgType, Zenon DEF TaskSend, Todo, Heads
    <3>2. Head(job[t]).to \in Conns
      BY <3>1, JobFields, Zenon
    <3>3. down' = down \/ (down' = Send(down, Head(job[t]).to, Msg(t)) /\ Live(Head(job[t]).to))
      BY <2>2, ZenonT(60) DEF TaskSend, Queue, Msg
    <3> DEFINE j == Head(job[t]).to
               f == Msg(t)
    <3>4. j \in Conns /\ f \in ServerMsg /\ (down' = down \/ (down' = Send(down, j, f) /\ Live(j)))
      BY <3>1, <3>2, <3>3, Zenon
    <3> HIDE DEF j, f
    <3>5. down'[k] = down[k] \/ (down'[k] = Append(down[k], f) /\ Live(k) /\ k = j)
      <4>1. \A i \in Conns : Send(down, j, f)[i] = IF i = j THEN Append(down[i], f) ELSE down[i]
        BY <1>t, <3>4, SendFrame
      <4> QED
        BY <3>4, <4>1, ZenonT(60)
    <3>6. CASE down'[k] = Append(down[k], f) /\ Live(k) /\ k = j
      <4>1. Queues(t, k)
        BY <2>2, <3>1, <3>6, Zenon DEF Queues, j
      <4> QED
        BY <3>6, <4>1, Zenon DEF DownStep, f
    <3> QED
      BY <3>5, <3>6, Zenon DEF DownStep
  <2>3. CASE TaskBroadcast(t)
    <3>1. Heads(t)
      BY <1>t, <2>3, Zenon DEF TaskBroadcast, Todo, Heads
    <3>2. \/ down'[k] = down[k]
          \/ /\ down'[k] = Append(down[k], Msg(t)) /\ Live(k)
             /\ Head(job[t]).skip # k /\ \E c \in Clients : registry[c] = k
      BY <1>t, <2>3, ZenonT(60) DEF TaskBroadcast, Recipients, Msg
    <3> QED
      BY <2>3, <3>1, <3>2, ZenonT(60) DEF DownStep, Queues
  <2> QED
    BY <1>4, <2>1, <2>2, <2>3, Zenon DEF TaskNext
<1>5. ASSUME Compact \/ HashTick \/ ForcePause \/ FlushServer \/ RestartServer
      PROVE  DownStep(k)
  BY <1>5, ZenonT(60) DEF Compact, HashTick, ForcePause, FlushServer, RestartServer, netVars, DownStep
<1> QED
  BY <1>1, <1>2, <1>3, <1>4, <1>5, ZenonT(60) DEF Next

(* What is on its way down on a connection was there before, or is the       *)
(* AuthOk of a connection just accepted, or comes from a task and goes to a  *)
(* client that is still there.                                               *)
LEMMA DownMoves ==
    ASSUME TypeInv, Next, NEW k \in Conns, NEW m \in Elems(down'[k])
    PROVE  \/ m \in Elems(down[k])
           \/ m.type = "AuthOk" /\ \E c \in Clients : Accept(c) /\ cl'[c].conn = k
           \/ FromTask(m) /\ Live(k)
<1>t. down[k] \in Seq(ServerMsg)
  BY Zenon DEF TypeInv, TypeOK
<1>1. DownStep(k)
  BY DownSteps, Zenon
<1>2. CASE down'[k] \in {down[k], <<>>}
  BY <1>2, ElemsShort, Zenon
<1>3. CASE down[k] # <<>> /\ down'[k] = Tail(down[k])
  BY <1>t, <1>3, ElemsTail, Zenon
<1>4. CASE \E c \in Clients : Accept(c) /\ cl'[c].conn = k /\ down'[k] = Append(down[k], [type |-> "AuthOk"])
  <2>1. [type |-> "AuthOk"] \in ServerMsg /\ [type |-> "AuthOk"].type = "AuthOk"
    BY Zenon DEF ServerMsg
  <2>2. \A x : x \in Elems(Append(down[k], [type |-> "AuthOk"])) <=> x \in Elems(down[k]) \/ x = [type |-> "AuthOk"]
    BY <1>t, <2>1, ElemsAppend
  <2> QED
    BY <1>4, <2>1, <2>2, Zenon
<1>5. ASSUME NEW t \in Tasks, Queues(t, k), down'[k] = Append(down[k], Msg(t))
      PROVE  m \in Elems(down[k]) \/ (FromTask(m) /\ Live(k))
  <2>1. Msg(t) \in ServerMsg
    BY <1>5, MsgType, Zenon DEF Queues, TypeInv
  <2>2. \A x : x \in Elems(Append(down[k], Msg(t))) <=> x \in Elems(down[k]) \/ x = Msg(t)
    BY <1>t, <2>1, ElemsAppend, Zenon
  <2> QED
    BY <1>5, <2>2, Zenon DEF FromTask, Queues
<1> QED
  BY <1>1, <1>2, <1>3, <1>4, <1>5, Zenon DEF DownStep

\* The actors of client c's present session, in watched and in
\* playback_position
Me(c) == ActorOf(c, cl[c].session)

MyPos(c) == PosActorOf(c, cl[c].session)

Mine(c) == {Me(c), MyPos(c)}

\* Client c writes op: at its actor's next dot, and on the control stream
\* unless it is a position.
Writing(c, op, b) ==
    /\ Mutate(c, op, b)
    /\ op.actor = IF op.key \in Positions THEN MyPos(c) ELSE Me(c)
    /\ op.key # Reg => op.counter = cl[c].state.clock[op.actor] + 1
    /\ op.key \notin Positions => b
    /\ \E now \in Clocks : op.lww.ts = Stamp(cl[c].last, now)

\* What client c may put on its control stream
FromClient(c, m) ==
    \/ m.type \in {"MarkWatched", "SyncStatus", "RequestMerge"}
    \/ m.type = "StateOp" /\ m.op.actor \in Mine(c) /\ Writing(c, m.op, TRUE)
    \/ m.type = "StateMerge" /\ m.epoch = cl[c].epoch /\ m.state = cl[c].state

(* The keys of the two maps, and no key. *)
LEMMA KeyKinds ==
    /\ Flags \subseteq Keys /\ Positions \subseteq Keys
    /\ Reg \notin Keys /\ Reg \notin Positions
    /\ \A k \in Flags : k \notin Positions
<1>1. Flags \subseteq Keys /\ Positions \subseteq Keys
  BY Zenon DEF Keys
<1>2. Reg \notin Keys
  BY KeysAssumption DEF Reg
<1> QED
  BY <1>1, <1>2, MapsApart, Zenon

(* A local write puts on the network only ops of the present session. *)
LEMMA WrittenOp ==
    ASSUME TypeInv, NEW c \in Clients, MutateMap(c) \/ MutateReg(c) \/ MutatePosition(c)
    PROVE  \E op \in Op, b \in BOOLEAN : Writing(c, op, b) /\ op.actor \in Mine(c)
<1>1. /\ cl[c].state \in CrdtState /\ cl[c].last \in Nat /\ Me(c) \in Actors /\ MyPos(c) \in Actors
      /\ cl[c].state.clock \in VClock
  BY ClientFields, ActorType, Zenon DEF TypeInv, CrdtState, Me, MyPos
<1>n. cl[c].state.clock[Me(c)] + 1 \in Nat /\ cl[c].state.clock[MyPos(c)] + 1 \in Nat
  BY <1>1 DEF VClock
<1>s. ASSUME NEW now \in Clocks
      PROVE  Stamp(cl[c].last, now) \in Nat
  <2>1. now \in Nat
    BY InputsAssumption, Zenon
  <2> QED
    BY <1>1, <2>1, StampProperties, Zenon
<1> DEFINE op(a, n, k, now, v) == [actor |-> a, counter |-> n, key |-> k,
                                   lww |-> [ts |-> Stamp(cl[c].last, now), val |-> v]]
<1>o. ASSUME NEW a \in Actors, NEW n \in Nat, NEW k \in Keys \cup {Reg}, NEW now \in Clocks, NEW v \in Nat
      PROVE  /\ op(a, n, k, now, v) \in Op
             /\ op(a, n, k, now, v).actor = a /\ op(a, n, k, now, v).counter = n
             /\ op(a, n, k, now, v).key = k /\ op(a, n, k, now, v).lww.ts = Stamp(cl[c].last, now)
  BY <1>s, Zenon DEF Op, Lww
<1>2. CASE MutateMap(c)
  <2>1. PICK k \in Flags, v \in Values, now \in Clocks :
           Mutate(c, op(Me(c), cl[c].state.clock[Me(c)] + 1, k, now, v), TRUE)
    BY <1>2, Zenon DEF MutateMap, Me
  <2>2. v \in Nat /\ k \in Keys \cup {Reg} /\ k \notin Positions
    BY InputsAssumption, KeyKinds, Zenon
  <2> DEFINE o == op(Me(c), cl[c].state.clock[Me(c)] + 1, k, now, v)
  <2>3. /\ o \in Op /\ o.actor = Me(c) /\ o.counter = cl[c].state.clock[Me(c)] + 1
        /\ o.key = k /\ o.lww.ts = Stamp(cl[c].last, now)
    BY <1>1, <1>n, <1>o, <2>2, Zenon
  <2> HIDE DEF op, o
  <2>4. Mutate(c, o, TRUE)
    BY <2>1, Zenon DEF o
  <2>5. Writing(c, o, TRUE) /\ o.actor \in Mine(c)
    BY <2>2, <2>3, <2>4, Zenon DEF Writing, Mine
  <2> QED
    BY <2>3, <2>5, Zenon
<1>3. CASE MutateReg(c)
  <2>1. PICK v \in {Paused, Playing}, now \in Clocks : Mutate(c, op(Me(c), 0, Reg, now, v), TRUE)
    BY <1>3, Zenon DEF MutateReg, Me
  <2>2. v \in Nat /\ 0 \in Nat
    BY DEF Paused, Playing
  <2>3. Reg \in Keys \cup {Reg} /\ Reg \notin Positions
    BY KeyKinds, Zenon
  <2> DEFINE o == op(Me(c), 0, Reg, now, v)
  <2>4. o \in Op /\ o.actor = Me(c) /\ o.key = Reg /\ o.lww.ts = Stamp(cl[c].last, now)
    BY <1>1, <1>o, <2>2, <2>3, Zenon
  <2> HIDE DEF op, o
  <2>5. Mutate(c, o, TRUE)
    BY <2>1, Zenon DEF o
  <2>6. Writing(c, o, TRUE) /\ o.actor \in Mine(c)
    BY <2>3, <2>4, <2>5, Zenon DEF Writing, Mine
  <2> QED
    BY <2>4, <2>6, Zenon
<1>4. CASE MutatePosition(c)
  <2>1. PICK due \in BOOLEAN, now \in Clocks :
           Mutate(c, op(MyPos(c), cl[c].state.clock[MyPos(c)] + 1, PositionOf(c), now, Somewhere), due)
    BY <1>4, Zenon DEF MutatePosition, MyPos
  <2>2. Somewhere \in Nat
    BY DEF Somewhere
  <2>3. PositionOf(c) \in Keys \cup {Reg} /\ PositionOf(c) \in Positions
    BY InputsAssumption, KeyKinds, Zenon
  <2> DEFINE o == op(MyPos(c), cl[c].state.clock[MyPos(c)] + 1, PositionOf(c), now, Somewhere)
  <2>4. /\ o \in Op /\ o.actor = MyPos(c) /\ o.counter = cl[c].state.clock[MyPos(c)] + 1
        /\ o.key = PositionOf(c) /\ o.lww.ts = Stamp(cl[c].last, now)
    BY <1>1, <1>n, <1>o, <2>2, <2>3, Zenon
  <2> HIDE DEF op, o
  <2>5. Mutate(c, o, due)
    BY <2>1, Zenon DEF o
  <2>6. Writing(c, o, due) /\ o.actor \in Mine(c)
    BY <2>3, <2>4, <2>5, Zenon DEF Writing, Mine
  <2> QED
    BY <2>4, <2>6, Zenon
<1> QED
  BY <1>2, <1>3, <1>4, Zenon

(* A message appended by a client on its own connection. *)
LEMMA UpAppended ==
    ASSUME TypeInv, TypeInv', NEW c \in Clients, NEW f, cl[c].conn \in Conns,
           up' = Send(up, cl[c].conn, f), NEW k \in Conns, NEW m \in Elems(up'[k])
    PROVE  m \in Elems(up[k]) \/ (m = f /\ k = cl[c].conn)
<1>1. /\ up \in [Conns -> Seq(ClientMsg)] /\ up' \in [Conns -> Seq(ClientMsg)]
  BY Zenon DEF TypeInv, TypeOK
<1>2. up'[k] = IF k = cl[c].conn THEN Append(up[k], f) ELSE up[k]
  BY <1>1, Zenon DEF Send
<1>3. CASE k = cl[c].conn
  <2>1. up[k] \in Seq(ClientMsg) /\ Append(up[k], f) \in Seq(ClientMsg)
    BY <1>1, <1>2, <1>3, Zenon
  <2>2. f \in ClientMsg
    <3>1. Len(Append(up[k], f)) = Len(up[k]) + 1 /\ Append(up[k], f)[Len(up[k]) + 1] = f
          /\ Len(up[k]) \in Nat
      BY <2>1
    <3> QED
      BY <2>1, <3>1
  <2> QED
    BY <1>2, <1>3, <2>1, <2>2, ElemsAppend, ZenonT(60)
<1> QED
  BY <1>2, <1>3, Zenon

(* What is on its way up on a connection was there before or its client has  *)
(* just put it there.                                                        *)
LEMMA UpMoves ==
    ASSUME TypeInv, TypeInv', Next, NEW k \in Conns, NEW m \in Elems(up'[k])
    PROVE  \/ m \in Elems(up[k])
           \/ \E c \in Clients : cl[c].conn = k /\ FromClient(c, m)
<1>t. up \in [Conns -> Seq(ClientMsg)] /\ up[k] \in Seq(ClientMsg)
  BY Zenon DEF TypeInv, TypeOK
<1>1. ASSUME NEW c \in Clients, ClientNext(c)
      PROVE  m \in Elems(up[k]) \/ (cl[c].conn = k /\ FromClient(c, m))
  <2>0. cl[c].conn \in Conns \cup {0} /\ (cl[c].link # "Down" => cl[c].conn # 0)
    BY ClientFields, Zenon DEF TypeInv, LinkedHasConn
  <2>1. CASE MutateMap(c) \/ MutateReg(c) \/ MutatePosition(c)
    <3>1. PICK op \in Op, b \in BOOLEAN : Writing(c, op, b) /\ op.actor \in Mine(c)
      BY <2>1, WrittenOp, Zenon
    <3>2. up' = up \/ (b /\ cl[c].link = "Synced" /\ up' = Send(up, cl[c].conn, StateOp(cl[c].epoch, op)))
      BY <3>1, ZenonT(60) DEF Mutate, Writing
    <3>3. b => FromClient(c, StateOp(cl[c].epoch, op))
      <4>1. b => Writing(c, op, TRUE)
        BY <3>1, Zenon
      <4>2. StateOp(cl[c].epoch, op).type = "StateOp" /\ StateOp(cl[c].epoch, op).op = op
        BY Zenon DEF StateOp
      <4> QED
        BY <3>1, <4>1, <4>2, Zenon DEF FromClient
    <3> QED
      BY <2>0, <3>2, <3>3, UpAppended, Zenon
  <2>2. CASE AskMarkWatched(c)
    <3>1. PICK key \in Flags, v \in Values :
            up' = Send(up, cl[c].conn, [type |-> "MarkWatched", key |-> key, val |-> v])
      BY <2>2, Zenon DEF AskMarkWatched
    <3>2. cl[c].conn \in Conns
      BY <2>0, <2>2, Zenon DEF AskMarkWatched
    <3>3. FromClient(c, [type |-> "MarkWatched", key |-> key, val |-> v])
      BY Zenon DEF FromClient
    <3> QED
      BY <3>1, <3>2, <3>3, UpAppended, ZenonT(60)
  <2>3. CASE Connected(c)
    <3>1. cl[c].conn \in Conns
      BY <2>3, ReceivesType, Zenon DEF Connected, TypeInv
    <3>2. FromClient(c, [type |-> "SyncStatus", epoch |-> cl[c].epoch, hash |-> View(cl[c].state)])
      BY Zenon DEF FromClient
    <3> QED
      BY <2>3, <3>1, <3>2, UpAppended DEF Connected
  <2>4. CASE RecvStateHash(c)
    <3>1. cl[c].conn \in Conns
      BY <2>4, ReceivesType, Zenon DEF RecvStateHash, TypeInv
    <3>2. FromClient(c, [type |-> "RequestMerge"])
      BY Zenon DEF FromClient
    <3>3. up' = up \/ up' = Send(up, cl[c].conn, [type |-> "RequestMerge"])
      BY <2>4, ZenonT(60) DEF RecvStateHash
    <3> QED
      BY <3>1, <3>2, <3>3, UpAppended, Zenon
  <2>5. CASE PushMerge(c)
    <3>1. cl[c].conn \in Conns
      BY <2>0, <2>5, Zenon DEF PushMerge
    <3> DEFINE f == [type |-> "StateMerge", epoch |-> cl[c].epoch, state |-> cl[c].state]
    <3>2. FromClient(c, f) /\ up' = Send(up, cl[c].conn, f)
      BY <2>5, Zenon DEF FromClient, PushMerge
    <3> HIDE DEF f
    <3> QED
      BY <3>1, <3>2, UpAppended, Zenon
  <2>6. CASE Accept(c) \/ Disconnected(c) \/ RecvStateOp(c) \/ RecvStateMerge(c) \/ RecvStateSnapshot(c)
    BY <2>6, ZenonT(60) DEF Accept, Disconnected, RecvStateOp, RecvStateMerge, RecvStateSnapshot
  <2>7. CASE RecvDatagram(c) \/ Replay(c) \/ ReplayPosition(c) \/ FlushClient(c) \/ RestartClient(c)
    BY <2>7, ZenonT(60) DEF RecvDatagram, Replay, ReplayPosition, FlushClient, RestartClient, netVars
  <2> QED
    BY <1>1, <2>1, <2>2, <2>3, <2>4, <2>5, <2>6, <2>7, ZenonT(60) DEF ClientNext, ClientReceives
<1>2. ASSUME NEW j \in Conns, ServeReliable(j) \/ ServeDatagram(j) \/ EndConnection(j)
      PROVE  m \in Elems(up[k])
  <2>1. CASE ServeReliable(j)
    <3>1. PICK type : Serves(j, type)
      BY <2>1, ZenonT(60) DEF ServeReliable, ServeStateOp, ServeSyncStatus, ServeRequestMerge,
           ServeStateMerge, ServeMarkWatched
    <3>2. up'[k] = up[k] \/ (up'[k] = Tail(up[k]) /\ up[k] # <<>>)
      BY <1>t, <3>1, ZenonT(60) DEF Serves
    <3> QED
      BY <1>t, <3>2, ElemsTail, ZenonT(60)
  <2>2. CASE ServeDatagram(j)
    BY <2>2, ZenonT(60) DEF ServeDatagram
  <2>3. CASE EndConnection(j)
    <3>1. up'[k] = up[k] \/ up'[k] = <<>>
      BY <1>t, <2>3, ZenonT(60) DEF EndConnection
    <3> QED
      BY <3>1, ElemsShort, Zenon
  <2> QED
    BY <1>2, <2>1, <2>2, <2>3, Zenon
<1>3. ASSUME NEW t \in Tasks, TaskNext(t)
      PROVE  m \in Elems(up[k])
  BY <1>3, ZenonT(60) DEF TaskNext, TaskSend, TaskBroadcast, TaskRelay, TaskSnapshot, TaskPause, TaskFlush, netVars
<1>4. ASSUME Compact \/ HashTick \/ ForcePause \/ FlushServer
      PROVE  m \in Elems(up[k])
  BY <1>4, ZenonT(60) DEF Compact, HashTick, ForcePause, FlushServer, netVars
<1>5. CASE RestartServer
  <2>1. up'[k] = <<>>
    BY <1>5, ZenonT(60) DEF RestartServer
  <2> QED
    BY <2>1, ElemsShort, Zenon
<1> QED
  BY <1>1, <1>2, <1>3, <1>4, <1>5, ZenonT(60) DEF Next

(* A datagram in flight was in flight before, or is the copy of a write its  *)
(* client has just made, or of an op a task has just broadcast.              *)
LEMMA DgramMoves ==
    ASSUME TypeInv, Next, NEW d \in dgrams'
    PROVE  \/ d \in dgrams
           \/ d.to = "server" /\ \E c \in Clients, b \in BOOLEAN : Writing(c, d.op, b) /\ d.op.actor \in Mine(c)
           \/ /\ d.to = "client" /\ Live(d.conn)
              /\ \E t \in Tasks : /\ Heads(t) /\ Msg(t).type = "StateOp"
                                  /\ d.epoch = Msg(t).epoch /\ d.op = Msg(t).op
<1>1. ASSUME NEW c \in Clients, ClientNext(c)
      PROVE  d \in dgrams \/ (d.to = "server" /\ \E b \in BOOLEAN : Writing(c, d.op, b) /\ d.op.actor \in Mine(c))
  <2>1. CASE MutateMap(c) \/ MutateReg(c) \/ MutatePosition(c)
    <3>1. PICK op \in Op, b \in BOOLEAN : Writing(c, op, b) /\ op.actor \in Mine(c)
      BY <2>1, WrittenOp, Zenon
    <3>2. d \in dgrams \/ d \in Eager("server", {cl[c].conn}, cl[c].epoch, op)
      BY <3>1, ZenonT(60) DEF Mutate, Writing
    <3>3. d \in Eager("server", {cl[c].conn}, cl[c].epoch, op) => d.to = "server" /\ d.op = op
      BY DEF Eager
    <3> QED
      BY <3>1, <3>2, <3>3, Zenon
  <2>2. CASE AskMarkWatched(c) \/ Accept(c) \/ Disconnected(c)
    BY <2>2, ZenonT(60) DEF AskMarkWatched, Accept, Disconnected
  <2>3. CASE ClientReceives(c)
    BY <2>3, ZenonT(60) DEF ClientReceives, Connected, RecvStateOp, RecvStateMerge, RecvStateSnapshot,
           RecvStateHash
  <2>4. CASE RecvDatagram(c) \/ Replay(c) \/ ReplayPosition(c) \/ PushMerge(c) \/ FlushClient(c) \/ RestartClient(c)
    BY <2>4, ZenonT(60) DEF RecvDatagram, Replay, ReplayPosition, PushMerge, FlushClient, RestartClient, netVars
  <2> QED
    BY <1>1, <2>1, <2>2, <2>3, <2>4, Zenon DEF ClientNext
<1>2. ASSUME NEW k \in Conns, ServeReliable(k) \/ ServeDatagram(k) \/ EndConnection(k)
      PROVE  d \in dgrams
  BY <1>2, ZenonT(60) DEF ServeReliable, ServeStateOp, ServeSyncStatus, ServeRequestMerge, ServeStateMerge,
         ServeMarkWatched, ServeDatagram, EndConnection
<1>3. ASSUME NEW t \in Tasks, TaskNext(t)
      PROVE  \/ d \in dgrams
             \/ /\ d.to = "client" /\ Live(d.conn) /\ Heads(t) /\ Msg(t).type = "StateOp"
                /\ d.epoch = Msg(t).epoch /\ d.op = Msg(t).op
  <2>1. CASE TaskSend(t) \/ TaskSnapshot(t) \/ TaskPause(t) \/ TaskFlush(t)
    BY <2>1, ZenonT(60) DEF TaskSend, TaskSnapshot, TaskPause, TaskFlush, netVars
  <2>2. CASE TaskBroadcast(t) \/ TaskRelay(t)
    <3> DEFINE to == Recipients(Head(job[t]).skip)
    <3>1. Heads(t)
      BY <2>2, Zenon DEF TaskBroadcast, TaskRelay, Todo, Heads
    <3>2. d \in dgrams \/ (Msg(t).type = "StateOp" /\ d \in Eager("client", to, Msg(t).epoch, Msg(t).op))
      <4>1. CASE TaskBroadcast(t)
        BY <4>1, ZenonT(60) DEF TaskBroadcast, Msg
      <4>2. CASE TaskRelay(t)
        <5>1. Head(job[t]) \in Job /\ Head(job[t]).do = "relay"
          BY <4>2, TodoType, Zenon DEF TaskRelay, TypeInv
        <5>2. Msg(t).type = "StateOp"
          BY <5>1, RelayFields, Zenon DEF Msg
        <5> QED
          BY <4>2, <5>2, ZenonT(60) DEF TaskRelay, Msg
      <4> QED
        BY <2>2, <4>1, <4>2, Zenon
    <3>3. \A k \in to : Live(k)
      BY Zenon DEF Recipients
    <3> HIDE DEF to
    <3> QED
      BY <3>1, <3>2, <3>3 DEF Eager
  <2> QED
    BY <1>3, <2>1, <2>2, Zenon DEF TaskNext
<1>4. ASSUME Compact \/ HashTick \/ ForcePause \/ FlushServer \/ RestartServer
      PROVE  d \in dgrams
  BY <1>4, ZenonT(60) DEF Compact, HashTick, ForcePause, FlushServer, RestartServer, netVars
<1> QED
  BY <1>1, <1>2, <1>3, <1>4, ZenonT(60) DEF Next

-----------------------------------------------------------------------------
(* The server's state. *)

\* An op a client has put on the network for the server
OnStream(op) == \E k \in Conns : \E m \in Elems(up[k]) : m.type = "StateOp" /\ m.op = op

FromNetwork(op) ==
    \/ OnStream(op)
    \/ \E d \in dgrams : d.to = "server" /\ d.op = op

(* The message at the head of a control stream that is served. *)
LEMMA ServedHead ==
    ASSUME TypeInv, NEW k \in Conns, NEW type, Serves(k, type)
    PROVE  /\ up[k] \in Seq(ClientMsg) /\ up[k] # <<>>
           /\ Head(up[k]) \in ClientMsg /\ Head(up[k]) \in Elems(up[k]) /\ Head(up[k]).type = type
           /\ \A j \in Conns : up'[j] = IF j = k THEN Tail(up[j]) ELSE up[j]
           /\ conns[k].open /\ job[k] = <<>>
<1>1. up \in [Conns -> Seq(ClientMsg)] /\ up[k] \in Seq(ClientMsg) /\ up[k] # <<>>
  BY Zenon DEF TypeInv, TypeOK, Serves
<1>2. Head(up[k]) \in ClientMsg /\ Head(up[k]) \in Elems(up[k])
  BY <1>1, ElemsType, Zenon
<1> QED
  BY <1>1, <1>2, ZenonT(60) DEF Serves, Serving

(* An op served, by stream or by datagram: what it is and what it does. *)
LEMMA ServedOp ==
    ASSUME TypeInv, NEW k \in Conns, ServeStateOp(k) \/ ServeDatagram(k)
    PROVE  \E op \in Op, e \in Nat, b \in BOOLEAN :
             /\ ServeOp(k, e, op, b) /\ FromNetwork(op) /\ (~b => OnStream(op))
             /\ \/ ~b /\ Serves(k, "StateOp") /\ e = Head(up[k]).epoch /\ op = Head(up[k]).op
                   /\ UNCHANGED dgrams
                \/ b /\ Serving(k) /\ UNCHANGED up
<1>1. CASE ServeStateOp(k)
  <2>1. Serves(k, "StateOp") /\ ServeOp(k, Head(up[k]).epoch, Head(up[k]).op, FALSE) /\ UNCHANGED dgrams
    BY <1>1, Zenon DEF ServeStateOp
  <2>2. Head(up[k]) \in ClientMsg /\ Head(up[k]) \in Elems(up[k]) /\ Head(up[k]).type = "StateOp"
    BY <2>1, ServedHead, ZenonT(60)
  <2>3. Head(up[k]).epoch \in Nat /\ Head(up[k]).op \in Op
    BY <2>2, ClientMsgFields, Zenon
  <2>4. OnStream(Head(up[k]).op) /\ FromNetwork(Head(up[k]).op)
    BY <2>2, Zenon DEF FromNetwork, OnStream
  <2> QED
    BY <2>1, <2>3, <2>4, ZenonT(60)
<1>2. CASE ServeDatagram(k)
  <2>1. PICK d \in dgrams : d.to = "server" /\ ServeOp(k, d.epoch, d.op, TRUE)
    BY <1>2, Zenon DEF ServeDatagram
  <2>2. d.op \in Op /\ d.epoch \in Nat
    BY Zenon DEF TypeInv, TypeOK, Dgram
  <2>3. FromNetwork(d.op)
    BY <2>1, Zenon DEF FromNetwork, OnStream
  <2>4. Serving(k) /\ UNCHANGED up
    BY <1>2, Zenon DEF ServeDatagram
  <2> QED
    BY <2>1, <2>2, <2>3, <2>4, ZenonT(60)
<1> QED
  BY <1>1, <1>2, Zenon

(* A mark served: nothing, or an op of the server's at its next dot. *)
LEMMA ServedMark ==
    ASSUME TypeInv, NEW k \in Conns, ServeMarkWatched(k)
    PROVE  \/ UNCHANGED <<sState, sLast, job>>
           \/ \E op \in Op : /\ op.actor = Server /\ op.key # Reg /\ op.key \notin Positions
                             /\ op.counter = sState.clock[Server] + 1
                             /\ sState' = Apply(sState, op)
                             /\ Do(k, <<[do |-> "broadcast", skip |-> 0, msg |-> StateOp(sEpoch, op)]>>)
<1>1. Head(up[k]) \in ClientMsg /\ Head(up[k]).type = "MarkWatched"
  BY ServedHead, ZenonT(60) DEF ServeMarkWatched
<1>2. Head(up[k]).key \in Keys /\ Head(up[k]).val \in Nat
  BY <1>1, ClientMsgFields, Zenon
<1>3. sState \in CrdtState /\ sLast \in Nat /\ sState.clock \in VClock
  BY Zenon DEF TypeInv, TypeOK, CrdtState
<1>4. Head(up[k]).key # Reg /\ Head(up[k]).key \notin Positions
  BY <1>1, ClientMsgFields, KeyKinds, Zenon
<1>5. SUFFICES ASSUME ~UNCHANGED <<sState, sLast, job>>
               PROVE  \E op \in Op : /\ op.actor = Server /\ op.key # Reg /\ op.key \notin Positions
                             /\ op.counter = sState.clock[Server] + 1
                             /\ sState' = Apply(sState, op)
                             /\ Do(k, <<[do |-> "broadcast", skip |-> 0, msg |-> StateOp(sEpoch, op)]>>)
  BY Zenon
<1> DEFINE op(now) == [actor |-> Server, counter |-> sState.clock[Server] + 1, key |-> Head(up[k]).key,
                       lww |-> [ts |-> Stamp(sLast, now), val |-> Head(up[k]).val]]
<1>6. PICK now \in Clocks :
         /\ sState' = Apply(sState, op(now))
         /\ Do(k, <<[do |-> "broadcast", skip |-> 0, msg |-> StateOp(sEpoch, op(now))]>>)
  BY <1>5, ZenonT(60) DEF ServeMarkWatched
<1> HIDE DEF op
<1>7. Stamp(sLast, now) \in Nat
  <2>1. now \in Nat
    BY InputsAssumption, Zenon
  <2> QED
    BY <1>3, <2>1, StampProperties, Zenon
<1>8. sState.clock[Server] + 1 \in Nat
  BY <1>3, ActorsAssumption DEF VClock
<1>9. op(now) \in Op /\ op(now).actor = Server /\ op(now).key # Reg /\ op(now).key \notin Positions
      /\ op(now).counter = sState.clock[Server] + 1
  BY <1>2, <1>4, <1>7, <1>8, ActorsAssumption, Zenon DEF op, Op, Lww
<1> QED
  BY <1>6, <1>9, ZenonT(60)

(* The op of a forced pause. *)
PauseOp(t) == [actor |-> Server, counter |-> 0, key |-> Reg,
               lww |-> [ts |-> Head(job[t]).ts, val |-> Paused]]

LEMMA PauseOpForm ==
    ASSUME TypeInv, NEW t \in Tasks, TaskPause(t)
    PROVE  /\ PauseOp(t) \in Op /\ PauseOp(t).actor = Server /\ PauseOp(t).key = Reg
           /\ sState' = Apply(sState, PauseOp(t))
           /\ Do(t, <<[do |-> "broadcast", skip |-> 0, msg |-> StateOp(sEpoch, PauseOp(t))]>> \o Tail(job[t]))
<1>1. job[t] \in Seq(Job) /\ job[t] # <<>> /\ Head(job[t]).do = "pause"
  BY Zenon DEF TypeInv, TypeOK, TaskPause, Todo
<1>2. Head(job[t]).ts \in Nat
  BY <1>1, QueueParts, PauseFields, Zenon
<1>3. PauseOp(t) \in Op
  BY <1>2, ActorsAssumption, Zenon DEF PauseOp, Op, Lww, Paused
<1> QED
  BY <1>3, Zenon DEF PauseOp, TaskPause

-----------------------------------------------------------------------------
(* Dot clocks and the register under the ways a state changes. *)

(* CrdtState::apply moves at most the clock of the op's actor, and only to   *)
(* the op's counter, when that is beyond it.                                 *)
LEMMA ApplyClock ==
    ASSUME NEW s \in CrdtState, NEW op \in Op, NEW a \in Actors
    PROVE  Apply(s, op).clock[a] = IF op.key # Reg /\ a = op.actor /\ s.clock[a] < op.counter
                                   THEN op.counter ELSE s.clock[a]
<1>1. s.clock \in [Actors -> Nat]
  BY Zenon DEF CrdtState, VClock
<1> QED
  BY <1>1, Zenon DEF Apply, RegApply, MapApply, Advances

(* CrdtState::apply_if_orderly moves it only to the next dot. *)
LEMMA OrderlyClock ==
    ASSUME NEW s \in CrdtState, NEW op \in Op, NEW a \in Actors
    PROVE  ApplyIfOrderly(s, op).clock[a] = IF op.key # Reg /\ a = op.actor /\ s.clock[a] + 1 = op.counter
                                            THEN op.counter ELSE s.clock[a]
<1>1. s.clock \in [Actors -> Nat]
  BY Zenon DEF CrdtState, VClock
<1> QED
  BY <1>1, Zenon DEF ApplyIfOrderly, RegApply, MapApply, NextInSequence

(* The two together, as a client or the server applies an op it was sent. *)
LEMMA AppliedClock ==
    ASSUME NEW s \in CrdtState, NEW op \in Op, NEW t \in {Apply(s, op), ApplyIfOrderly(s, op)}
    PROVE  /\ t \in CrdtState
           /\ \A a \in Actors : /\ s.clock[a] \in Nat /\ t.clock[a] \in Nat /\ op.counter \in Nat
                                /\ s.clock[a] <= t.clock[a]
                                /\ t.clock[a] = s.clock[a]
                                   \/ (op.key # Reg /\ a = op.actor /\ t.clock[a] = op.counter)
           /\ Covers(t.clock, s.clock)
<1>1. t \in CrdtState
  BY ApplyType, Zenon
<1>2. ASSUME NEW a \in Actors
      PROVE  /\ s.clock[a] \in Nat /\ t.clock[a] \in Nat /\ op.counter \in Nat
             /\ s.clock[a] <= t.clock[a]
             /\ t.clock[a] = s.clock[a]
                \/ (op.key # Reg /\ a = op.actor /\ t.clock[a] = op.counter)
  <2>1. s.clock[a] \in Nat /\ t.clock[a] \in Nat /\ op.counter \in Nat
    BY <1>1, Zenon DEF CrdtState, VClock, Op
  <2> QED
    BY <2>1, ApplyClock, OrderlyClock
<1> QED
  BY <1>1, <1>2, Zenon DEF Covers

(* The register after an op. *)
LEMMA AppliedReg ==
    ASSUME NEW s \in CrdtState, NEW op \in Op, NEW t \in {Apply(s, op), ApplyIfOrderly(s, op)}
    PROVE  t.reg = IF op.key = Reg THEN LwwApply(s.reg, op.lww) ELSE s.reg
BY DEF Apply, ApplyIfOrderly, RegApply, MapApply

(* CrdtState::merge takes the larger dot of each actor. *)
LEMMA MergeClock ==
    ASSUME NEW s \in CrdtState, NEW t \in CrdtState
    PROVE  /\ \A a \in Actors : /\ s.clock[a] \in Nat /\ t.clock[a] \in Nat
                                /\ Merge(s, t).clock[a] \in {s.clock[a], t.clock[a]}
                                /\ s.clock[a] <= Merge(s, t).clock[a]
                                /\ t.clock[a] <= Merge(s, t).clock[a]
           /\ Covers(Merge(s, t).clock, s.clock) /\ Merge(s, t).reg = LwwApply(s.reg, t.reg)
<1>1. ASSUME NEW a \in Actors
      PROVE  s.clock[a] \in Nat /\ t.clock[a] \in Nat
  BY Zenon DEF CrdtState, VClock
<1>2. ASSUME NEW a \in Actors
      PROVE  Merge(s, t).clock[a] = IF s.clock[a] < t.clock[a] THEN t.clock[a] ELSE s.clock[a]
  BY Zenon DEF Merge, ClockMerge
<1>3. ASSUME NEW a \in Actors
      PROVE  /\ Merge(s, t).clock[a] \in {s.clock[a], t.clock[a]}
             /\ s.clock[a] <= Merge(s, t).clock[a]
             /\ t.clock[a] <= Merge(s, t).clock[a]
  BY <1>1, <1>2
<1>4. Merge(s, t).reg = LwwApply(s.reg, t.reg)
  BY Zenon DEF Merge
<1> QED
  BY <1>1, <1>3, <1>4, Zenon DEF Covers

(* The order on writes. *)
LEMMA LwwOrder ==
    ASSUME NEW x \in Lww, NEW y \in Lww, NEW z \in Lww
    PROVE  /\ ~Before(x, x)
           /\ ~Before(LwwApply(x, y), y) /\ ~Before(LwwApply(x, y), x)
           /\ ~Before(x, y) => ~Before(LwwApply(x, z), y)
BY DEF Before, LwwApply, Lww

(* What fans out is new to the server and known to it from then on. *)
LEMMA FannedOut ==
    ASSUME NEW s \in CrdtState, NEW op \in Op, NEW b \in BOOLEAN, Refanout(s, op, b)
    PROVE  /\ op.key # Reg => /\ s.clock[op.actor] < op.counter
                              /\ op.counter <= ApplyForBroadcast(s, op, b).clock[op.actor]
           /\ op.key = Reg => /\ Before(s.reg, op.lww)
                              /\ ApplyForBroadcast(s, op, b).reg = op.lww
<1>1. op.actor \in Actors /\ op.counter \in Nat /\ s.clock[op.actor] \in Nat
  BY Zenon DEF Op, CrdtState, VClock
<1>2. CASE op.key # Reg
  BY <1>1, <1>2, ApplyClock, OrderlyClock DEF Refanout, ApplyForBroadcast, NextInSequence, Advances
<1>3. CASE op.key = Reg
  BY <1>3, Zenon DEF Refanout, ApplyForBroadcast, Apply, ApplyIfOrderly, RegApply, LwwApply
<1> QED
  BY <1>2, <1>3, Zenon

-----------------------------------------------------------------------------

\* The server has applied an op: its own, or a client's.
TookOp == \E op \in Op : /\ op.actor = Server \/ FromNetwork(op)
                         /\ sState' \in {Apply(sState, op), ApplyIfOrderly(sState, op)}

\* The server has merged a client's state.
TookMerge == \E k \in Conns : \E m \in Elems(up[k]) :
                m.type = "StateMerge" /\ m \in ClientMsg /\ sState' = Merge(sState, m.state)

Rebuilt == sEpoch' = sEpoch + 1 /\ \E base \in Nat : sState' = Rebuild(sState, base)

(* How the server's state moves. *)
LEMMA ServerMoves ==
    ASSUME TypeInv, Next, ~RestartServer
    PROVE  \/ sEpoch' = sEpoch /\ (sState' = sState \/ TookOp \/ TookMerge)
           \/ Rebuilt
<1>1. ASSUME NEW c \in Clients, ClientNext(c)
      PROVE  sEpoch' = sEpoch /\ sState' = sState
  BY <1>1, ClientStepFrame, Zenon
<1>2. ASSUME NEW k \in Conns, ServeStateOp(k) \/ ServeDatagram(k)
      PROVE  sEpoch' = sEpoch /\ (sState' = sState \/ TookOp)
  <2>1. PICK op \in Op, e \in Nat, b \in BOOLEAN : ServeOp(k, e, op, b) /\ FromNetwork(op)
    BY <1>2, ServedOp, ZenonT(60)
  <2>2. /\ sEpoch' = sEpoch
        /\ sState' = sState \/ sState' = ApplyForBroadcast(sState, op, b)
    BY <2>1, ZenonT(60) DEF ServeOp
  <2>3. ApplyForBroadcast(sState, op, b) \in {Apply(sState, op), ApplyIfOrderly(sState, op)}
    BY Zenon DEF ApplyForBroadcast
  <2> QED
    BY <2>1, <2>2, <2>3, ZenonT(60) DEF TookOp
<1>3. ASSUME NEW k \in Conns, ServeSyncStatus(k) \/ ServeRequestMerge(k) \/ EndConnection(k)
      PROVE  sEpoch' = sEpoch /\ sState' = sState
  BY <1>3, ZenonT(60) DEF ServeSyncStatus, ServeRequestMerge, EndConnection, srvVars
<1>4. ASSUME NEW k \in Conns, ServeStateMerge(k)
      PROVE  sEpoch' = sEpoch /\ (sState' = sState \/ TookMerge)
  <2>1. /\ Head(up[k]) \in Elems(up[k]) /\ Head(up[k]).type = "StateMerge"
        /\ Head(up[k]) \in ClientMsg
    BY <1>4, ServedHead, ZenonT(60) DEF ServeStateMerge
  <2>2. sEpoch' = sEpoch /\ (sState' = sState \/ sState' = Merge(sState, Head(up[k]).state))
    BY <1>4, ZenonT(60) DEF ServeStateMerge
  <2> QED
    BY <2>1, <2>2, ZenonT(60) DEF TookMerge
<1>5. ASSUME NEW k \in Conns, ServeMarkWatched(k)
      PROVE  sEpoch' = sEpoch /\ (sState' = sState \/ TookOp)
  <2>1. sEpoch' = sEpoch
    BY <1>5, ZenonT(60) DEF ServeMarkWatched
  <2> QED
    BY <1>5, <2>1, ServedMark, ZenonT(60) DEF TookOp
<1>6. ASSUME NEW t \in Tasks, TaskPause(t)
      PROVE  sEpoch' = sEpoch /\ TookOp
  <2>1. sEpoch' = sEpoch
    BY <1>6, ZenonT(60) DEF TaskPause
  <2> QED
    BY <1>6, <2>1, PauseOpForm, ZenonT(60) DEF TookOp
<1>7. ASSUME NEW t \in Tasks, TaskSend(t) \/ TaskBroadcast(t) \/ TaskRelay(t) \/ TaskSnapshot(t) \/ TaskFlush(t)
      PROVE  sEpoch' = sEpoch /\ sState' = sState
  BY <1>7, ZenonT(60) DEF TaskSend, TaskBroadcast, TaskRelay, TaskSnapshot, TaskFlush, srvVars
<1>8. CASE Compact
  <2>1. PICK now \in Clocks : sState' = Rebuild(sState, MaxOf(sLast, now - 1))
    BY <1>8, ZenonT(60) DEF Compact
  <2>2. sLast \in Nat /\ now \in Nat
    BY InputsAssumption, Zenon DEF TypeInv, TypeOK
  <2>3. MaxOf(sLast, now - 1) \in Nat
    BY <2>2 DEF MaxOf
  <2>4. sEpoch' = sEpoch + 1
    BY <1>8, Zenon DEF Compact
  <2> QED
    BY <2>1, <2>3, <2>4, Zenon DEF Rebuilt
<1>9. CASE HashTick \/ ForcePause \/ FlushServer
  BY <1>9, ZenonT(60) DEF HashTick, ForcePause, FlushServer, srvVars
<1> QED
  BY <1>1, <1>2, <1>3, <1>4, <1>5, <1>6, <1>7, <1>8, <1>9, ZenonT(60) DEF Next, ServeReliable, TaskNext

\* The server's state goes forward: within an epoch no dot and no write of the
\* register is lost.
Forward ==
    \/ /\ sEpoch' = sEpoch /\ Covers(sState'.clock, sState.clock)
       /\ \A x \in Lww : ~Before(sState.reg, x) => ~Before(sState'.reg, x)
    \/ sEpoch' > sEpoch

(* Only a restart takes the server back. *)
LEMMA ServerForward ==
    ASSUME TypeInv, Next, ~RestartServer
    PROVE  Forward
<1>1. sState \in CrdtState /\ sEpoch \in Nat /\ sState.reg \in Lww
  BY Zenon DEF TypeInv, TypeOK, CrdtState
<1>2. CASE sEpoch' = sEpoch /\ sState' = sState
  <2>1. Covers(sState.clock, sState.clock)
    BY <1>1 DEF Covers, CrdtState, VClock
  <2> QED
    BY <1>2, <2>1, Zenon DEF Forward
<1>3. CASE sEpoch' = sEpoch /\ TookOp
  <2>1. PICK op \in Op : sState' \in {Apply(sState, op), ApplyIfOrderly(sState, op)}
    BY <1>3, Zenon DEF TookOp
  <2>2. Covers(sState'.clock, sState.clock)
    BY <1>1, <2>1, AppliedClock, Zenon
  <2>3. sState'.reg = IF op.key = Reg THEN LwwApply(sState.reg, op.lww) ELSE sState.reg
    BY <1>1, <2>1, AppliedReg, Zenon
  <2>4. op.lww \in Lww
    BY Zenon DEF Op
  <2>5. \A x \in Lww : ~Before(sState.reg, x) => ~Before(sState'.reg, x)
    BY <1>1, <2>3, <2>4, LwwOrder, ZenonT(60)
  <2> QED
    BY <1>3, <2>2, <2>5, Zenon DEF Forward
<1>4. CASE sEpoch' = sEpoch /\ TookMerge
  <2>1. PICK m \in ClientMsg : m.type = "StateMerge" /\ sState' = Merge(sState, m.state)
    BY <1>4, Zenon DEF TookMerge
  <2>2. m.state \in CrdtState /\ m.state.reg \in Lww
    BY <2>1, ClientMsgFields, Zenon DEF CrdtState
  <2>3. Covers(sState'.clock, sState.clock) /\ sState'.reg = LwwApply(sState.reg, m.state.reg)
    BY <1>1, <2>1, <2>2, MergeClock, Zenon
  <2>4. \A x \in Lww : ~Before(sState.reg, x) => ~Before(sState'.reg, x)
    BY <1>1, <2>2, <2>3, LwwOrder, ZenonT(60)
  <2> QED
    BY <1>4, <2>3, <2>4, Zenon DEF Forward
<1>5. CASE Rebuilt
  BY <1>1, <1>5 DEF Rebuilt, Forward
<1> QED
  BY <1>2, <1>3, <1>4, <1>5, ServerMoves, Zenon

-----------------------------------------------------------------------------
(* What the server's tasks have in hand.  Only the first job of a task is    *)
(* ever anything but a save.                                                 *)

Proper(t, q) ==
    q # <<>> =>
      /\ \A w \in Elems(Tail(q)) : w.do = "flush"
      /\ Head(q).do = "pause" => t = Sweeper
      /\ Head(q).do = "send" => Head(q).to = t /\ IsSync(Head(q).msg)
      /\ t = Compactor /\ Head(q).do \in {"broadcast", "relay"} => IsSync(Head(q).msg)

Shapes == \A t \in Tasks : Proper(t, job[t])

(* A task given jobs: the others keep theirs. *)
LEMMA DoFrame ==
    ASSUME TypeInv, NEW t \in Tasks, NEW what, Do(t, what)
    PROVE  job'[t] = what /\ \A u \in Tasks : u # t => job'[u] = job[u]
BY Zenon DEF Do, TypeInv, TypeOK

(* A list of one job. *)
LEMMA ProperOne ==
    ASSUME NEW t, NEW w,
           w.do = "pause" => t = Sweeper,
           w.do = "send" => w.to = t /\ IsSync(w.msg),
           t = Compactor /\ w.do \in {"broadcast", "relay"} => IsSync(w.msg)
    PROVE  Proper(t, <<w>>) /\ <<w>> # <<>> /\ Head(<<w>>) = w
<1>1. Head(<<w>>) = w /\ Tail(<<w>>) = <<>> /\ <<w>> # <<>>
  OBVIOUS
<1> QED
  BY <1>1, ElemsShort, Zenon DEF Proper

(* What is left after the first job is saves. *)
LEMMA ProperTail ==
    ASSUME NEW t, NEW q \in Seq(Job), q # <<>>, Proper(t, q), NEW w
    PROVE  /\ Tail(q) # <<>> => Head(Tail(q)).do = "flush"
           /\ Proper(t, Tail(q))
           /\ <<w>> \o Tail(q) # <<>> /\ Head(<<w>> \o Tail(q)) = w
           /\ Tail(<<w>> \o Tail(q)) = Tail(q)
<1>1. Tail(q) \in Seq(Job) /\ \A v \in Elems(Tail(q)) : v.do = "flush"
  BY QueueParts, Zenon DEF Proper
<1>2. Tail(q) # <<>> => /\ Head(Tail(q)).do = "flush"
                        /\ \A v \in Elems(Tail(Tail(q))) : v.do = "flush"
  <2>1. ASSUME Tail(q) # <<>>
        PROVE  Head(Tail(q)) \in Elems(Tail(q)) /\ \A v \in Elems(Tail(Tail(q))) : v \in Elems(Tail(q))
    BY <1>1, <2>1, ElemsType, ElemsTail, ZenonT(60)
  <2> QED
    BY <1>1, <2>1, Zenon
<1>3. <<w>> \o Tail(q) # <<>> /\ Head(<<w>> \o Tail(q)) = w /\ Tail(<<w>> \o Tail(q)) = Tail(q)
  <2> DEFINE r == Tail(q)
  <2>1. r \in Seq(Job)
    BY <1>1, Zenon
  <2> HIDE DEF r
  <2>2. /\ Len(<<w>> \o r) = 1 + Len(r) /\ Len(r) \in Nat
        /\ (<<w>> \o r)[1] = w
        /\ \A i \in 1..Len(r) : (<<w>> \o r)[i + 1] = r[i]
    BY <2>1
  <2>3. <<w>> \o r # <<>> /\ Head(<<w>> \o r) = w
    BY <2>1, <2>2
  <2>4. Tail(<<w>> \o r) = r
    BY <2>1, <2>2
  <2> QED
    BY <2>3, <2>4, Zenon DEF r
<1>4. Proper(t, Tail(q))
  BY <1>2, Zenon DEF Proper
<1> QED
  BY <1>2, <1>3, <1>4, Zenon

\* The presence sweeper has a stamp for a forced pause and has yet to apply it.
Pausing == job[Sweeper] # <<>> /\ Head(job[Sweeper]).do = "pause"

PauseAt == Head(job[Sweeper]).ts

\* A message a task comes to have in hand: the server's state as it is now, a
\* hash, or an op new to the server in this step: one off the network, a mark
\* or the sweeper's pause.
NewMsg(m) ==
    \/ IsSync(m) /\ m.epoch = sEpoch' /\ m.state = sState' /\ sState' = sState
    \/ m.type = "StateHash"
    \/ /\ m.type = "StateOp" /\ m.epoch = sEpoch' /\ sEpoch' = sEpoch /\ m.op \in Op
       /\ m.op.key # Reg => /\ sState.clock[m.op.actor] < m.op.counter
                            /\ m.op.counter <= sState'.clock[m.op.actor]
       /\ \/ /\ FromNetwork(m.op)
             /\ m.op.key = Reg => Before(sState.reg, m.op.lww) /\ sState'.reg = m.op.lww
          \/ m.op.actor = Server /\ m.op.key # Reg /\ m.op.key \notin Positions
          \/ /\ m.op.actor = Server /\ m.op.key = Reg
             /\ Pausing /\ ~Pausing' /\ m.op.lww.ts = PauseAt

\* A position to be fanned out on the control streams came on one.
Streamed(w) ==
    w.do # "relay" /\ w.msg.type = "StateOp" /\ w.msg.op.key \in Positions => OnStream(w.msg.op)

JobStep(t) == \/ job'[t] = job[t]
              \/ /\ Proper(t, job'[t])
                 /\ Heads(t)' => NewMsg(Msg(t)') /\ Streamed(Head(job'[t]))
                 /\ job'[t] # <<>> /\ Head(job'[t]).do = "pause" => ForcePause

(* A task is given one job. *)
LEMMA JobGiven ==
    ASSUME TypeInv, NEW t \in Tasks, NEW w, Do(t, <<w>>),
           w.do = "pause" => t = Sweeper /\ ForcePause,
           w.do = "send" => w.to = t /\ IsSync(w.msg),
           t = Compactor /\ w.do \in {"broadcast", "relay"} => IsSync(w.msg),
           w.do \in {"send", "broadcast", "relay"} => NewMsg(w.msg) /\ Streamed(w)
    PROVE  \A u \in Tasks : JobStep(u)
<1>1. job'[t] = <<w>> /\ \A u \in Tasks : u # t => job'[u] = job[u]
  BY DoFrame, Zenon
<1>2. Proper(t, <<w>>) /\ <<w>> # <<>> /\ Head(<<w>>) = w
  BY ProperOne, Zenon
<1>3. Heads(t)' => NewMsg(Msg(t)') /\ Streamed(Head(job'[t]))
  BY <1>1, <1>2, Zenon DEF Heads, Msg
<1> QED
  BY <1>1, <1>2, <1>3, Zenon DEF JobStep

(* A task has nothing left to do. *)
LEMMA JobDone ==
    ASSUME TypeInv, NEW t \in Tasks, Do(t, <<>>)
    PROVE  \A u \in Tasks : JobStep(u)
<1>1. job'[t] = <<>> /\ \A u \in Tasks : u # t => job'[u] = job[u]
  BY DoFrame, Zenon
<1> QED
  BY <1>1, Zenon DEF JobStep, Proper, Heads

(* A task goes on to what it has left. *)
LEMMA JobTail ==
    ASSUME TypeInv, Shapes, NEW t \in Tasks, job[t] # <<>>, Do(t, Tail(job[t]))
    PROVE  \A u \in Tasks : JobStep(u)
<1>1. job'[t] = Tail(job[t]) /\ \A u \in Tasks : u # t => job'[u] = job[u]
  BY DoFrame, Zenon
<1>2. job[t] \in Seq(Job) /\ Proper(t, job[t])
  BY Zenon DEF TypeInv, TypeOK, Shapes
<1>3. Proper(t, job'[t]) /\ (job'[t] # <<>> => Head(job'[t]).do = "flush")
  BY <1>1, <1>2, ProperTail, Zenon
<1>4. ~Heads(t)' /\ (job'[t] # <<>> => Head(job'[t]).do # "pause")
  BY <1>3, Zenon DEF Heads
<1> QED
  BY <1>1, <1>3, <1>4, Zenon DEF JobStep

(* A task's first job turns into a broadcast. *)
LEMMA JobTurns ==
    ASSUME TypeInv, Shapes, NEW t \in Tasks, job[t] # <<>>, NEW m,
           (job'[t] # <<>> /\ Head(job'[t]).do = "broadcast") => NewMsg(m),
           m.type = "StateOp" => m.op.key \notin Positions,
           t = Compactor => IsSync(m),
           Do(t, <<[do |-> "broadcast", skip |-> 0, msg |-> m]>> \o Tail(job[t]))
    PROVE  /\ \A u \in Tasks : JobStep(u)
           /\ job'[t] # <<>> /\ Head(job'[t]).do = "broadcast" /\ Head(job'[t]).msg = m
<1> DEFINE w == [do |-> "broadcast", skip |-> 0, msg |-> m]
<1>0. w.do = "broadcast" /\ w.msg = m /\ w.do # "pause"
  BY Zenon
<1> HIDE DEF w
<1>1. job'[t] = <<w>> \o Tail(job[t]) /\ \A u \in Tasks : u # t => job'[u] = job[u]
  BY DoFrame, Zenon DEF w
<1>2. job[t] \in Seq(Job) /\ Proper(t, job[t])
  BY Zenon DEF TypeInv, TypeOK, Shapes
<1>3. job'[t] # <<>> /\ Head(job'[t]) = w /\ Tail(job'[t]) = Tail(job[t])
  <2>1. /\ <<w>> \o Tail(job[t]) # <<>> /\ Head(<<w>> \o Tail(job[t])) = w
        /\ Tail(<<w>> \o Tail(job[t])) = Tail(job[t])
    BY <1>2, ProperTail, Zenon
  <2> QED
    BY <1>1, <2>1, Zenon
<1>4. Proper(t, job'[t])
  BY <1>0, <1>2, <1>3, Zenon DEF Proper
<1>5. NewMsg(Msg(t)') /\ Streamed(Head(job'[t]))
  BY <1>0, <1>3, Zenon DEF Msg, Streamed
<1> QED
  BY <1>0, <1>1, <1>3, <1>4, <1>5, ZenonT(30) DEF JobStep

(* Task names. *)
LEMMA TaskNames ==
    /\ Conns \subseteq Tasks /\ Compactor \in Tasks /\ Hasher \in Tasks /\ Sweeper \in Tasks
    /\ Compactor \notin Conns /\ Hasher \notin Conns /\ Sweeper \notin Conns
    /\ Compactor # Hasher /\ Compactor # Sweeper /\ Hasher # Sweeper
BY DEF Tasks, Conns, Compactor, Hasher, Sweeper

(* How a task's jobs move. *)
LEMMA JobMoves ==
    ASSUME TypeInv, Shapes, Next, NEW u \in Tasks
    PROVE  JobStep(u)
<1>t. sState \in CrdtState /\ sEpoch \in Nat
  BY Zenon DEF TypeInv, TypeOK
<1>1. ASSUME NEW c \in Clients, ClientNext(c)
      PROVE  JobStep(u)
  BY <1>1, ClientStepFrame, Zenon DEF JobStep
<1>2. ASSUME NEW k \in Conns, ServeStateOp(k) \/ ServeDatagram(k)
      PROVE  JobStep(u)
  <2>k. k \in Tasks /\ k # Compactor
    BY TaskNames, Zenon
  <2>1. PICK op \in Op, e \in Nat, b \in BOOLEAN : ServeOp(k, e, op, b) /\ FromNetwork(op) /\ (~b => OnStream(op))
    BY <1>2, ServedOp, ZenonT(60)
  <2>2. CASE e = sEpoch /\ Refanout(sState, op, b)
    <3> DEFINE w == [do |-> RelayTransport(op, b), skip |-> k, msg |-> StateOp(e, op)]
    <3>1. Do(k, <<w>>) /\ sState' = ApplyForBroadcast(sState, op, b) /\ sEpoch' = sEpoch
      BY <2>1, <2>2, ZenonT(60) DEF ServeOp
    <3>2. /\ w.do \in {"broadcast", "relay"} /\ (b /\ op.key \in Positions => w.do = "relay")
          /\ w.msg.type = "StateOp" /\ w.msg.epoch = e /\ w.msg.op = op
      BY Zenon DEF StateOp, RelayTransport
    <3> HIDE DEF w
    <3>3. /\ op.key # Reg => sState.clock[op.actor] < op.counter /\ op.counter <= sState'.clock[op.actor]
          /\ op.key = Reg => Before(sState.reg, op.lww) /\ sState'.reg = op.lww
      BY <1>t, <2>2, <3>1, FannedOut, ZenonT(60)
    <3>4. NewMsg(w.msg)
      BY <2>1, <2>2, <3>1, <3>2, <3>3, ZenonT(60) DEF NewMsg
    <3>5. Streamed(w)
      BY <2>1, <3>2, Zenon DEF Streamed
    <3> QED
      BY <2>k, <3>1, <3>2, <3>4, <3>5, JobGiven, Zenon
  <2>3. CASE ~(e = sEpoch /\ Refanout(sState, op, b))
    <3>1. Do(k, <<>>)
      BY <2>1, <2>3, ZenonT(60) DEF ServeOp
    <3> QED
      BY <2>k, <3>1, JobDone, Zenon
  <2> QED
    BY <2>2, <2>3, Zenon
<1>3. ASSUME NEW k \in Conns, ServeSyncStatus(k) \/ ServeRequestMerge(k)
      PROVE  JobStep(u)
  <2>k. k \in Tasks /\ k # Compactor
    BY TaskNames, Zenon
  <2> DEFINE w(ty) == [do |-> "send", to |-> k, msg |-> [type |-> ty, epoch |-> sEpoch, state |-> sState]]
  <2>1. sState' = sState /\ sEpoch' = sEpoch
    BY <1>3, ZenonT(60) DEF ServeSyncStatus, ServeRequestMerge, srvVars
  <2>2. Do(k, <<>>) \/ \E ty \in {"StateMerge", "StateSnapshot"} : Do(k, <<w(ty)>>)
    <3>1. CASE ServeRequestMerge(k)
      BY <3>1, ZenonT(60) DEF ServeRequestMerge
    <3>2. CASE ServeSyncStatus(k)
      <4> DEFINE same == Head(up[k]).epoch = sEpoch /\ Head(up[k]).hash = View(sState)
      <4>1. Do(k, <<>>) \/ Do(k, <<w(IF same THEN "StateMerge" ELSE "StateSnapshot")>>)
        BY <3>2, ZenonT(60) DEF ServeSyncStatus
      <4> HIDE DEF w, same
      <4> QED
        BY <4>1, ZenonT(60)
    <3> QED
      BY <1>3, <3>1, <3>2, Zenon
  <2>3. ASSUME NEW ty \in {"StateMerge", "StateSnapshot"}
        PROVE  /\ w(ty).do = "send" /\ w(ty).to = k /\ IsSync(w(ty).msg) /\ NewMsg(w(ty).msg)
               /\ Streamed(w(ty))
    BY <2>1, Zenon DEF IsSync, NewMsg, Streamed
  <2> HIDE DEF w
  <2>4. ASSUME NEW ty \in {"StateMerge", "StateSnapshot"}, Do(k, <<w(ty)>>)
        PROVE  JobStep(u)
    BY <2>k, <2>3, <2>4, JobGiven, Zenon
  <2> QED
    BY <2>k, <2>2, <2>4, JobDone, Zenon
<1>4. ASSUME NEW k \in Conns, ServeStateMerge(k)
      PROVE  JobStep(u)
  <2>k. k \in Tasks /\ k # Compactor
    BY TaskNames, Zenon
  <2> DEFINE w == [do |-> "snapshot", type |-> "StateMerge"]
  <2>1. UNCHANGED job \/ Do(k, <<w>>)
    BY <1>4, ZenonT(60) DEF ServeStateMerge
  <2>2. w.do = "snapshot"
    BY Zenon
  <2> HIDE DEF w
  <2>3. Do(k, <<w>>) => JobStep(u)
    BY <2>k, <2>2, JobGiven, Zenon
  <2> QED
    BY <2>1, <2>3, Zenon DEF JobStep
<1>5. ASSUME NEW k \in Conns, ServeMarkWatched(k)
      PROVE  JobStep(u)
  <2>k. k \in Tasks /\ k # Compactor
    BY TaskNames, Zenon
  <2>1. CASE UNCHANGED job
    BY <2>1, Zenon DEF JobStep
  <2>2. CASE ~UNCHANGED job
    <3>1. PICK op \in Op :
            /\ op.actor = Server /\ op.key # Reg /\ op.key \notin Positions
            /\ op.counter = sState.clock[Server] + 1
            /\ sState' = Apply(sState, op)
            /\ Do(k, <<[do |-> "broadcast", skip |-> 0, msg |-> StateOp(sEpoch, op)]>>)
      BY <1>5, <2>2, ServedMark, ZenonT(60)
    <3> DEFINE w == [do |-> "broadcast", skip |-> 0, msg |-> StateOp(sEpoch, op)]
    <3>2. w.do = "broadcast" /\ w.msg.type = "StateOp" /\ w.msg.epoch = sEpoch /\ w.msg.op = op
      BY Zenon DEF StateOp
    <3>3. Do(k, <<w>>)
      BY <3>1, Zenon
    <3> HIDE DEF w
    <3>4. sEpoch' = sEpoch
      BY <1>5, ZenonT(60) DEF ServeMarkWatched
    <3>5. sState.clock[op.actor] < op.counter /\ op.counter <= sState'.clock[op.actor]
      <4>1. Server \in Actors /\ sState.clock[Server] \in Nat
        BY <1>t, ActorsAssumption, Zenon DEF CrdtState, VClock
      <4> QED
        BY <1>t, <3>1, <4>1, ApplyClock
    <3>6. NewMsg(w.msg)
      BY <3>1, <3>2, <3>4, <3>5, ZenonT(60) DEF NewMsg
    <3>7. Streamed(w)
      BY <3>1, <3>2, Zenon DEF Streamed
    <3> QED
      BY <2>k, <3>2, <3>3, <3>6, <3>7, JobGiven, Zenon
  <2> QED
    BY <2>1, <2>2, Zenon
<1>6. ASSUME NEW t \in Tasks, TaskSend(t) \/ TaskBroadcast(t) \/ TaskRelay(t) \/ TaskFlush(t)
      PROVE  JobStep(u)
  <2>1. job[t] # <<>> /\ Do(t, Tail(job[t]))
    BY <1>6, ZenonT(60) DEF TaskSend, TaskBroadcast, TaskRelay, TaskFlush, Todo
  <2> QED
    BY <2>1, JobTail, Zenon
<1>7. ASSUME NEW t \in Tasks, TaskSnapshot(t)
      PROVE  JobStep(u)
  <2> DEFINE m == [type |-> Head(job[t]).type, epoch |-> sEpoch, state |-> sState]
  <2>1. /\ job[t] # <<>> /\ Do(t, <<[do |-> "broadcast", skip |-> 0, msg |-> m]>> \o Tail(job[t]))
        /\ sState' = sState /\ sEpoch' = sEpoch /\ Head(job[t]).do = "snapshot"
    BY <1>7, ZenonT(60) DEF TaskSnapshot, Todo, srvVars
  <2>2. Head(job[t]).type \in {"StateMerge", "StateSnapshot"}
    BY <2>1, QueueParts, SnapshotFields, Zenon DEF TypeInv, TypeOK
  <2>3. IsSync(m) /\ NewMsg(m) /\ m.type # "StateOp"
    BY <2>1, <2>2, Zenon DEF IsSync, NewMsg
  <2> HIDE DEF m
  <2> QED
    BY <2>1, <2>3, JobTurns, Zenon
<1>8. ASSUME NEW t \in Tasks, TaskPause(t)
      PROVE  JobStep(u)
  <2> DEFINE m == StateOp(sEpoch, PauseOp(t))
  <2>1. /\ job[t] # <<>> /\ Do(t, <<[do |-> "broadcast", skip |-> 0, msg |-> m]>> \o Tail(job[t]))
        /\ sEpoch' = sEpoch /\ Head(job[t]).do = "pause"
        /\ PauseOp(t) \in Op /\ PauseOp(t).actor = Server /\ PauseOp(t).key = Reg
        /\ PauseOp(t).lww.ts = Head(job[t]).ts
    <3>1. PauseOp(t).lww.ts = Head(job[t]).ts
      BY Zenon DEF PauseOp
    <3> QED
      BY <1>8, <3>1, PauseOpForm, ZenonT(60) DEF TaskPause, Todo
  <2>2. t = Sweeper
    BY <2>1, Zenon DEF Shapes, Proper
  <2>3. m.type = "StateOp" /\ m.epoch = sEpoch /\ m.op = PauseOp(t)
    BY Zenon DEF StateOp
  <2> HIDE DEF m
  <2>4. job'[t] # <<>> /\ Head(job'[t]).do = "broadcast" => NewMsg(m)
    BY <2>1, <2>2, <2>3, Zenon DEF NewMsg, Pausing, PauseAt
  <2>5. t # Compactor
    BY <2>2, TaskNames, Zenon
  <2>6. m.op.key \notin Positions
    BY <2>1, <2>3, KeyKinds, Zenon
  <2> QED
    BY <2>1, <2>4, <2>5, <2>6, JobTurns, Zenon
<1>9. CASE Compact
  <2> DEFINE w == [do |-> "snapshot", type |-> "StateSnapshot"]
             v == [do |-> "flush"]
  <2>1. Do(Compactor, <<w, v>>)
    BY <1>9, ZenonT(60) DEF Compact
  <2>2. job'[Compactor] = <<w, v>> /\ \A x \in Tasks : x # Compactor => job'[x] = job[x]
    BY <2>1, DoFrame, TaskNames, Zenon
  <2>3. <<w, v>> # <<>> /\ Head(<<w, v>>) = w /\ Tail(<<w, v>>) = <<v>> /\ w.do = "snapshot" /\ v.do = "flush"
    OBVIOUS
  <2> HIDE DEF w, v
  <2>4. Proper(Compactor, job'[Compactor]) /\ ~Heads(Compactor)' /\ Head(job'[Compactor]).do # "pause"
    BY <2>2, <2>3, ElemsShort, Zenon DEF Proper, Heads
  <2> QED
    BY <2>2, <2>4, Zenon DEF JobStep
<1>10. CASE HashTick
  <2> DEFINE m == [type |-> "StateHash", epoch |-> sEpoch, hash |-> View(sState)]
             w == [do |-> "broadcast", skip |-> 0, msg |-> m]
  <2>1. Do(Hasher, <<w>>)
    BY <1>10, ZenonT(60) DEF HashTick
  <2>2. w.do = "broadcast" /\ w.msg.type = "StateHash"
    BY Zenon
  <2> HIDE DEF m, w
  <2>3. NewMsg(w.msg) /\ Streamed(w)
    BY <2>2, Zenon DEF NewMsg, Streamed
  <2> QED
    BY <2>1, <2>2, <2>3, JobGiven, TaskNames, Zenon
<1>11. CASE ForcePause
  <2>1. PICK now \in Clocks : Do(Sweeper, <<[do |-> "pause", ts |-> Stamp(sLast, now)]>>)
    BY <1>11, ZenonT(60) DEF ForcePause
  <2> DEFINE w == [do |-> "pause", ts |-> Stamp(sLast, now)]
  <2>2. w.do = "pause" /\ Do(Sweeper, <<w>>)
    BY <2>1, Zenon
  <2> HIDE DEF w
  <2> QED
    BY <1>11, <2>2, JobGiven, TaskNames, Zenon
<1>12. ASSUME NEW k \in Conns, EndConnection(k)
       PROVE  JobStep(u)
  BY <1>12, ZenonT(60) DEF EndConnection, JobStep
<1>13. CASE FlushServer
  BY <1>13, ZenonT(60) DEF FlushServer, JobStep
<1>14. CASE RestartServer
  <2>1. job'[u] = <<>>
    BY <1>14, ZenonT(60) DEF RestartServer
  <2> QED
    BY <2>1, Zenon DEF JobStep, Proper, Heads
<1> QED
  BY <1>1, <1>2, <1>3, <1>4, <1>5, <1>6, <1>7, <1>8, <1>9, <1>10, <1>11, <1>12, <1>13, <1>14, ZenonT(60)
     DEF Next, ServeReliable, TaskNext

-----------------------------------------------------------------------------
(* Connections.  The registered connection of a user is open and is the      *)
(* user's; a client on an open connection is registered under it; nothing    *)
(* is under way on a connection nobody has opened; only the serve loop of an *)
(* open connection has something to do.                                      *)

Registered == \A c \in Clients : registry[c] # 0 => conns[registry[c]].open /\ conns[registry[c]].user = c

Dialled == \A c \in Clients : cl[c].conn # 0 =>
              /\ conns[cl[c].conn].user = c
              /\ conns[cl[c].conn].open => registry[c] = cl[c].conn

Unused == \A k \in Conns : conns[k].user = 0 =>
             ~conns[k].open /\ ~conns[k].synced /\ up[k] = <<>> /\ down[k] = <<>>

Attended == \A k \in Conns : job[k] # <<>> => conns[k].open

Wiring == Registered /\ Dialled /\ Unused /\ Attended

(* A client leaves its connection only for none, unless it dials. *)
LEMMA ConnMoves ==
    ASSUME TypeInv, Next, NEW c \in Clients, ~Accept(c)
    PROVE  cl'[c].conn \in {cl[c].conn, 0}
<1>1. ASSUME NEW d \in Clients, ClientNext(d)
      PROVE  cl'[c].conn \in {cl[c].conn, 0}
  <2>1. CASE MutateMap(d) \/ MutateReg(d) \/ MutatePosition(d)
    <3>1. PICK op \in Op, b \in BOOLEAN : Mutate(d, op, b)
      BY <2>1, WrittenOp, Zenon DEF Writing
    <3> QED
      BY <3>1, MutateFrame, Zenon DEF Others, Stays
  <2>2. CASE AskMarkWatched(d) \/ FlushClient(d)
    BY <2>2, Zenon DEF AskMarkWatched, FlushClient, cliVars
  <2>3. CASE Accept(d)
    BY <2>3, AcceptFrame, Zenon DEF Others
  <2>4. CASE Disconnected(d)
    BY <2>4, DisconnectedFrame, Zenon DEF Others
  <2>5. CASE ClientReceives(d) \/ RecvDatagram(d)
    BY <2>5, RecvFrame, Zenon DEF Others, Stays
  <2>6. CASE Replay(d) \/ ReplayPosition(d) \/ PushMerge(d)
    BY <2>6, ReplayFrame, Zenon DEF Others, Stays
  <2>7. CASE RestartClient(d)
    BY <2>7, RestartFrame, Zenon DEF Others
  <2> QED
    BY <1>1, <2>1, <2>2, <2>3, <2>4, <2>5, <2>6, <2>7, ZenonT(60) DEF ClientNext
<1>2. CASE \A d \in Clients : ~ClientNext(d)
  <2>1. cl' = cl
    BY <1>2, ServerStepFrame, ZenonT(60) DEF Next
  <2> QED
    BY <2>1, Zenon
<1> QED
  BY <1>1, <1>2, Zenon

-----------------------------------------------------------------------------
(* How a client's replica moves. *)

\* An op client c may apply at its epoch: its own, or one the server sent
OpFor(c, op) ==
    \/ op.actor \in Mine(c) \/ op \in Elems(cl[c].buffer) \/ op \in Elems(cl[c].position)
    \/ /\ cl[c].conn # 0
       /\ \E m \in Elems(down[cl[c].conn]) : m.type = "StateOp" /\ m.epoch = cl[c].epoch /\ m.op = op
    \/ \E d \in dgrams : d.to = "client" /\ d.conn = cl[c].conn /\ d.epoch = cl[c].epoch /\ d.op = op

AppliesOp(c) ==
    /\ cl'[c].epoch = cl[c].epoch
    /\ \E op \in Op : /\ OpFor(c, op)
                      /\ cl'[c].state \in {Apply(cl[c].state, op), ApplyIfOrderly(cl[c].state, op)}

\* Client c takes over, or merges, a state the server sent.
TakesState(c) ==
    /\ cl[c].conn # 0
    /\ \E m \in Elems(down[cl[c].conn]) :
         /\ IsSync(m) /\ m \in ServerMsg
         /\ \/ cl'[c].epoch = m.epoch /\ cl'[c].state = m.state
            \/ /\ cl'[c].epoch = cl[c].epoch /\ m.epoch = cl[c].epoch
               /\ cl'[c].state = Merge(cl[c].state, m.state)

Rests(c) == cl'[c].state = cl[c].state /\ cl'[c].epoch = cl[c].epoch

\* The ops client c will replay are old ones or its own.
Buffers(c) ==
    /\ \A op \in Elems(cl'[c].buffer) : op \in Elems(cl[c].buffer) \/ op.actor \in Mine(c)
    /\ \A op \in Elems(cl'[c].position) : op \in Elems(cl[c].position) \/ op.actor \in Mine(c)

(* A client's frame is on its control stream. *)
LEMMA FrameIn ==
    ASSUME TypeInv, NEW c \in Clients, NEW type, Receives(c, type)
    PROVE  /\ cl[c].conn \in Conns /\ cl[c].conn # 0 /\ Frame(c) \in Elems(down[cl[c].conn])
           /\ Frame(c) \in ServerMsg /\ Frame(c).type = type
<1>1. cl[c].conn \in Conns /\ Frame(c) \in ServerMsg /\ Frame(c).type = type
  BY ReceivesType, Zenon DEF TypeInv
<1>2. down[cl[c].conn] \in Seq(ServerMsg)
  BY <1>1, Zenon DEF TypeInv, TypeOK
<1>3. down[cl[c].conn] # <<>> /\ cl[c].conn # 0
  BY Zenon DEF Receives
<1>4. Frame(c) \in Elems(down[cl[c].conn])
  BY <1>2, <1>3, ElemsType, Zenon DEF Frame
<1> QED
  BY <1>1, <1>3, <1>4, Zenon

(* How the replica moves when the client handles a frame. *)
LEMMA ReceiveMoves ==
    ASSUME TypeInv, NEW c \in Clients, ClientReceives(c)
    PROVE  Rests(c) \/ AppliesOp(c) \/ TakesState(c)
<1>t. /\ cl[c] \in Client /\ cl \in [Clients -> Client]
  BY ClientFields, Zenon DEF TypeInv, TypeOK
<1>1. CASE RecvStateOp(c)
  <2>1. Receives(c, "StateOp")
        /\ cl' = [cl EXCEPT ![c] = Remote(cl[c], Frame(c).epoch, Apply(cl[c].state, Frame(c).op), Frame(c).op)]
    BY <1>1, Zenon DEF RecvStateOp
  <2>2. /\ cl'[c].epoch = cl[c].epoch
        /\ cl'[c].state = IF Frame(c).epoch = cl[c].epoch THEN Apply(cl[c].state, Frame(c).op) ELSE cl[c].state
    <3>1. cl[c] \in Client
          /\ cl'[c] = Remote(cl[c], Frame(c).epoch, Apply(cl[c].state, Frame(c).op), Frame(c).op)
      BY <2>1, ReplaceFrame, Zenon DEF TypeInv, TypeOK
    <3> QED
      BY <3>1, RemoteFields
  <2>3. /\ cl[c].conn # 0 /\ Frame(c) \in Elems(down[cl[c].conn])
        /\ Frame(c).type = "StateOp" /\ Frame(c) \in ServerMsg
    BY <2>1, FrameIn, Zenon
  <2>4. Frame(c).op \in Op
    BY <2>3, ServerMsgFields, Zenon
  <2>5. CASE Frame(c).epoch = cl[c].epoch
    <3>1. OpFor(c, Frame(c).op)
      BY <2>3, <2>5, Zenon DEF OpFor
    <3> QED
      BY <2>2, <2>4, <2>5, <3>1, Zenon DEF AppliesOp
  <2> QED
    BY <2>2, <2>5, Zenon DEF Rests
<1>2. CASE RecvStateMerge(c) \/ RecvStateSnapshot(c)
  <2>1. Receives(c, "StateMerge") \/ Receives(c, "StateSnapshot")
    BY <1>2, Zenon DEF RecvStateMerge, RecvStateSnapshot
  <2>2. /\ cl[c].conn # 0 /\ Frame(c) \in Elems(down[cl[c].conn])
        /\ Frame(c) \in ServerMsg /\ IsSync(Frame(c))
    BY <2>1, FrameIn, Zenon DEF IsSync
  <2>3. \/ Hold(c, Frame(c).epoch, Frame(c).state)
        \/ Frame(c).epoch = cl[c].epoch /\ Hold(c, cl[c].epoch, Merge(cl[c].state, Frame(c).state))
        \/ cl' = cl
    BY <1>2, ZenonT(60) DEF RecvStateMerge, RecvStateSnapshot
  <2>4. CASE Hold(c, Frame(c).epoch, Frame(c).state)
    BY <2>2, <2>4, HoldFrame, Zenon DEF TakesState
  <2>5. CASE Frame(c).epoch = cl[c].epoch /\ Hold(c, cl[c].epoch, Merge(cl[c].state, Frame(c).state))
    BY <2>2, <2>5, HoldFrame, Zenon DEF TakesState
  <2> QED
    BY <2>3, <2>4, <2>5, Zenon DEF Rests
<1>3. CASE Connected(c)
  BY <1>t, <1>3, Zenon DEF Connected, Rests, Client
<1>4. CASE RecvStateHash(c)
  BY <1>t, <1>4, Zenon DEF RecvStateHash, Rests, Client
<1> QED
  BY <1>1, <1>2, <1>3, <1>4, Zenon DEF ClientReceives

(* A client's step leaves the others alone. *)
LEMMA OtherRests ==
    ASSUME TypeInv, NEW c \in Clients, NEW d \in Clients, ClientNext(d), d # c
    PROVE  cl'[c] = cl[c]
<1>1. CASE MutateMap(d) \/ MutateReg(d) \/ MutatePosition(d)
  <2>1. PICK op \in Op, b \in BOOLEAN : Mutate(d, op, b)
    BY <1>1, WrittenOp, Zenon DEF Writing
  <2> QED
    BY <2>1, MutateFrame, Zenon DEF Others
<1>2. CASE AskMarkWatched(d) \/ FlushClient(d)
  BY <1>2, Zenon DEF AskMarkWatched, FlushClient, cliVars
<1>3. CASE Accept(d)
  BY <1>3, AcceptFrame, Zenon DEF Others
<1>4. CASE Disconnected(d)
  BY <1>4, DisconnectedFrame, Zenon DEF Others
<1>5. CASE ClientReceives(d) \/ RecvDatagram(d)
  BY <1>5, RecvFrame, Zenon DEF Others
<1>6. CASE Replay(d) \/ ReplayPosition(d) \/ PushMerge(d)
  BY <1>6, ReplayFrame, Zenon DEF Others
<1>7. CASE RestartClient(d)
  BY <1>7, RestartFrame, Zenon DEF Others
<1> QED
  BY <1>1, <1>2, <1>3, <1>4, <1>5, <1>6, <1>7, ZenonT(60) DEF ClientNext

(* How a client's replica and buffer move. *)
LEMMA ClientMoves ==
    ASSUME TypeInv, Next, NEW c \in Clients
    PROVE  /\ Rests(c) \/ AppliesOp(c) \/ TakesState(c) \/ RestartClient(c)
           /\ Buffers(c)
           /\ cl'[c].session = cl[c].session \/ (RestartClient(c) /\ cl'[c].session = cl[c].session + 1)
<1>t. cl[c].buffer \in Seq(Op) /\ cl[c].position \in Seq(Op)
  BY ClientFields, Zenon DEF TypeInv
<1>1. ASSUME NEW d \in Clients, ClientNext(d), d # c
      PROVE  cl'[c] = cl[c]
  BY <1>1, OtherRests, Zenon
<1>2. CASE MutateMap(c) \/ MutateReg(c) \/ MutatePosition(c)
  <2>1. PICK op \in Op, b \in BOOLEAN : Mutate(c, op, b) /\ op.actor \in Mine(c)
    BY <1>2, WrittenOp, Zenon DEF Writing
  <2>2. /\ cl'[c].epoch = cl[c].epoch /\ cl'[c].state = Apply(cl[c].state, op)
        /\ cl'[c].session = cl[c].session
        /\ cl'[c].buffer \in {cl[c].buffer, Append(cl[c].buffer, op)}
        /\ cl'[c].position \in {cl[c].position, <<op>>}
    BY <2>1, MutateFrame, Zenon DEF Stays
  <2>3. AppliesOp(c)
    BY <2>1, <2>2, Zenon DEF AppliesOp, OpFor
  <2>4. \A x : x \in Elems(Append(cl[c].buffer, op)) <=> x \in Elems(cl[c].buffer) \/ x = op
    BY <1>t, ElemsAppend
  <2>5. Buffers(c)
    BY <2>1, <2>2, <2>4, ElemsShort, Zenon DEF Buffers
  <2> QED
    BY <2>2, <2>3, <2>5, Zenon
<1>3. CASE cl'[c] = cl[c]
  BY <1>3, Zenon DEF Rests, Buffers
<1>4. CASE Accept(c)
  <2>1. cl'[c].state = cl[c].state /\ cl'[c].epoch = cl[c].epoch /\ cl'[c].buffer = cl[c].buffer
        /\ cl'[c].position = cl[c].position /\ cl'[c].session = cl[c].session
    <3>1. PICK k \in Conns : cl'[c] = [cl[c] EXCEPT !.conn = k]
      BY <1>4, AcceptFrame, Zenon
    <3> QED
      BY <3>1, ClientFields, Zenon DEF TypeInv, Client
  <2> QED
    BY <2>1, Zenon DEF Rests, Buffers
<1>5. CASE Disconnected(c)
  BY <1>5, DisconnectedFrame, Zenon DEF Rests, Buffers
<1>6. CASE ClientReceives(c)
  BY <1>6, ReceiveMoves, RecvFrame, Zenon DEF Buffers, Stays
<1>7. CASE RecvDatagram(c)
  <2>1. PICK d \in dgrams :
          /\ d.to = "client" /\ d.conn = cl[c].conn
          /\ cl' = [cl EXCEPT ![c] = Remote(cl[c], d.epoch, ApplyIfOrderly(cl[c].state, d.op), d.op)]
    BY <1>7, Zenon DEF RecvDatagram
  <2>2. /\ Stays(c) /\ cl'[c].buffer = cl[c].buffer /\ cl'[c].position = cl[c].position
        /\ cl'[c].epoch = cl[c].epoch
        /\ cl'[c].state = IF d.epoch = cl[c].epoch THEN ApplyIfOrderly(cl[c].state, d.op) ELSE cl[c].state
    <3>1. ASSUME NEW e, NEW st, NEW op, cl' = [cl EXCEPT ![c] = Remote(cl[c], e, st, op)]
          PROVE  /\ Stays(c) /\ cl'[c].buffer = cl[c].buffer /\ cl'[c].position = cl[c].position
                 /\ cl'[c].epoch = cl[c].epoch
                 /\ cl'[c].state = IF e = cl[c].epoch THEN st ELSE cl[c].state
      <4>1. cl[c] \in Client /\ cl'[c] = Remote(cl[c], e, st, op)
        BY <3>1, ReplaceFrame, Zenon DEF TypeInv, TypeOK
      <4> QED
        BY <4>1, RemoteFields DEF Stays
    <3> QED
      BY <2>1, <3>1, Zenon
  <2>3. d.op \in Op
    BY Zenon DEF TypeInv, TypeOK, Dgram
  <2>4. d.epoch = cl[c].epoch => OpFor(c, d.op)
    BY <2>1, Zenon DEF OpFor
  <2>5. Rests(c) \/ AppliesOp(c)
    BY <2>2, <2>3, <2>4, Zenon DEF Rests, AppliesOp
  <2> QED
    BY <2>2, <2>5, Zenon DEF Buffers, Stays
<1>8. CASE Replay(c)
  <2>1. /\ Stays(c) /\ cl'[c].epoch = cl[c].epoch /\ cl'[c].buffer = Tail(cl[c].buffer)
        /\ cl'[c].position = cl[c].position
        /\ cl'[c].state = Apply(cl[c].state, Head(cl[c].buffer))
    BY <1>8, ReplayFrame, Zenon
  <2>2. cl[c].buffer # <<>>
    BY <1>8, Zenon DEF Replay
  <2>3. Head(cl[c].buffer) \in Op /\ Head(cl[c].buffer) \in Elems(cl[c].buffer)
    BY <1>t, <2>2, QueueParts, ElemsType, Zenon
  <2>4. \A x \in Elems(Tail(cl[c].buffer)) : x \in Elems(cl[c].buffer)
    BY <1>t, <2>2, ElemsTail, Zenon
  <2>5. OpFor(c, Head(cl[c].buffer))
    BY <2>3, Zenon DEF OpFor
  <2>6. AppliesOp(c)
    BY <2>1, <2>3, <2>5, Zenon DEF AppliesOp
  <2> QED
    BY <2>1, <2>4, <2>6, Zenon DEF Buffers, Stays
<1>p. CASE ReplayPosition(c)
  <2>1. /\ Stays(c) /\ cl'[c].epoch = cl[c].epoch /\ cl'[c].position = Tail(cl[c].position)
        /\ cl'[c].buffer = cl[c].buffer
        /\ cl'[c].state = Apply(cl[c].state, Head(cl[c].position))
    BY <1>p, ReplayFrame, Zenon
  <2>2. cl[c].position # <<>>
    BY <1>p, Zenon DEF ReplayPosition
  <2>3. Head(cl[c].position) \in Op /\ Head(cl[c].position) \in Elems(cl[c].position)
    BY <1>t, <2>2, QueueParts, ElemsType, Zenon
  <2>4. \A x \in Elems(Tail(cl[c].position)) : x \in Elems(cl[c].position)
    BY <1>t, <2>2, ElemsTail, Zenon
  <2>5. OpFor(c, Head(cl[c].position))
    BY <2>3, Zenon DEF OpFor
  <2>6. AppliesOp(c)
    BY <2>1, <2>3, <2>5, Zenon DEF AppliesOp
  <2> QED
    BY <2>1, <2>4, <2>6, Zenon DEF Buffers, Stays
<1>9. CASE PushMerge(c)
  BY <1>9, ReplayFrame, Zenon DEF Rests, Buffers, Stays
<1>10. CASE RestartClient(c)
  BY <1>10, RestartFrame, ElemsShort, Zenon DEF Buffers
<1>11. CASE AskMarkWatched(c) \/ FlushClient(c)
  <2>1. cl' = cl
    BY <1>11, Zenon DEF AskMarkWatched, FlushClient, cliVars
  <2> QED
    BY <1>3, <2>1, Zenon
<1>12. CASE \A d \in Clients : ~ClientNext(d)
  <2>1. cl' = cl
    BY <1>12, ServerStepFrame, ZenonT(60) DEF Next
  <2> QED
    BY <1>3, <2>1, Zenon
<1>13. CASE \E d \in Clients : d # c /\ ClientNext(d)
  BY <1>1, <1>3, <1>13, Zenon
<1>14. CASE ClientNext(c)
  BY <1>2, <1>4, <1>5, <1>6, <1>7, <1>8, <1>p, <1>9, <1>10, <1>11, <1>14, ZenonT(60) DEF ClientNext
<1> QED
  BY <1>12, <1>13, <1>14, Zenon

(* What a client stores. *)
LEMMA DiskMoves ==
    ASSUME TypeInv, Next, NEW c \in Clients
    PROVE  cDisk'[c] \in {cDisk[c], NoSnapshot, [epoch |-> cl[c].epoch, state |-> cl[c].state]}
<1>t. cDisk \in [Clients -> Snapshot]
  BY Zenon DEF TypeInv, TypeOK
<1>1. ASSUME NEW d \in Clients, FlushClient(d)
      PROVE  cDisk'[c] \in {cDisk[c], NoSnapshot, [epoch |-> cl[c].epoch, state |-> cl[c].state]}
  <2>1. cDisk' = [cDisk EXCEPT ![d] = [epoch |-> cl[d].epoch, state |-> cl[d].state]]
    BY <1>1, Zenon DEF FlushClient
  <2> QED
    BY <1>t, <2>1, Zenon
<1>2. ASSUME NEW d \in Clients, RestartClient(d)
      PROVE  cDisk'[c] \in {cDisk[c], NoSnapshot}
  <2>1. PICK snap \in {cDisk[d], NoSnapshot} : cDisk' = [cDisk EXCEPT ![d] = snap]
    BY <1>2, RestartFrame, Zenon
  <2> QED
    BY <1>t, <2>1, Zenon
<1>3. ASSUME NEW d \in Clients, ClientNext(d), ~FlushClient(d), ~RestartClient(d)
      PROVE  cDisk' = cDisk
  <2>1. CASE MutateMap(d) \/ MutateReg(d) \/ MutatePosition(d)
    BY <2>1, ZenonT(60) DEF MutateMap, MutateReg, MutatePosition, Mutate
  <2>2. CASE ClientReceives(d)
    BY <2>2, ZenonT(60) DEF ClientReceives, Connected, RecvStateOp, RecvStateMerge, RecvStateSnapshot, RecvStateHash
  <2>3. CASE AskMarkWatched(d) \/ Accept(d) \/ Disconnected(d) \/ RecvDatagram(d) \/ Replay(d) \/ ReplayPosition(d) \/ PushMerge(d)
    BY <2>3, ZenonT(60) DEF AskMarkWatched, Accept, Disconnected, RecvDatagram, Replay, ReplayPosition, PushMerge, cliVars
  <2> QED
    BY <1>3, <2>1, <2>2, <2>3, Zenon DEF ClientNext
<1>4. CASE \A d \in Clients : ~ClientNext(d)
  <2>1. cDisk' = cDisk
    BY <1>4, ServerStepFrame, ZenonT(60) DEF Next
  <2> QED
    BY <2>1, Zenon
<1>5. CASE \E d \in Clients : ClientNext(d)
  <2>1. PICK d \in Clients : ClientNext(d)
    BY <1>5, Zenon
  <2>2. CASE FlushClient(d)
    BY <1>1, <2>2, Zenon
  <2>3. CASE RestartClient(d)
    BY <1>2, <2>3, Zenon
  <2>4. CASE ~FlushClient(d) /\ ~RestartClient(d)
    BY <1>3, <2>1, <2>4, Zenon
  <2> QED
    BY <2>2, <2>3, <2>4, Zenon
<1> QED
  BY <1>4, <1>5, Zenon

-----------------------------------------------------------------------------
(* How a control stream towards the server changes. *)

\* What client c has to say: an op it writes while synced, the push that ends
\* the handshake, or a request.
Says(c, m) ==
    \/ \E op \in Op : cl[c].link = "Synced" /\ Writing(c, op, TRUE) /\ m = StateOp(cl[c].epoch, op)
    \/ PushMerge(c) /\ m.type = "StateMerge" /\ m.epoch = cl[c].epoch /\ m.state = cl[c].state
    \/ Connected(c) /\ m.type = "SyncStatus"
    \/ m.type \in {"MarkWatched", "RequestMerge"}

UpStep(k) ==
    \/ up'[k] = up[k]
    \/ up'[k] = <<>> /\ ~conns'[k].open
    \/ ServeReliable(k) /\ up[k] # <<>> /\ up'[k] = Tail(up[k])
    \/ \E c \in Clients, m \in ClientMsg : cl[c].conn = k /\ Says(c, m) /\ up'[k] = Append(up[k], m)

-----------------------------------------------------------------------------
(* How a client moves while it stays on its connection. *)

Idles(c) == cl'[c].link = cl[c].link /\ cl'[c].epoch = cl[c].epoch /\ cl'[c].state = cl[c].state

\* Takes an op of its epoch off its control stream or off a datagram.
HearsOp(c) ==
    /\ cl'[c].link = cl[c].link /\ cl'[c].epoch = cl[c].epoch
    /\ \E op \in Op :
         /\ cl'[c].state \in {Apply(cl[c].state, op), ApplyIfOrderly(cl[c].state, op)}
         /\ \/ StateOp(cl[c].epoch, op) \in Elems(down[cl[c].conn])
            \/ \E d \in dgrams : d.to = "client" /\ d.conn = cl[c].conn /\ d.epoch = cl[c].epoch /\ d.op = op

Writes(c) ==
    /\ cl'[c].link = cl[c].link /\ cl'[c].epoch = cl[c].epoch
    /\ \E op \in Op, b \in BOOLEAN : Writing(c, op, b) /\ cl'[c].state = Apply(cl[c].state, op)

\* Adopts or merges a state sent by the server.
Lands(c) ==
    /\ cl[c].link # "Replaying" /\ cl'[c].link = Landed(cl[c].link)
    /\ IsSync(Frame(c)) /\ Frame(c) \in ServerMsg /\ Frame(c) \in Elems(down[cl[c].conn])
    /\ cl'[c].epoch = Frame(c).epoch
    /\ Frame(c).epoch < cl[c].epoch => cl[c].link = "AwaitingSync"
    /\ \/ cl'[c].state = Frame(c).state
       \/ Frame(c).epoch = cl[c].epoch /\ cl'[c].state = Merge(cl[c].state, Frame(c).state)

ClientStep(c) ==
    \/ Idles(c) \/ HearsOp(c) \/ Writes(c) \/ Lands(c)
    \/ Connected(c) /\ cl'[c].link = "AwaitingSync"
    \/ /\ Replay(c) \/ ReplayPosition(c)
       /\ cl'[c].link = "Replaying" /\ cl[c].link = "Replaying" /\ cl'[c].epoch = cl[c].epoch
    \/ PushMerge(c) /\ cl[c].link = "Replaying" /\ cl'[c].link = "Synced"
       /\ cl'[c].epoch = cl[c].epoch /\ cl'[c].state = cl[c].state

-----------------------------------------------------------------------------
(* The hub knows most.  What is on its way to a client is behind the server, *)
(* unless the server has restarted since it was sent: then it is on a        *)
(* connection of the server's former life, which is not open.                *)

Crashless == left["crash"] = MaxServerRestarts

Sound(k) == conns[k].open \/ Crashless

Behind(m) ==
    /\ m.type = "StateOp" =>
         \/ m.epoch < sEpoch
         \/ m.epoch = sEpoch /\ (m.op.key # Reg => m.op.counter <= sState.clock[m.op.actor])
    /\ IsSync(m) => \/ m.epoch < sEpoch
                    \/ m.epoch = sEpoch /\ Covers(sState.clock, m.state.clock)

DownKnown == \A k \in Conns : Sound(k) => \A m \in Elems(down[k]) : Behind(m)

JobKnown == \A t \in Tasks : Heads(t) => Behind(Msg(t))

DgramKnown == \A d \in dgrams : d.to = "client" =>
                 conns[d.conn].user # 0 /\ (Sound(d.conn) => Behind(StateOp(d.epoch, d.op)))

\* All that a replica of client c's has of others' dots is known to the server.
Replica(c, e, s) ==
    \/ e < sEpoch
    \/ e = sEpoch /\ \A a \in Actors \ Sessions(c) : s.clock[a] <= sState.clock[a]

ReplicaKnown == Crashless => \A c \in Clients : /\ Replica(c, cl[c].epoch, cl[c].state)
                                                /\ Replica(c, cDisk[c].epoch, cDisk[c].state)

BuffersOwn == \A c \in Clients : /\ \A op \in Elems(cl[c].buffer) : op.actor \in Sessions(c)
                                 /\ \A op \in Elems(cl[c].position) : op.actor \in Sessions(c)

Known == left["crash"] <= MaxServerRestarts /\ DownKnown /\ JobKnown /\ DgramKnown /\ ReplicaKnown /\ BuffersOwn

(* An open connection was open, unless it was nobody's. *)
LEMMA OpenBack ==
    ASSUME TypeInv, Next, NEW k \in Conns, conns'[k].open
    PROVE  ~RestartServer /\ (conns[k].open \/ conns[k].user = 0)
<1> SUFFICES ~RestartServer /\ (conns[k].user # 0 => conns[k].open)
  BY Zenon
<1>t. conns \in [Conns -> Connection]
  BY Zenon DEF TypeInv, TypeOK
<1>1. ASSUME UNCHANGED conns
      PROVE  conns[k].user # 0 => conns[k].open
  BY <1>1, Zenon
<1>2. ASSUME NEW c \in Clients, Accept(c)
      PROVE  conns[k].user # 0 => conns[k].open
  <2>1. PICK j \in Conns : conns[j].user = 0
           /\ conns' = [conns EXCEPT ![j] = [user |-> c, open |-> TRUE, synced |-> FALSE]]
    BY <1>2, AcceptFrame, Zenon
  <2> QED
    BY <1>t, <2>1, Zenon
<1>3. ASSUME NEW j \in Conns, ServeSyncStatus(j)
      PROVE  conns[k].user # 0 => conns[k].open
  <2>1. conns' = [conns EXCEPT ![j].synced = TRUE]
    BY <1>3, Zenon DEF ServeSyncStatus
  <2> QED
    BY <1>t, <2>1, Zenon DEF Connection
<1>4. ASSUME NEW j \in Conns, EndConnection(j)
      PROVE  conns[k].user # 0 => conns[k].open
  <2>1. conns' = [conns EXCEPT ![j].open = FALSE]
    BY <1>4, Zenon DEF EndConnection
  <2> QED
    BY <1>t, <2>1, Zenon DEF Connection
<1>5. ~RestartServer
  <2>1. RestartServer => conns' = [j \in Conns |-> [conns[j] EXCEPT !.open = FALSE]]
    BY ZenonT(60) DEF RestartServer
  <2>2. RestartServer => ~conns'[k].open
    BY <1>t, <2>1, Zenon DEF Connection
  <2> QED
    BY <2>2, Zenon
<1> QED
  BY <1>1, <1>2, <1>3, <1>4, <1>5, ConnsFrame, Zenon

(* A client's present actors are its sessions'; these only grow. *)
LEMMA SessionsGrow ==
    ASSUME TypeInv, NEW c \in Clients
    PROVE  /\ \A a \in Mine(c) : a \in Sessions(c)
           /\ Next => \A a : a \in Sessions(c) => a \in Sessions(c)'
<1>1. cl[c].session \in Nat
  BY ClientFields, Zenon DEF TypeInv
<1>2. cl[c].session \in 0..cl[c].session
  BY <1>1
<1>3. ASSUME Next
      PROVE  \A n \in 0..cl[c].session : n \in 0..cl'[c].session
  <2>1. cl'[c].session = cl[c].session \/ cl'[c].session = cl[c].session + 1
    BY <1>3, ClientMoves, Zenon
  <2> QED
    BY <1>1, <2>1
<1>4. Sessions(c)' = UNION {{ActorOf(c, n), PosActorOf(c, n)} : n \in 0..cl'[c].session}
  BY Zenon DEF Sessions
<1>5. Next => \A a : a \in Sessions(c) => a \in Sessions(c)'
  <2> SUFFICES ASSUME Next, NEW a \in Sessions(c) PROVE a \in Sessions(c)'
    BY Zenon
  <2>1. PICK n \in 0..cl[c].session : a \in {ActorOf(c, n), PosActorOf(c, n)}
    BY Zenon DEF Sessions
  <2>2. n \in 0..cl'[c].session
    BY <1>3, Zenon
  <2> QED
    BY <1>4, <2>1, <2>2, Zenon
<1> QED
  BY <1>2, <1>5, Zenon DEF Me, MyPos, Mine, Sessions

\* What the proofs below rest on.
HubInv == TypeInv /\ Shapes /\ Wiring /\ Known

-----------------------------------------------------------------------------
(* Types. *)

(* Queueing a message keeps the queues' type. *)
LEMMA SendType ==
    ASSUME NEW M, NEW q \in [Conns -> Seq(M)], NEW k, NEW m \in M
    PROVE  Send(q, k, m) \in [Conns -> Seq(M)]
<1>1. \A s \in Seq(M) : Append(s, m) \in Seq(M)
  OBVIOUS
<1> QED
  BY <1>1, Zenon DEF Send

(* So does emptying one of them. *)
LEMMA ClearType ==
    ASSUME NEW M, NEW q \in [Conns -> Seq(M)], NEW k
    PROVE  [q EXCEPT ![k] = <<>>] \in [Conns -> Seq(M)]
<1>1. <<>> \in Seq(M)
  OBVIOUS
<1> QED
  BY <1>1, Zenon

(* Giving a task a list of jobs keeps the type of job. *)
LEMMA DoType ==
    ASSUME NEW t, NEW what \in Seq(Job), job \in [Tasks -> Seq(Job)], Do(t, what)
    PROVE  job' \in [Tasks -> Seq(Job)]
BY Zenon DEF Do

(* The datagram copies of an op are datagrams. *)
LEMMA EagerType ==
    ASSUME NEW ks \in SUBSET Conns, NEW e \in Nat, NEW op \in Op, NEW to \in {"server", "client"}
    PROVE  Eager(to, ks, e, op) \subseteq Dgram
BY DEF Eager, Dgram

(* Replacing a client's record by another of the same session. *)
LEMMA ReplaceClient ==
    ASSUME TypeInv, LeftOK, NEW c \in Clients, NEW r \in Client,
           r.session = cl[c].session, r.link # "Down" => r.conn # 0,
           cl' = [cl EXCEPT ![c] = r]
    PROVE  cl' \in [Clients -> Client] /\ SessionsBounded' /\ LinkedHasConn'
<1>1. cl \in [Clients -> Client] /\ left["session"] \in Nat /\ left'["session"] \in Nat
  BY Zenon DEF TypeInv, TypeOK, LeftOK, Budget
<1>2. cl' \in [Clients -> Client]
  BY <1>1, Zenon
<1>3. \A d \in Clients : cl'[d] = IF d = c THEN r ELSE cl[d]
  BY <1>1, Zenon
<1>4. \A d \in Clients : cl'[d].session = cl[d].session /\ cl[d].session \in Nat
  BY <1>1, <1>3, ZenonT(60) DEF Client
<1>5. SessionsBounded'
  BY <1>1, <1>4, BoundsAssumption DEF TypeInv, LeftOK, SessionsBounded
<1>6. LinkedHasConn'
  BY <1>3, Zenon DEF TypeInv, LinkedHasConn
<1> QED
  BY <1>2, <1>5, <1>6, Zenon

(* Leaving all clients and budgets alone. *)
LEMMA ClientsUnchanged ==
    ASSUME TypeInv, cl' = cl, LeftOK
    PROVE  cl' \in [Clients -> Client] /\ SessionsBounded' /\ LinkedHasConn'
<1>1. \A d \in Clients : cl[d].session \in Nat
  BY ClientFields, Zenon DEF TypeInv
<1>2. left["session"] \in Nat /\ left'["session"] \in Nat
  BY Zenon DEF TypeInv, TypeOK, LeftOK, Budget
<1> QED
  BY <1>1, <1>2, BoundsAssumption DEF TypeInv, TypeOK, LeftOK, SessionsBounded, LinkedHasConn

(* Not spending leaves the budgets as they are. *)
LEMMA LeftUnchanged ==
    ASSUME TypeOK, left' = left
    PROVE  LeftOK
BY DEF TypeOK, LeftOK, Budget

(* Spending leaves a budget, and no more restarts than before. *)
LEMMA SpendType ==
    ASSUME TypeOK, NEW b \in Budget, Spend(b)
    PROVE  LeftOK
BY DEF TypeOK, Spend, Budget, LeftOK

(* A local write keeps the types. *)
LEMMA MutateType ==
    ASSUME TypeInv, LeftOK, NEW c \in Clients, NEW op \in Op, NEW b \in BOOLEAN, Mutate(c, op, b)
    PROVE  TypeInv'
<1> DEFINE r == cl[c]
           online == r.link = "Synced"
           position == op.key \in Positions
           buffer == IF online \/ position THEN r.buffer ELSE Append(r.buffer, op)
           kept == IF online \/ ~position THEN r.position ELSE <<op>>
           ticked == r.ticked \/ (online /\ position /\ b)
           n == [r EXCEPT !.last = op.lww.ts, !.state = Apply(r.state, op),
                          !.buffer = buffer, !.position = kept, !.ticked = ticked]
           via == IF ~online THEN "offline" ELSE IF b THEN "eager" ELSE "datagram"
<1>1. r \in Client /\ r.state \in CrdtState /\ r.buffer \in Seq(Op) /\ r.position \in Seq(Op)
      /\ r.epoch \in Nat /\ r.conn \in Conns \cup {0} /\ r.ticked \in BOOLEAN
  BY ClientFields, Zenon DEF TypeInv
<1>2. Apply(r.state, op) \in CrdtState /\ op.lww.ts \in Nat
  BY <1>1, ApplyType, Zenon DEF Op, Lww
<1>3. buffer \in Seq(Op) /\ kept \in Seq(Op) /\ ticked \in BOOLEAN
  <2>1. Append(r.buffer, op) \in Seq(Op) /\ <<op>> \in Seq(Op)
    BY <1>1
  <2> QED
    BY <1>1, <2>1, Zenon
<1>5. cl' = [cl EXCEPT ![c] = n]
  BY Zenon DEF Mutate
<1>4. n \in Client /\ n.session = r.session /\ n.link = r.link /\ n.conn = r.conn
  <2> HIDE DEF buffer, kept, ticked
  <2> QED
    BY <1>1, <1>2, <1>3, ZenonT(60) DEF Client
<1>6. cl' \in [Clients -> Client] /\ SessionsBounded' /\ LinkedHasConn'
  <2> HIDE DEF n
  <2> QED
    BY <1>4, <1>5, ReplaceClient, ZenonT(60) DEF TypeInv, LinkedHasConn
<1>7. up' \in [Conns -> Seq(ClientMsg)]
  BY <1>1, StateOpType, SendType, ZenonT(60) DEF Mutate, TypeOK, TypeInv
<1>8. online => Eager("server", {r.conn}, r.epoch, op) \subseteq Dgram
  <2>1. online => {r.conn} \subseteq Conns
    BY <1>1, Zenon DEF TypeInv, LinkedHasConn
  <2> QED
    BY <1>1, <2>1, EagerType, ZenonT(60)
<1>9. dgrams' \subseteq Dgram
  BY <1>8, ZenonT(60) DEF Mutate, TypeInv, TypeOK
<1>10. issued' \subseteq [op : Op, by : Clients, via : Via]
  <2>1. via \in Via
    BY Zenon DEF Via
  <2>2. issued' = issued \cup {[op |-> op, by |-> c, via |-> via]}
    BY Zenon DEF Mutate
  <2> HIDE DEF via
  <2>3. [op |-> op, by |-> c, via |-> via] \in [op : Op, by : Clients, via : Via]
    BY <2>1, Zenon
  <2> QED
    BY <2>2, <2>3, ZenonT(60) DEF TypeInv, TypeOK
<1>11. left' \in [Budget -> Nat]
  BY Zenon DEF LeftOK
<1>12. UNCHANGED <<srvVars, connVars, job, down, cDisk>>
  BY Zenon DEF Mutate
<1>13. TypeOK'
  BY <1>6, <1>7, <1>9, <1>10, <1>11, <1>12, Zenon DEF TypeInv, TypeOK, srvVars, connVars
<1> QED
  BY <1>6, <1>13, Zenon DEF TypeInv

(* Writes of the user keep the types. *)
LEMMA WritesType ==
    ASSUME TypeInv, NEW c \in Clients, MutateMap(c) \/ MutateReg(c) \/ MutatePosition(c) \/ AskMarkWatched(c)
    PROVE  TypeInv'
<1>3. CASE MutateMap(c) \/ MutateReg(c) \/ MutatePosition(c)
  <2>1. PICK op \in Op, b \in BOOLEAN : Mutate(c, op, b)
    BY <1>3, WrittenOp, Zenon DEF Writing
  <2>2. LeftOK
    BY <1>3, SpendType, Zenon DEF MutateMap, MutateReg, MutatePosition, TypeInv, Budget
  <2> QED
    BY <2>1, <2>2, MutateType, Zenon
<1>4. CASE AskMarkWatched(c)
  <2>1. LeftOK
    BY <1>4, SpendType, Zenon DEF AskMarkWatched, TypeInv, Budget
  <2>2. PICK k \in Flags, v \in Values :
           up' = Send(up, cl[c].conn, [type |-> "MarkWatched", key |-> k, val |-> v])
    BY <1>4, Zenon DEF AskMarkWatched
  <2>3. [type |-> "MarkWatched", key |-> k, val |-> v] \in ClientMsg
    BY InputsAssumption, Zenon DEF ClientMsg
  <2>4. up' \in [Conns -> Seq(ClientMsg)]
    BY <2>2, <2>3, SendType, ZenonT(60) DEF TypeInv, TypeOK
  <2>5. UNCHANGED <<srvVars, connVars, job, down, dgrams, cliVars>>
    BY <1>4, Zenon DEF AskMarkWatched
  <2>6. cl' \in [Clients -> Client] /\ SessionsBounded' /\ LinkedHasConn'
    BY <2>1, <2>5, ClientsUnchanged, Zenon DEF cliVars
  <2>7. TypeOK'
    BY <2>1, <2>4, <2>5, <2>6, Zenon DEF TypeInv, TypeOK, LeftOK, srvVars, connVars, cliVars
  <2> QED
    BY <2>6, <2>7, Zenon DEF TypeInv
<1> QED
  BY <1>3, <1>4, Zenon

(* Connecting and losing the connection keep the types. *)
LEMMA ConnectionType ==
    ASSUME TypeInv, NEW c \in Clients, Accept(c) \/ Disconnected(c)
    PROVE  TypeInv'
<1>1. cl[c] \in Client /\ TypeOK
  BY ClientFields, Zenon DEF TypeInv
<1>2. CASE Accept(c)
  <2>1. PICK k \in Conns :
          /\ conns' = [conns EXCEPT ![k] = [user |-> c, open |-> TRUE, synced |-> FALSE]]
          /\ registry' = [registry EXCEPT ![c] = k]
          /\ cl' = [cl EXCEPT ![c].conn = k]
          /\ down' = Send(down, k, [type |-> "AuthOk"])
    BY <1>2, ZenonT(60) DEF Accept
  <2> DEFINE n == [cl[c] EXCEPT !.conn = k]
  <2>2. n \in Client /\ n.session = cl[c].session /\ n.conn # 0 /\ cl' = [cl EXCEPT ![c] = n]
    BY <1>1, <2>1 DEF Client, Conns
  <2>3. UNCHANGED <<srvVars, job, up, dgrams, cDisk, issued, left>> /\ LeftOK
    BY <1>1, <1>2, LeftUnchanged, Zenon DEF Accept
  <2>4. cl' \in [Clients -> Client] /\ SessionsBounded' /\ LinkedHasConn'
    <3> HIDE DEF n
    <3> QED
      BY <2>2, <2>3, ReplaceClient, Zenon
  <2>5. [type |-> "AuthOk"] \in ServerMsg
    BY Zenon DEF ServerMsg
  <2>6. down' \in [Conns -> Seq(ServerMsg)]
    BY <1>1, <2>1, <2>5, SendType, Zenon DEF TypeOK
  <2>7. conns' \in [Conns -> Connection] /\ registry' \in [Clients -> Conns \cup {0}]
    BY <1>1, <2>1, Zenon DEF TypeOK, Connection
  <2>8. TypeOK'
    BY <1>1, <2>3, <2>4, <2>6, <2>7, Zenon DEF TypeOK, srvVars
  <2> QED
    BY <2>4, <2>8, Zenon DEF TypeInv
<1>3. CASE Disconnected(c)
  <2>1. LeftOK
    BY <1>1, <1>3, SpendType, LeftUnchanged, Zenon DEF Disconnected, Budget
  <2> DEFINE n == [cl[c] EXCEPT !.conn = 0, !.link = "Down", !.mismatches = 0]
  <2>2. n \in Client /\ n.session = cl[c].session /\ n.link = "Down" /\ cl' = [cl EXCEPT ![c] = n]
    BY <1>1, <1>3, ZenonT(60) DEF Client, Disconnected, Link
  <2>3. cl' \in [Clients -> Client] /\ SessionsBounded' /\ LinkedHasConn'
    <3> HIDE DEF n
    <3> QED
      BY <2>1, <2>2, ReplaceClient, ZenonT(60)
  <2>4. down' \in [Conns -> Seq(ServerMsg)] /\ dgrams' \subseteq Dgram
    BY <1>1, <1>3, ClearType, ZenonT(60) DEF TypeOK, Disconnected
  <2>5. UNCHANGED <<srvVars, connVars, job, up, cDisk, issued>>
    BY <1>3, Zenon DEF Disconnected
  <2>6. TypeOK'
    BY <1>1, <2>1, <2>3, <2>4, <2>5, Zenon DEF TypeOK, LeftOK, srvVars, connVars
  <2> QED
    BY <2>3, <2>6, Zenon DEF TypeInv
<1> QED
  BY <1>2, <1>3, Zenon

(* Adopting or merging a state keeps the types. *)
LEMMA HoldType ==
    ASSUME TypeInv, NEW c \in Clients, NEW e \in Nat, NEW st \in CrdtState,
           Hold(c, e, st), left' = left, cl[c].conn # 0
    PROVE  cl' \in [Clients -> Client] /\ SessionsBounded' /\ LinkedHasConn'
<1>1. TypeOK /\ LeftOK
  BY LeftUnchanged, Zenon DEF TypeInv
<1>2. PICK floor \in Stamps(st) :
        cl' = [cl EXCEPT ![c].state = st, ![c].epoch = e, ![c].last = MaxOf(@, floor),
                         ![c].mismatches = 0, ![c].link = Landed(@)]
  BY ZenonT(60) DEF Hold
<1>3. cl[c] \in Client /\ cl[c].link \in Link /\ cl[c].last \in Nat
  BY <1>1, ClientFields, Zenon
<1>4. MaxOf(cl[c].last, floor) \in Nat
  BY <1>3, StampsNat, MaxOfProperties, Zenon
<1>5. Landed(cl[c].link) \in Link
  BY <1>3, Zenon DEF Landed, Link
<1> DEFINE n == [cl[c] EXCEPT !.state = st, !.epoch = e, !.last = MaxOf(cl[c].last, floor),
                              !.mismatches = 0, !.link = Landed(cl[c].link)]
<1>6. n \in Client /\ n.session = cl[c].session /\ n.conn # 0
  BY <1>3, <1>4, <1>5, ZenonT(60) DEF Client
<1>7. cl' = [cl EXCEPT ![c] = n]
  BY <1>1, <1>2, ZenonT(60) DEF TypeOK, Client
<1> HIDE DEF n
<1> QED
  BY <1>1, <1>6, <1>7, ReplaceClient, ZenonT(60)

(* Receiving ops keeps the types. *)
LEMMA RecvOpType ==
    ASSUME TypeInv, NEW c \in Clients, RecvStateOp(c) \/ RecvDatagram(c)
    PROVE  TypeInv'
<1>1. TypeOK /\ LeftOK /\ left' = left
  BY LeftUnchanged, Zenon DEF TypeInv, RecvStateOp, RecvDatagram
<1>2. cl[c] \in Client /\ cl[c].state \in CrdtState /\ cl[c].last \in Nat
  BY <1>1, ClientFields, Zenon
<1>3. ASSUME NEW e \in Nat, NEW st \in CrdtState, NEW op \in Op,
             cl' = [cl EXCEPT ![c] = Remote(cl[c], e, st, op)]
      PROVE  cl' \in [Clients -> Client] /\ SessionsBounded' /\ LinkedHasConn'
  <2>1. MaxOf(cl[c].last, op.lww.ts) \in Nat
    BY <1>2, MaxOfProperties, ZenonT(60) DEF Op, Lww
  <2>2. /\ Remote(cl[c], e, st, op) \in Client
        /\ Remote(cl[c], e, st, op).session = cl[c].session
        /\ Remote(cl[c], e, st, op).link = cl[c].link
        /\ Remote(cl[c], e, st, op).conn = cl[c].conn
    BY <1>2, <2>1, ZenonT(60) DEF Remote, Client
  <2> QED
    BY <1>1, <1>3, <2>2, ReplaceClient, ZenonT(60) DEF TypeInv, LinkedHasConn
<1>4. CASE RecvStateOp(c)
  <2>1. /\ Frame(c).epoch \in Nat /\ Frame(c).op \in Op
        /\ down' \in [Conns -> Seq(ServerMsg)]
    BY <1>1, <1>4, ReceivesType, ServerMsgFields, Zenon DEF RecvStateOp
  <2>2. cl' \in [Clients -> Client] /\ SessionsBounded' /\ LinkedHasConn'
    BY <1>2, <1>3, <1>4, <2>1, ApplyType, ZenonT(60) DEF RecvStateOp
  <2>3. UNCHANGED <<srvVars, connVars, job, up, dgrams, cDisk, issued, left>>
    BY <1>4, Zenon DEF RecvStateOp
  <2>4. TypeOK'
    BY <1>1, <2>1, <2>2, <2>3, Zenon DEF TypeOK, srvVars, connVars
  <2> QED
    BY <2>2, <2>4, Zenon DEF TypeInv
<1>5. CASE RecvDatagram(c)
  <2>1. PICK d \in dgrams :
          /\ cl' = [cl EXCEPT ![c] = Remote(cl[c], d.epoch, ApplyIfOrderly(cl[c].state, d.op), d.op)]
          /\ dgrams' = dgrams \ {d}
          /\ UNCHANGED <<srvVars, connVars, job, up, down, cDisk, issued, left>>
    BY <1>5, ZenonT(60) DEF RecvDatagram
  <2>2. d.epoch \in Nat /\ d.op \in Op
    BY <1>1, Zenon DEF TypeOK, Dgram
  <2>3. cl' \in [Clients -> Client] /\ SessionsBounded' /\ LinkedHasConn'
    BY <1>2, <1>3, <2>1, <2>2, ApplyType, ZenonT(60)
  <2>4. TypeOK'
    BY <1>1, <2>1, <2>3, Zenon DEF TypeOK, srvVars, connVars
  <2> QED
    BY <2>3, <2>4, Zenon DEF TypeInv
<1> QED
  BY <1>4, <1>5, Zenon

(* Receiving a merge or a snapshot keeps the types. *)
LEMMA RecvStateType ==
    ASSUME TypeInv, NEW c \in Clients, RecvStateMerge(c) \/ RecvStateSnapshot(c)
    PROVE  TypeInv'
<1>1. TypeOK /\ LeftOK /\ left' = left
  BY LeftUnchanged, Zenon DEF TypeInv, RecvStateMerge, RecvStateSnapshot
<1>2. UNCHANGED <<srvVars, connVars, job, up, dgrams, cDisk, issued, left>>
  BY Zenon DEF RecvStateMerge, RecvStateSnapshot
<1>3. cl[c].state \in CrdtState /\ cl[c].epoch \in Nat
  BY <1>1, ClientFields, Zenon
<1>4. PICK type \in {"StateMerge", "StateSnapshot"} : Receives(c, type)
  BY Zenon DEF RecvStateMerge, RecvStateSnapshot
<1>5. /\ Frame(c).epoch \in Nat /\ Frame(c).state \in CrdtState
      /\ down' \in [Conns -> Seq(ServerMsg)] /\ cl[c].conn # 0
  BY <1>1, <1>4, ReceivesType, ServerMsgFields DEF Conns
<1>6. Merge(cl[c].state, Frame(c).state) \in CrdtState
  BY <1>3, <1>5, MergeType, Zenon
<1>7. \/ Hold(c, cl[c].epoch, Merge(cl[c].state, Frame(c).state))
      \/ Hold(c, Frame(c).epoch, Frame(c).state)
      \/ cl' = cl
  BY Zenon DEF RecvStateMerge, RecvStateSnapshot
<1>8. cl' \in [Clients -> Client] /\ SessionsBounded' /\ LinkedHasConn'
  BY <1>1, <1>3, <1>5, <1>6, <1>7, HoldType, ClientsUnchanged, Zenon
<1>9. TypeOK'
  BY <1>1, <1>2, <1>5, <1>8, Zenon DEF TypeOK, srvVars, connVars
<1> QED
  BY <1>8, <1>9, Zenon DEF TypeInv

(* The handshake's first message and the divergence alarm keep the types. *)
LEMMA RecvControlType ==
    ASSUME TypeInv, NEW c \in Clients, Connected(c) \/ RecvStateHash(c)
    PROVE  TypeInv'
<1>1. TypeOK /\ LeftOK /\ left' = left
  BY LeftUnchanged, Zenon DEF TypeInv, Connected, RecvStateHash
<1>2. UNCHANGED <<srvVars, connVars, job, dgrams, cDisk, issued, left>>
  BY Zenon DEF Connected, RecvStateHash
<1>3. /\ cl[c] \in Client /\ cl[c].state \in CrdtState /\ cl[c].epoch \in Nat
      /\ cl[c].heals \in Nat /\ cl[c].mismatches \in Nat
  BY <1>1, ClientFields, Zenon
<1>4. PICK type \in {"AuthOk", "StateHash"} : Receives(c, type)
  BY Zenon DEF Connected, RecvStateHash
<1>5. down' \in [Conns -> Seq(ServerMsg)] /\ cl[c].conn # 0
  BY <1>1, <1>4, ReceivesType DEF Conns
<1>6. CASE Connected(c)
  <2> DEFINE n == [cl[c] EXCEPT !.link = "AwaitingSync"]
             m == [type |-> "SyncStatus", epoch |-> cl[c].epoch, hash |-> View(cl[c].state)]
  <2>1. n \in Client /\ n.session = cl[c].session /\ n.conn # 0 /\ cl' = [cl EXCEPT ![c] = n]
    BY <1>3, <1>5, <1>6, ZenonT(60) DEF Client, Connected, Link
  <2>2. m \in ClientMsg
    BY <1>3, ViewType, Zenon DEF ClientMsg
  <2>3. up' = Send(up, cl[c].conn, m)
    BY <1>6, Zenon DEF Connected
  <2> HIDE DEF n, m
  <2>4. cl' \in [Clients -> Client] /\ SessionsBounded' /\ LinkedHasConn'
    BY <1>1, <2>1, ReplaceClient, ZenonT(60)
  <2>5. up' \in [Conns -> Seq(ClientMsg)]
    BY <1>1, <2>2, <2>3, SendType, ZenonT(60) DEF TypeOK
  <2>6. TypeOK'
    BY <1>1, <1>2, <1>5, <2>4, <2>5, Zenon DEF TypeOK, srvVars, connVars
  <2> QED
    BY <2>4, <2>6, Zenon DEF TypeInv
<1>7. CASE RecvStateHash(c)
  <2> DEFINE m == Frame(c)
             r == cl[c]
             matches == View(r.state) = m.hash
             heal == ~matches /\ r.mismatches + 1 >= 2
             attempts == IF r.heals < HealAttemptsEscalate THEN r.heals + 1 ELSE r.heals
             n == IF m.epoch # r.epoch THEN r
                  ELSE IF matches THEN [r EXCEPT !.mismatches = 0, !.heals = 0]
                  ELSE IF heal THEN [r EXCEPT !.mismatches = 0, !.heals = attempts]
                  ELSE [r EXCEPT !.mismatches = r.mismatches + 1]
  <2>1. attempts \in Nat /\ r.mismatches + 1 \in Nat /\ r \in Client /\ r.conn # 0
    BY <1>3, <1>5
  <2>2. cl' = [cl EXCEPT ![c] = n]
    BY <1>7, Zenon DEF RecvStateHash
  <2>n. n \in Client /\ n.session = r.session /\ n.conn # 0
    <3> HIDE DEF m, r, matches, heal, attempts
    <3> QED
      BY <2>1, Zenon DEF Client
  <2> HIDE DEF n
  <2>3. cl' \in [Clients -> Client] /\ SessionsBounded' /\ LinkedHasConn'
    BY <1>1, <2>2, <2>n, ReplaceClient, ZenonT(60)
  <2>4. Send(up, cl[c].conn, [type |-> "RequestMerge"]) \in [Conns -> Seq(ClientMsg)]
    <3>1. [type |-> "RequestMerge"] \in ClientMsg
      BY Zenon DEF ClientMsg
    <3> QED
      BY <1>1, <3>1, SendType, ZenonT(60) DEF TypeOK
  <2>5. up' = up \/ up' = Send(up, cl[c].conn, [type |-> "RequestMerge"])
    BY <1>7, Zenon DEF RecvStateHash
  <2>6. up' \in [Conns -> Seq(ClientMsg)]
    BY <1>1, <2>4, <2>5, Zenon DEF TypeOK
  <2>7. TypeOK'
    BY <1>1, <1>2, <1>5, <2>3, <2>6, Zenon DEF TypeOK, srvVars, connVars
  <2> QED
    BY <2>3, <2>7, Zenon DEF TypeInv
<1> QED
  BY <1>6, <1>7, Zenon

(* Replaying the offline buffer and pushing the state up keep the types. *)
LEMMA SyncedType ==
    ASSUME TypeInv, NEW c \in Clients, Replay(c) \/ ReplayPosition(c) \/ PushMerge(c)
    PROVE  TypeInv'
<1>1. TypeOK /\ LeftOK
  BY LeftUnchanged, Zenon DEF TypeInv, Replay, ReplayPosition, PushMerge
<1>2. /\ cl[c] \in Client /\ cl[c].state \in CrdtState /\ cl[c].epoch \in Nat
      /\ cl[c].buffer \in Seq(Op) /\ cl[c].position \in Seq(Op)
  BY <1>1, ClientFields, Zenon
<1>3. cl[c].conn # 0
  BY Zenon DEF TypeInv, LinkedHasConn, Replay, ReplayPosition, PushMerge
<1>4. CASE Replay(c)
  <2>1. Head(cl[c].buffer) \in Op /\ Tail(cl[c].buffer) \in Seq(Op)
    BY <1>2, <1>4, QueueParts, Zenon DEF Replay
  <2>2. Apply(cl[c].state, Head(cl[c].buffer)) \in CrdtState
    BY <1>2, <2>1, ApplyType, Zenon
  <2> DEFINE n == [cl[c] EXCEPT !.state = Apply(cl[c].state, Head(cl[c].buffer)),
                                !.buffer = Tail(cl[c].buffer)]
  <2>3. n \in Client /\ n.session = cl[c].session /\ n.conn # 0
    BY <1>2, <1>3, <2>1, <2>2, ZenonT(60) DEF Client
  <2>4. cl' = [cl EXCEPT ![c] = n]
    BY <1>1, <1>4, Zenon DEF Replay, TypeOK, Client
  <2> HIDE DEF n
  <2>5. cl' \in [Clients -> Client] /\ SessionsBounded' /\ LinkedHasConn'
    BY <1>1, <2>3, <2>4, ReplaceClient, ZenonT(60)
  <2>6. UNCHANGED <<srvVars, connVars, job, netVars, cDisk, issued, left>>
    BY <1>4, Zenon DEF Replay
  <2>7. TypeOK'
    BY <1>1, <2>5, <2>6, Zenon DEF TypeOK, srvVars, connVars, netVars
  <2> QED
    BY <2>5, <2>7, Zenon DEF TypeInv
<1>p. CASE ReplayPosition(c)
  <2>1. Head(cl[c].position) \in Op /\ Tail(cl[c].position) \in Seq(Op)
    BY <1>2, <1>p, QueueParts, Zenon DEF ReplayPosition
  <2>2. Apply(cl[c].state, Head(cl[c].position)) \in CrdtState
    BY <1>2, <2>1, ApplyType, Zenon
  <2> DEFINE n == [cl[c] EXCEPT !.state = Apply(cl[c].state, Head(cl[c].position)),
                                !.position = Tail(cl[c].position)]
  <2>3. n \in Client /\ n.session = cl[c].session /\ n.conn # 0
    BY <1>2, <1>3, <2>1, <2>2, ZenonT(60) DEF Client
  <2>4. cl' = [cl EXCEPT ![c] = n]
    BY <1>1, <1>p, Zenon DEF ReplayPosition, TypeOK, Client
  <2> HIDE DEF n
  <2>5. cl' \in [Clients -> Client] /\ SessionsBounded' /\ LinkedHasConn'
    BY <1>1, <2>3, <2>4, ReplaceClient, ZenonT(60)
  <2>6. UNCHANGED <<srvVars, connVars, job, netVars, cDisk, issued, left>>
    BY <1>p, Zenon DEF ReplayPosition
  <2>7. TypeOK'
    BY <1>1, <2>5, <2>6, Zenon DEF TypeOK, srvVars, connVars, netVars
  <2> QED
    BY <2>5, <2>7, Zenon DEF TypeInv
<1>5. CASE PushMerge(c)
  <2> DEFINE n == [cl[c] EXCEPT !.link = "Synced"]
             m == [type |-> "StateMerge", epoch |-> cl[c].epoch, state |-> cl[c].state]
  <2>1. n \in Client /\ n.session = cl[c].session /\ n.conn # 0 /\ cl' = [cl EXCEPT ![c] = n]
    BY <1>2, <1>3, <1>5, Zenon DEF Client, PushMerge, Link
  <2>2. m \in ClientMsg
    BY <1>2, Zenon DEF ClientMsg
  <2>3. up' = Send(up, cl[c].conn, m)
    BY <1>5, Zenon DEF PushMerge
  <2> HIDE DEF n, m
  <2>4. cl' \in [Clients -> Client] /\ SessionsBounded' /\ LinkedHasConn'
    BY <1>1, <2>1, ReplaceClient, ZenonT(60)
  <2>5. up' \in [Conns -> Seq(ClientMsg)]
    BY <1>1, <2>2, <2>3, SendType, ZenonT(60) DEF TypeOK
  <2>6. UNCHANGED <<srvVars, connVars, job, down, dgrams, cDisk, issued, left>>
    BY <1>5, Zenon DEF PushMerge
  <2>7. TypeOK'
    BY <1>1, <2>4, <2>5, <2>6, Zenon DEF TypeOK, srvVars, connVars
  <2> QED
    BY <2>4, <2>7, Zenon DEF TypeInv
<1> QED
  BY <1>4, <1>p, <1>5, Zenon

(* Saving a client's state and restarting it from what was saved keep the types. *)
LEMMA ClientStorageType ==
    ASSUME TypeInv, NEW c \in Clients, FlushClient(c) \/ RestartClient(c)
    PROVE  TypeInv'
<1>1. TypeOK /\ cl[c].state \in CrdtState /\ cl[c].epoch \in Nat /\ cl[c].session \in Nat
  BY ClientFields, Zenon DEF TypeInv
<1>2. CASE FlushClient(c)
  <2>1. [epoch |-> cl[c].epoch, state |-> cl[c].state] \in Snapshot
    BY <1>1, Zenon DEF Snapshot
  <2>2. cDisk' \in [Clients -> Snapshot]
    BY <1>1, <1>2, <2>1, ZenonT(60) DEF FlushClient, TypeOK
  <2>3. UNCHANGED <<srvVars, connVars, job, netVars, cl, issued, left>> /\ LeftOK
    BY <1>1, <1>2, LeftUnchanged, Zenon DEF FlushClient
  <2>4. SessionsBounded' /\ LinkedHasConn'
    BY <2>3, ClientsUnchanged, Zenon
  <2>5. TypeOK'
    BY <1>1, <2>2, <2>3, Zenon DEF TypeOK, srvVars, connVars, netVars
  <2> QED
    BY <2>4, <2>5, Zenon DEF TypeInv
<1>3. CASE RestartClient(c)
  <2>1. PICK snap \in {cDisk[c], NoSnapshot},
             floor \in Stamps(cDisk[c].state) \cup {0} :
         /\ cl' = [cl EXCEPT ![c] = StartedClient(cl[c].session + 1, snap, floor)]
         /\ cDisk' = [cDisk EXCEPT ![c] = snap]
    BY <1>3, ZenonT(60) DEF RestartClient
  <2>2. cDisk[c] \in Snapshot /\ NoSnapshot \in Snapshot
    BY <1>1, EmptyStateType, Zenon DEF TypeOK, Snapshot, NoSnapshot
  <2>3. snap \in Snapshot /\ snap.state \in CrdtState /\ snap.epoch \in Nat /\ floor \in Nat
    <3>1. cDisk[c].state \in CrdtState
      BY <2>2, Zenon DEF Snapshot
    <3>2. floor \in Nat
      BY <3>1, StampsNat
    <3>3. snap \in Snapshot
      BY <2>2, Zenon
    <3> QED
      BY <3>2, <3>3, Zenon DEF Snapshot
  <2> DEFINE n == StartedClient(cl[c].session + 1, snap, floor)
  <2>4. n \in Client /\ n.session = cl[c].session + 1 /\ n.link = "Down"
    <3>1. <<>> \in Seq(Op)
      OBVIOUS
    <3> QED
      BY <1>1, <2>3, <3>1 DEF Client, Link, StartedClient
  <2>5. cl' = [cl EXCEPT ![c] = n] /\ cl \in [Clients -> Client]
    BY <1>1, <2>1, Zenon DEF TypeOK
  <2>6. /\ left' = [left EXCEPT !["session"] = @ - 1] /\ left \in [Budget -> Nat]
        /\ left["session"] > 0 /\ "session" \in Budget
    BY <1>1, <1>3, Zenon DEF RestartClient, Spend, TypeOK, Budget
  <2>7. left' \in [Budget -> Nat] /\ left'["session"] = left["session"] - 1 /\ left["session"] \in Nat
    BY <2>6
  <2> HIDE DEF n
  <2>8. cl' \in [Clients -> Client] /\ \A d \in Clients : cl'[d] = IF d = c THEN n ELSE cl[d]
    BY <2>4, <2>5, Zenon
  <2>9. SessionsBounded'
    <3> SUFFICES ASSUME NEW d \in Clients
                 PROVE  cl'[d].session + left'["session"] <= MaxClientRestarts
      BY Zenon DEF SessionsBounded
    <3>1. cl[d].session + left["session"] <= MaxClientRestarts /\ cl[d].session \in Nat
      BY <1>1, ClientFields, Zenon DEF TypeInv, SessionsBounded
    <3>2. cl'[d].session = cl[d].session \/ cl'[d].session = cl[d].session + 1
      BY <2>4, <2>8, Zenon
    <3> QED
      BY <2>7, <3>1, <3>2, BoundsAssumption
  <2>10. LinkedHasConn'
    BY <2>4, <2>8, Zenon DEF TypeInv, LinkedHasConn
  <2>11. down' \in [Conns -> Seq(ServerMsg)] /\ dgrams' \subseteq Dgram
    BY <1>1, <1>3, ClearType, ZenonT(60) DEF RestartClient, TypeOK
  <2>12. cDisk' \in [Clients -> Snapshot]
    BY <1>1, <2>1, <2>3, Zenon DEF TypeOK
  <2>13. UNCHANGED <<srvVars, connVars, job, up, issued>>
    BY <1>3, Zenon DEF RestartClient
  <2>14. TypeOK'
    BY <1>1, <2>7, <2>8, <2>11, <2>12, <2>13, ZenonT(60) DEF TypeOK, srvVars, connVars
  <2> QED
    BY <2>9, <2>10, <2>14, Zenon DEF TypeInv
<1> QED
  BY <1>2, <1>3, Zenon

(* What a step that leaves the clients alone has to show. *)
LEMMA ServerStepType ==
    ASSUME TypeInv, LeftOK, cliVars' = cliVars,
           sState' \in CrdtState, sEpoch' \in Nat, sLast' \in Nat, sDisk' \in Snapshot,
           registry' \in [Clients -> Conns \cup {0}], conns' \in [Conns -> Connection],
           job' \in [Tasks -> Seq(Job)], up' \in [Conns -> Seq(ClientMsg)],
           down' \in [Conns -> Seq(ServerMsg)], dgrams' \subseteq Dgram
    PROVE  TypeInv'
<1>1. cl' = cl /\ cDisk' = cDisk /\ issued' = issued /\ left' \in [Budget -> Nat]
  BY Zenon DEF cliVars, LeftOK
<1>2. SessionsBounded' /\ LinkedHasConn'
  BY <1>1, ClientsUnchanged, Zenon
<1>3. TypeOK'
  BY <1>1, Zenon DEF TypeInv, TypeOK
<1> QED
  BY <1>2, <1>3, Zenon DEF TypeInv

(* Serving an op. *)
LEMMA ServeOpType ==
    ASSUME TypeOK, NEW k \in Conns, NEW e \in Nat, NEW op \in Op, NEW via \in BOOLEAN,
           ServeOp(k, e, op, via)
    PROVE  /\ sState' \in CrdtState /\ sEpoch' \in Nat /\ sLast' \in Nat /\ sDisk' \in Snapshot
           /\ job' \in [Tasks -> Seq(Job)]
<1>1. sState \in CrdtState /\ sLast \in Nat /\ op.lww.ts \in Nat /\ job \in [Tasks -> Seq(Job)]
  BY Zenon DEF TypeOK, Op, Lww
<1>2. sState' \in CrdtState
  BY <1>1, ApplyType, ZenonT(60) DEF ServeOp
<1>3. sLast' \in Nat
  BY <1>1, MaxOfProperties, ZenonT(60) DEF ServeOp
<1>4. <<[do |-> RelayTransport(op, via), skip |-> k, msg |-> StateOp(e, op)]>> \in Seq(Job) /\ <<>> \in Seq(Job)
  BY RelayJob, JobLists, Zenon
<1>5. job' \in [Tasks -> Seq(Job)]
  BY <1>1, <1>4, DoType, ZenonT(60) DEF ServeOp
<1> QED
  BY <1>2, <1>3, <1>5, Zenon DEF ServeOp, TypeOK

(* The serve loop keeps the types: ops. *)
LEMMA ServeOpsType ==
    ASSUME TypeInv, NEW k \in Conns, ServeStateOp(k) \/ ServeDatagram(k)
    PROVE  TypeInv'
<1>1. TypeOK /\ LeftOK
  BY LeftUnchanged, ZenonT(60) DEF TypeInv, ServeStateOp, ServeDatagram
<1>2. CASE ServeStateOp(k)
  <2>1. /\ Head(up[k]).epoch \in Nat /\ Head(up[k]).op \in Op
        /\ up' \in [Conns -> Seq(ClientMsg)]
    BY <1>1, <1>2, ServesType, ClientMsgFields, ZenonT(60) DEF ServeStateOp
  <2>2. ServeOp(k, Head(up[k]).epoch, Head(up[k]).op, FALSE)
    BY <1>2, ZenonT(60) DEF ServeStateOp
  <2>3. UNCHANGED <<connVars, down, dgrams, cliVars, left>>
    BY <1>2, Zenon DEF ServeStateOp
  <2>4. /\ sState' \in CrdtState /\ sEpoch' \in Nat /\ sLast' \in Nat /\ sDisk' \in Snapshot
        /\ job' \in [Tasks -> Seq(Job)]
    BY <1>1, <2>1, <2>2, ServeOpType, ZenonT(60)
  <2> QED
    BY <1>1, <2>1, <2>3, <2>4, ServerStepType, ZenonT(60) DEF TypeOK, connVars
<1>3. CASE ServeDatagram(k)
  <2>1. PICK d \in dgrams : ServeOp(k, d.epoch, d.op, TRUE) /\ dgrams' = dgrams \ {d}
    BY <1>3, ZenonT(60) DEF ServeDatagram
  <2>2. d.epoch \in Nat /\ d.op \in Op
    BY <1>1, Zenon DEF TypeOK, Dgram
  <2>3. UNCHANGED <<connVars, up, down, cliVars, left>>
    BY <1>3, Zenon DEF ServeDatagram
  <2>4. /\ sState' \in CrdtState /\ sEpoch' \in Nat /\ sLast' \in Nat /\ sDisk' \in Snapshot
        /\ job' \in [Tasks -> Seq(Job)]
    BY <1>1, <2>1, <2>2, ServeOpType, ZenonT(60)
  <2> QED
    BY <1>1, <2>1, <2>3, <2>4, ServerStepType, Zenon DEF TypeOK, connVars
<1> QED
  BY <1>2, <1>3, Zenon

(* The serve loop keeps the types: the handshake and heals. *)
LEMMA ServeSyncType ==
    ASSUME TypeInv, NEW k \in Conns,
           ServeSyncStatus(k) \/ ServeRequestMerge(k) \/ ServeStateMerge(k)
    PROVE  TypeInv'
<1>1. TypeOK /\ LeftOK
  BY LeftUnchanged, Zenon DEF TypeInv, ServeSyncStatus, ServeRequestMerge, ServeStateMerge
<1>2. sState \in CrdtState /\ sEpoch \in Nat /\ sLast \in Nat /\ job \in [Tasks -> Seq(Job)]
  BY <1>1, Zenon DEF TypeOK
<1>3. \A type \in {"StateMerge", "StateSnapshot"} :
        <<[do |-> "send", to |-> k, msg |-> [type |-> type, epoch |-> sEpoch, state |-> sState]]>>
            \in Seq(Job)
  BY <1>2, StateMsgType, SendJob, JobLists, Zenon
<1>4. CASE ServeSyncStatus(k)
  <2>1. up' \in [Conns -> Seq(ClientMsg)]
    BY <1>1, <1>4, ServesType, Zenon DEF ServeSyncStatus
  <2>2. conns' \in [Conns -> Connection]
    BY <1>1, <1>4, ZenonT(60) DEF ServeSyncStatus, TypeOK, Connection
  <2>3. \/ Do(k, <<>>)
        \/ \E type \in {"StateMerge", "StateSnapshot"} :
             Do(k, <<[do |-> "send", to |-> k,
                      msg |-> [type |-> type, epoch |-> sEpoch, state |-> sState]]>>)
    BY <1>4, Zenon DEF ServeSyncStatus
  <2>4. job' \in [Tasks -> Seq(Job)]
    BY <1>2, <1>3, <2>3, DoType, JobLists, ZenonT(60)
  <2>5. UNCHANGED <<srvVars, registry, down, dgrams, cliVars, left>>
    BY <1>4, Zenon DEF ServeSyncStatus
  <2> QED
    BY <1>1, <2>1, <2>2, <2>4, <2>5, ServerStepType, Zenon DEF TypeOK, srvVars
<1>5. CASE ServeRequestMerge(k)
  <2>1. up' \in [Conns -> Seq(ClientMsg)]
    BY <1>1, <1>5, ServesType, Zenon DEF ServeRequestMerge
  <2>2. job' \in [Tasks -> Seq(Job)]
    BY <1>2, <1>3, <1>5, DoType, ZenonT(60) DEF ServeRequestMerge
  <2>3. UNCHANGED <<srvVars, connVars, down, dgrams, cliVars, left>>
    BY <1>5, Zenon DEF ServeRequestMerge
  <2> QED
    BY <1>1, <2>1, <2>2, <2>3, ServerStepType, Zenon DEF TypeOK, srvVars, connVars
<1>6. CASE ServeStateMerge(k)
  <2>1. up' \in [Conns -> Seq(ClientMsg)] /\ Head(up[k]).state \in CrdtState
    BY <1>1, <1>6, ServesType, ClientMsgFields, ZenonT(60) DEF ServeStateMerge
  <2>2. Merge(sState, Head(up[k]).state) \in CrdtState
    BY <1>2, <2>1, MergeType, Zenon
  <2>3. <<[do |-> "snapshot", type |-> "StateMerge"]>> \in Seq(Job)
    <3>1. [do |-> "snapshot", type |-> "StateMerge"] \in Job
      BY Zenon DEF Job
    <3> QED
      BY <3>1, JobLists, Zenon
  <2>4. \/ UNCHANGED <<sState, sLast, job>>
        \/ /\ sState' = Merge(sState, Head(up[k]).state)
           /\ \E floor \in Stamps(Merge(sState, Head(up[k]).state)) : sLast' = MaxOf(sLast, floor)
           /\ Do(k, <<[do |-> "snapshot", type |-> "StateMerge"]>>)
    BY <1>6, ZenonT(60) DEF ServeStateMerge
  <2>5. sState' \in CrdtState /\ sLast' \in Nat /\ job' \in [Tasks -> Seq(Job)]
    BY <1>2, <2>2, <2>3, <2>4, DoType, StampsNat, MaxOfProperties, ZenonT(60)
  <2>6. UNCHANGED <<sEpoch, sDisk, connVars, down, dgrams, cliVars, left>>
    BY <1>6, ZenonT(60) DEF ServeStateMerge
  <2> QED
    BY <1>1, <2>1, <2>5, <2>6, ServerStepType, Zenon DEF TypeOK, connVars
<1> QED
  BY <1>4, <1>5, <1>6, Zenon

(* The serve loop keeps the types: watched flags and the end of a connection. *)
LEMMA ServeRestType ==
    ASSUME TypeInv, NEW k \in Conns, ServeMarkWatched(k) \/ EndConnection(k)
    PROVE  TypeInv'
<1>1. TypeOK /\ sState \in CrdtState /\ sLast \in Nat /\ sEpoch \in Nat /\ job \in [Tasks -> Seq(Job)]
  BY Zenon DEF TypeInv, TypeOK
<1>2. CASE ServeMarkWatched(k)
  <2>1. LeftOK
    BY <1>1, <1>2, LeftUnchanged, ZenonT(60) DEF ServeMarkWatched
  <2>2. up' \in [Conns -> Seq(ClientMsg)] /\ Head(up[k]).key \in Keys /\ Head(up[k]).val \in Nat
    BY <1>1, <1>2, ServesType, ClientMsgFields, ZenonT(60) DEF ServeMarkWatched
  <2>3. UNCHANGED <<sEpoch, sDisk, connVars, down, dgrams, cliVars, left>>
    BY <1>2, ZenonT(60) DEF ServeMarkWatched
  <2> DEFINE mark(ts) == [actor |-> Server, counter |-> sState.clock[Server] + 1,
                          key |-> Head(up[k]).key, lww |-> [ts |-> ts, val |-> Head(up[k]).val]]
  <2>4. \/ UNCHANGED <<sState, sLast, job>>
        \/ \E now \in Clocks :
             /\ sLast' = Stamp(sLast, now)
             /\ sState' = Apply(sState, mark(Stamp(sLast, now)))
             /\ Do(k, <<[do |-> "broadcast", skip |-> 0,
                         msg |-> StateOp(sEpoch, mark(Stamp(sLast, now)))]>>)
    BY <1>2, ZenonT(60) DEF ServeMarkWatched
  <2>5. \A ts \in Nat : mark(ts) \in Op
    BY <1>1, <2>2, MarkOpType, Zenon
  <2> HIDE DEF mark
  <2>6. \A now \in Clocks : Stamp(sLast, now) \in Nat
    BY <1>1, InputsAssumption, StampProperties, ZenonT(60)
  <2>7. \A ts \in Nat : <<[do |-> "broadcast", skip |-> 0, msg |-> StateOp(sEpoch, mark(ts))]>> \in Seq(Job)
    BY <1>1, <2>5, StateOpType, BroadcastJob, JobLists, Zenon
  <2>8. sState' \in CrdtState /\ sLast' \in Nat /\ job' \in [Tasks -> Seq(Job)]
    BY <1>1, <2>4, <2>5, <2>6, <2>7, ApplyType, DoType, ZenonT(60)
  <2> QED
    BY <1>1, <2>1, <2>2, <2>3, <2>8, ServerStepType, ZenonT(60) DEF TypeOK, connVars
<1>3. CASE EndConnection(k)
  <2>1. LeftOK
    BY <1>1, <1>3, SpendType, LeftUnchanged, Zenon DEF EndConnection, Budget
  <2>2. conns' \in [Conns -> Connection] /\ registry' \in [Clients -> Conns \cup {0}]
    BY <1>1, <1>3, ZenonT(60) DEF EndConnection, TypeOK, Connection
  <2>3. up' \in [Conns -> Seq(ClientMsg)] /\ dgrams' \subseteq Dgram
    BY <1>1, <1>3, ClearType, Zenon DEF EndConnection, TypeOK
  <2>4. UNCHANGED <<srvVars, job, down, cliVars>>
    BY <1>3, Zenon DEF EndConnection
  <2> QED
    BY <1>1, <2>1, <2>2, <2>3, <2>4, ServerStepType, Zenon DEF TypeOK, srvVars
<1> QED
  BY <1>2, <1>3, Zenon

(* The background tasks keep the types. *)
LEMMA BackgroundType ==
    ASSUME Ranked, TypeInv, Compact \/ HashTick \/ ForcePause
    PROVE  TypeInv'
<1>1. TypeOK /\ sState \in CrdtState /\ sLast \in Nat /\ sEpoch \in Nat /\ job \in [Tasks -> Seq(Job)]
  BY Zenon DEF TypeInv, TypeOK
<1>2. CASE Compact
  <2>1. LeftOK
    BY <1>1, <1>2, SpendType, ZenonT(60) DEF Compact, Budget
  <2>2. PICK now \in Clocks : /\ sState' = Rebuild(sState, MaxOf(sLast, now - 1))
                              /\ sLast' = RebuildLast(sState, MaxOf(sLast, now - 1))
    BY <1>2, Zenon DEF Compact
  <2>3. MaxOf(sLast, now - 1) \in Nat
    BY <1>1, InputsAssumption DEF MaxOf
  <2>4. sState' \in CrdtState /\ sLast' \in Nat
    BY <1>1, <2>2, <2>3, RebuildType, Zenon
  <2>5. /\ [do |-> "snapshot", type |-> "StateSnapshot"] \in Job
        /\ [do |-> "flush"] \in Job
    BY Zenon DEF Job
  <2>6. <<[do |-> "snapshot", type |-> "StateSnapshot"], [do |-> "flush"]>> \in Seq(Job)
    BY <2>5, JobLists, Zenon
  <2>7. job' \in [Tasks -> Seq(Job)]
    BY <1>1, <1>2, <2>6, DoType, ZenonT(60) DEF Compact
  <2>8. sEpoch' \in Nat /\ UNCHANGED <<sDisk, connVars, netVars, cliVars>>
    BY <1>1, <1>2 DEF Compact
  <2> QED
    BY <1>1, <2>1, <2>4, <2>7, <2>8, ServerStepType, Zenon DEF TypeOK, connVars, netVars
<1>3. CASE HashTick
  <2>1. UNCHANGED <<srvVars, connVars, netVars, cliVars, left>> /\ LeftOK
    BY <1>1, <1>3, LeftUnchanged, ZenonT(60) DEF HashTick
  <2>2. [type |-> "StateHash", epoch |-> sEpoch, hash |-> View(sState)] \in ServerMsg
    BY <1>1, ViewType, Zenon DEF ServerMsg
  <2>3. <<[do |-> "broadcast", skip |-> 0,
           msg |-> [type |-> "StateHash", epoch |-> sEpoch, hash |-> View(sState)]]>> \in Seq(Job)
    BY <2>2, BroadcastJob, JobLists, ZenonT(60)
  <2>4. job' \in [Tasks -> Seq(Job)]
    BY <1>1, <1>3, <2>3, DoType, ZenonT(60) DEF HashTick
  <2> QED
    BY <1>1, <2>1, <2>4, ServerStepType, Zenon DEF TypeOK, srvVars, connVars, netVars
<1>4. CASE ForcePause
  <2>1. LeftOK
    BY <1>1, <1>4, SpendType, Zenon DEF ForcePause, Budget
  <2>2. PICK now \in Clocks : /\ sLast' = Stamp(sLast, now)
                              /\ Do(Sweeper, <<[do |-> "pause", ts |-> Stamp(sLast, now)]>>)
    BY <1>4, ZenonT(60) DEF ForcePause
  <2>3. Stamp(sLast, now) \in Nat
    BY <1>1, InputsAssumption, StampProperties, ZenonT(60)
  <2>4. <<[do |-> "pause", ts |-> Stamp(sLast, now)]>> \in Seq(Job)
    <3>1. [do |-> "pause", ts |-> Stamp(sLast, now)] \in Job
      BY <2>3, Zenon DEF Job
    <3> QED
      BY <3>1, JobLists, Zenon
  <2>5. job' \in [Tasks -> Seq(Job)]
    BY <1>1, <2>2, <2>4, DoType, ZenonT(60)
  <2>6. UNCHANGED <<sState, sEpoch, sDisk, connVars, netVars, cliVars>>
    BY <1>4, Zenon DEF ForcePause
  <2> QED
    BY <1>1, <2>1, <2>2, <2>3, <2>5, <2>6, ServerStepType, Zenon DEF TypeOK, connVars, netVars
<1> QED
  BY <1>2, <1>3, <1>4, Zenon

(* Saving the server's state and restarting from what was saved keep the types. *)
LEMMA ServerStorageType ==
    ASSUME TypeInv, FlushServer \/ RestartServer
    PROVE  TypeInv'
<1>1. TypeOK
  BY Zenon DEF TypeInv
<1>2. CASE FlushServer
  <2>1. UNCHANGED <<sState, sEpoch, sLast, connVars, job, netVars, cliVars, left>> /\ LeftOK
    BY <1>1, <1>2, LeftUnchanged, Zenon DEF FlushServer
  <2>2. sDisk' \in Snapshot
    BY <1>1, <1>2, Zenon DEF FlushServer, TypeOK, Snapshot
  <2> QED
    BY <1>1, <2>1, <2>2, ServerStepType, Zenon DEF TypeOK, connVars, netVars
<1>3. CASE RestartServer
  <2>1. LeftOK
    BY <1>1, <1>3, SpendType, Zenon DEF RestartServer, Budget
  <2>2. sState' \in CrdtState /\ sEpoch' \in Nat /\ sDisk' \in Snapshot
    BY <1>1, <1>3, Zenon DEF RestartServer, TypeOK, Snapshot
  <2>3. sLast' \in Nat
    BY <1>3, <2>2, StampsNat, Zenon DEF RestartServer
  <2>4. conns' \in [Conns -> Connection] /\ registry' \in [Clients -> Conns \cup {0}]
    BY <1>1, <1>3, ZenonT(60) DEF RestartServer, TypeOK, Connection
  <2>5. job' \in [Tasks -> Seq(Job)] /\ up' \in [Conns -> Seq(ClientMsg)]
    BY <1>3 DEF RestartServer
  <2>6. dgrams' \subseteq Dgram /\ down' \in [Conns -> Seq(ServerMsg)] /\ cliVars' = cliVars
    BY <1>1, <1>3, Zenon DEF RestartServer, TypeOK
  <2> QED
    BY <1>1, <2>1, <2>2, <2>3, <2>4, <2>5, <2>6, ServerStepType, Zenon
<1> QED
  BY <1>2, <1>3, Zenon

(* The unlocked parts of the server's tasks keep the types. *)
LEMMA TaskType ==
    ASSUME TypeInv, NEW t \in Tasks, TaskNext(t)
    PROVE  TypeInv'
<1>1. TypeOK /\ LeftOK /\ job \in [Tasks -> Seq(Job)]
  BY LeftUnchanged, ZenonT(60) DEF TypeInv, TypeOK, TaskNext, TaskSend, TaskBroadcast, TaskRelay, TaskSnapshot,
     TaskPause, TaskFlush
<1>2. CASE TaskSend(t)
  <2>1. /\ Tail(job[t]) \in Seq(Job) /\ Head(job[t]).msg \in ServerMsg
    BY <1>1, <1>2, TodoType, JobFields, Zenon DEF TaskSend
  <2>2. down' \in [Conns -> Seq(ServerMsg)]
    BY <1>1, <1>2, <2>1, SendType, ZenonT(60) DEF TaskSend, Queue, TypeOK
  <2>3. job' \in [Tasks -> Seq(Job)]
    BY <1>1, <1>2, <2>1, DoType, ZenonT(60) DEF TaskSend
  <2>4. UNCHANGED <<srvVars, connVars, up, dgrams, cliVars, left>>
    BY <1>2, Zenon DEF TaskSend
  <2> QED
    BY <1>1, <2>2, <2>3, <2>4, ServerStepType, ZenonT(60) DEF TypeOK, srvVars, connVars
<1>3. CASE TaskBroadcast(t)
  <2> DEFINE w == Head(job[t])
             to == Recipients(w.skip)
  <2>1. Tail(job[t]) \in Seq(Job) /\ w.msg \in ServerMsg
    BY <1>1, <1>3, TodoType, JobFields, ZenonT(60) DEF TaskBroadcast
  <2>2. /\ down' = [k \in Conns |-> IF k \in to THEN Append(down[k], w.msg) ELSE down[k]]
        /\ dgrams' = IF w.msg.type = "StateOp"
                     THEN dgrams \cup Eager("client", to, w.msg.epoch, w.msg.op) ELSE dgrams
        /\ Do(t, Tail(job[t]))
        /\ UNCHANGED <<srvVars, connVars, up, cliVars, left>>
    BY <1>3, Zenon DEF TaskBroadcast
  <2>3. to \subseteq Conns
    BY Zenon DEF Recipients
  <2> HIDE DEF w, to
  <2>4. down' \in [Conns -> Seq(ServerMsg)]
    <3>1. \A k \in Conns : /\ down[k] \in Seq(ServerMsg)
                           /\ Append(down[k], w.msg) \in Seq(ServerMsg)
      BY <1>1, <2>1 DEF TypeOK
    <3> QED
      BY <2>2, <3>1, Zenon
  <2>5. dgrams' \subseteq Dgram
    BY <1>1, <2>1, <2>2, <2>3, ServerMsgFields, EagerType, ZenonT(60) DEF TypeOK
  <2>6. job' \in [Tasks -> Seq(Job)]
    BY <1>1, <2>1, <2>2, DoType, ZenonT(60)
  <2> QED
    BY <1>1, <2>2, <2>4, <2>5, <2>6, ServerStepType, ZenonT(60) DEF TypeOK, srvVars, connVars
<1>r. CASE TaskRelay(t)
  <2> DEFINE w == Head(job[t])
             to == Recipients(w.skip)
  <2>1. Tail(job[t]) \in Seq(Job) /\ w.msg \in ServerMsg /\ w.msg.type = "StateOp"
    BY <1>1, <1>r, TodoType, JobFields, RelayFields, ZenonT(60) DEF TaskRelay
  <2>2. /\ dgrams' = dgrams \cup Eager("client", to, w.msg.epoch, w.msg.op)
        /\ Do(t, Tail(job[t]))
        /\ UNCHANGED <<srvVars, connVars, up, down, cliVars, left>>
    BY <1>r, Zenon DEF TaskRelay
  <2>3. to \subseteq Conns
    BY Zenon DEF Recipients
  <2> HIDE DEF w, to
  <2>4. dgrams' \subseteq Dgram
    BY <1>1, <2>1, <2>2, <2>3, ServerMsgFields, EagerType, ZenonT(60) DEF TypeOK
  <2>5. job' \in [Tasks -> Seq(Job)]
    BY <1>1, <2>1, <2>2, DoType, ZenonT(60)
  <2> QED
    BY <1>1, <2>2, <2>4, <2>5, ServerStepType, ZenonT(60) DEF TypeOK, srvVars, connVars
<1>4. CASE TaskSnapshot(t)
  <2> DEFINE m == [type |-> Head(job[t]).type, epoch |-> sEpoch, state |-> sState]
  <2>1. Tail(job[t]) \in Seq(Job) /\ m \in ServerMsg
    <3>1. Tail(job[t]) \in Seq(Job) /\ Head(job[t]).type \in {"StateMerge", "StateSnapshot"}
      BY <1>1, <1>4, TodoType, SnapshotFields, Zenon DEF TaskSnapshot
    <3> QED
      BY <1>1, <3>1, StateMsgType, ZenonT(60) DEF TypeOK
  <2>2. /\ Do(t, <<[do |-> "broadcast", skip |-> 0, msg |-> m]>> \o Tail(job[t]))
        /\ UNCHANGED <<srvVars, connVars, netVars, cliVars, left>>
    BY <1>4, Zenon DEF TaskSnapshot
  <2> HIDE DEF m
  <2>3. <<[do |-> "broadcast", skip |-> 0, msg |-> m]>> \o Tail(job[t]) \in Seq(Job)
    BY <2>1, BroadcastJob, JobLists, Zenon
  <2>4. job' \in [Tasks -> Seq(Job)]
    BY <1>1, <2>2, <2>3, DoType, ZenonT(60)
  <2> QED
    BY <1>1, <2>2, <2>4, ServerStepType, Zenon DEF TypeOK, srvVars, connVars, netVars
<1>5. CASE TaskPause(t)
  <2> DEFINE op == [actor |-> Server, counter |-> 0, key |-> Reg,
                    lww |-> [ts |-> Head(job[t]).ts, val |-> Paused]]
  <2>1. Tail(job[t]) \in Seq(Job) /\ op \in Op
    <3>1. Tail(job[t]) \in Seq(Job) /\ Head(job[t]).ts \in Nat
      BY <1>1, <1>5, TodoType, PauseFields, ZenonT(60) DEF TaskPause
    <3> QED
      BY <3>1, PauseOpType, Zenon
  <2>2. /\ sState' = Apply(sState, op)
        /\ Do(t, <<[do |-> "broadcast", skip |-> 0, msg |-> StateOp(sEpoch, op)]>> \o Tail(job[t]))
        /\ UNCHANGED <<sEpoch, sLast, sDisk, connVars, netVars, cliVars, left>>
    BY <1>5, ZenonT(60) DEF TaskPause
  <2> HIDE DEF op
  <2>3. sState' \in CrdtState
    BY <1>1, <2>1, <2>2, ApplyType, Zenon DEF TypeOK
  <2>4. <<[do |-> "broadcast", skip |-> 0, msg |-> StateOp(sEpoch, op)]>> \o Tail(job[t]) \in Seq(Job)
    <3>1. StateOp(sEpoch, op) \in ServerMsg
      BY <1>1, <2>1, StateOpType, Zenon DEF TypeOK
    <3> QED
      BY <2>1, <3>1, BroadcastJob, JobLists, Zenon
  <2>5. job' \in [Tasks -> Seq(Job)]
    BY <1>1, <2>2, <2>4, DoType, ZenonT(60)
  <2> QED
    BY <1>1, <2>2, <2>3, <2>5, ServerStepType, ZenonT(60) DEF TypeOK, connVars, netVars
<1>6. CASE TaskFlush(t)
  <2>1. Tail(job[t]) \in Seq(Job)
    BY <1>1, <1>6, TodoType, Zenon DEF TaskFlush
  <2>2. job' \in [Tasks -> Seq(Job)]
    BY <1>1, <1>6, <2>1, DoType, ZenonT(60) DEF TaskFlush
  <2>3. sDisk' \in Snapshot
    BY <1>1, <1>6, Zenon DEF TaskFlush, TypeOK, Snapshot
  <2>4. UNCHANGED <<sState, sEpoch, sLast, connVars, netVars, cliVars, left>>
    BY <1>6, Zenon DEF TaskFlush
  <2> QED
    BY <1>1, <2>2, <2>3, <2>4, ServerStepType, Zenon DEF TypeOK, connVars, netVars
<1> QED
  BY <1>2, <1>3, <1>r, <1>4, <1>5, <1>6, Zenon DEF TaskNext

(* The initial state has the types. *)
LEMMA InitType == Init => TypeInv
<1> SUFFICES ASSUME Init PROVE TypeInv
  BY Zenon
<1>1. EmptyState \in CrdtState /\ NoSnapshot \in Snapshot
  BY EmptyStateType, ZenonT(60) DEF NoSnapshot, Snapshot
<1>2. StartedClient(0, NoSnapshot, 0) \in Client
  <2>1. <<>> \in Seq(Op)
    OBVIOUS
  <2> QED
    BY <1>1, <2>1, ZenonT(60) DEF StartedClient, NoSnapshot, Client, Link
<1>3. left \in [Budget -> Nat] /\ left["session"] = MaxClientRestarts
  <2>1. left = Allowance
    BY Zenon DEF Init
  <2>2. Allowance \in [Budget -> Nat] /\ Allowance["session"] = MaxClientRestarts
    BY BoundsAssumption, ZenonT(60) DEF Allowance, Budget
  <2> QED
    BY <2>1, <2>2, Zenon
<1>4. cl \in [Clients -> Client] /\ LinkedHasConn
  BY <1>2, ZenonT(60) DEF Init, LinkedHasConn, StartedClient
<1>5. SessionsBounded
  BY <1>3, BoundsAssumption DEF Init, SessionsBounded, StartedClient
<1>6. conns \in [Conns -> Connection]
  BY Zenon DEF Init, Connection
<1>7. /\ job \in [Tasks -> Seq(Job)] /\ up \in [Conns -> Seq(ClientMsg)]
      /\ down \in [Conns -> Seq(ServerMsg)]
  BY DEF Init
<1>8. sDisk \in Snapshot /\ cDisk \in [Clients -> Snapshot]
  BY <1>1, Zenon DEF Init, Snapshot
<1>9. TypeOK
  BY <1>1, <1>3, <1>4, <1>6, <1>7, <1>8, Zenon DEF Init, TypeOK
<1> QED
  BY <1>4, <1>5, <1>9, Zenon DEF TypeInv

(* Every step keeps the types. *)
LEMMA NextType ==
    ASSUME Ranked, TypeInv, [Next]_vars
    PROVE  TypeInv'
<1>1. CASE \E c \in Clients : ClientNext(c)
  BY <1>1, WritesType, ConnectionType, RecvOpType, RecvStateType, RecvControlType, SyncedType,
     ClientStorageType, Zenon DEF ClientNext, ClientReceives
<1>2. CASE \E k \in Conns : ServeReliable(k) \/ ServeDatagram(k) \/ EndConnection(k)
  BY <1>2, ServeOpsType, ServeSyncType, ServeRestType, Zenon DEF ServeReliable
<1>3. CASE \E t \in Tasks : TaskNext(t)
  BY <1>3, TaskType, Zenon
<1>4. CASE Compact \/ HashTick \/ ForcePause \/ FlushServer \/ RestartServer
  BY <1>4, BackgroundType, ServerStorageType, Zenon
<1>5. CASE UNCHANGED vars
  BY <1>5, Zenon DEF TypeInv, TypeOK, SessionsBounded, LinkedHasConn, vars, srvVars, connVars,
     netVars, cliVars
<1> QED
  BY <1>1, <1>2, <1>3, <1>4, <1>5, Zenon DEF Next

-----------------------------------------------------------------------------
(* The hub. *)

(* A queue is empty when there is nothing in it. *)
LEMMA ElemsEmpty ==
    ASSUME NEW M, NEW q \in Seq(M), \A x : x \notin Elems(q)
    PROVE  q = <<>>
BY ElemsType, Zenon

(* The tasks' jobs keep their shape. *)
LEMMA ShapesKept ==
    ASSUME TypeInv, Shapes, [Next]_vars
    PROVE  Shapes'
<1>1. CASE Next
  <2>1. ASSUME NEW t \in Tasks
        PROVE  Proper(t, job'[t])
    <3>1. JobStep(t)
      BY <1>1, JobMoves, Zenon
    <3>2. Proper(t, job[t])
      BY Zenon DEF Shapes
    <3> QED
      BY <3>1, <3>2, Zenon DEF JobStep
  <2> QED
    BY <2>1, Zenon DEF Shapes
<1>2. CASE UNCHANGED vars
  BY <1>2, ZenonT(60) DEF vars, Shapes
<1> QED
  BY <1>1, <1>2, Zenon

(* Only an open connection's serve loop is given something to do. *)
LEMMA JobOpen ==
    ASSUME TypeInv, Attended, Next, NEW k \in Conns
    PROVE  job'[k] \in {job[k], <<>>} \/ conns[k].open
<1>1. ASSUME NEW c \in Clients, ClientNext(c)
      PROVE  job' = job
  BY <1>1, ClientStepFrame, Zenon
<1>2. ASSUME NEW t \in Tasks, NEW what, Do(t, what), t \in Conns => conns[t].open
      PROVE  job'[k] \in {job[k], <<>>} \/ conns[k].open
  BY <1>2, DoFrame, TaskNames, Zenon
<1>3. ASSUME NEW j \in Conns, ServeReliable(j) \/ ServeDatagram(j) \/ EndConnection(j)
      PROVE  job'[k] \in {job[k], <<>>} \/ conns[k].open
  <2>1. conns[j].open /\ j \in Tasks
    BY <1>3, TaskNames, ZenonT(60) DEF ServeReliable, ServeStateOp, ServeSyncStatus, ServeRequestMerge, ServeStateMerge,
          ServeMarkWatched, ServeDatagram, EndConnection, Serves, Serving
  <2>2. job' = job \/ \E what : Do(j, what)
    <3>1. CASE ServeReliable(j) \/ ServeDatagram(j)
      BY <3>1, ZenonT(60) DEF ServeReliable, ServeStateOp, ServeSyncStatus, ServeRequestMerge, ServeStateMerge,
            ServeMarkWatched, ServeDatagram, ServeOp
    <3>2. CASE EndConnection(j)
      BY <3>2, ZenonT(60) DEF EndConnection
    <3> QED
      BY <1>3, <3>1, <3>2, Zenon
  <2> QED
    BY <1>2, <2>1, <2>2, Zenon
<1>4. ASSUME NEW t \in Tasks, TaskNext(t)
      PROVE  job'[k] \in {job[k], <<>>} \/ conns[k].open
  <2>1. job[t] # <<>> /\ \E what : Do(t, what)
    BY <1>4, ZenonT(60) DEF TaskNext, TaskSend, TaskBroadcast, TaskRelay, TaskSnapshot, TaskPause, TaskFlush, Todo
  <2>2. t \in Conns => conns[t].open
    BY <2>1, Zenon DEF Attended
  <2> QED
    BY <1>2, <2>1, <2>2, Zenon
<1>5. CASE Compact \/ HashTick \/ ForcePause
  <2>1. \E t \in {Compactor, Hasher, Sweeper} : \E what : Do(t, what)
    BY <1>5, ZenonT(60) DEF Compact, HashTick, ForcePause
  <2> QED
    BY <1>2, <2>1, TaskNames, Zenon
<1>6. CASE FlushServer \/ RestartServer
  <2>1. job' = job \/ job' = [t \in Tasks |-> <<>>]
    BY <1>6, ZenonT(60) DEF FlushServer, RestartServer
  <2> QED
    BY <2>1, TaskNames, Zenon
<1> QED
  BY <1>1, <1>3, <1>4, <1>5, <1>6, ZenonT(60) DEF Next

(* Nothing comes onto a connection nobody has opened. *)
LEMMA UnusedKept ==
    ASSUME TypeInv, TypeInv', Wiring, Next, NEW k \in Conns, conns[k].user = 0, conns'[k].user = 0
    PROVE  up'[k] = <<>> /\ down'[k] = <<>>
<1>1. up[k] = <<>> /\ down[k] = <<>>
  BY Zenon DEF Wiring, Unused
<1>2. ASSUME NEW c \in Clients
      PROVE  cl[c].conn # k
  <2>1. k # 0 /\ c # 0
    BY ClientsAssumption DEF Conns
  <2> QED
    BY <2>1, Zenon DEF Wiring, Dialled
<1>3. ASSUME NEW m \in Elems(up'[k])
      PROVE  FALSE
  BY <1>1, <1>2, <1>3, UpMoves, ElemsShort, Zenon
<1>4. ASSUME NEW m \in Elems(down'[k])
      PROVE  FALSE
  <2>1. ASSUME NEW c \in Clients, Accept(c), cl'[c].conn = k
        PROVE  FALSE
    <3>1. PICK j \in Conns :
             /\ conns' = [conns EXCEPT ![j] = [user |-> c, open |-> TRUE, synced |-> FALSE]]
             /\ cl'[c] = [cl[c] EXCEPT !.conn = j]
      BY <2>1, AcceptFrame, Zenon
    <3>2. j = k
      BY <2>1, <3>1, ClientFields, Zenon DEF TypeInv, Client
    <3>3. conns'[k].user = c
      BY <3>1, <3>2, Zenon DEF TypeInv, TypeOK
    <3> QED
      BY <3>3, ClientsAssumption, Zenon
  <2> QED
    BY <1>1, <1>2, <1>4, <2>1, DownMoves, ElemsShort, Zenon DEF Live
<1>5. up'[k] \in Seq(ClientMsg) /\ down'[k] \in Seq(ServerMsg)
  BY Zenon DEF TypeInv, TypeOK
<1> QED
  BY <1>3, <1>4, <1>5, ElemsEmpty, Zenon

(* The wiring through every step. *)
LEMMA WiringKept ==
    ASSUME TypeInv, TypeInv', Wiring, [Next]_vars
    PROVE  Wiring'
<1>t. /\ conns \in [Conns -> Connection] /\ registry \in [Clients -> Conns \cup {0}]
      /\ \A c \in Clients : cl[c] \in Client /\ cl[c].conn \in Conns \cup {0}
      /\ 0 \notin Conns /\ 0 \notin Clients
  BY ClientFields, ClientsAssumption DEF TypeInv, TypeOK, Conns
<1>0. CASE UNCHANGED vars
  BY <1>0, ZenonT(60) DEF vars, connVars, netVars, cliVars, Wiring, Registered, Dialled, Unused, Attended
<1>1. CASE /\ Next /\ \A c \in Clients : ~Accept(c)
           /\ \A k \in Conns : ~ServeSyncStatus(k) /\ ~EndConnection(k)
           /\ ~RestartServer
  <2>1. registry' = registry /\ conns' = conns
    BY <1>1, ConnsFrame, Zenon
  <2>2. Registered'
    BY <2>1, Zenon DEF Wiring, Registered
  <2>3. Dialled'
    <3>1. \A c \in Clients : cl'[c].conn \in {cl[c].conn, 0}
      BY <1>1, ConnMoves, Zenon
    <3> QED
      BY <2>1, <3>1, ZenonT(60) DEF Wiring, Dialled
  <2>4. Unused'
    BY <1>1, <2>1, UnusedKept, ZenonT(60) DEF Wiring, Unused
  <2>5. Attended'
    BY <1>1, <2>1, JobOpen, ZenonT(60) DEF Wiring, Attended
  <2> QED
    BY <2>2, <2>3, <2>4, <2>5, Zenon DEF Wiring
<1>2. ASSUME NEW c \in Clients, Accept(c)
      PROVE  Wiring'
  <2>n. Next
    BY <1>2, Zenon DEF Next, ClientNext
  <2>0. PICK k \in Conns :
             /\ conns[k].user = 0
             /\ conns' = [conns EXCEPT ![k] = [user |-> c, open |-> TRUE, synced |-> FALSE]]
             /\ registry' = [registry EXCEPT ![c] = k]
             /\ Others(c) /\ cl'[c] = [cl[c] EXCEPT !.conn = k]
    BY <1>2, AcceptFrame, Zenon
  <2>1. conns'[k] = [user |-> c, open |-> TRUE, synced |-> FALSE] /\ \A j \in Conns : j # k => conns'[j] = conns[j]
    BY <1>t, <2>0, Zenon
  <2>2. registry'[c] = k /\ \A d \in Clients : d # c => registry'[d] = registry[d]
    BY <1>t, <2>0, Zenon
  <2>3. cl'[c].conn = k /\ \A d \in Clients : d # c => cl'[d] = cl[d]
    BY <1>t, <2>0, Zenon DEF Client, Others
  <2>4. Registered'
    BY <1>t, <2>0, <2>1, <2>2 DEF Wiring, Registered
  <2>5. Dialled'
    <3>1. ASSUME NEW d \in Clients, cl'[d].conn # 0
          PROVE  conns'[cl'[d].conn].user = d /\ (conns'[cl'[d].conn].open => registry'[d] = cl'[d].conn)
      <4>1. CASE d = c
        BY <2>1, <2>2, <2>3, <4>1
      <4>2. CASE d # c
        <5>1. cl'[d].conn = cl[d].conn /\ cl[d].conn \in Conns /\ conns[cl[d].conn].user = d /\ d # 0
          BY <1>t, <2>3, <3>1, <4>2, Zenon DEF Wiring, Dialled
        <5>2. conns'[cl[d].conn] = conns[cl[d].conn] /\ registry'[d] = registry[d]
          BY <2>0, <2>1, <2>2, <4>2, <5>1, Zenon
        <5> QED
          BY <3>1, <5>1, <5>2, Zenon DEF Wiring, Dialled
      <4> QED
        BY <4>1, <4>2, Zenon
    <3> QED
      BY <3>1, Zenon DEF Dialled
  <2>6. \A j \in Conns : conns'[j].user = 0 => conns'[j] = conns[j] /\ j # k
    BY <1>t, <2>1
  <2>7. Unused'
    BY <2>n, <2>6, UnusedKept, ZenonT(60) DEF Wiring, Unused
  <2>8. job' = job /\ \A j \in Conns : conns[j].open => conns'[j].open
    BY <1>2, <2>1 DEF Accept
  <2>9. Attended'
    BY <2>8, Zenon DEF Wiring, Attended
  <2> QED
    BY <2>4, <2>5, <2>7, <2>9, Zenon DEF Wiring
<1>3. ASSUME NEW k \in Conns, ServeSyncStatus(k)
      PROVE  Wiring'
  <2>n. Next
    BY <1>3, Zenon DEF Next, ServeReliable
  <2>0. /\ conns' = [conns EXCEPT ![k].synced = TRUE] /\ conns[k].open
        /\ registry' = registry /\ cl' = cl
    BY <1>3, ZenonT(60) DEF ServeSyncStatus, Serves, Serving, cliVars
  <2>1. \A j \in Conns : /\ conns'[j].user = conns[j].user /\ conns'[j].open = conns[j].open
                         /\ j # k => conns'[j] = conns[j]
    BY <1>t, <2>0, Zenon DEF Connection
  <2>2. Registered' /\ Dialled'
    BY <1>t, <2>0, <2>1 DEF Wiring, Registered, Dialled
  <2>3. conns[k].user # 0
    BY <2>0, Zenon DEF Wiring, Unused
  <2>4. Unused'
    BY <2>n, <2>1, <2>3, UnusedKept, ZenonT(60) DEF Wiring, Unused
  <2>5. Attended'
    BY <2>n, <2>1, JobOpen, ZenonT(60) DEF Wiring, Attended
  <2> QED
    BY <2>2, <2>4, <2>5, Zenon DEF Wiring
<1>4. ASSUME NEW k \in Conns, EndConnection(k)
      PROVE  Wiring'
  <2>n. Next
    BY <1>4, Zenon DEF Next
  <2>0. /\ conns' = [conns EXCEPT ![k].open = FALSE] /\ conns[k].open /\ job[k] = <<>>
        /\ registry' = [c \in Clients |-> IF registry[c] = k THEN 0 ELSE registry[c]] /\ cl' = cl
        /\ job' = job
    BY <1>4, ZenonT(60) DEF EndConnection, Serving, cliVars
  <2>1. /\ ~conns'[k].open
        /\ \A j \in Conns : /\ conns'[j].user = conns[j].user /\ (j # k => conns'[j] = conns[j])
    BY <1>t, <2>0, Zenon DEF Connection
  <2>2. Registered' /\ Dialled'
    BY <1>t, <2>0, <2>1 DEF Wiring, Registered, Dialled
  <2>3. conns[k].user # 0
    BY <2>0, Zenon DEF Wiring, Unused
  <2>4. Unused'
    BY <2>n, <2>1, <2>3, UnusedKept, ZenonT(60) DEF Wiring, Unused
  <2>5. Attended'
    BY <2>0, <2>1, ZenonT(60) DEF Wiring, Attended
  <2> QED
    BY <2>2, <2>4, <2>5, Zenon DEF Wiring
<1>5. CASE RestartServer
  <2>0. /\ conns' = [k \in Conns |-> [conns[k] EXCEPT !.open = FALSE]]
        /\ registry' = [c \in Clients |-> 0] /\ cl' = cl /\ down' = down
        /\ job' = [t \in Tasks |-> <<>>] /\ up' = [k \in Conns |-> <<>>]
    BY <1>5, ZenonT(60) DEF RestartServer, cliVars
  <2>1. \A k \in Conns : conns'[k].user = conns[k].user /\ conns'[k].synced = conns[k].synced /\ ~conns'[k].open
    BY <1>t, <2>0, Zenon DEF Connection
  <2>2. Registered' /\ Dialled'
    BY <1>t, <2>0, <2>1 DEF Wiring, Registered, Dialled
  <2>3. \A k \in Conns : up'[k] = <<>> /\ job'[k] = <<>>
    BY <2>0, TaskNames, Zenon
  <2>4. Unused' /\ Attended'
    BY <2>0, <2>1, <2>3, ZenonT(60) DEF Wiring, Unused, Attended
  <2> QED
    BY <2>2, <2>4, Zenon DEF Wiring
<1> QED
  BY <1>0, <1>1, <1>2, <1>3, <1>4, <1>5, Zenon

(* What is behind the server stays behind it. *)
LEMMA BehindKept ==
    ASSUME TypeInv, TypeInv', Forward, NEW m \in ServerMsg, Behind(m)
    PROVE  Behind(m)'
<1>t. /\ sEpoch \in Nat /\ sEpoch' \in Nat /\ sState \in CrdtState /\ sState' \in CrdtState
  BY Zenon DEF TypeInv, TypeOK
<1>c. /\ \A a \in Actors : sState.clock[a] \in Nat /\ sState'.clock[a] \in Nat
  BY <1>t, Zenon DEF CrdtState, VClock
<1>1. CASE m.type = "StateOp"
  <2>1. m.epoch \in Nat /\ m.op \in Op /\ m.op.actor \in Actors /\ m.op.counter \in Nat /\ ~IsSync(m)
    BY <1>1, ServerMsgFields, Zenon DEF Op, IsSync
  <2>2. m.epoch < sEpoch' \/ (m.epoch = sEpoch' /\ (m.op.key # Reg => m.op.counter <= sState'.clock[m.op.actor]))
    BY <1>t, <1>c, <1>1, <2>1 DEF Behind, Forward, Covers
  <2> QED
    BY <2>1, <2>2, Zenon DEF Behind
<1>2. CASE IsSync(m)
  <2>1. m.epoch \in Nat /\ m.state \in CrdtState /\ m.type # "StateOp"
    BY <1>2, ServerMsgFields, Zenon DEF IsSync
  <2>2. \A a \in Actors : m.state.clock[a] \in Nat
    BY <2>1, Zenon DEF CrdtState, VClock
  <2>3. m.epoch < sEpoch' \/ (m.epoch = sEpoch' /\ Covers(sState'.clock, m.state.clock))
    BY <1>t, <1>c, <1>2, <2>1, <2>2 DEF Behind, Forward, Covers
  <2> QED
    BY <2>1, <2>3, Zenon DEF Behind
<1> QED
  BY <1>1, <1>2, Zenon DEF Behind

(* A new message is behind the server that makes it. *)
LEMMA BehindNew ==
    ASSUME TypeInv', NEW m \in ServerMsg, NewMsg(m)
    PROVE  Behind(m)'
<1>t. sState' \in CrdtState
  BY Zenon DEF TypeInv, TypeOK
<1>1. \A a \in Actors : sState'.clock[a] \in Nat
  BY <1>t, Zenon DEF CrdtState, VClock
<1>2. Covers(sState'.clock, sState'.clock)
  BY <1>1 DEF Covers
<1> QED
  BY <1>2, Zenon DEF NewMsg, Behind, IsSync

(* A server that has not restarted yet had not before, and a step of it goes *)
(* forward.                                                                  *)
LEMMA SoundBack ==
    ASSUME TypeInv, Wiring, Known, Next
    PROVE  /\ left'["crash"] <= MaxServerRestarts
           /\ Crashless' => Crashless /\ ~RestartServer
           /\ \A k \in Conns : Sound(k)' => ~RestartServer /\ (Sound(k) \/ conns[k].user = 0)
<1>t. /\ conns \in [Conns -> Connection] /\ left \in [Budget -> Nat] /\ MaxServerRestarts \in Nat
      /\ "crash" \in Budget
  BY BoundsAssumption, Zenon DEF TypeInv, TypeOK, Budget
<1>1. CASE RestartServer
  <2>1. left["crash"] > 0 /\ left' = [left EXCEPT !["crash"] = @ - 1]
        /\ conns' = [k \in Conns |-> [conns[k] EXCEPT !.open = FALSE]]
    BY <1>1, ZenonT(60) DEF RestartServer, Spend
  <2>2. left["crash"] \in Nat /\ left'["crash"] = left["crash"] - 1
    BY <1>t, <2>1, Zenon
  <2>3. left'["crash"] < MaxServerRestarts
    BY <1>t, <2>1, <2>2 DEF Known
  <2>4. \A k \in Conns : ~conns'[k].open
    BY <1>t, <2>1, Zenon DEF Connection
  <2> QED
    BY <1>t, <2>2, <2>3, <2>4 DEF Crashless, Sound
<1>2. CASE ~RestartServer
  <2>1. left'["crash"] = left["crash"]
    <3>1. ASSUME NEW b \in Budget, b # "crash", Spend(b)
          PROVE  left'["crash"] = left["crash"]
      BY <1>t, <3>1, Zenon DEF Spend
    <3>2. left' = left \/ \E b \in Budget : b # "crash" /\ Spend(b)
      <4>b. \A b \in {"map", "reg", "tick", "mark", "drop", "compact", "pause", "session"} : b \in Budget /\ b # "crash"
        BY Zenon DEF Budget
      <4>1. ASSUME NEW c \in Clients, ClientNext(c)
            PROVE  left' = left \/ \E b \in Budget : b # "crash" /\ Spend(b)
        <5>1. CASE MutateMap(c) \/ MutateReg(c) \/ MutatePosition(c) \/ AskMarkWatched(c) \/ Accept(c) \/ Disconnected(c)
          BY <4>b, <5>1, ZenonT(60) DEF MutateMap, MutateReg, MutatePosition, AskMarkWatched, Accept, Disconnected
        <5>2. CASE ClientReceives(c)
          BY <5>2, ZenonT(60) DEF ClientReceives, Connected, RecvStateOp, RecvStateMerge, RecvStateSnapshot, RecvStateHash
        <5>3. CASE RecvDatagram(c) \/ Replay(c) \/ ReplayPosition(c) \/ PushMerge(c) \/ FlushClient(c) \/ RestartClient(c)
          BY <4>b, <5>3, ZenonT(60) DEF RecvDatagram, Replay, ReplayPosition, PushMerge, FlushClient, RestartClient
        <5> QED
          BY <4>1, <5>1, <5>2, <5>3, Zenon DEF ClientNext
      <4>2. ASSUME NEW k \in Conns, ServeReliable(k) \/ ServeDatagram(k) \/ EndConnection(k)
            PROVE  left' = left \/ \E b \in Budget : b # "crash" /\ Spend(b)
        <5>1. CASE ServeReliable(k)
          BY <5>1, ZenonT(60) DEF ServeReliable, ServeStateOp, ServeSyncStatus, ServeRequestMerge, ServeStateMerge,
               ServeMarkWatched
        <5>2. CASE ServeDatagram(k) \/ EndConnection(k)
          BY <4>b, <5>2, ZenonT(60) DEF ServeDatagram, EndConnection
        <5> QED
          BY <4>2, <5>1, <5>2, Zenon
      <4>3. ASSUME NEW t \in Tasks, TaskNext(t)
            PROVE  left' = left
        BY <4>3, ZenonT(60) DEF TaskNext, TaskSend, TaskBroadcast, TaskRelay, TaskSnapshot, TaskPause, TaskFlush
      <4>4. CASE Compact \/ HashTick \/ ForcePause \/ FlushServer
        BY <4>b, <4>4, ZenonT(60) DEF Compact, HashTick, ForcePause, FlushServer
      <4> QED
        BY <1>2, <4>1, <4>2, <4>3, <4>4, ZenonT(60) DEF Next
    <3> QED
      BY <3>1, <3>2, Zenon
  <2>2. ASSUME NEW k \in Conns, conns'[k].open, conns[k].user # 0
        PROVE  conns[k].open
    BY <2>2, OpenBack, Zenon
  <2> QED
    BY <1>2, <2>1, <2>2, Zenon DEF Crashless, Sound, Known
<1> QED
  BY <1>1, <1>2, Zenon

(* What the server's tasks have in hand is behind it. *)
LEMMA JobKnownKept ==
    ASSUME TypeInv, TypeInv', Shapes, Known, Next
    PROVE  JobKnown'
<1>1. ASSUME NEW t \in Tasks, Heads(t)'
      PROVE  Behind(Msg(t))'
  <2>1. ~RestartServer
    <3>1. RestartServer => job'[t] = <<>>
      BY ZenonT(60) DEF RestartServer
    <3> QED
      BY <1>1, <3>1, Zenon DEF Heads
  <2>2. Msg(t)' \in ServerMsg
    <3>1. job'[t] \in Seq(Job) /\ job'[t] # <<>> /\ Head(job'[t]).do \in {"send", "broadcast", "relay"}
      BY <1>1, Zenon DEF TypeInv, TypeOK, Heads
    <3>2. Head(job'[t]) \in Job
      BY <3>1, QueueParts, Zenon
    <3> QED
      BY <3>1, <3>2, JobFields, Zenon DEF Msg
  <2>3. CASE job'[t] = job[t]
    <3>1. Heads(t) /\ Msg(t)' = Msg(t)
      BY <1>1, <2>3, Zenon DEF Heads, Msg
    <3>2. Behind(Msg(t)) /\ Msg(t) \in ServerMsg
      BY <2>2, <3>1, Zenon DEF Known, JobKnown
    <3>3. Forward
      BY <2>1, ServerForward, Zenon
    <3>4. \A m \in ServerMsg : Behind(m) => Behind(m)'
      BY <3>3, BehindKept, Zenon
    <3>5. PICK m \in ServerMsg : m = Msg(t)
      BY <3>2, Zenon
    <3>6. Behind(m)'
      BY <3>2, <3>4, <3>5, Zenon
    <3> QED
      BY <3>1, <3>5, <3>6, Zenon DEF Behind, IsSync
  <2>4. CASE NewMsg(Msg(t)')
    <3>1. PICK m \in ServerMsg : m = Msg(t)'
      BY <2>2, Zenon
    <3>2. Behind(m)'
      BY <2>4, <3>1, BehindNew, Zenon
    <3> QED
      BY <3>1, <3>2, Zenon DEF Behind, IsSync
  <2> QED
    BY <1>1, <2>3, <2>4, JobMoves, Zenon DEF JobStep
<1> QED
  BY <1>1, Zenon DEF JobKnown

(* What is on its way down on a sound connection is behind the server. *)
LEMMA DownKnownKept ==
    ASSUME TypeInv, TypeInv', Wiring, Known, Next
    PROVE  DownKnown'
<1>1. ASSUME NEW k \in Conns, Sound(k)', NEW m \in Elems(down'[k])
      PROVE  Behind(m)'
  <2>1. ~RestartServer /\ (Sound(k) \/ conns[k].user = 0)
    BY <1>1, SoundBack, Zenon
  <2>2. m \in ServerMsg
    <3>1. down'[k] \in Seq(ServerMsg)
      BY Zenon DEF TypeInv, TypeOK
    <3> QED
      BY <3>1, ElemsType, Zenon
  <2>3. Forward
    BY <2>1, ServerForward, Zenon
  <2>4. CASE m \in Elems(down[k])
    <3>1. conns[k].user # 0
      BY <2>4, ElemsShort, Zenon DEF Wiring, Unused
    <3>2. Behind(m)
      BY <2>1, <2>4, <3>1, Zenon DEF Known, DownKnown
    <3> QED
      BY <2>2, <2>3, <3>2, BehindKept, Zenon
  <2>5. CASE m.type = "AuthOk"
    BY <2>5, Zenon DEF Behind, IsSync
  <2>6. CASE FromTask(m)
    <3>1. Behind(m)
      BY <2>6, Zenon DEF FromTask, Known, JobKnown
    <3> QED
      BY <2>2, <2>3, <3>1, BehindKept, Zenon
  <2> QED
    BY <1>1, <2>4, <2>5, <2>6, DownMoves, Zenon
<1> QED
  BY <1>1, Zenon DEF DownKnown

(* A connection that is somebody's stays it. *)
LEMMA UserStays ==
    ASSUME TypeInv, Next, NEW k \in Conns, conns[k].user # 0
    PROVE  conns'[k].user = conns[k].user
<1>t. conns \in [Conns -> Connection]
  BY Zenon DEF TypeInv, TypeOK
<1>1. CASE UNCHANGED conns
  BY <1>1, Zenon
<1>2. ASSUME NEW c \in Clients, Accept(c)
      PROVE  conns'[k].user = conns[k].user
  <2>1. PICK j \in Conns : conns[j].user = 0
           /\ conns' = [conns EXCEPT ![j] = [user |-> c, open |-> TRUE, synced |-> FALSE]]
    BY <1>2, AcceptFrame, Zenon
  <2> QED
    BY <1>t, <2>1, Zenon
<1>3. ASSUME NEW j \in Conns, ServeSyncStatus(j)
      PROVE  conns'[k].user = conns[k].user
  <2>1. conns' = [conns EXCEPT ![j].synced = TRUE]
    BY <1>3, Zenon DEF ServeSyncStatus
  <2> QED
    BY <1>t, <2>1, Zenon DEF Connection
<1>4. ASSUME NEW j \in Conns, EndConnection(j)
      PROVE  conns'[k].user = conns[k].user
  <2>1. conns' = [conns EXCEPT ![j].open = FALSE]
    BY <1>4, Zenon DEF EndConnection
  <2> QED
    BY <1>t, <2>1, Zenon DEF Connection
<1>5. CASE RestartServer
  <2>1. conns' = [j \in Conns |-> [conns[j] EXCEPT !.open = FALSE]]
    BY <1>5, ZenonT(60) DEF RestartServer
  <2> QED
    BY <1>t, <2>1, Zenon DEF Connection
<1> QED
  BY <1>1, <1>2, <1>3, <1>4, <1>5, ConnsFrame, Zenon

(* The user of a connection a client is on. *)
LEMMA LiveUser ==
    ASSUME Wiring, NEW k \in Conns, Live(k)
    PROVE  conns[k].user # 0
<1>1. PICK c \in Clients : cl[c].conn = k
  BY Zenon DEF Live
<1>2. k # 0 /\ c # 0
  BY ClientsAssumption DEF Conns
<1> QED
  BY <1>1, <1>2, Zenon DEF Wiring, Dialled

(* The same for datagrams. *)
LEMMA DgramKnownKept ==
    ASSUME TypeInv, TypeInv', Wiring, Known, Next
    PROVE  DgramKnown'
<1>1. ASSUME NEW d \in dgrams', d.to = "client"
      PROVE  conns'[d.conn].user # 0 /\ (Sound(d.conn)' => Behind(StateOp(d.epoch, d.op))')
  <2>0. d.conn \in Conns /\ d.epoch \in Nat /\ d.op \in Op
    BY Zenon DEF TypeInv, TypeOK, Dgram
  <2> DEFINE k == d.conn
             m == StateOp(d.epoch, d.op)
  <2>m. m \in ServerMsg
    BY <2>0, StateOpType, Zenon
  <2>1. CASE d \in dgrams
    <3>1. conns[k].user # 0 /\ (Sound(k) => Behind(m))
      BY <1>1, <2>1, Zenon DEF Known, DgramKnown
    <3> HIDE DEF m, k
    <3>2. conns'[k].user # 0
      BY <2>0, <3>1, UserStays, Zenon DEF k
    <3>3. ASSUME Sound(k)'
          PROVE  Behind(m)'
      <4>1. ~RestartServer /\ Sound(k)
        BY <2>0, <3>1, <3>3, SoundBack, Zenon DEF k
      <4>2. Forward
        BY <4>1, ServerForward, Zenon
      <4> QED
        BY <2>m, <3>1, <4>1, <4>2, BehindKept, Zenon
    <3> QED
      BY <3>2, <3>3, Zenon DEF k, m
  <2>2. ASSUME Live(k), NEW t \in Tasks, Heads(t), Msg(t).type = "StateOp",
               d.epoch = Msg(t).epoch, d.op = Msg(t).op
        PROVE  conns'[k].user # 0 /\ (Sound(k)' => Behind(m)')
    <3>1. conns[k].user # 0
      BY <2>0, <2>2, LiveUser, Zenon
    <3>2. conns'[k].user # 0
      BY <2>0, <3>1, UserStays, Zenon
    <3>3. Behind(Msg(t))
      BY <2>2, Zenon DEF Known, JobKnown
    <3>4. Behind(m)
      BY <2>2, <3>3, Zenon DEF Behind, StateOp, IsSync
    <3> HIDE DEF m, k
    <3>5. ASSUME Sound(k)'
          PROVE  Behind(m)'
      <4>1. ~RestartServer
        BY <2>0, <3>5, SoundBack, Zenon DEF k
      <4>2. Forward
        BY <4>1, ServerForward, Zenon
      <4> QED
        BY <2>m, <3>4, <4>2, BehindKept, Zenon
    <3> QED
      BY <3>2, <3>5, Zenon
  <2> QED
    BY <1>1, <2>1, <2>2, DgramMoves, Zenon
<1> QED
  BY <1>1, Zenon DEF DgramKnown

(* What a client has yet to replay is its own. *)
LEMMA BuffersOwnKept ==
    ASSUME TypeInv, Known, Next
    PROVE  BuffersOwn'
<1>1. ASSUME NEW c \in Clients, NEW op, op \in Elems(cl'[c].buffer) \/ op \in Elems(cl'[c].position)
      PROVE  op.actor \in Sessions(c)'
  <2>1. op \in Elems(cl[c].buffer) \/ op \in Elems(cl[c].position) \/ op.actor \in Mine(c)
    BY <1>1, ClientMoves, Zenon DEF Buffers
  <2>2. op.actor \in Sessions(c)
    BY <2>1, SessionsGrow, Zenon DEF Known, BuffersOwn
  <2> QED
    BY <2>2, SessionsGrow, Zenon
<1> QED
  BY <1>1, Zenon DEF BuffersOwn

(* A replica the server knows stays known as the server goes forward. *)
LEMMA ReplicaKept ==
    ASSUME TypeInv, TypeInv', Next, Forward, NEW c \in Clients, NEW e \in Nat, NEW s \in CrdtState, Replica(c, e, s)
    PROVE  Replica(c, e, s)'
<1>t. sEpoch \in Nat /\ sEpoch' \in Nat /\ sState \in CrdtState /\ sState' \in CrdtState
  BY Zenon DEF TypeInv, TypeOK
<1>c. \A a \in Actors : sState.clock[a] \in Nat /\ sState'.clock[a] \in Nat /\ s.clock[a] \in Nat
  BY <1>t, Zenon DEF CrdtState, VClock
<1>1. \A a : a \in Sessions(c) => a \in Sessions(c)'
  BY SessionsGrow, Zenon
<1>2. CASE e < sEpoch
  BY <1>t, <1>2 DEF Replica, Forward
<1>3. CASE e = sEpoch /\ sEpoch' > sEpoch
  BY <1>3, Zenon DEF Replica
<1>4. CASE e = sEpoch /\ sEpoch' = sEpoch /\ Covers(sState'.clock, sState.clock)
  <2>1. ASSUME NEW a \in Actors \ Sessions(c)'
        PROVE  s.clock[a] <= sState'.clock[a]
    <3>1. s.clock[a] <= sState.clock[a]
      BY <1>1, <1>t, <1>4 DEF Replica
    <3>2. sState.clock[a] <= sState'.clock[a]
      BY <1>4, <1>c, Zenon DEF Covers
    <3> QED
      BY <1>c, <3>1, <3>2
  <2> QED
    BY <1>4, <2>1, Zenon DEF Replica
<1> QED
  BY <1>t, <1>2, <1>3, <1>4, Zenon DEF Replica, Forward

(* The op a client applies is its own or known to the server. *)
LEMMA OpKnown ==
    ASSUME TypeInv, Known, Crashless, NEW c \in Clients, NEW op \in Op, OpFor(c, op), op.key # Reg
    PROVE  \/ op.actor \in Sessions(c)
           \/ cl[c].epoch < sEpoch
           \/ cl[c].epoch = sEpoch /\ op.counter <= sState.clock[op.actor]
<1>0. cl[c].conn \in Conns \cup {0}
  BY ClientFields, Zenon DEF TypeInv
<1>1. CASE op.actor \in Mine(c) \/ op \in Elems(cl[c].buffer) \/ op \in Elems(cl[c].position)
  BY <1>1, SessionsGrow, Zenon DEF Known, BuffersOwn
<1>2. ASSUME cl[c].conn # 0, NEW m \in Elems(down[cl[c].conn]), m.type = "StateOp", m.epoch = cl[c].epoch, m.op = op
      PROVE  cl[c].epoch < sEpoch \/ (cl[c].epoch = sEpoch /\ op.counter <= sState.clock[op.actor])
  <2>1. Behind(m)
    BY <1>0, <1>2, Zenon DEF Known, DownKnown, Sound
  <2> QED
    BY <1>2, <2>1, Zenon DEF Behind
<1>3. ASSUME NEW d \in dgrams, d.to = "client", d.epoch = cl[c].epoch, d.op = op
      PROVE  cl[c].epoch < sEpoch \/ (cl[c].epoch = sEpoch /\ op.counter <= sState.clock[op.actor])
  <2>1. Behind(StateOp(d.epoch, d.op))
    BY <1>3, Zenon DEF Known, DgramKnown, Sound
  <2> QED
    BY <1>3, <2>1, Zenon DEF Behind, StateOp
<1> QED
  BY <1>1, <1>2, <1>3, Zenon DEF OpFor

(* A client's replica stays known to the server. *)
LEMMA ReplicaKnownKept ==
    ASSUME TypeInv, TypeInv', Wiring, Known, Next
    PROVE  ReplicaKnown'
<1>1. ASSUME Crashless', NEW c \in Clients
      PROVE  Replica(c, cl[c].epoch, cl[c].state)' /\ Replica(c, cDisk[c].epoch, cDisk[c].state)'
  <2>1. Crashless /\ ~RestartServer
    BY <1>1, SoundBack, Zenon
  <2>2. Forward
    BY <2>1, ServerForward, Zenon
  <2>t. /\ cl[c].epoch \in Nat /\ cl[c].state \in CrdtState /\ cDisk[c].epoch \in Nat /\ cDisk[c].state \in CrdtState
        /\ sEpoch \in Nat /\ sState \in CrdtState /\ cl[c].conn \in Conns \cup {0}
        /\ cl'[c].epoch \in Nat /\ cl'[c].state \in CrdtState
    <3>1. cl' \in [Clients -> Client] /\ cDisk \in [Clients -> Snapshot] /\ sEpoch \in Nat /\ sState \in CrdtState
      BY Zenon DEF TypeInv, TypeOK
    <3> QED
      BY <3>1, ClientFields, Zenon DEF TypeInv, Client, Snapshot
  <2>c. \A a \in Actors : sState.clock[a] \in Nat /\ cl[c].state.clock[a] \in Nat
    BY <2>t, Zenon DEF CrdtState, VClock
  <2>3. /\ Replica(c, cl[c].epoch, cl[c].state)
        /\ Replica(c, cDisk[c].epoch, cDisk[c].state)
    BY <2>1, Zenon DEF Known, ReplicaKnown
  <2>4. NoSnapshot.epoch \in Nat /\ NoSnapshot.state \in CrdtState /\ Replica(c, NoSnapshot.epoch, NoSnapshot.state)
    <3>1. NoSnapshot.epoch = 0 /\ NoSnapshot.state = EmptyState /\ EmptyState \in CrdtState
      BY EmptyStateType, Zenon DEF NoSnapshot
    <3>2. \A a \in Actors : EmptyState.clock[a] = 0
      BY Zenon DEF EmptyState, ZeroClock
    <3> QED
      BY <2>c, <2>t, <3>1, <3>2 DEF Replica
  <2>5. ASSUME NEW e \in Nat, NEW s \in CrdtState, Replica(c, e, s)
        PROVE  Replica(c, e, s)'
    BY <2>2, <2>5, ReplicaKept, Zenon
  <2>6. Replica(c, cDisk[c].epoch, cDisk[c].state)'
    <3>1. cDisk'[c] \in {cDisk[c], NoSnapshot, [epoch |-> cl[c].epoch, state |-> cl[c].state]}
      BY DiskMoves, Zenon
    <3>2. PICK e \in Nat, s \in CrdtState : Replica(c, e, s) /\ cDisk'[c].epoch = e /\ cDisk'[c].state = s
      BY <2>3, <2>4, <2>t, <3>1
    <3>3. Replica(c, e, s)'
      BY <2>5, <3>2, Zenon
    <3> QED
      BY <3>2, <3>3, Zenon DEF Replica
  <2>7. PICK e \in Nat, s \in CrdtState : Replica(c, e, s) /\ cl'[c].epoch = e /\ cl'[c].state = s
    <3>1. CASE Rests(c)
      BY <2>3, <2>t, <3>1, Zenon DEF Rests
    <3>2. CASE AppliesOp(c)
      <4>1. PICK op \in Op : /\ OpFor(c, op) /\ cl'[c].epoch = cl[c].epoch
                             /\ cl'[c].state \in {Apply(cl[c].state, op), ApplyIfOrderly(cl[c].state, op)}
        BY <3>2, Zenon DEF AppliesOp
      <4> DEFINE s == cl'[c].state
      <4>2. \A a \in Actors : /\ s.clock[a] \in Nat
                              /\ s.clock[a] = cl[c].state.clock[a] \/ (op.key # Reg /\ a = op.actor /\ s.clock[a] = op.counter)
        <5>1. PICK t \in {Apply(cl[c].state, op), ApplyIfOrderly(cl[c].state, op)} : t = s
          BY <4>1, Zenon
        <5>2. \A a \in Actors : /\ t.clock[a] \in Nat
                                /\ t.clock[a] = cl[c].state.clock[a] \/ (op.key # Reg /\ a = op.actor /\ t.clock[a] = op.counter)
          BY <2>t, AppliedClock, Zenon
        <5> QED
          BY <5>1, <5>2, Zenon
      <4> HIDE DEF s
      <4>3. op.key # Reg => \/ op.actor \in Sessions(c)
                            \/ cl[c].epoch < sEpoch
                            \/ cl[c].epoch = sEpoch /\ op.counter <= sState.clock[op.actor]
        BY <2>1, <4>1, OpKnown, Zenon
      <4>4. Replica(c, cl[c].epoch, s)
        BY <2>3, <2>t, <4>2, <4>3, Zenon DEF Replica
      <4> QED
        BY <2>t, <4>1, <4>4, Zenon DEF s
    <3>3. CASE TakesState(c)
      <4>1. PICK m \in Elems(down[cl[c].conn]) :
              /\ IsSync(m) /\ m \in ServerMsg /\ cl[c].conn # 0
              /\ \/ cl'[c].epoch = m.epoch /\ cl'[c].state = m.state
                 \/ /\ cl'[c].epoch = cl[c].epoch /\ m.epoch = cl[c].epoch
                    /\ cl'[c].state = Merge(cl[c].state, m.state)
        BY <3>3, Zenon DEF TakesState
      <4>2. Behind(m)
        BY <2>1, <2>t, <4>1, Zenon DEF Known, DownKnown, Sound
      <4>3. m.epoch \in Nat /\ m.state \in CrdtState
        BY <4>1, ServerMsgFields, Zenon DEF IsSync
      <4>c. \A a \in Actors : m.state.clock[a] \in Nat
        BY <4>3, Zenon DEF CrdtState, VClock
      <4>4. m.epoch < sEpoch \/ (m.epoch = sEpoch /\ \A a \in Actors : m.state.clock[a] <= sState.clock[a])
        BY <2>c, <4>c, <4>1, <4>2, Zenon DEF Behind, Covers
      <4>5. CASE cl'[c].epoch = m.epoch /\ cl'[c].state = m.state
        BY <4>3, <4>4, <4>5, Zenon DEF Replica
      <4>6. CASE cl'[c].epoch = cl[c].epoch /\ m.epoch = cl[c].epoch /\ cl'[c].state = Merge(cl[c].state, m.state)
        <5> DEFINE s == cl'[c].state
        <5>1. \A a \in Actors : s.clock[a] \in {cl[c].state.clock[a], m.state.clock[a]}
          BY <2>t, <4>3, <4>6, MergeClock, Zenon
        <5> HIDE DEF s
        <5>2. Replica(c, cl[c].epoch, s)
          BY <2>3, <4>4, <4>6, <5>1, Zenon DEF Replica
        <5> QED
          BY <2>t, <4>6, <5>2, Zenon DEF s
      <4> QED
        BY <4>1, <4>5, <4>6, Zenon
    <3>4. CASE RestartClient(c)
      <4>1. PICK snap \in {cDisk[c], NoSnapshot} : cl'[c].epoch = snap.epoch /\ cl'[c].state = snap.state
        BY <3>4, RestartFrame, Zenon
      <4> QED
        BY <2>3, <2>4, <2>t, <4>1, Zenon
    <3> QED
      BY <3>1, <3>2, <3>3, <3>4, ClientMoves, Zenon
  <2>8. Replica(c, e, s)'
    BY <2>5, <2>7, Zenon
  <2>9. Replica(c, cl[c].epoch, cl[c].state)'
    BY <2>7, <2>8, Zenon DEF Replica
  <2> QED
    BY <2>6, <2>9, Zenon
<1> QED
  BY <1>1, Zenon DEF ReplicaKnown

(* It holds at the start. *)
LEMMA HubInit ==
    ASSUME Init
    PROVE  HubInv
<1>0. /\ sState = EmptyState /\ sEpoch = 1 /\ registry = [c \in Clients |-> 0]
      /\ conns = [k \in Conns |-> [user |-> 0, open |-> FALSE, synced |-> FALSE]]
      /\ job = [t \in Tasks |-> <<>>] /\ up = [k \in Conns |-> <<>>] /\ down = [k \in Conns |-> <<>>]
      /\ dgrams = {} /\ cl = [c \in Clients |-> StartedClient(0, NoSnapshot, 0)]
      /\ cDisk = [c \in Clients |-> NoSnapshot] /\ left = Allowance
  BY Zenon DEF Init
<1>1. TypeInv
  BY InitType, Zenon
<1>2. Shapes
  <2>1. \A t \in Tasks : job[t] = <<>>
    BY <1>0, Zenon
  <2> QED
    BY <2>1, Zenon DEF Shapes, Proper
<1>3. \A k \in Conns : conns[k].user = 0 /\ ~conns[k].open /\ ~conns[k].synced /\ up[k] = <<>> /\ down[k] = <<>>
  BY <1>0, Zenon
<1>4. \A c \in Clients : cl[c].conn = 0 /\ cl[c].epoch = 0 /\ cl[c].state = EmptyState /\ cl[c].buffer = <<>>
                         /\ cl[c].position = <<>>
                         /\ cDisk[c].epoch = 0 /\ registry[c] = 0
  BY <1>0, Zenon DEF StartedClient, NoSnapshot
<1>5. \A t \in Tasks : job[t] = <<>>
  BY <1>0, Zenon
<1>6. Wiring
  BY <1>3, <1>4, <1>5, TaskNames, Zenon DEF Wiring, Registered, Dialled, Unused, Attended
<1>7. left["crash"] <= MaxServerRestarts
  BY <1>0, BoundsAssumption DEF Allowance, Budget
<1>8. DownKnown /\ JobKnown /\ DgramKnown /\ BuffersOwn
  BY <1>0, <1>3, <1>4, <1>5, ElemsShort, Zenon DEF DownKnown, JobKnown, DgramKnown, BuffersOwn, Heads
<1>9. ReplicaKnown
  BY <1>0, <1>4 DEF ReplicaKnown, Replica
<1> QED
  BY <1>1, <1>2, <1>6, <1>7, <1>8, <1>9, Zenon DEF HubInv, Known

(* It is kept. *)
LEMMA HubKept ==
    ASSUME Ranked, HubInv, [Next]_vars
    PROVE  HubInv'
<1>1. TypeInv'
  BY NextType, Zenon DEF HubInv
<1>2. Shapes'
  BY ShapesKept, Zenon DEF HubInv
<1>3. Wiring'
  BY <1>1, WiringKept, Zenon DEF HubInv
<1>4. CASE Next
  <2>1. left'["crash"] <= MaxServerRestarts
    BY <1>4, SoundBack, Zenon DEF HubInv
  <2>2. DownKnown' /\ JobKnown' /\ DgramKnown' /\ ReplicaKnown' /\ BuffersOwn'
    BY <1>1, <1>4, DownKnownKept, JobKnownKept, DgramKnownKept, ReplicaKnownKept, BuffersOwnKept, Zenon DEF HubInv
  <2> QED
    BY <1>1, <1>2, <1>3, <2>1, <2>2, Zenon DEF HubInv, Known
<1>5. CASE UNCHANGED vars
  <2>1. Known'
    <3>1. UNCHANGED <<sState, sEpoch, conns, job, down, dgrams, cl, cDisk, left>>
      BY <1>5, Zenon DEF vars, srvVars, connVars, netVars, cliVars
    <3> QED
      BY <3>1, ZenonT(60) DEF HubInv, Known, DownKnown, JobKnown, DgramKnown, ReplicaKnown, BuffersOwn, Heads, Msg,
           Behind, Sound, Crashless, Replica, Sessions
  <2> QED
    BY <1>1, <1>2, <1>3, <2>1, Zenon DEF HubInv
<1> QED
  BY <1>4, <1>5, Zenon

(* Before any restart of the server, it makes the hub know most. *)
LEMMA KnowsMost ==
    ASSUME HubInv, Crashless
    PROVE  HubKnowsMost
<1>1. ASSUME NEW c \in Clients, cl[c].epoch = sEpoch, NEW a \in Actors \ Sessions(c)
      PROVE  cl[c].state.clock[a] <= sState.clock[a]
  <2>1. Replica(c, cl[c].epoch, cl[c].state) /\ sEpoch \in Nat
    BY Zenon DEF HubInv, Known, ReplicaKnown, TypeInv, TypeOK
  <2> QED
    BY <1>1, <2>1 DEF Replica
<1> QED
  BY <1>1, Zenon DEF HubKnowsMost
=============================================================================
