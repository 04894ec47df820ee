---------------------------- MODULE WriteProofs -------------------------------
(***************************************************************************)
(* Lemmas about what is written in StateSync: the invariants behind the    *)
(* Lamport floor (Floors), behind the deduplication of eager ops (FanOut)  *)
(* and behind the positions that travel as datagrams only (Streams).       *)
(***************************************************************************)
EXTENDS StateSyncProofs

\* Time, and a second attempt, for the SMT solver on a slow machine.
USE SMTT(60), Z3T(60)

-----------------------------------------------------------------------------
(* Stamps below a bound. *)

(* A higher bound is a bound. *)
LEMMA AllBelowMonotone ==
    ASSUME NEW s \in CrdtState, NEW m \in Nat, NEW n \in Nat, AllBelow(s, m), m <= n
    PROVE  AllBelow(s, n)
BY StampsNat DEF AllBelow

(* Applying an op in any way brings in no stamp but the op's. *)
LEMMA ApplyBelow ==
    ASSUME NEW s \in CrdtState, NEW op \in Op, NEW n \in Nat,
           AllBelow(s, n), op.lww.ts <= n
    PROVE  /\ AllBelow(Apply(s, op), n)
           /\ AllBelow(ApplyIfOrderly(s, op), n)
           /\ \A b \in BOOLEAN : AllBelow(ApplyForBroadcast(s, op, b), n)
<1>1. /\ s.reg.ts <= n /\ \A k \in Keys : s.entries[k].cell.ts <= n
      /\ s.entries \in [Keys -> Entry]
  BY Zenon DEF AllBelow, Stamps, CrdtState
<1>2. AllBelow(RegApply(s, op), n)
  BY <1>1, Zenon DEF RegApply, LwwApply, AllBelow, Stamps
<1>3. ASSUME op.key # Reg PROVE AllBelow(MapApply(s, op), n)
  <2>1. ASSUME NEW k \in Keys PROVE MapApply(s, op).entries[k].cell.ts <= n
    BY <1>1, Zenon DEF MapApply, LwwApply
  <2> QED
    BY <1>1, <2>1, Zenon DEF MapApply, AllBelow, Stamps
<1> QED
  BY <1>2, <1>3, Zenon DEF Apply, ApplyIfOrderly, ApplyForBroadcast

(* No stamp of a rebuilt state is above the last one issued for it. *)
LEMMA RebuildBelow ==
    ASSUME Ranked, NEW s \in CrdtState, NEW last \in Nat
    PROVE  AllBelow(Rebuild(s, last), RebuildLast(s, last))
<1>1. RebuildLast(s, last) \in Nat
  BY RebuildType, Zenon
<1>2. ASSUME NEW k \in Keys
      PROVE  Rebuild(s, last).entries[k].cell.ts <= RebuildLast(s, last)
  <2>1. RebuiltEntry(s, last, k).cell.ts <= RebuildLast(s, last)
    <3>1. /\ last + Rank(KeptFlags(s), k) <= RebuildLast(s, last)
          /\ IntentStamp(s, last) + Rank(KeptPositions(s), k) <= RebuildLast(s, last)
      BY RebuildStamps
    <3>2. NoEntry.cell.ts <= RebuildLast(s, last)
      BY <1>1 DEF NoEntry, NoLww
    <3> QED
      BY <3>1, <3>2, Zenon DEF RebuiltEntry, Rewritten
  <2> QED
    BY <2>1, Zenon DEF Rebuild
<1>3. Rebuild(s, last).reg.ts <= RebuildLast(s, last)
  BY RebuildStamps DEF Rebuild
<1> QED
  BY <1>2, <1>3, Zenon DEF AllBelow, Stamps

(* At most one task is given something to do in a step. *)
LEMMA OneJob ==
    ASSUME TypeInv, Next
    PROVE  \E t \in Tasks : \A u \in Tasks : u # t => job'[u] \in {job[u], <<>>}
<1>1. ASSUME NEW t \in Tasks, NEW what, Do(t, what)
      PROVE  \A u \in Tasks : u # t => job'[u] = job[u]
  BY <1>1, DoFrame, Zenon
<1>2. CASE job' = job \/ job' = [t \in Tasks |-> <<>>]
  BY <1>2, TaskNames, Zenon
<1>3. CASE \E t \in Tasks : \E what : Do(t, what)
  BY <1>1, <1>3, Zenon
<1>4. ASSUME NEW c \in Clients, ClientNext(c)
      PROVE  job' = job
  BY <1>4, ClientStepFrame, Zenon
<1>5. ASSUME NEW j \in Conns, ServeReliable(j) \/ ServeDatagram(j) \/ EndConnection(j)
      PROVE  job' = job \/ (j \in Tasks /\ \E what : Do(j, what))
  <2>1. j \in Tasks
    BY TaskNames, Zenon
  <2>2. CASE ServeReliable(j) \/ ServeDatagram(j)
    BY <2>1, <2>2, ZenonT(60) DEF ServeReliable, ServeStateOp, ServeSyncStatus, ServeRequestMerge, ServeStateMerge,
          ServeMarkWatched, ServeDatagram, ServeOp
  <2>3. CASE EndConnection(j)
    BY <2>3, ZenonT(60) DEF EndConnection
  <2> QED
    BY <1>5, <2>2, <2>3, Zenon
<1>6. ASSUME NEW t \in Tasks, TaskNext(t)
      PROVE  \E what : Do(t, what)
  BY <1>6, ZenonT(60) DEF TaskNext, TaskSend, TaskBroadcast, TaskRelay, TaskSnapshot, TaskPause, TaskFlush
<1>7. CASE Compact \/ HashTick \/ ForcePause
  <2>1. \E t \in {Compactor, Hasher, Sweeper} : \E what : Do(t, what)
    BY <1>7, ZenonT(60) DEF Compact, HashTick, ForcePause
  <2> QED
    BY <1>3, <2>1, TaskNames, Zenon
<1>8. CASE FlushServer \/ RestartServer
  <2>1. job' = job \/ job' = [t \in Tasks |-> <<>>]
    BY <1>8, ZenonT(60) DEF FlushServer, RestartServer
  <2> QED
    BY <1>2, <2>1, Zenon
<1> QED
  BY <1>2, <1>3, <1>4, <1>5, <1>6, <1>7, <1>8, ZenonT(60) DEF Next

\* Every forced pause in a list of jobs is stamped n at most.
PausesBelow(q, n) == \A i \in 1..Len(q) : q[i].do = "pause" => q[i].ts <= n

\* One replica is below its floor.
ClientBelow(c) == AllBelow(cl[c].state, cl[c].last) /\ OpsBelow(cl[c].buffer, cl[c].last) /\ OpsBelow(cl[c].position, cl[c].last)

(* The inductive invariant.  A forced pause is stamped in one section of the *)
(* server and applied in a later one, so its stamp has to stay below the     *)
(* floor while it waits.                                                     *)
Floors ==
    /\ AllBelow(sState, sLast)
    /\ \A t \in Tasks : PausesBelow(job[t], sLast)
    /\ \A c \in Clients : ClientBelow(c)

-----------------------------------------------------------------------------
(* Lists of ops and of jobs. *)

(* A higher bound is a bound. *)
LEMMA OpsBelowMonotone ==
    ASSUME NEW q \in Seq(Op), NEW m \in Nat, NEW n \in Nat, OpsBelow(q, m), m <= n
    PROVE  OpsBelow(q, n)
<1>1. \A op \in Op : op.lww.ts \in Nat
  BY Zenon DEF Op, Lww
<1>2. \A i \in 1..Len(q) : q[i] \in Op
  OBVIOUS
<1> QED
  BY <1>1, <1>2 DEF OpsBelow

(* Buffering an op below the bound. *)
LEMMA OpsBelowAppend ==
    ASSUME NEW q \in Seq(Op), NEW op \in Op, NEW n \in Nat, OpsBelow(q, n), op.lww.ts <= n
    PROVE  OpsBelow(Append(q, op), n)
BY DEF OpsBelow

(* Taking an op off the buffer. *)
LEMMA OpsBelowTail ==
    ASSUME NEW q \in Seq(Op), q # <<>>, NEW n \in Nat, OpsBelow(q, n)
    PROVE  Head(q).lww.ts <= n /\ OpsBelow(Tail(q), n)
<1>1. /\ Len(q) \in Nat /\ Len(q) >= 1 /\ Head(q) = q[1]
      /\ Len(Tail(q)) = Len(q) - 1 /\ \A i \in 1..Len(Tail(q)) : Tail(q)[i] = q[i + 1]
  OBVIOUS
<1> QED
  BY <1>1 DEF OpsBelow

(* A higher bound is a bound. *)
LEMMA PausesBelowMonotone ==
    ASSUME NEW q \in Seq(Job), NEW m \in Nat, NEW n \in Nat, PausesBelow(q, m), m <= n
    PROVE  PausesBelow(q, n)
<1>1. \A i \in 1..Len(q) : q[i].do = "pause" => q[i].ts \in Nat
  BY PauseFields
<1> QED
  BY <1>1 DEF PausesBelow

(* Finishing a job. *)
LEMMA PausesBelowTail ==
    ASSUME NEW q \in Seq(Job), q # <<>>, NEW n \in Nat, PausesBelow(q, n)
    PROVE  /\ Head(q).do = "pause" => Head(q).ts <= n
           /\ PausesBelow(Tail(q), n)
<1>1. /\ Len(q) \in Nat /\ Len(q) >= 1 /\ Head(q) = q[1]
      /\ Len(Tail(q)) = Len(q) - 1 /\ \A i \in 1..Len(Tail(q)) : Tail(q)[i] = q[i + 1]
  OBVIOUS
<1> QED
  BY <1>1 DEF PausesBelow

(* Adding a job that is not a pause. *)
LEMMA PausesBelowCons ==
    ASSUME NEW w \in Job, NEW q \in Seq(Job), NEW n \in Nat, PausesBelow(q, n), w.do # "pause"
    PROVE  PausesBelow(<<w>> \o q, n)
<1>1. /\ Len(<<w>> \o q) = 1 + Len(q) /\ Len(q) \in Nat
      /\ (<<w>> \o q)[1] = w
      /\ \A i \in 2..(1 + Len(q)) : (<<w>> \o q)[i] = q[i - 1]
  OBVIOUS
<1> QED
  BY <1>1 DEF PausesBelow

(* Giving a task a list of jobs below a floor that has not sunk. *)
LEMMA DoFloors ==
    ASSUME TypeOK, Floors, NEW t \in Tasks, NEW q \in Seq(Job), Do(t, q),
           sLast' \in Nat, sLast' >= sLast, PausesBelow(q, sLast')
    PROVE  \A u \in Tasks : PausesBelow(job'[u], sLast')
<1> TAKE u \in Tasks
<1>1. job[u] \in Seq(Job) /\ job \in [Tasks -> Seq(Job)] /\ sLast \in Nat
  BY Zenon DEF TypeOK
<1>2. PausesBelow(job[u], sLast')
  BY <1>1, PausesBelowMonotone, Zenon DEF Floors
<1>3. job'[u] = IF u = t THEN q ELSE job[u]
  BY <1>1, Zenon DEF Do
<1> QED
  BY <1>2, <1>3, Zenon

-----------------------------------------------------------------------------
(* The clients. *)

(* A step that changes one client, to a record below its floor. *)
LEMMA ClientFloors ==
    ASSUME TypeOK, Floors, NEW c \in Clients, NEW r,
           cl' = [cl EXCEPT ![c] = r], AllBelow(r.state, r.last), OpsBelow(r.buffer, r.last),
           OpsBelow(r.position, r.last),
           sState' = sState, sLast' = sLast, job' = job
    PROVE  Floors'
<1>1. \A d \in Clients : cl'[d] = IF d = c THEN r ELSE cl[d]
  BY Zenon DEF TypeOK
<1>2. \A d \in Clients : ClientBelow(d)'
  BY <1>1, Zenon DEF Floors, ClientBelow
<1> QED
  BY <1>2, Zenon DEF Floors

(* A step that changes no replica, no floor and no job. *)
LEMMA NoFloorStep ==
    ASSUME Floors, sState' = sState, sLast' = sLast, job' = job, cl' = cl
    PROVE  Floors'
BY Zenon DEF Floors, ClientBelow

(* A local write is stamped above the floor, which rises to it. *)
LEMMA MutateFloors ==
    ASSUME TypeInv, Floors, NEW c \in Clients, NEW op \in Op, NEW b \in BOOLEAN, Mutate(c, op, b),
           op.lww.ts > cl[c].last
    PROVE  Floors'
<1> DEFINE r == cl[c]
           online == r.link = "Synced"
           position == op.key \in Positions
           buffer == IF online \/ position THEN r.buffer ELSE Append(r.buffer, op)
           kept == IF online \/ ~position THEN r.position ELSE <<op>>
           n == [r EXCEPT !.last = op.lww.ts, !.state = Apply(r.state, op), !.buffer = buffer,
                          !.position = kept, !.ticked = r.ticked \/ (online /\ position /\ b)]
<1>1. /\ r \in Client /\ r.state \in CrdtState /\ r.last \in Nat /\ r.buffer \in Seq(Op)
      /\ r.position \in Seq(Op) /\ op.lww.ts \in Nat
  BY ClientFields, ZenonT(60) DEF TypeInv, Op, Lww
<1>2. AllBelow(r.state, op.lww.ts) /\ OpsBelow(r.buffer, op.lww.ts) /\ OpsBelow(r.position, op.lww.ts)
  BY <1>1, AllBelowMonotone, OpsBelowMonotone DEF Floors, ClientBelow
<1>3. AllBelow(Apply(r.state, op), op.lww.ts) /\ OpsBelow(buffer, op.lww.ts)
  BY <1>1, <1>2, ApplyBelow, OpsBelowAppend
<1>6. OpsBelow(kept, op.lww.ts)
  <2>1. OpsBelow(<<op>>, op.lww.ts)
    BY <1>1 DEF OpsBelow
  <2> QED
    BY <1>2, <2>1, Zenon
<1>5. cl' = [cl EXCEPT ![c] = n] /\ sState' = sState /\ sLast' = sLast /\ job' = job
  BY Zenon DEF Mutate, srvVars
<1>4. n.state = Apply(r.state, op) /\ n.last = op.lww.ts /\ n.buffer = buffer /\ n.position = kept
  <2> HIDE DEF buffer, kept
  <2> QED
    BY <1>1, Zenon DEF Client
<1> HIDE DEF n, buffer, kept
<1> QED
  BY <1>3, <1>4, <1>5, <1>6, ClientFloors, ZenonT(60) DEF TypeInv

(* What the user writes is stamped above the floor, and a map write takes the *)
(* actor's next dot.                                                          *)
LEMMA WrittenAbove ==
    ASSUME TypeInv, NEW c \in Clients, NEW op \in Op, NEW b \in BOOLEAN, Writing(c, op, b)
    PROVE  /\ Mutate(c, op, b) /\ op.lww.ts > cl[c].last
           /\ op.key # Reg => NextInSequence(cl[c].state, op)
<1>1. cl[c].last \in Nat
  BY ClientFields, Zenon DEF TypeInv
<1>2. PICK now \in Clocks : op.lww.ts = Stamp(cl[c].last, now)
  BY Zenon DEF Writing
<1>3. op.lww.ts > cl[c].last
  BY <1>1, <1>2, InputsAssumption, StampProperties
<1> QED
  BY <1>3, Zenon DEF Writing, NextInSequence

(* Writes of the user keep the floors. *)
LEMMA WritesFloors ==
    ASSUME TypeInv, Floors, NEW c \in Clients, MutateMap(c) \/ MutateReg(c) \/ MutatePosition(c) \/ AskMarkWatched(c)
    PROVE  Floors'
<1>1. CASE AskMarkWatched(c)
  BY <1>1, NoFloorStep, Zenon DEF AskMarkWatched, srvVars, cliVars
<1>2. CASE MutateMap(c) \/ MutateReg(c) \/ MutatePosition(c)
  <2>1. PICK op \in Op, b \in BOOLEAN : Writing(c, op, b)
    BY <1>2, WrittenOp, Zenon
  <2> QED
    BY <2>1, WrittenAbove, MutateFloors, Zenon
<1> QED
  BY <1>1, <1>2, Zenon

(* Receiving an op raises the floor to it first. *)
LEMMA RecvOpFloors ==
    ASSUME TypeInv, Floors, NEW c \in Clients, RecvStateOp(c) \/ RecvDatagram(c)
    PROVE  Floors'
<1>1. TypeOK
  BY Zenon DEF TypeInv
<1>2. /\ cl[c] \in Client /\ cl[c].state \in CrdtState /\ cl[c].last \in Nat
      /\ cl[c].buffer \in Seq(Op) /\ cl[c].position \in Seq(Op)
  BY <1>1, ClientFields, Zenon
<1>3. AllBelow(cl[c].state, cl[c].last) /\ OpsBelow(cl[c].buffer, cl[c].last) /\ OpsBelow(cl[c].position, cl[c].last)
  BY Zenon DEF Floors, ClientBelow
<1>4. ASSUME NEW e, NEW op \in Op,
             NEW st \in {Apply(cl[c].state, op), ApplyIfOrderly(cl[c].state, op)}
      PROVE  LET n == Remote(cl[c], e, st, op)
             IN  AllBelow(n.state, n.last) /\ OpsBelow(n.buffer, n.last) /\ OpsBelow(n.position, n.last)
  <2> DEFINE n == Remote(cl[c], e, st, op)
             top == MaxOf(cl[c].last, op.lww.ts)
  <2>1. op.lww.ts \in Nat
    BY Zenon DEF Op, Lww
  <2>2. top \in Nat /\ top >= cl[c].last /\ top >= op.lww.ts
    BY <1>2, <2>1, MaxOfProperties, ZenonT(60)
  <2> HIDE DEF top
  <2>3. AllBelow(cl[c].state, top) /\ OpsBelow(cl[c].buffer, top) /\ OpsBelow(cl[c].position, top)
    BY <1>2, <1>3, <2>2, AllBelowMonotone, OpsBelowMonotone, Zenon
  <2>4. AllBelow(st, top)
    BY <1>2, <2>1, <2>2, <2>3, ApplyBelow, Zenon
  <2>5. \/ n = cl[c]
        \/ n.state = st /\ n.last = top /\ n.buffer = cl[c].buffer /\ n.position = cl[c].position
    BY <1>2, Zenon DEF Remote, Client, top
  <2> HIDE DEF n
  <2>6. AllBelow(n.state, n.last) /\ OpsBelow(n.buffer, n.last) /\ OpsBelow(n.position, n.last)
    BY <1>3, <2>3, <2>4, <2>5, Zenon
  <2> QED
    BY <2>6, Zenon DEF n
<1>5. CASE RecvStateOp(c)
  <2>1. Frame(c).op \in Op
    BY <1>1, <1>5, ReceivesType, ServerMsgFields, Zenon DEF RecvStateOp
  <2> DEFINE n == Remote(cl[c], Frame(c).epoch, Apply(cl[c].state, Frame(c).op), Frame(c).op)
  <2>2. cl' = [cl EXCEPT ![c] = n] /\ sState' = sState /\ sLast' = sLast /\ job' = job
    BY <1>5, Zenon DEF RecvStateOp, srvVars
  <2>3. AllBelow(n.state, n.last) /\ OpsBelow(n.buffer, n.last) /\ OpsBelow(n.position, n.last)
    BY <1>4, <2>1, Zenon
  <2> HIDE DEF n
  <2> QED
    BY <1>1, <2>2, <2>3, ClientFloors, ZenonT(60)
<1>6. CASE RecvDatagram(c)
  <2>1. PICK d \in dgrams :
          /\ cl' = [cl EXCEPT ![c] = Remote(cl[c], d.epoch, ApplyIfOrderly(cl[c].state, d.op), d.op)]
          /\ sState' = sState /\ sLast' = sLast /\ job' = job
    BY <1>6, ZenonT(60) DEF RecvDatagram, srvVars
  <2>2. d.op \in Op
    BY <1>1, Zenon DEF TypeOK, Dgram
  <2> DEFINE n == Remote(cl[c], d.epoch, ApplyIfOrderly(cl[c].state, d.op), d.op)
  <2>3. AllBelow(n.state, n.last) /\ OpsBelow(n.buffer, n.last) /\ OpsBelow(n.position, n.last)
    BY <1>4, <2>2, Zenon
  <2>4. cl' = [cl EXCEPT ![c] = n]
    BY <2>1, Zenon
  <2> HIDE DEF n
  <2> QED
    BY <1>1, <2>1, <2>3, <2>4, ClientFloors, ZenonT(60)
<1> QED
  BY <1>5, <1>6, Zenon

(* Holding a new state raises the floor to its highest stamp. *)
LEMMA HoldFloors ==
    ASSUME TypeInv, Floors, NEW c \in Clients, NEW e \in Nat, NEW st \in CrdtState, Hold(c, e, st),
           sState' = sState, sLast' = sLast, job' = job
    PROVE  Floors'
<1>1. PICK floor \in Stamps(st) :
        /\ IsMaxStamp(floor, st)
        /\ cl' = [cl EXCEPT ![c].state = st, ![c].epoch = e, ![c].last = MaxOf(@, floor),
                            ![c].mismatches = 0, ![c].link = Landed(@)]
  BY ZenonT(60) DEF Hold
<1>2. /\ TypeOK /\ cl[c] \in Client /\ cl[c].last \in Nat
      /\ cl[c].buffer \in Seq(Op) /\ cl[c].position \in Seq(Op)
  BY ClientFields, Zenon DEF TypeInv
<1>3. floor \in Nat
  BY StampsNat, Zenon
<1> DEFINE top == MaxOf(cl[c].last, floor)
           n == [cl[c] EXCEPT !.state = st, !.epoch = e, !.last = top,
                              !.mismatches = 0, !.link = Landed(cl[c].link)]
<1>4. top \in Nat /\ top >= cl[c].last /\ top >= floor
  BY <1>2, <1>3, MaxOfProperties, ZenonT(60)
<1>5. cl' = [cl EXCEPT ![c] = n]
  BY <1>1, <1>2, ZenonT(60) DEF TypeOK, Client
<1> HIDE DEF top
<1>6. n.state = st /\ n.last = top /\ n.buffer = cl[c].buffer /\ n.position = cl[c].position
  BY <1>2, Zenon DEF Client
<1> HIDE DEF n
<1>7. AllBelow(st, top)
  BY <1>1, <1>3, <1>4, AllBelowMonotone, Zenon DEF IsMaxStamp
<1>8. OpsBelow(cl[c].buffer, top) /\ OpsBelow(cl[c].position, top)
  BY <1>2, <1>4, OpsBelowMonotone, Zenon DEF Floors, ClientBelow
<1> QED
  BY <1>2, <1>5, <1>6, <1>7, <1>8, ClientFloors, ZenonT(60)

(* Receiving a merge or a snapshot keeps the floors. *)
LEMMA RecvStateFloors ==
    ASSUME TypeInv, Floors, NEW c \in Clients, RecvStateMerge(c) \/ RecvStateSnapshot(c)
    PROVE  Floors'
<1>1. TypeOK /\ sState' = sState /\ sLast' = sLast /\ job' = job
  BY Zenon DEF TypeInv, RecvStateMerge, RecvStateSnapshot, srvVars
<1>2. cl[c].state \in CrdtState /\ cl[c].epoch \in Nat
  BY <1>1, ClientFields, Zenon
<1>3. PICK type \in {"StateMerge", "StateSnapshot"} : Receives(c, type)
  BY Zenon DEF RecvStateMerge, RecvStateSnapshot
<1>4. Frame(c).epoch \in Nat /\ Frame(c).state \in CrdtState
  BY <1>1, <1>3, ReceivesType, ServerMsgFields, Zenon
<1>5. Merge(cl[c].state, Frame(c).state) \in CrdtState
  BY <1>2, <1>4, MergeType, Zenon
<1>6. \/ Hold(c, cl[c].epoch, Merge(cl[c].state, Frame(c).state))
      \/ Hold(c, Frame(c).epoch, Frame(c).state)
      \/ cl' = cl
  BY Zenon DEF RecvStateMerge, RecvStateSnapshot
<1> QED
  BY <1>1, <1>2, <1>4, <1>5, <1>6, HoldFloors, NoFloorStep, ZenonT(60)

(* A step that changes parts of a client the floor does not depend on. *)
LEMMA SameFloor ==
    ASSUME TypeOK, Floors, NEW c \in Clients, NEW r, cl' = [cl EXCEPT ![c] = r],
           r.state = cl[c].state, r.last = cl[c].last, r.buffer = cl[c].buffer, r.position = cl[c].position,
           sState' = sState, sLast' = sLast, job' = job
    PROVE  Floors'
<1>1. AllBelow(r.state, r.last) /\ OpsBelow(r.buffer, r.last) /\ OpsBelow(r.position, r.last)
  BY Zenon DEF Floors, ClientBelow
<1> QED
  BY <1>1, ClientFloors, ZenonT(60)

(* Connecting, losing the connection, the handshake and the alarm. *)
LEMMA ConnectionFloors ==
    ASSUME TypeInv, Floors, NEW c \in Clients,
           Accept(c) \/ Disconnected(c) \/ Connected(c) \/ RecvStateHash(c) \/ PushMerge(c)
    PROVE  Floors'
<1>1. TypeOK /\ cl[c] \in Client
  BY ClientFields, Zenon DEF TypeInv
<1>2. sState' = sState /\ sLast' = sLast /\ job' = job
  BY Zenon DEF Accept, Disconnected, Connected, RecvStateHash, PushMerge, srvVars
<1>3. CASE Accept(c)
  <2>1. PICK k \in Conns : cl' = [cl EXCEPT ![c].conn = k]
    BY <1>3, ZenonT(60) DEF Accept
  <2> DEFINE n == [cl[c] EXCEPT !.conn = k]
  <2>2. /\ cl' = [cl EXCEPT ![c] = n]
        /\ n.state = cl[c].state /\ n.last = cl[c].last /\ n.buffer = cl[c].buffer /\ n.position = cl[c].position
    BY <1>1, <2>1, Zenon DEF Client
  <2> HIDE DEF n
  <2> QED
    BY <1>1, <1>2, <2>2, SameFloor, ZenonT(60)
<1>4. CASE Disconnected(c)
  <2> DEFINE n == [cl[c] EXCEPT !.conn = 0, !.link = "Down", !.mismatches = 0]
  <2>1. /\ cl' = [cl EXCEPT ![c] = n]
        /\ n.state = cl[c].state /\ n.last = cl[c].last /\ n.buffer = cl[c].buffer /\ n.position = cl[c].position
    BY <1>1, <1>4, ZenonT(60) DEF Client, Disconnected
  <2> HIDE DEF n
  <2> QED
    BY <1>1, <1>2, <2>1, SameFloor, ZenonT(60)
<1>5. CASE Connected(c)
  <2> DEFINE n == [cl[c] EXCEPT !.link = "AwaitingSync"]
  <2>1. /\ cl' = [cl EXCEPT ![c] = n]
        /\ n.state = cl[c].state /\ n.last = cl[c].last /\ n.buffer = cl[c].buffer /\ n.position = cl[c].position
    BY <1>1, <1>5, Zenon DEF Client, Connected
  <2> HIDE DEF n
  <2> QED
    BY <1>1, <1>2, <2>1, SameFloor, Zenon
<1>6. CASE PushMerge(c)
  <2> DEFINE n == [cl[c] EXCEPT !.link = "Synced"]
  <2>1. /\ cl' = [cl EXCEPT ![c] = n]
        /\ n.state = cl[c].state /\ n.last = cl[c].last /\ n.buffer = cl[c].buffer /\ n.position = cl[c].position
    BY <1>1, <1>6, Zenon DEF Client, PushMerge
  <2> HIDE DEF n
  <2> QED
    BY <1>1, <1>2, <2>1, SameFloor, Zenon
<1>7. CASE RecvStateHash(c)
  <2> DEFINE m == Frame(c)
             r == cl[c]
             matches == View(r.state) = m.hash
             heal == ~matches /\ r.mismatches + 1 >= 2
             attempts == IF r.heals < HealAttemptsEscalate THEN r.heals + 1 ELSE r.heals
             n == IF m.epoch # r.epoch THEN r
                  ELSE IF matches THEN [r EXCEPT !.mismatches = 0, !.heals = 0]
                  ELSE IF heal THEN [r EXCEPT !.mismatches = 0, !.heals = attempts]
                  ELSE [r EXCEPT !.mismatches = r.mismatches + 1]
  <2>1. cl' = [cl EXCEPT ![c] = n] /\ r \in Client
    BY <1>1, <1>7, Zenon DEF RecvStateHash
  <2>2. n.state = r.state /\ n.last = r.last /\ n.buffer = r.buffer /\ n.position = r.position
    <3> HIDE DEF m, r, matches, heal, attempts
    <3> QED
      BY <2>1, Zenon DEF Client
  <2> HIDE DEF n
  <2> QED
    BY <1>1, <1>2, <2>1, <2>2, SameFloor, ZenonT(60)
<1> QED
  BY <1>3, <1>4, <1>5, <1>6, <1>7, Zenon

(* Replaying the buffer, and starting again from storage. *)
LEMMA ReplayFloors ==
    ASSUME TypeInv, Floors, NEW c \in Clients, Replay(c) \/ ReplayPosition(c) \/ FlushClient(c) \/ RestartClient(c)
    PROVE  Floors'
<1>1. TypeOK /\ cl[c] \in Client /\ cl[c].state \in CrdtState /\ cl[c].last \in Nat
      /\ cl[c].buffer \in Seq(Op) /\ cl[c].position \in Seq(Op)
  BY ClientFields, Zenon DEF TypeInv
<1>2. sState' = sState /\ sLast' = sLast /\ job' = job
  BY Zenon DEF Replay, ReplayPosition, FlushClient, RestartClient, srvVars
<1>3. CASE FlushClient(c)
  BY <1>2, <1>3, NoFloorStep, ZenonT(60) DEF FlushClient
<1>4. CASE Replay(c)
  <2> DEFINE b == cl[c].buffer
             n == [cl[c] EXCEPT !.state = Apply(cl[c].state, Head(b)), !.buffer = Tail(b)]
  <2>1. Head(b) \in Op /\ Tail(b) \in Seq(Op) /\ b # <<>>
    BY <1>1, <1>4, QueueParts, Zenon DEF Replay
  <2>2. /\ AllBelow(cl[c].state, cl[c].last) /\ OpsBelow(b, cl[c].last)
        /\ OpsBelow(cl[c].position, cl[c].last)
    BY Zenon DEF Floors, ClientBelow
  <2>3. Head(b).lww.ts <= cl[c].last /\ OpsBelow(Tail(b), cl[c].last)
    BY <1>1, <2>1, <2>2, OpsBelowTail, Zenon
  <2>4. AllBelow(Apply(cl[c].state, Head(b)), cl[c].last)
    BY <1>1, <2>1, <2>2, <2>3, ApplyBelow, Zenon
  <2>5. /\ cl' = [cl EXCEPT ![c] = n]
        /\ n.state = Apply(cl[c].state, Head(b)) /\ n.last = cl[c].last /\ n.buffer = Tail(b)
        /\ n.position = cl[c].position
    BY <1>1, <1>4, Zenon DEF Replay, TypeOK, Client
  <2> HIDE DEF n
  <2> QED
    BY <1>1, <1>2, <2>2, <2>3, <2>4, <2>5, ClientFloors, ZenonT(60)
<1>p. CASE ReplayPosition(c)
  <2> DEFINE b == cl[c].position
             n == [cl[c] EXCEPT !.state = Apply(cl[c].state, Head(b)), !.position = Tail(b)]
  <2>1. Head(b) \in Op /\ Tail(b) \in Seq(Op) /\ b # <<>>
    BY <1>1, <1>p, QueueParts, Zenon DEF ReplayPosition
  <2>2. /\ AllBelow(cl[c].state, cl[c].last) /\ OpsBelow(b, cl[c].last)
        /\ OpsBelow(cl[c].buffer, cl[c].last)
    BY Zenon DEF Floors, ClientBelow
  <2>3. Head(b).lww.ts <= cl[c].last /\ OpsBelow(Tail(b), cl[c].last)
    BY <1>1, <2>1, <2>2, OpsBelowTail, Zenon
  <2>4. AllBelow(Apply(cl[c].state, Head(b)), cl[c].last)
    BY <1>1, <2>1, <2>2, <2>3, ApplyBelow, Zenon
  <2>5. /\ cl' = [cl EXCEPT ![c] = n]
        /\ n.state = Apply(cl[c].state, Head(b)) /\ n.last = cl[c].last /\ n.position = Tail(b)
        /\ n.buffer = cl[c].buffer
    BY <1>1, <1>p, Zenon DEF ReplayPosition, TypeOK, Client
  <2> HIDE DEF n
  <2> QED
    BY <1>1, <1>2, <2>2, <2>3, <2>4, <2>5, ClientFloors, ZenonT(60)
<1>5. CASE RestartClient(c)
  <2>1. PICK snap \in {cDisk[c], NoSnapshot}, floor \in Stamps(cDisk[c].state) \cup {0} :
         /\ IsMaxStamp(floor, snap.state)
         /\ cl' = [cl EXCEPT ![c] = StartedClient(cl[c].session + 1, snap, floor)]
    BY <1>5, ZenonT(60) DEF RestartClient
  <2> DEFINE n == StartedClient(cl[c].session + 1, snap, floor)
  <2>2. n.state = snap.state /\ n.last = floor /\ n.buffer = <<>> /\ n.position = <<>>
    BY DEF StartedClient
  <2>3. OpsBelow(<<>>, floor)
    BY DEF OpsBelow
  <2>4. cl' = [cl EXCEPT ![c] = n]
    BY <2>1, Zenon
  <2> HIDE DEF n
  <2>5. AllBelow(n.state, n.last) /\ OpsBelow(n.buffer, n.last) /\ OpsBelow(n.position, n.last)
    BY <2>1, <2>2, <2>3, Zenon DEF IsMaxStamp
  <2> QED
    BY <1>1, <1>2, <2>4, <2>5, ClientFloors, ZenonT(60)
<1> QED
  BY <1>3, <1>4, <1>p, <1>5, Zenon

-----------------------------------------------------------------------------
(* The server. *)

(* A step that leaves the clients alone, keeps the server's state below its *)
(* floor and does not lower it.                                             *)
LEMMA ServerFloors ==
    ASSUME Floors, cl' = cl, AllBelow(sState', sLast'),
           \A t \in Tasks : PausesBelow(job'[t], sLast')
    PROVE  Floors'
BY Zenon DEF Floors, ClientBelow

(* A list of one job that is not a pause. *)
LEMMA NoPause ==
    ASSUME NEW w, w.do # "pause", NEW n
    PROVE  PausesBelow(<<w>>, n)
BY DEF PausesBelow

(* Serving an op raises the floor to it first. *)
LEMMA ServeOpFloors ==
    ASSUME TypeInv, Floors, NEW k \in Conns, ServeStateOp(k) \/ ServeDatagram(k)
    PROVE  Floors'
<1>1. TypeOK /\ sState \in CrdtState /\ sLast \in Nat /\ k \in Tasks
  BY Zenon DEF TypeInv, TypeOK, Tasks
<1>2. PICK e \in Nat, op \in Op, via \in BOOLEAN : ServeOp(k, e, op, via)
  <2>1. CASE ServeStateOp(k)
    BY <1>1, <2>1, ServesType, ClientMsgFields, ZenonT(60) DEF ServeStateOp
  <2>2. CASE ServeDatagram(k)
    BY <1>1, <2>2, ZenonT(60) DEF ServeDatagram, TypeOK, Dgram
  <2> QED
    BY <2>1, <2>2, ZenonT(60)
<1>3. op.lww.ts \in Nat
  BY Zenon DEF Op, Lww
<1>4. sLast' \in Nat /\ sLast' >= sLast /\ sLast' >= op.lww.ts
  BY <1>1, <1>2, <1>3, MaxOfProperties, ZenonT(60) DEF ServeOp
<1>5. AllBelow(sState, sLast')
  BY <1>1, <1>4, AllBelowMonotone, Zenon DEF Floors
<1>6. AllBelow(sState', sLast')
  <2>1. sState' = sState \/ sState' = ApplyForBroadcast(sState, op, via)
    BY <1>2, Zenon DEF ServeOp
  <2> QED
    BY <1>1, <1>3, <1>4, <1>5, <2>1, ApplyBelow, Zenon
<1> DEFINE w == [do |-> RelayTransport(op, via), skip |-> k, msg |-> StateOp(e, op)]
<1>7. w \in Job /\ w.do # "pause"
  BY RelayJob, Zenon DEF RelayTransport
<1>8. Do(k, <<w>>) \/ Do(k, <<>>)
  BY <1>2, Zenon DEF ServeOp
<1> HIDE DEF w
<1>9. <<w>> \in Seq(Job) /\ <<>> \in Seq(Job) /\ PausesBelow(<<w>>, sLast') /\ PausesBelow(<<>>, sLast')
  BY <1>7, NoPause, JobLists DEF PausesBelow
<1>10. \A t \in Tasks : PausesBelow(job'[t], sLast')
  BY <1>1, <1>4, <1>8, <1>9, DoFloors, ZenonT(60)
<1>11. cl' = cl
  BY ZenonT(60) DEF ServeStateOp, ServeDatagram, cliVars
<1> QED
  BY <1>6, <1>10, <1>11, ServerFloors, Zenon

(* A step of a task that leaves every replica alone and only has other jobs. *)
LEMMA JobFloors ==
    ASSUME TypeOK, Floors, NEW t \in Tasks, NEW q \in Seq(Job), Do(t, q), PausesBelow(q, sLast),
           sState' = sState, sLast' = sLast, cl' = cl
    PROVE  Floors'
<1>1. sLast' \in Nat /\ sLast' >= sLast /\ PausesBelow(q, sLast')
  BY DEF TypeOK
<1>2. \A u \in Tasks : PausesBelow(job'[u], sLast')
  BY <1>1, DoFloors, Zenon
<1> QED
  BY <1>2, ServerFloors, Zenon DEF Floors

(* The handshake, heals and the end of a connection keep the floors. *)
LEMMA ServeSyncFloors ==
    ASSUME TypeInv, Floors, NEW k \in Conns,
           ServeSyncStatus(k) \/ ServeRequestMerge(k) \/ ServeStateMerge(k) \/ EndConnection(k)
    PROVE  Floors'
<1>1. TypeOK /\ sState \in CrdtState /\ sEpoch \in Nat /\ sLast \in Nat /\ k \in Tasks
  BY Zenon DEF TypeInv, TypeOK, Tasks
<1>2. cl' = cl
  BY Zenon DEF ServeSyncStatus, ServeRequestMerge, ServeStateMerge, EndConnection, cliVars
<1>3. CASE EndConnection(k)
  BY <1>2, <1>3, NoFloorStep, Zenon DEF EndConnection, srvVars
<1>4. CASE ServeSyncStatus(k) \/ ServeRequestMerge(k)
  <2>1. \/ Do(k, <<>>)
        \/ \E type \in {"StateMerge", "StateSnapshot"} :
             Do(k, <<[do |-> "send", to |-> k,
                      msg |-> [type |-> type, epoch |-> sEpoch, state |-> sState]]>>)
    BY <1>4, Zenon DEF ServeSyncStatus, ServeRequestMerge
  <2>2. \A type \in {"StateMerge", "StateSnapshot"} :
          [do |-> "send", to |-> k, msg |-> [type |-> type, epoch |-> sEpoch, state |-> sState]] \in Job
    BY <1>1, StateMsgType, SendJob, Zenon
  <2>3. \A type \in {"StateMerge", "StateSnapshot"} :
          PausesBelow(<<[do |-> "send", to |-> k,
                         msg |-> [type |-> type, epoch |-> sEpoch, state |-> sState]]>>, sLast)
    BY DEF PausesBelow
  <2>4. PausesBelow(<<>>, sLast)
    BY DEF PausesBelow
  <2>5. sState' = sState /\ sLast' = sLast
    BY <1>4, Zenon DEF ServeSyncStatus, ServeRequestMerge, srvVars
  <2> QED
    BY <1>1, <1>2, <2>1, <2>2, <2>3, <2>4, <2>5, JobLists, JobFloors, ZenonT(60)
<1>5. CASE ServeStateMerge(k)
  <2> DEFINE merged == Merge(sState, Head(up[k]).state)
             w == [do |-> "snapshot", type |-> "StateMerge"]
  <2>1. merged \in CrdtState
    <3>1. Head(up[k]).state \in CrdtState
      BY <1>1, <1>5, ServesType, ClientMsgFields, ZenonT(60) DEF ServeStateMerge
    <3> QED
      BY <1>1, <3>1, MergeType, ZenonT(60)
  <2>2. w \in Job /\ w.do # "pause"
    BY ZenonT(60) DEF Job
  <2>3. \/ UNCHANGED <<sState, sLast, job>>
        \/ /\ sState' = merged
           /\ \E floor \in Stamps(merged) : IsMaxStamp(floor, merged) /\ sLast' = MaxOf(sLast, floor)
           /\ Do(k, <<w>>)
    BY <1>5, ZenonT(60) DEF ServeStateMerge
  <2> HIDE DEF merged, w
  <2>4. CASE UNCHANGED <<sState, sLast, job>>
    BY <1>2, <2>4, NoFloorStep, Zenon
  <2>5. ASSUME NEW floor \in Stamps(merged), IsMaxStamp(floor, merged), sLast' = MaxOf(sLast, floor),
               sState' = merged, Do(k, <<w>>)
        PROVE  Floors'
    <3>1. floor \in Nat
      BY <2>1, StampsNat, Zenon
    <3>2. sLast' \in Nat /\ sLast' >= sLast /\ sLast' >= floor
      BY <1>1, <2>5, <3>1, MaxOfProperties, Zenon
    <3>3. AllBelow(sState', sLast')
      BY <2>1, <2>5, <3>1, <3>2, AllBelowMonotone, Zenon DEF IsMaxStamp
    <3>4. \A t \in Tasks : PausesBelow(job'[t], sLast')
      BY <1>1, <2>2, <2>5, <3>2, NoPause, JobLists, DoFloors, ZenonT(60)
    <3> QED
      BY <1>2, <3>3, <3>4, ServerFloors, Zenon
  <2> QED
    BY <2>3, <2>4, <2>5, Zenon
<1> QED
  BY <1>3, <1>4, <1>5, Zenon

(* A watched flag is stamped above the floor, which rises to it. *)
LEMMA MarkFloors ==
    ASSUME TypeInv, Floors, NEW k \in Conns, ServeMarkWatched(k)
    PROVE  Floors'
<1>1. TypeOK /\ sState \in CrdtState /\ sEpoch \in Nat /\ sLast \in Nat /\ k \in Tasks
  BY ZenonT(60) DEF TypeInv, TypeOK, Tasks
<1>2. cl' = cl
  BY ZenonT(60) DEF ServeMarkWatched, cliVars
<1>3. Head(up[k]).key \in Keys /\ Head(up[k]).val \in Nat
  BY <1>1, ServesType, ClientMsgFields, ZenonT(60) DEF ServeMarkWatched
<1> DEFINE mark(ts) == [actor |-> Server, counter |-> sState.clock[Server] + 1,
                        key |-> Head(up[k]).key, lww |-> [ts |-> ts, val |-> Head(up[k]).val]]
           w(ts) == [do |-> "broadcast", skip |-> 0, msg |-> StateOp(sEpoch, mark(ts))]
<1>4. \/ UNCHANGED <<sState, sLast, job>>
      \/ \E now \in Clocks :
           /\ sLast' = Stamp(sLast, now)
           /\ sState' = Apply(sState, mark(Stamp(sLast, now)))
           /\ Do(k, <<w(Stamp(sLast, now))>>)
  BY ZenonT(60) DEF ServeMarkWatched
<1>5. \A ts \in Nat : mark(ts) \in Op /\ mark(ts).lww.ts = ts
  BY <1>1, <1>3, MarkOpType, Zenon
<1> HIDE DEF mark
<1>6. \A ts \in Nat : w(ts) \in Job /\ w(ts).do # "pause"
  BY <1>1, <1>5, StateOpType, BroadcastJob, Zenon
<1> HIDE DEF w
<1>7. ASSUME NEW now \in Clocks, sLast' = Stamp(sLast, now),
             sState' = Apply(sState, mark(sLast')), Do(k, <<w(sLast')>>)
      PROVE  Floors'
  <2>1. sLast' \in Nat /\ sLast' >= sLast
    BY <1>1, <1>7, InputsAssumption, StampProperties
  <2>2. AllBelow(sState, sLast')
    BY <1>1, <2>1, AllBelowMonotone, ZenonT(60) DEF Floors
  <2>3. AllBelow(sState', sLast')
    BY <1>1, <1>5, <1>7, <2>1, <2>2, ApplyBelow
  <2>4. \A t \in Tasks : PausesBelow(job'[t], sLast')
    BY <1>1, <1>6, <1>7, <2>1, NoPause, JobLists, DoFloors, ZenonT(60)
  <2> QED
    BY <1>2, <2>3, <2>4, ServerFloors, Zenon
<1>8. CASE UNCHANGED <<sState, sLast, job>>
  BY <1>2, <1>8, NoFloorStep, Zenon
<1> QED
  BY <1>4, <1>7, <1>8, ZenonT(60)

(* The background tasks keep the floors. *)
LEMMA BackgroundFloors ==
    ASSUME Ranked, TypeInv, Floors, Compact \/ HashTick \/ ForcePause
    PROVE  Floors'
<1>1. TypeOK /\ sState \in CrdtState /\ sEpoch \in Nat /\ sLast \in Nat
  BY Zenon DEF TypeInv, TypeOK
<1>2. cl' = cl /\ Compactor \in Tasks /\ Hasher \in Tasks /\ Sweeper \in Tasks
  BY Zenon DEF Compact, HashTick, ForcePause, cliVars, Tasks
<1>3. CASE Compact
  <2> DEFINE q == <<[do |-> "snapshot", type |-> "StateSnapshot"], [do |-> "flush"]>>
  <2>1. PICK now \in Clocks : /\ sState' = Rebuild(sState, MaxOf(sLast, now - 1))
                              /\ sLast' = RebuildLast(sState, MaxOf(sLast, now - 1))
    BY <1>3, Zenon DEF Compact
  <2>2. MaxOf(sLast, now - 1) \in Nat /\ MaxOf(sLast, now - 1) >= sLast
    BY <1>1, InputsAssumption DEF MaxOf
  <2>3. sLast' \in Nat /\ sLast' >= sLast
    BY <1>1, <2>1, <2>2, RebuildType
  <2>4. AllBelow(sState', sLast')
    BY <1>1, <2>1, <2>2, RebuildBelow, Zenon
  <2>5. [do |-> "snapshot", type |-> "StateSnapshot"] \in Job /\ [do |-> "flush"] \in Job
    BY Zenon DEF Job
  <2>6. q \in Seq(Job) /\ Do(Compactor, q)
    BY <1>3, <2>5, JobLists, Zenon DEF Compact
  <2>7. PausesBelow(q, sLast')
    BY DEF PausesBelow
  <2> HIDE DEF q
  <2>8. \A t \in Tasks : PausesBelow(job'[t], sLast')
    BY <1>1, <1>2, <2>3, <2>6, <2>7, DoFloors, Zenon
  <2> QED
    BY <1>2, <2>4, <2>8, ServerFloors, ZenonT(60)
<1>4. CASE HashTick
  <2> DEFINE w == [do |-> "broadcast", skip |-> 0,
                   msg |-> [type |-> "StateHash", epoch |-> sEpoch, hash |-> View(sState)]]
  <2>1. [type |-> "StateHash", epoch |-> sEpoch, hash |-> View(sState)] \in ServerMsg
    BY <1>1, ViewType, Zenon DEF ServerMsg
  <2>2. w \in Job /\ w.do # "pause"
    BY <2>1, BroadcastJob, Zenon
  <2>3. Do(Hasher, <<w>>) /\ sState' = sState /\ sLast' = sLast
    BY <1>4, Zenon DEF HashTick, srvVars
  <2> HIDE DEF w
  <2> QED
    BY <1>1, <1>2, <2>2, <2>3, NoPause, JobLists, JobFloors, ZenonT(60)
<1>5. CASE ForcePause
  <2>1. PICK now \in Clocks : /\ sLast' = Stamp(sLast, now)
                              /\ Do(Sweeper, <<[do |-> "pause", ts |-> Stamp(sLast, now)]>>)
    BY <1>5, Zenon DEF ForcePause
  <2> DEFINE w == [do |-> "pause", ts |-> sLast']
  <2>2. sLast' \in Nat /\ sLast' >= sLast
    BY <1>1, <2>1, InputsAssumption, StampProperties
  <2>3. w \in Job /\ Do(Sweeper, <<w>>)
    BY <2>1, <2>2, Zenon DEF Job
  <2>4. PausesBelow(<<w>>, sLast')
    BY <2>2 DEF PausesBelow
  <2> HIDE DEF w
  <2>5. \A t \in Tasks : PausesBelow(job'[t], sLast')
    BY <1>1, <1>2, <2>2, <2>3, <2>4, JobLists, DoFloors, ZenonT(60)
  <2>6. AllBelow(sState', sLast')
    BY <1>1, <1>5, <2>2, AllBelowMonotone, Zenon DEF Floors, ForcePause
  <2> QED
    BY <1>2, <2>5, <2>6, ServerFloors, ZenonT(60)
<1> QED
  BY <1>3, <1>4, <1>5, Zenon

(* A restarted server takes its floor from the state it loads. *)
LEMMA ServerStorageFloors ==
    ASSUME TypeInv, Floors, FlushServer \/ RestartServer
    PROVE  Floors'
<1>1. CASE FlushServer
  BY <1>1, NoFloorStep, Zenon DEF FlushServer, cliVars
<1>2. CASE RestartServer
  <2>1. AllBelow(sState', sLast') /\ cl' = cl
    BY <1>2, Zenon DEF RestartServer, IsMaxStamp, cliVars
  <2>2. \A t \in Tasks : PausesBelow(job'[t], sLast')
    BY <1>2 DEF RestartServer, PausesBelow
  <2> QED
    BY <2>1, <2>2, ServerFloors, Zenon
<1> QED
  BY <1>1, <1>2, Zenon

(* A pause is applied with a stamp the floor has kept above. *)
LEMMA TaskFloors ==
    ASSUME TypeInv, Floors, NEW t \in Tasks, TaskNext(t)
    PROVE  Floors'
<1>1. TypeOK /\ sState \in CrdtState /\ sEpoch \in Nat /\ sLast \in Nat
  BY ZenonT(60) DEF TypeInv, TypeOK
<1>2. cl' = cl
  BY ZenonT(60) DEF TaskNext, TaskSend, TaskBroadcast, TaskRelay, TaskSnapshot, TaskPause, TaskFlush, cliVars
<1>3. job[t] \in Seq(Job) /\ job[t] # <<>>
  BY <1>1, ZenonT(60) DEF TypeOK, TaskNext, TaskSend, TaskBroadcast, TaskRelay, TaskSnapshot, TaskPause, TaskFlush, Todo
<1>4. /\ Head(job[t]) \in Job /\ Tail(job[t]) \in Seq(Job)
      /\ Head(job[t]).do = "pause" => Head(job[t]).ts <= sLast
      /\ PausesBelow(Tail(job[t]), sLast)
  BY <1>1, <1>3, QueueParts, PausesBelowTail, Zenon DEF Floors
<1>5. CASE TaskSend(t) \/ TaskBroadcast(t) \/ TaskRelay(t) \/ TaskFlush(t)
  <2>1. Do(t, Tail(job[t])) /\ sState' = sState /\ sLast' = sLast
    BY <1>5, ZenonT(60) DEF TaskSend, TaskBroadcast, TaskRelay, TaskFlush, srvVars
  <2> QED
    BY <1>1, <1>2, <1>4, <2>1, JobFloors, ZenonT(60)
<1>6. CASE TaskSnapshot(t)
  <2> DEFINE w == [do |-> "broadcast", skip |-> 0,
                   msg |-> [type |-> Head(job[t]).type, epoch |-> sEpoch, state |-> sState]]
  <2>1. Do(t, <<w>> \o Tail(job[t])) /\ sState' = sState /\ sLast' = sLast
    BY <1>6, Zenon DEF TaskSnapshot, srvVars
  <2>2. w \in Job /\ w.do # "pause"
    <3>1. Head(job[t]).type \in {"StateMerge", "StateSnapshot"}
      BY <1>1, <1>6, TodoType, SnapshotFields, Zenon DEF TaskSnapshot
    <3> QED
      BY <1>1, <3>1, StateMsgType, BroadcastJob, Zenon
  <2> HIDE DEF w
  <2>3. PausesBelow(<<w>> \o Tail(job[t]), sLast) /\ <<w>> \o Tail(job[t]) \in Seq(Job)
    BY <1>1, <1>4, <2>2, PausesBelowCons, JobLists, ZenonT(60)
  <2> QED
    BY <1>1, <1>2, <2>1, <2>3, JobFloors, ZenonT(60)
<1>7. CASE TaskPause(t)
  <2> DEFINE op == [actor |-> Server, counter |-> 0, key |-> Reg,
                    lww |-> [ts |-> Head(job[t]).ts, val |-> Paused]]
             w == [do |-> "broadcast", skip |-> 0, msg |-> StateOp(sEpoch, op)]
  <2>1. /\ sState' = Apply(sState, op) /\ sLast' = sLast
        /\ Do(t, <<w>> \o Tail(job[t]))
    BY <1>7, Zenon DEF TaskPause
  <2>2. Head(job[t]).ts \in Nat /\ Head(job[t]).ts <= sLast
    BY <1>1, <1>4, <1>7, TodoType, PauseFields, ZenonT(60) DEF TaskPause
  <2>3. op \in Op /\ op.lww.ts <= sLast
    BY <2>2, PauseOpType, Zenon
  <2> HIDE DEF op
  <2>4. w \in Job /\ w.do # "pause"
    BY <1>1, <2>3, StateOpType, BroadcastJob, ZenonT(60)
  <2> HIDE DEF w
  <2>5. PausesBelow(<<w>> \o Tail(job[t]), sLast) /\ <<w>> \o Tail(job[t]) \in Seq(Job)
    BY <1>1, <1>4, <2>4, PausesBelowCons, JobLists, Zenon
  <2>6. AllBelow(sState', sLast')
    BY <1>1, <2>1, <2>3, ApplyBelow, Zenon DEF Floors
  <2>7. \A u \in Tasks : PausesBelow(job'[u], sLast')
    <3>1. /\ sLast' \in Nat /\ sLast' >= sLast
          /\ PausesBelow(<<w>> \o Tail(job[t]), sLast')
      BY <1>1, <2>1, <2>5
    <3> QED
      BY <1>1, <2>1, <2>5, <3>1, DoFloors, ZenonT(60)
  <2> QED
    BY <1>2, <2>6, <2>7, ServerFloors, ZenonT(60)
<1> QED
  BY <1>5, <1>6, <1>7, Zenon DEF TaskNext

-----------------------------------------------------------------------------

(* The floors hold from the start. *)
LEMMA InitFloors == Init => Floors
<1> SUFFICES ASSUME Init PROVE Floors
  BY Zenon
<1>1. AllBelow(EmptyState, 0)
  BY DEF EmptyState, NoEntry, NoLww, AllBelow, Stamps
<1>2. OpsBelow(<<>>, 0) /\ PausesBelow(<<>>, 0)
  BY DEF OpsBelow, PausesBelow
<1> QED
  BY <1>1, <1>2, Zenon DEF Init, Floors, ClientBelow, StartedClient, NoSnapshot

(* Every step keeps the floors. *)
LEMMA NextFloors ==
    ASSUME Ranked, TypeInv, Floors, [Next]_vars
    PROVE  Floors'
<1>1. CASE \E c \in Clients : ClientNext(c)
  BY <1>1, WritesFloors, ConnectionFloors, RecvOpFloors, RecvStateFloors, ReplayFloors
    , Zenon DEF ClientNext, ClientReceives
<1>2. CASE \E k \in Conns : ServeReliable(k) \/ ServeDatagram(k) \/ EndConnection(k)
  BY <1>2, ServeOpFloors, ServeSyncFloors, MarkFloors, Zenon DEF ServeReliable
<1>3. CASE \E t \in Tasks : TaskNext(t)
  BY <1>3, TaskFloors, Zenon
<1>4. CASE Compact \/ HashTick \/ ForcePause \/ FlushServer \/ RestartServer
  BY <1>4, BackgroundFloors, ServerStorageFloors, Zenon
<1>5. CASE UNCHANGED vars
  BY <1>5, NoFloorStep, Zenon DEF vars, srvVars, cliVars
<1> QED
  BY <1>1, <1>2, <1>3, <1>4, <1>5, Zenon DEF Next

-----------------------------------------------------------------------------

(* A write stamped above the floor, with the actor's next dot if it is a map *)
(* write, is the winner in the replica it is applied to.                     *)
LEMMA FreshWriteWins ==
    ASSUME NEW s \in CrdtState, NEW op \in Op, NEW last \in Nat, AllBelow(s, last),
           op.lww.ts > last, op.key # Reg => NextInSequence(s, op)
    PROVE  IF op.key = Reg THEN Apply(s, op).reg = op.lww
           ELSE Apply(s, op).entries[op.key].cell = op.lww
<1>1. s.reg.ts <= last /\ \A k \in Keys : s.entries[k].cell.ts <= last
  BY Zenon DEF AllBelow, Stamps
<1>2. /\ s.reg \in Lww /\ op.lww \in Lww /\ s.entries \in [Keys -> Entry]
      /\ \A k \in Keys : s.entries[k].cell \in Lww
  BY Zenon DEF CrdtState, Op, Entry
<1>3. ASSUME NEW x \in Lww, x.ts <= last PROVE LwwApply(x, op.lww) = op.lww
  BY <1>2, <1>3 DEF LwwApply, Before, Lww
<1>4. CASE op.key = Reg
  BY <1>1, <1>2, <1>3, <1>4, ZenonT(60) DEF Apply, RegApply
<1>5. CASE op.key # Reg
  <2>1. op.key \in Keys /\ op.actor \in Actors /\ op.counter \in Nat /\ s.clock \in [Actors -> Nat]
    BY <1>5, Zenon DEF Op, CrdtState, VClock
  <2>2. Advances(s, op)
    BY <1>5, <2>1 DEF NextInSequence, Advances
  <2>3. Apply(s, op) = MapApply(s, op)
    BY <1>5, <2>2, ZenonT(60) DEF Apply
  <2>4. MapApply(s, op).entries[op.key].cell = LwwApply(s.entries[op.key].cell, op.lww)
    BY <1>2, <2>1, Zenon DEF MapApply
  <2> QED
    BY <1>1, <1>2, <1>3, <1>5, <2>1, <2>3, <2>4, Zenon
<1> QED
  BY <1>4, <1>5, Zenon

(* Right after SyncActor::mutate the client holds the write it just made. *)
LEMMA OwnWriteHeld ==
    ASSUME TypeInv, Floors, Next, NEW c \in Clients, NEW e \in issued' \ issued, e.by = c
    PROVE  IF e.op.key = Reg THEN cl'[c].state.reg = e.op.lww
           ELSE cl'[c].state.entries[e.op.key].cell = e.op.lww
<1>1. PICK d \in Clients : MutateMap(d) \/ MutateReg(d) \/ MutatePosition(d)
  <2>1. issued' # issued
    BY Zenon
  <2>2. ASSUME NEW d \in Clients, ClientNext(d) PROVE MutateMap(d) \/ MutateReg(d) \/ MutatePosition(d)
    BY <2>1, <2>2, ZenonT(60) DEF ClientNext, ClientReceives, AskMarkWatched, Accept, Disconnected, Connected,
       RecvStateOp, RecvStateMerge, RecvStateSnapshot, RecvStateHash, RecvDatagram, Replay, ReplayPosition,
       PushMerge, FlushClient, RestartClient, cliVars
  <2>3. ASSUME NEW k \in Conns, ServeReliable(k) \/ ServeDatagram(k) \/ EndConnection(k)
        PROVE  FALSE
    BY <2>1, <2>3, ZenonT(60) DEF ServeReliable, ServeStateOp, ServeSyncStatus, ServeRequestMerge,
       ServeStateMerge, ServeMarkWatched, ServeDatagram, EndConnection, cliVars
  <2>4. ASSUME NEW t \in Tasks, TaskNext(t) PROVE FALSE
    BY <2>1, <2>4, ZenonT(60) DEF TaskNext, TaskSend, TaskBroadcast, TaskRelay, TaskSnapshot, TaskPause, TaskFlush, cliVars
  <2>5. ~(Compact \/ HashTick \/ ForcePause \/ FlushServer \/ RestartServer)
    BY <2>1, ZenonT(60) DEF Compact, HashTick, ForcePause, FlushServer, RestartServer, cliVars
  <2> QED
    BY <2>2, <2>3, <2>4, <2>5, Zenon DEF Next
<1>2. PICK op \in Op, b \in BOOLEAN :
          /\ Mutate(d, op, b) /\ op.lww.ts > cl[d].last
          /\ op.key # Reg => NextInSequence(cl[d].state, op)
  <2>1. PICK op \in Op, b \in BOOLEAN : Writing(d, op, b)
    BY <1>1, WrittenOp, Zenon
  <2> QED
    BY <2>1, WrittenAbove, Zenon
<1>3. e.op = op /\ d = c
  BY <1>2 DEF Mutate
<1>4. cl[c] \in Client /\ cl[c].state \in CrdtState /\ cl[c].last \in Nat /\ cl \in [Clients -> Client]
  BY ClientFields, Zenon DEF TypeInv, TypeOK
<1>5. cl'[c].state = Apply(cl[c].state, op)
  BY <1>2, <1>3, <1>4, ZenonT(60) DEF Mutate, Client
<1>6. AllBelow(cl[c].state, cl[c].last)
  BY ZenonT(60) DEF Floors, ClientBelow
<1> QED
  BY <1>2, <1>3, <1>4, <1>5, <1>6, FreshWriteWins, ZenonT(60)

-----------------------------------------------------------------------------
(* Deduplication.  An op a task is about to fan out, or that is on its way   *)
(* down on an open connection, is one the server would not fan out again:    *)
(* its dot, or for a register its stamp, is not ahead of the server's.  The  *)
(* server's own pauses are not compared with the register; they are told     *)
(* apart by their stamps.                                                    *)

Past(op) ==
    /\ op.key # Reg => op.counter <= sState.clock[op.actor]
    /\ op.key = Reg /\ op.actor # Server => ~Before(sState.reg, op.lww)
    /\ op.key = Reg /\ op.actor = Server => op.lww.ts <= sLast /\ (Pausing => op.lww.ts < PauseAt)

Fanned(m) == m.type = "StateOp" => m.epoch < sEpoch \/ (m.epoch = sEpoch /\ Past(m.op))

\* Task t is about to fan out an op.
Fans(t) == Heads(t) /\ Msg(t).type = "StateOp"

PauseBelow == Pausing => PauseAt <= sLast

\* No op of the server's comes to it from the network.
NotServers == \A op : FromNetwork(op) => op.actor # Server

DownFanned == \A k \in Conns : conns[k].open => \A m \in Elems(down[k]) : Fanned(m)

JobFanned == \A t \in Tasks : Heads(t) => Fanned(Msg(t))

Distinct == \A t, u \in Tasks : t # u /\ Fans(t) /\ Fans(u) => Msg(t) # Msg(u)

NotYet == \A t \in Tasks, k \in Conns : Fans(t) /\ conns[k].open => Msg(t) \notin Elems(down[k])

FanOut == PauseBelow /\ NotServers /\ DownFanned /\ JobFanned /\ Distinct /\ NotYet /\ FannedOutOnce

(* last_issued does not go back while the server runs. *)
LEMMA LastGrows ==
    ASSUME Ranked, TypeInv, Next, ~RestartServer
    PROVE  sLast' >= sLast
<1>t. sLast \in Nat /\ sEpoch \in Nat /\ sState \in CrdtState
  BY Zenon DEF TypeInv, TypeOK
<1>u. sLast' = sLast => sLast' >= sLast
  BY <1>t
<1>0. \A n \in Nat : MaxOf(sLast, n) >= sLast /\ Stamp(sLast, n) >= sLast
  BY <1>t, MaxOfProperties, StampProperties
<1>1. ASSUME NEW c \in Clients, ClientNext(c)
      PROVE  sLast' = sLast
  BY <1>1, ClientStepFrame, Zenon
<1>2. ASSUME NEW k \in Conns, ServeStateOp(k) \/ ServeDatagram(k)
      PROVE  sLast' >= sLast
  <2>1. PICK op \in Op : sLast' = MaxOf(sLast, op.lww.ts)
    BY <1>2, ServedOp, ZenonT(60) DEF ServeOp
  <2>2. op.lww.ts \in Nat
    BY Zenon DEF Op, Lww
  <2> QED
    BY <1>0, <2>1, <2>2, Zenon
<1>3. ASSUME NEW k \in Conns, ServeSyncStatus(k) \/ ServeRequestMerge(k) \/ EndConnection(k)
      PROVE  sLast' = sLast
  BY <1>3, ZenonT(60) DEF ServeSyncStatus, ServeRequestMerge, EndConnection, srvVars
<1>4. ASSUME NEW k \in Conns, ServeStateMerge(k)
      PROVE  sLast' >= sLast
  <2>1. sLast' = sLast \/ \E floor \in Stamps(Merge(sState, Head(up[k]).state)) : sLast' = MaxOf(sLast, floor)
    BY <1>4, ZenonT(60) DEF ServeStateMerge
  <2>2. Head(up[k]).state \in CrdtState
    <3>1. Serves(k, "StateMerge")
      BY <1>4, Zenon DEF ServeStateMerge
    <3> QED
      BY <3>1, ServedHead, ClientMsgFields, Zenon
  <2>3. \A floor \in Stamps(Merge(sState, Head(up[k]).state)) : floor \in Nat
    <3>1. Merge(sState, Head(up[k]).state) \in CrdtState
      BY <1>t, <2>2, MergeType, Zenon
    <3> QED
      BY <3>1, StampsNat, Zenon
  <2> QED
    BY <1>0, <1>u, <2>1, <2>3, Zenon
<1>5. ASSUME NEW k \in Conns, ServeMarkWatched(k)
      PROVE  sLast' >= sLast
  <2>1. sLast' = sLast \/ \E now \in Clocks : sLast' = Stamp(sLast, now)
    BY <1>5, ZenonT(60) DEF ServeMarkWatched
  <2> QED
    BY <1>0, <1>u, <2>1, InputsAssumption, Zenon
<1>6. ASSUME NEW t \in Tasks, TaskNext(t)
      PROVE  sLast' = sLast
  BY <1>6, ZenonT(60) DEF TaskNext, TaskSend, TaskBroadcast, TaskRelay, TaskSnapshot, TaskPause, TaskFlush, srvVars
<1>7. CASE Compact
  <2>1. PICK now \in Clocks : sLast' = RebuildLast(sState, MaxOf(sLast, now - 1))
    BY <1>7, ZenonT(60) DEF Compact
  <2>2. MaxOf(sLast, now - 1) \in Nat /\ MaxOf(sLast, now - 1) >= sLast
    BY <1>t, InputsAssumption DEF MaxOf
  <2>3. \A b \in Nat : RebuildLast(sState, b) \in Nat /\ RebuildLast(sState, b) >= b
    BY <1>t, RebuildType, Zenon
  <2> QED
    BY <1>t, <2>1, <2>2, <2>3
<1>8. CASE ForcePause
  <2>1. \E now \in Clocks : sLast' = Stamp(sLast, now)
    BY <1>8, ZenonT(60) DEF ForcePause
  <2> QED
    BY <1>0, <2>1, InputsAssumption, Zenon
<1>9. CASE HashTick \/ FlushServer
  <2>1. sLast' = sLast
    BY <1>9, ZenonT(60) DEF HashTick, FlushServer, srvVars
  <2> QED
    BY <1>u, <2>1, Zenon
<1> QED
  BY <1>u, <1>1, <1>2, <1>3, <1>4, <1>5, <1>6, <1>7, <1>8, <1>9, ZenonT(60) DEF Next, ServeReliable

(* The sweeper's stamp is one it had or a fresh one. *)
LEMMA PauseMoves ==
    ASSUME TypeInv, TypeInv', Shapes, Next, Pausing'
    PROVE  \/ Pausing /\ PauseAt' = PauseAt
           \/ PauseAt' > sLast /\ PauseAt' = sLast'
<1>1. JobStep(Sweeper)
  BY JobMoves, TaskNames, Zenon
<1>2. CASE job'[Sweeper] = job[Sweeper]
  BY <1>2, Zenon DEF Pausing, PauseAt
<1>3. CASE ForcePause
  <2>1. PICK now \in Clocks : sLast' = Stamp(sLast, now) /\ Do(Sweeper, <<[do |-> "pause", ts |-> sLast']>>)
    BY <1>3, ZenonT(60) DEF ForcePause
  <2>2. job'[Sweeper] = <<[do |-> "pause", ts |-> sLast']>>
    BY <2>1, DoFrame, TaskNames, Zenon
  <2>3. PauseAt' = sLast'
    BY <2>2 DEF PauseAt
  <2>4. sLast' > sLast
    BY <2>1, StampProperties, InputsAssumption, Zenon DEF TypeInv, TypeOK
  <2> QED
    BY <2>3, <2>4, Zenon
<1> QED
  BY <1>1, <1>2, <1>3, Zenon DEF JobStep, Pausing

(* A pause waiting to be applied is stamped with a number. *)
LEMMA PauseAtType ==
    ASSUME TypeInv, Pausing
    PROVE  PauseAt \in Nat
<1>1. job[Sweeper] \in Seq(Job) /\ job[Sweeper] # <<>> /\ Head(job[Sweeper]).do = "pause"
  BY TaskNames, Zenon DEF TypeInv, TypeOK, Pausing
<1>2. Head(job[Sweeper]) \in Job
  BY <1>1, QueueParts, Zenon
<1> QED
  BY <1>1, <1>2, PauseFields, Zenon DEF PauseAt

(* What has been fanned out stays so. *)
LEMMA FannedKept ==
    ASSUME Ranked, TypeInv, TypeInv', Shapes, Next, ~RestartServer, NEW m \in ServerMsg, Fanned(m)
    PROVE  Fanned(m)'
<1>t. /\ sEpoch \in Nat /\ sEpoch' \in Nat /\ sState \in CrdtState /\ sState' \in CrdtState
      /\ sLast \in Nat /\ sLast' \in Nat
  BY Zenon DEF TypeInv, TypeOK
<1>c. \A a \in Actors : sState.clock[a] \in Nat /\ sState'.clock[a] \in Nat
  BY <1>t, Zenon DEF CrdtState, VClock
<1>0. Forward
  BY ServerForward, Zenon
<1>1. ASSUME m.type = "StateOp"
      PROVE  m.epoch < sEpoch' \/ (m.epoch = sEpoch' /\ Past(m.op)')
  <2>t. /\ m.epoch \in Nat /\ m.op \in Op
    BY <1>1, ServerMsgFields, Zenon
  <2>o. m.op.actor \in Actors /\ m.op.counter \in Nat /\ m.op.lww \in Lww /\ m.op.lww.ts \in Nat
    BY <2>t, Zenon DEF Op, Lww
  <2>1. CASE m.epoch < sEpoch \/ sEpoch' > sEpoch
    BY <1>0, <1>1, <1>t, <2>t, <2>1 DEF Forward, Fanned
  <2>2. CASE m.epoch = sEpoch /\ Past(m.op) /\ sEpoch' = sEpoch
    <3>0. /\ Covers(sState'.clock, sState.clock)
          /\ \A x \in Lww : ~Before(sState.reg, x) => ~Before(sState'.reg, x)
      BY <1>0, <1>t, <2>2 DEF Forward
    <3>1. m.op.key # Reg => m.op.counter <= sState'.clock[m.op.actor]
      BY <1>c, <2>2, <2>o, <3>0 DEF Past, Covers
    <3>2. m.op.key = Reg /\ m.op.actor # Server => ~Before(sState'.reg, m.op.lww)
      BY <2>2, <2>o, <3>0, Zenon DEF Past
    <3>3. ASSUME m.op.key = Reg, m.op.actor = Server
          PROVE  m.op.lww.ts <= sLast' /\ (Pausing' => m.op.lww.ts < PauseAt')
      <4>1. m.op.lww.ts <= sLast /\ (Pausing => m.op.lww.ts < PauseAt)
        BY <2>2, <3>3, Zenon DEF Past
      <4>2. sLast' >= sLast
        BY <2>2, LastGrows, Zenon
      <4>3. Pausing' => m.op.lww.ts < PauseAt'
        <5>1. ASSUME Pausing'
              PROVE  (Pausing /\ PauseAt' = PauseAt) \/ (PauseAt' > sLast /\ PauseAt' = sLast')
          BY <5>1, PauseMoves, Zenon
        <5> QED
          BY <1>t, <2>o, <4>1, <5>1
      <4> QED
        BY <1>t, <2>o, <4>1, <4>2, <4>3
    <3> QED
      BY <2>2, <3>1, <3>2, <3>3, Zenon DEF Past
  <2> QED
    BY <1>0, <1>1, <1>t, <2>1, <2>2, Zenon DEF Fanned, Forward
<1> QED
  BY <1>1, Zenon DEF Fanned

(* A new op was not past; once in hand it is. *)
LEMMA NewFanned ==
    ASSUME Ranked, TypeInv, TypeInv', Next, ~RestartServer, PauseBelow, NotServers, NEW m \in ServerMsg, NewMsg(m)
    PROVE  Fanned(m)' /\ (m.type = "StateOp" => ~Fanned(m))
<1>t. /\ sEpoch \in Nat /\ sState \in CrdtState /\ sState' \in CrdtState
      /\ sLast \in Nat /\ sLast' \in Nat
  BY Zenon DEF TypeInv, TypeOK
<1>c. \A a \in Actors : sState.clock[a] \in Nat /\ sState'.clock[a] \in Nat
  BY <1>t, Zenon DEF CrdtState, VClock
<1>1. CASE m.type # "StateOp"
  BY <1>1, Zenon DEF Fanned
<1>2. CASE m.type = "StateOp"
  <2>1. /\ m.epoch = sEpoch' /\ sEpoch' = sEpoch /\ m.op \in Op
        /\ m.op.key # Reg => /\ sState.clock[m.op.actor] < m.op.counter
                             /\ m.op.counter <= sState'.clock[m.op.actor]
        /\ \/ /\ FromNetwork(m.op)
              /\ m.op.key = Reg => Before(sState.reg, m.op.lww) /\ sState'.reg = m.op.lww
           \/ m.op.actor = Server /\ m.op.key # Reg
           \/ /\ m.op.actor = Server /\ m.op.key = Reg
              /\ Pausing /\ ~Pausing' /\ m.op.lww.ts = PauseAt
    BY <1>2, Zenon DEF NewMsg, IsSync
  <2>o. m.op.actor \in Actors /\ m.op.counter \in Nat /\ m.op.lww \in Lww /\ m.op.lww.ts \in Nat
    BY <2>1, Zenon DEF Op, Lww
  <2>2. CASE m.op.key # Reg
    <3>1. Past(m.op)' /\ ~Past(m.op)
      BY <1>c, <2>1, <2>2, <2>o DEF Past
    <3> QED
      BY <1>t, <1>2, <2>1, <3>1 DEF Fanned
  <2>3. CASE m.op.key = Reg /\ FromNetwork(m.op)
    <3>1. m.op.actor # Server
      BY <2>3, Zenon DEF NotServers
    <3>2. CASE Before(sState.reg, m.op.lww) /\ sState'.reg = m.op.lww
      <4>1. ~Before(m.op.lww, m.op.lww)
        BY <2>o, LwwOrder, Zenon
      <4>2. Past(m.op)' /\ ~Past(m.op)
        BY <2>3, <3>1, <3>2, <4>1, Zenon DEF Past
      <4> QED
        BY <1>t, <1>2, <2>1, <4>2 DEF Fanned
    <3> QED
      BY <2>1, <2>3, <3>1, <3>2, Zenon
  <2>4. CASE m.op.actor = Server /\ m.op.key = Reg /\ Pausing /\ ~Pausing' /\ m.op.lww.ts = PauseAt
    <3>1. PauseAt <= sLast /\ PauseAt \in Nat
      BY <2>4, PauseAtType, Zenon DEF PauseBelow
    <3>2. sLast' >= sLast
      BY <2>1, LastGrows, Zenon
    <3>3. Past(m.op)' /\ ~Past(m.op)
      BY <1>t, <2>4, <3>1, <3>2 DEF Past
    <3> QED
      BY <1>t, <1>2, <2>1, <3>3 DEF Fanned
  <2> QED
    BY <2>1, <2>2, <2>3, <2>4, Zenon
<1> QED
  BY <1>1, <1>2, Zenon

\* The message of task t is the one it had, or a new one.
SameMsg(t) == job'[t] = job[t] /\ Heads(t) /\ Msg(t)' = Msg(t)

(* The message a task has in hand after a step. *)
LEMMA MsgMoves ==
    ASSUME Ranked, TypeInv, TypeInv', Shapes, FanOut, Next, NEW t \in Tasks, Heads(t)'
    PROVE  /\ ~RestartServer /\ Msg(t)' \in ServerMsg
           /\ \E m \in ServerMsg : /\ m = Msg(t)' /\ Fanned(m)'
                                   /\ \/ SameMsg(t) /\ Fanned(m)
                                      \/ m.type = "StateOp" => ~Fanned(m)
<1>1. ~RestartServer
  <2>1. RestartServer => job'[t] = <<>>
    BY ZenonT(60) DEF RestartServer
  <2> QED
    BY <2>1, Zenon DEF Heads
<1>2. Msg(t)' \in ServerMsg
  <2>1. job'[t] \in Seq(Job) /\ job'[t] # <<>> /\ Head(job'[t]).do \in {"send", "broadcast", "relay"}
    BY Zenon DEF TypeInv, TypeOK, Heads
  <2>2. Head(job'[t]) \in Job
    BY <2>1, QueueParts, Zenon
  <2> QED
    BY <2>1, <2>2, JobFields, Zenon DEF Msg
<1>3. PICK m \in ServerMsg : m = Msg(t)'
  BY <1>2, Zenon
<1>4. CASE job'[t] = job[t]
  <2>1. SameMsg(t)
    BY <1>4, Zenon DEF SameMsg, Heads, Msg
  <2>2. Fanned(m)
    BY <1>3, <2>1, Zenon DEF SameMsg, FanOut, JobFanned
  <2>3. Fanned(m)'
    BY <1>1, <2>2, FannedKept, Zenon
  <2> QED
    BY <1>1, <1>3, <2>1, <2>2, <2>3, Zenon
<1>5. CASE NewMsg(Msg(t)')
  <2>1. NewMsg(m)
    BY <1>3, <1>5, Zenon
  <2>2. Fanned(m)' /\ (m.type = "StateOp" => ~Fanned(m))
    BY <1>1, <2>1, NewFanned, Zenon DEF FanOut
  <2> QED
    BY <1>1, <1>3, <2>2, Zenon
<1> QED
  BY <1>4, <1>5, JobMoves, Zenon DEF JobStep

(* The ops the network brings are clients'. *)
LEMMA NotServersKept ==
    ASSUME TypeInv, TypeInv', NotServers, Next
    PROVE  NotServers'
<1>0. \A c \in Clients : Server \notin Mine(c)
  <2>1. SUFFICES ASSUME NEW c \in Clients
                 PROVE  Me(c) # Server /\ MyPos(c) # Server
    BY Zenon DEF Mine
  <2>2. cl[c].session \in 0..MaxClientRestarts
    BY ActorType, Zenon
  <2> QED
    BY <2>2, SessionsAssumption, Zenon DEF Me, MyPos
<1>1. ASSUME NEW k \in Conns, NEW m \in Elems(up'[k]), m.type = "StateOp"
      PROVE  m.op.actor # Server
  <2>1. CASE m \in Elems(up[k])
    BY <1>1, <2>1, Zenon DEF NotServers, FromNetwork, OnStream
  <2>2. ASSUME NEW c \in Clients, FromClient(c, m)
        PROVE  m.op.actor # Server
    BY <1>0, <1>1, <2>2, Zenon DEF FromClient
  <2> QED
    BY <1>1, <2>1, <2>2, UpMoves, Zenon
<1>2. ASSUME NEW d \in dgrams', d.to = "server"
      PROVE  d.op.actor # Server
  <2>1. CASE d \in dgrams
    BY <1>2, <2>1, Zenon DEF NotServers, FromNetwork, OnStream
  <2>2. CASE \E c \in Clients : d.op.actor \in Mine(c)
    BY <1>0, <2>2, Zenon
  <2>3. "server" # "client"
    BY Zenon
  <2> QED
    BY <1>2, <2>1, <2>2, <2>3, DgramMoves, Zenon
<1> QED
  BY <1>1, <1>2, Zenon DEF NotServers, FromNetwork, OnStream

(* A pause's stamp has been issued. *)
LEMMA PauseBelowKept ==
    ASSUME Ranked, TypeInv, TypeInv', Shapes, PauseBelow, Next
    PROVE  PauseBelow'
<1>1. SUFFICES ASSUME Pausing'
               PROVE  PauseAt' <= sLast'
  BY Zenon DEF PauseBelow
<1>2. ~RestartServer
  <2>1. RestartServer => job'[Sweeper] = <<>>
    BY TaskNames, ZenonT(60) DEF RestartServer
  <2> QED
    BY <1>1, <2>1, Zenon DEF Pausing
<1>3. sLast' >= sLast /\ sLast \in Nat /\ sLast' \in Nat
  BY <1>2, LastGrows, Zenon DEF TypeInv, TypeOK
<1>4. CASE Pausing /\ PauseAt' = PauseAt
  <2>1. PauseAt \in Nat /\ PauseAt <= sLast
    BY <1>4, PauseAtType, Zenon DEF PauseBelow
  <2> QED
    BY <1>3, <1>4, <2>1
<1> QED
  BY <1>1, <1>3, <1>4, PauseMoves

(* What comes down an open connection has been fanned out. *)
LEMMA DownFannedKept ==
    ASSUME Ranked, TypeInv, TypeInv', Shapes, Wiring, FanOut, Next
    PROVE  DownFanned'
<1>1. SUFFICES ASSUME NEW k \in Conns, conns'[k].open, NEW m \in Elems(down'[k])
               PROVE  Fanned(m)'
  BY Zenon DEF DownFanned
<1>2. ~RestartServer /\ (conns[k].open \/ conns[k].user = 0)
  BY <1>1, OpenBack, Zenon
<1>3. \A n : n \in Elems(down[k]) => n \in ServerMsg
  BY ElemsType, Zenon DEF TypeInv, TypeOK
<1>4. CASE m \in Elems(down[k])
  <2>1. down[k] # <<>>
    BY <1>4, ElemsShort, Zenon
  <2>2. Fanned(m)
    BY <1>2, <1>4, <2>1, Zenon DEF FanOut, DownFanned, Wiring, Unused
  <2> QED
    BY <1>2, <1>3, <1>4, <2>2, FannedKept, Zenon
<1>5. CASE m.type = "AuthOk"
  BY <1>5, Zenon DEF Fanned
<1>6. CASE FromTask(m)
  <2>1. PICK t \in Tasks : Heads(t) /\ m = Msg(t)
    BY <1>6, Zenon DEF FromTask
  <2>2. m \in ServerMsg
    BY <2>1, MsgType, Zenon DEF TypeInv
  <2>3. Fanned(m)
    BY <2>1, Zenon DEF FanOut, JobFanned
  <2> QED
    BY <1>2, <2>2, <2>3, FannedKept, Zenon
<1> QED
  BY <1>4, <1>5, <1>6, DownMoves, Zenon

(* What a task has to fan out is past. *)
LEMMA JobFannedKept ==
    ASSUME Ranked, TypeInv, TypeInv', Shapes, FanOut, Next
    PROVE  JobFanned'
<1>1. SUFFICES ASSUME NEW t \in Tasks, Heads(t)'
               PROVE  Fanned(Msg(t))'
  BY Zenon DEF JobFanned
<1>2. PICK m \in ServerMsg : m = Msg(t)' /\ Fanned(m)'
  BY <1>1, MsgMoves, Zenon
<1> QED
  BY <1>2, Zenon DEF Fanned, Past

(* No two tasks fan out the same op. *)
LEMMA DistinctKept ==
    ASSUME Ranked, TypeInv, TypeInv', Shapes, FanOut, Next
    PROVE  Distinct'
<1>1. PICK w \in Tasks : \A u \in Tasks : u # w => job'[u] \in {job[u], <<>>}
  BY OneJob, Zenon
<1>2. ASSUME NEW u \in Tasks, u # w, Fans(u)'
      PROVE  Fans(u) /\ Msg(u)' = Msg(u) /\ Fanned(Msg(u))
  <2>1. job'[u] = job[u]
    BY <1>1, <1>2, Zenon DEF Fans, Heads
  <2>2. Fans(u) /\ Msg(u)' = Msg(u)
    BY <1>2, <2>1, Zenon DEF Fans, Heads, Msg
  <2> QED
    BY <2>2, Zenon DEF FanOut, JobFanned, Fans
<1>3. ASSUME NEW t \in Tasks, NEW u \in Tasks, t # u, u # w, Fans(t)', Fans(u)'
      PROVE  Msg(t)' # Msg(u)'
  <2>1. Fans(u) /\ Msg(u)' = Msg(u) /\ Fanned(Msg(u))
    BY <1>2, <1>3, Zenon
  <2>2. PICK m \in ServerMsg : /\ m = Msg(t)'
                               /\ (SameMsg(t) /\ Fanned(m)) \/ (m.type = "StateOp" => ~Fanned(m))
    BY <1>3, MsgMoves, Zenon DEF Fans
  <2>3. m.type = "StateOp"
    BY <1>3, <2>2, Zenon DEF Fans
  <2>4. CASE SameMsg(t)
    <3>1. Fans(t) /\ Msg(t)' = Msg(t)
      BY <2>2, <2>3, <2>4, Zenon DEF SameMsg, Fans
    <3> QED
      BY <1>3, <2>1, <3>1, Zenon DEF FanOut, Distinct
  <2>5. CASE ~Fanned(m)
    BY <2>1, <2>2, <2>5, Zenon
  <2> QED
    BY <2>2, <2>3, <2>4, <2>5, Zenon
<1> QED
  BY <1>3, Zenon DEF Distinct

(* What a task has to fan out is on no open connection's stream yet. *)
LEMMA NotYetKept ==
    ASSUME Ranked, TypeInv, TypeInv', Shapes, Wiring, FanOut, Next
    PROVE  NotYet'
<1>1. SUFFICES ASSUME NEW t \in Tasks, NEW k \in Conns, Fans(t)', conns'[k].open, Msg(t)' \in Elems(down'[k])
               PROVE  FALSE
  BY Zenon DEF NotYet
<1>2. ~RestartServer /\ (conns[k].open \/ conns[k].user = 0)
  BY <1>1, OpenBack, Zenon
<1>3. PICK m \in ServerMsg : /\ m = Msg(t)'
                             /\ (SameMsg(t) /\ Fanned(m)) \/ (m.type = "StateOp" => ~Fanned(m))
  BY <1>1, MsgMoves, Zenon DEF Fans
<1>4. m.type = "StateOp" /\ m \in Elems(down'[k])
  BY <1>1, <1>3, Zenon DEF Fans
<1>5. CASE m \in Elems(down[k])
  <2>1. down[k] # <<>>
    BY <1>5, ElemsShort, Zenon
  <2>2. conns[k].open /\ Fanned(m)
    BY <1>2, <1>5, <2>1, Zenon DEF FanOut, DownFanned, Wiring, Unused
  <2>3. SameMsg(t)
    BY <1>3, <1>4, <2>2, Zenon
  <2>4. Fans(t) /\ m = Msg(t)
    BY <1>3, <1>4, <2>3, Zenon DEF SameMsg, Fans
  <2> QED
    BY <1>5, <2>2, <2>4, Zenon DEF FanOut, NotYet
<1>6. ASSUME NEW u \in Tasks, Heads(u), m = Msg(u), TaskSend(u) \/ TaskBroadcast(u)
      PROVE  FALSE
  <2>1. Do(u, Tail(job[u])) /\ job[u] # <<>>
    BY <1>6, ZenonT(60) DEF TaskSend, TaskBroadcast, Heads
  <2>2. job'[u] = Tail(job[u]) /\ \A v \in Tasks : v # u => job'[v] = job[v]
    BY <2>1, DoFrame, Zenon
  <2>3. CASE t = u
    <3>1. job[u] \in Seq(Job) /\ Proper(u, job[u])
      BY Zenon DEF TypeInv, TypeOK, Shapes
    <3>2. Tail(job[u]) # <<>> => Head(Tail(job[u])).do = "flush"
      BY <2>1, <3>1, ProperTail, Zenon
    <3>3. job'[u] # <<>> /\ Head(job'[u]).do \in {"send", "broadcast", "relay"}
      BY <1>1, <2>3, Zenon DEF Fans, Heads
    <3> QED
      BY <2>2, <3>2, <3>3, Zenon
  <2>4. CASE t # u
    <3>1. job'[t] = job[t]
      BY <2>2, <2>4, Zenon
    <3>2. Fans(t) /\ Msg(t) = m
      BY <1>1, <1>3, <3>1, Zenon DEF Fans, Heads, Msg
    <3>3. Fans(u)
      BY <1>4, <1>6, Zenon DEF Fans
    <3> QED
      BY <1>6, <2>4, <3>2, <3>3, Zenon DEF FanOut, Distinct
  <2> QED
    BY <2>3, <2>4, Zenon
<1>7. ~FromTask(m)
  BY <1>6, Zenon DEF FromTask
<1>8. m.type # "AuthOk"
  BY <1>4, Zenon
<1> QED
  BY <1>4, <1>5, <1>7, <1>8, DownMoves, Zenon

\* No op occurs twice in q.
Once(q) == \A i, j \in 1..Len(q) : i # j /\ q[i].type = "StateOp" => q[i] # q[j]

(* A queue stays free of repeated ops. *)
LEMMA OnceKept ==
    ASSUME NEW M, NEW q \in Seq(M), Once(q)
    PROVE  /\ Once(<<>>)
           /\ q # <<>> => Once(Tail(q))
           /\ \A m \in M : (m.type = "StateOp" => m \notin Elems(q)) => Once(Append(q, m))
<1>1. Once(<<>>)
  BY DEF Once
<1>2. q # <<>> => Once(Tail(q))
  <2>1. SUFFICES ASSUME q # <<>>, NEW i \in 1..Len(Tail(q)), NEW j \in 1..Len(Tail(q)), i # j,
                        Tail(q)[i].type = "StateOp"
                 PROVE  Tail(q)[i] # Tail(q)[j]
    BY Zenon DEF Once
  <2>2. /\ i + 1 \in 1..Len(q) /\ j + 1 \in 1..Len(q) /\ i + 1 # j + 1
        /\ Tail(q)[i] = q[i + 1] /\ Tail(q)[j] = q[j + 1]
    BY <2>1
  <2> QED
    BY <2>1, <2>2, Zenon DEF Once
<1>3. ASSUME NEW m \in M, m.type = "StateOp" => m \notin Elems(q)
      PROVE  Once(Append(q, m))
  <2>1. SUFFICES ASSUME NEW i \in 1..Len(Append(q, m)), NEW j \in 1..Len(Append(q, m)), i # j,
                        Append(q, m)[i].type = "StateOp", Append(q, m)[i] = Append(q, m)[j]
                 PROVE  FALSE
    BY Zenon DEF Once
  <2>2. \A n \in 1..Len(Append(q, m)) : (n \in 1..Len(q) /\ Append(q, m)[n] = q[n])
                                        \/ (n = Len(q) + 1 /\ Append(q, m)[n] = m)
    OBVIOUS
  <2>3. \A n \in 1..Len(q) : q[n] \in Elems(q)
    BY Zenon DEF Elems
  <2>4. CASE i \in 1..Len(q) /\ j \in 1..Len(q)
    <3>1. Append(q, m)[i] = q[i] /\ Append(q, m)[j] = q[j]
      BY <2>4
    <3> QED
      BY <2>1, <2>4, <3>1, Zenon DEF Once
  <2>5. CASE ~(i \in 1..Len(q) /\ j \in 1..Len(q))
    <3>1. (Append(q, m)[i] = m \/ Append(q, m)[j] = m) /\ (i \in 1..Len(q) \/ j \in 1..Len(q))
      BY <2>1, <2>2, <2>5, Zenon
    <3> QED
      BY <1>3, <2>1, <2>2, <2>3, <3>1, Zenon
  <2> QED
    BY <2>4, <2>5, Zenon
<1> QED
  BY <1>1, <1>2, <1>3, Zenon

(* No stream gets an op twice. *)
LEMMA OnceOnStream ==
    ASSUME TypeInv, Shapes, Wiring, FanOut, Next
    PROVE  FannedOutOnce'
<1>1. SUFFICES ASSUME NEW k \in Conns
               PROVE  Once(down'[k])
  BY Zenon DEF FannedOutOnce, Once
<1>2. down[k] \in Seq(ServerMsg) /\ Once(down[k])
  BY Zenon DEF TypeInv, TypeOK, FanOut, FannedOutOnce, Once
<1>3. /\ Once(<<>>) /\ (down[k] # <<>> => Once(Tail(down[k])))
      /\ \A m \in ServerMsg : (m.type = "StateOp" => m \notin Elems(down[k])) => Once(Append(down[k], m))
  BY <1>2, OnceKept, Zenon
<1>4. ASSUME down'[k] = Append(down[k], [type |-> "AuthOk"])
      PROVE  Once(down'[k])
  <2>1. [type |-> "AuthOk"] \in ServerMsg /\ [type |-> "AuthOk"].type # "StateOp"
    BY Zenon DEF ServerMsg
  <2> QED
    BY <1>3, <1>4, <2>1, Zenon
<1>5. ASSUME NEW t \in Tasks, Queues(t, k), down'[k] = Append(down[k], Msg(t))
      PROVE  Once(down'[k])
  <2>1. Heads(t) /\ Msg(t) \in ServerMsg
    BY <1>5, MsgType, Zenon DEF Queues, TypeInv
  <2>2. ASSUME Msg(t).type = "StateOp"
        PROVE  Msg(t) \notin Elems(down[k])
    <3>1. ~TaskSend(t)
      <4>1. Proper(t, job[t])
        BY Zenon DEF Shapes
      <4>2. TaskSend(t) => IsSync(Msg(t))
        BY <4>1, ZenonT(60) DEF TaskSend, Todo, Proper, Msg
      <4>3. ~IsSync(Msg(t))
        BY <2>2, Zenon DEF IsSync
      <4> QED
        BY <4>2, <4>3, Zenon
    <3>2. conns[k].open
      <4>1. PICK c \in Clients : registry[c] = k
        BY <1>5, <3>1, Zenon DEF Queues
      <4>2. k # 0
        BY DEF Conns
      <4> QED
        BY <4>1, <4>2, Zenon DEF Wiring, Registered
    <3> QED
      BY <2>1, <2>2, <3>2, Zenon DEF FanOut, NotYet, Fans
  <2> QED
    BY <1>3, <1>5, <2>1, <2>2, Zenon
<1> QED
  BY <1>2, <1>3, <1>4, <1>5, DownSteps, ZenonT(60) DEF DownStep

(* FanOut is inductive. *)
LEMMA FanOutKept ==
    ASSUME Ranked, HubInv, HubInv', FanOut, [Next]_vars
    PROVE  FanOut'
<1>1. CASE Next
  <2>1. TypeInv /\ TypeInv' /\ Shapes /\ Wiring
    BY Zenon DEF HubInv
  <2>2. PauseBelow' /\ NotServers'
    BY <1>1, <2>1, PauseBelowKept, NotServersKept, Zenon DEF FanOut
  <2>3. DownFanned' /\ JobFanned' /\ Distinct' /\ NotYet'
    BY <1>1, <2>1, DownFannedKept, JobFannedKept, DistinctKept, NotYetKept, Zenon
  <2>4. FannedOutOnce'
    BY <1>1, <2>1, OnceOnStream, Zenon
  <2> QED
    BY <2>2, <2>3, <2>4, Zenon DEF FanOut
<1>2. CASE UNCHANGED vars
  <2>1. UNCHANGED <<sState, sEpoch, sLast, conns, job, up, down, dgrams>>
    BY <1>2, Zenon DEF vars, srvVars, connVars, netVars
  <2>2. PauseBelow' /\ NotServers' /\ DownFanned' /\ JobFanned'
    BY <2>1, ZenonT(60) DEF FanOut, PauseBelow, NotServers, FromNetwork, OnStream, DownFanned, JobFanned, Fanned, Past,
         Pausing, PauseAt, Heads, Msg
  <2>3. Distinct' /\ NotYet' /\ FannedOutOnce'
    BY <2>1, ZenonT(60) DEF FanOut, Distinct, NotYet, FannedOutOnce, Fans, Heads, Msg
  <2> QED
    BY <2>2, <2>3, Zenon DEF FanOut
<1> QED
  BY <1>1, <1>2, Zenon

(* Nothing has been fanned out at the start. *)
LEMMA FanOutInit ==
    ASSUME Init
    PROVE  FanOut
<1>1. /\ \A k \in Conns : up[k] = <<>> /\ down[k] = <<>>
      /\ \A t \in Tasks : job[t] = <<>>
      /\ dgrams = {}
  BY Zenon DEF Init
<1>2. ~Pausing /\ \A t \in Tasks : ~Heads(t)
  BY <1>1, TaskNames, Zenon DEF Pausing, Heads
<1>3. NotServers /\ DownFanned
  BY <1>1, ElemsShort, Zenon DEF NotServers, FromNetwork, OnStream, DownFanned
<1>4. FannedOutOnce
  BY <1>1 DEF FannedOutOnce
<1> QED
  BY <1>2, <1>3, <1>4, Zenon DEF FanOut, PauseBelow, JobFanned, Distinct, NotYet, Fans

-----------------------------------------------------------------------------
(* Positions.  No op is written twice, so how an op left its author is       *)
(* settled when it is written; a position on a control stream was put there  *)
(* by its author, or is fanned out by a task that took it off one.           *)

Sent(op) == \E e \in issued : e.op = op

Only(op) == \E e \in issued : e.op = op /\ e.via = "datagram"

\* Stamps of the present session are below its floor.
Authored ==
    \A e \in issued : /\ e.op.actor \in Sessions(e.by)
                      /\ e.op.actor \in Mine(e.by) => e.op.lww.ts <= cl[e.by].last
                      /\ e.via = "datagram" => e.op.key \in Positions

Reliable(op) == Sent(op) /\ ~Only(op)

\* A message that may be on a control stream
Queueable(m) == m.type = "StateOp" /\ m.op.key \in Positions => Reliable(m.op)

Streams ==
    /\ \A k \in Conns : \A m \in Elems(up[k]) : Queueable(m)
    /\ \A k \in Conns : \A m \in Elems(down[k]) : Queueable(m)
    /\ \A t \in Tasks : Heads(t) /\ Head(job[t]).do # "relay" => Queueable(Msg(t))

(* A client's floor does not sink during a session. *)
LEMMA FloorRises ==
    ASSUME TypeInv, Next, NEW c \in Clients, ~RestartClient(c)
    PROVE  cl'[c].last >= cl[c].last
<1>t. cl \in [Clients -> Client] /\ cl[c] \in Client /\ cl[c].last \in Nat /\ cl[c].state \in CrdtState
  BY ClientFields, Zenon DEF TypeInv, TypeOK
<1>u. cl'[c].last = cl[c].last => cl'[c].last >= cl[c].last
  BY <1>t
<1>0. \A n \in Nat : MaxOf(cl[c].last, n) >= cl[c].last
  BY <1>t, MaxOfProperties, Zenon
<1>1. CASE MutateMap(c) \/ MutateReg(c) \/ MutatePosition(c)
  <2>1. PICK op \in Op, b \in BOOLEAN : Writing(c, op, b)
    BY <1>1, WrittenOp, Zenon
  <2>2. op.lww.ts > cl[c].last /\ op.lww.ts \in Nat
    BY <2>1, WrittenAbove, Zenon DEF Op, Lww
  <2>3. cl'[c].last = op.lww.ts
    BY <1>t, <2>1, ZenonT(60) DEF Writing, Mutate, Client
  <2> QED
    BY <1>t, <2>2, <2>3
<1>2. ASSUME NEW e, NEW op \in Op, NEW s, cl' = [cl EXCEPT ![c] = Remote(cl[c], e, s, op)]
      PROVE  cl'[c].last >= cl[c].last
  <2>1. op.lww.ts \in Nat
    BY Zenon DEF Op, Lww
  <2>2. Remote(cl[c], e, s, op).last \in {cl[c].last, MaxOf(cl[c].last, op.lww.ts)}
    BY <1>t, Zenon DEF Remote, Client
  <2>3. cl'[c].last \in {cl[c].last, MaxOf(cl[c].last, op.lww.ts)}
    BY <1>t, <1>2, <2>2, Zenon
  <2> QED
    BY <1>0, <1>u, <2>1, <2>3, Zenon
<1>3. CASE RecvStateOp(c)
  <2>1. Frame(c) \in ServerMsg /\ Frame(c).type = "StateOp"
    BY <1>3, ReceivesType, Zenon DEF RecvStateOp, TypeInv
  <2>2. Frame(c).op \in Op
    BY <2>1, ServerMsgFields, Zenon
  <2> QED
    BY <1>2, <1>3, <2>2, Zenon DEF RecvStateOp
<1>4. CASE RecvDatagram(c)
  <2>1. PICK d \in dgrams : cl' = [cl EXCEPT ![c] = Remote(cl[c], d.epoch, ApplyIfOrderly(cl[c].state, d.op), d.op)]
    BY <1>4, Zenon DEF RecvDatagram
  <2>2. d.op \in Op
    BY Zenon DEF TypeInv, TypeOK, Dgram
  <2> QED
    BY <1>2, <2>1, <2>2, Zenon
<1>5. ASSUME NEW e, NEW s \in CrdtState, Hold(c, e, s)
      PROVE  cl'[c].last >= cl[c].last
  <2>1. PICK floor \in Stamps(s) :
           cl' = [cl EXCEPT ![c].state = s, ![c].epoch = e, ![c].last = MaxOf(@, floor),
                            ![c].mismatches = 0, ![c].link = Landed(@)]
    BY <1>5, Zenon DEF Hold
  <2>2. floor \in Nat
    BY StampsNat, Zenon
  <2>3. cl'[c].last = MaxOf(cl[c].last, floor)
    BY <1>t, <2>1 DEF Client
  <2> QED
    BY <1>0, <2>2, <2>3, Zenon
<1>6. CASE RecvStateMerge(c) \/ RecvStateSnapshot(c)
  <2>1. Frame(c) \in ServerMsg /\ Frame(c).type \in {"StateMerge", "StateSnapshot"}
    BY <1>6, ReceivesType, Zenon DEF RecvStateMerge, RecvStateSnapshot, TypeInv
  <2>2. Frame(c).state \in CrdtState
    BY <2>1, ServerMsgFields, Zenon
  <2>3. Merge(cl[c].state, Frame(c).state) \in CrdtState
    BY <1>t, <2>2, MergeType, Zenon
  <2>4. UNCHANGED cl \/ \E e, s : s \in CrdtState /\ Hold(c, e, s)
    BY <1>6, <2>2, <2>3, ZenonT(60) DEF RecvStateMerge, RecvStateSnapshot
  <2> QED
    BY <1>5, <1>u, <2>4, Zenon
<1>7. CASE RecvStateHash(c)
  <2>1. cl'[c].last = cl[c].last
    BY <1>t, <1>7, ZenonT(60) DEF RecvStateHash, Client
  <2> QED
    BY <1>u, <2>1, Zenon
<1>8. CASE Connected(c) \/ Accept(c) \/ Disconnected(c)
  <2>1. cl'[c].last = cl[c].last
    BY <1>t, <1>8, ZenonT(60) DEF Connected, Accept, Disconnected, Client
  <2> QED
    BY <1>u, <2>1, Zenon
<1>9. CASE Replay(c) \/ ReplayPosition(c) \/ PushMerge(c) \/ AskMarkWatched(c) \/ FlushClient(c)
  <2>1. cl'[c].last = cl[c].last
    BY <1>t, <1>9, ZenonT(60) DEF Replay, ReplayPosition, PushMerge, AskMarkWatched, FlushClient, Client, cliVars
  <2> QED
    BY <1>u, <2>1, Zenon
<1>10. CASE ClientNext(c)
  BY <1>1, <1>3, <1>4, <1>6, <1>7, <1>8, <1>9, <1>10, ZenonT(60) DEF ClientNext, ClientReceives
<1>11. CASE cl'[c] = cl[c]
  BY <1>u, <1>11, Zenon
<1>12. ASSUME NEW d \in Clients, ClientNext(d), d # c
       PROVE  cl'[c] = cl[c]
  BY <1>12, OtherRests, Zenon
<1>13. CASE ~\E d \in Clients : ClientNext(d)
  <2>1. cl' = cl
    BY <1>13, ServerStepFrame, Zenon DEF Next
  <2> QED
    BY <1>11, <2>1, Zenon
<1> QED
  BY <1>10, <1>11, <1>12, <1>13, Zenon

(* What the history of ops gains when a client writes. *)
LEMMA WrittenEntry ==
    ASSUME NEW c \in Clients, NEW op \in Op, NEW b \in BOOLEAN, Writing(c, op, b)
    PROVE  \E v \in Via : /\ v = "datagram" => ~b
                          /\ issued' = issued \cup {[op |-> op, by |-> c, via |-> v]}
BY ZenonT(60) DEF Writing, Mutate, Via

(* Only a client's write adds to the history. *)
LEMMA IssuedMoves ==
    ASSUME TypeInv, Next
    PROVE  \/ issued' = issued
           \/ \E c \in Clients, op \in Op, b \in BOOLEAN : Writing(c, op, b)
<1>1. ASSUME NEW c \in Clients, ClientNext(c)
      PROVE  issued' = issued \/ \E op \in Op, b \in BOOLEAN : Writing(c, op, b)
  <2>1. CASE MutateMap(c) \/ MutateReg(c) \/ MutatePosition(c)
    BY <2>1, WrittenOp, Zenon
  <2>2. CASE AskMarkWatched(c) \/ Accept(c) \/ Disconnected(c) \/ ClientReceives(c) \/ RecvDatagram(c)
    BY <2>2, ZenonT(60) DEF AskMarkWatched, cliVars, Accept, Disconnected, ClientReceives, Connected, RecvStateOp,
         RecvStateMerge, RecvStateSnapshot, RecvStateHash, RecvDatagram
  <2>3. CASE Replay(c) \/ ReplayPosition(c) \/ PushMerge(c) \/ FlushClient(c) \/ RestartClient(c)
    BY <2>3, ZenonT(60) DEF Replay, ReplayPosition, PushMerge, FlushClient, RestartClient
  <2> QED
    BY <1>1, <2>1, <2>2, <2>3, Zenon DEF ClientNext
<1>2. CASE ~\E c \in Clients : ClientNext(c)
  <2>1. issued' = issued
    BY <1>2, ServerStepFrame, Zenon DEF Next
  <2> QED
    BY <2>1, Zenon
<1> QED
  BY <1>1, <1>2, Zenon

(* A session's actors are its client's alone, and of that session alone. *)
LEMMA OwnActors ==
    ASSUME TypeInv, NEW c \in Clients, NEW d \in Clients, NEW a \in Sessions(d), NEW n \in 0..MaxClientRestarts,
           a \in {ActorOf(c, n), PosActorOf(c, n)}
    PROVE  c = d /\ n <= cl[d].session
<1>1. PICK m \in 0..cl[d].session : a \in {ActorOf(d, m), PosActorOf(d, m)}
  BY Zenon DEF Sessions
<1>2. cl[d].session \in 0..MaxClientRestarts /\ cl[d].session \in Nat
  BY ActorType, ClientFields, Zenon DEF TypeInv
<1>3. m \in 0..MaxClientRestarts /\ m <= cl[d].session
  BY <1>2, BoundsAssumption
<1>4. c = d /\ n = m
  <2>1. /\ ActorOf(c, n) = ActorOf(d, m) => c = d /\ n = m
        /\ PosActorOf(c, n) = PosActorOf(d, m) => c = d /\ n = m
        /\ ActorOf(c, n) # PosActorOf(d, m)
    BY <1>3, ActorsDistinct
  <2>2. ActorOf(d, m) # PosActorOf(c, n)
    BY <1>3, ActorsDistinct
  <2> QED
    BY <1>1, <2>1, <2>2, Zenon
<1> QED
  BY <1>3, <1>4, Zenon

(* What a client writes has not been written before. *)
LEMMA NotSentBefore ==
    ASSUME TypeInv, Authored, NEW c \in Clients, NEW op \in Op, NEW b \in BOOLEAN, Writing(c, op, b)
    PROVE  ~Sent(op)
<1>1. SUFFICES ASSUME NEW e \in issued, e.op = op
               PROVE  FALSE
  BY Zenon DEF Sent
<1>2. e.by \in Clients /\ op.lww.ts \in Nat
  BY Zenon DEF TypeInv, TypeOK, Op, Lww
<1>3. cl[c].session \in 0..MaxClientRestarts /\ cl[c].last \in Nat
  BY ActorType, ClientFields, Zenon DEF TypeInv
<1>4. op.actor \in Mine(c)
  BY Zenon DEF Writing, Mine
<1>5. e.by = c
  BY <1>1, <1>2, <1>3, <1>4, OwnActors, Zenon DEF Authored, Mine, Me, MyPos
<1>6. op.lww.ts <= cl[c].last
  BY <1>1, <1>4, <1>5, Zenon DEF Authored
<1>7. op.lww.ts > cl[c].last
  BY WrittenAbove, Zenon
<1> QED
  BY <1>2, <1>3, <1>6, <1>7

(* An op sent reliably stays so. *)
LEMMA ReliableKept ==
    ASSUME TypeInv, Authored, Next, NEW op, Reliable(op)
    PROVE  Reliable(op)'
<1>1. CASE issued' = issued
  BY <1>1, Zenon DEF Reliable, Sent, Only
<1>2. ASSUME NEW c \in Clients, NEW o \in Op, NEW b \in BOOLEAN, Writing(c, o, b)
      PROVE  Reliable(op)'
  <2>1. PICK v \in Via : issued' = issued \cup {[op |-> o, by |-> c, via |-> v]}
    BY <1>2, WrittenEntry, Zenon
  <2>2. o # op
    BY <1>2, NotSentBefore, Zenon DEF Reliable
  <2>3. [op |-> o, by |-> c, via |-> v].op = o
    BY Zenon
  <2> QED
    BY <2>1, <2>2, <2>3, Zenon DEF Reliable, Sent, Only
<1> QED
  BY <1>1, <1>2, IssuedMoves, Zenon

(* An op written to the control stream is sent reliably. *)
LEMMA ReliableNew ==
    ASSUME TypeInv, Authored, NEW c \in Clients, NEW op \in Op, Writing(c, op, TRUE)
    PROVE  Reliable(op)'
<1>1. PICK v \in Via : v # "datagram" /\ issued' = issued \cup {[op |-> op, by |-> c, via |-> v]}
  BY WrittenEntry, Zenon
<1>2. ~Sent(op)
  BY NotSentBefore, Zenon
<1> DEFINE e == [op |-> op, by |-> c, via |-> v]
<1>3. e.op = op /\ e.via = v /\ issued' = issued \cup {e}
  BY <1>1, Zenon
<1> HIDE DEF e
<1> QED
  BY <1>1, <1>2, <1>3, Zenon DEF Reliable, Sent, Only

(* Authored is inductive. *)
LEMMA AuthoredKept ==
    ASSUME TypeInv, TypeInv', Authored, Next
    PROVE  Authored'
<1>1. SUFFICES ASSUME NEW e \in issued'
               PROVE  /\ e.op.actor \in Sessions(e.by)'
                      /\ e.op.actor \in Mine(e.by)' => e.op.lww.ts <= cl'[e.by].last
                      /\ e.via = "datagram" => e.op.key \in Positions
  BY Zenon DEF Authored
<1>2. CASE e \in issued
  <2>t. e.by \in Clients /\ e.op.lww.ts \in Nat /\ cl[e.by].last \in Nat /\ cl'[e.by].last \in Nat
    <3>1. e.by \in Clients /\ e.op.lww.ts \in Nat
      BY <1>2, Zenon DEF TypeInv, TypeOK, Op, Lww
    <3>2. cl[e.by].last \in Nat
      BY <3>1, ClientFields, Zenon DEF TypeInv
    <3>3. cl'[e.by].last \in Nat
      BY <3>1, Zenon DEF TypeInv, TypeOK, Client
    <3> QED
      BY <3>1, <3>2, <3>3, Zenon
  <2>1. e.op.actor \in Sessions(e.by)'
    BY <1>2, <2>t, SessionsGrow, Zenon DEF Authored
  <2>2. ASSUME e.op.actor \in Mine(e.by)'
        PROVE  e.op.lww.ts <= cl'[e.by].last
    <3>1. cl'[e.by].session \in 0..MaxClientRestarts
      <4>1. cl'[e.by].session \in Nat /\ left'["session"] \in Nat
        BY <2>t, Zenon DEF TypeInv, TypeOK, Client, Budget
      <4> QED
        BY <2>t, <4>1, BoundsAssumption DEF TypeInv, SessionsBounded
    <3>2. cl'[e.by].session <= cl[e.by].session
      <4>1. e.op.actor \in {ActorOf(e.by, cl'[e.by].session), PosActorOf(e.by, cl'[e.by].session)}
        BY <2>2, Zenon DEF Mine, Me, MyPos
      <4>2. e.op.actor \in Sessions(e.by)
        BY <1>2, Zenon DEF Authored
      <4> QED
        BY <2>t, <3>1, <4>1, <4>2, OwnActors, Zenon
    <3>3. cl[e.by].session \in Nat
      BY <2>t, ClientFields, Zenon DEF TypeInv
    <3>4. cl'[e.by].session # cl[e.by].session + 1
      BY <3>2, <3>3
    <3>5. cl'[e.by].session = cl[e.by].session
      BY <2>t, <3>4, ClientMoves, Zenon
    <3>6. e.op.lww.ts <= cl[e.by].last
      BY <1>2, <2>2, <3>5, Zenon DEF Authored, Mine, Me, MyPos
    <3>7. ~RestartClient(e.by)
      <4>1. RestartClient(e.by) => cl'[e.by].session = cl[e.by].session + 1
        BY <2>t, RestartFrame, Zenon
      <4> QED
        BY <3>4, <4>1, Zenon
    <3>8. cl'[e.by].last >= cl[e.by].last
      BY <2>t, <3>7, FloorRises, Zenon
    <3> QED
      BY <2>t, <3>6, <3>8
  <2> QED
    BY <1>2, <2>1, <2>2, Zenon DEF Authored
<1>3. ASSUME NEW c \in Clients, NEW op \in Op, NEW b \in BOOLEAN, Writing(c, op, b), e \notin issued
      PROVE  /\ e.op.actor \in Sessions(e.by)'
             /\ e.op.lww.ts <= cl'[e.by].last
             /\ e.via = "datagram" => e.op.key \in Positions
  <2>1. PICK v \in Via : (v = "datagram" => ~b) /\ e = [op |-> op, by |-> c, via |-> v]
    BY <1>3, WrittenEntry, Zenon
  <2>2. e.op = op /\ e.by = c /\ e.via = v
    BY <2>1, Zenon
  <2>3. op.actor \in Mine(c) /\ (~b => op.key \in Positions)
    BY <1>3, Zenon DEF Writing, Mine
  <2>4. op.actor \in Sessions(c)'
    BY <2>3, SessionsGrow, Zenon
  <2>5. cl'[c].last = op.lww.ts /\ op.lww.ts \in Nat
    <3>1. cl \in [Clients -> Client]
      BY Zenon DEF TypeInv, TypeOK
    <3>2. op.lww.ts \in Nat
      BY Zenon DEF Op, Lww
    <3> QED
      BY <1>3, <3>1, <3>2, ZenonT(60) DEF Writing, Mutate, Client
  <2>6. op.lww.ts <= cl'[c].last
    BY <2>5
  <2> QED
    BY <2>1, <2>2, <2>3, <2>4, <2>6, Zenon
<1> QED
  BY <1>1, <1>2, <1>3, IssuedMoves, Zenon

(* Streams is inductive. *)
LEMMA StreamsKept ==
    ASSUME TypeInv, TypeInv', Shapes, Authored, Streams, Next
    PROVE  Streams'
<1>k. ASSUME NEW m, Queueable(m)
      PROVE  Queueable(m)'
  BY <1>k, ReliableKept, Zenon DEF Queueable
<1>1. ASSUME NEW k \in Conns, NEW m \in Elems(up'[k])
      PROVE  Queueable(m)'
  <2>1. CASE m \in Elems(up[k])
    BY <1>k, <2>1, Zenon DEF Streams
  <2>2. ASSUME NEW c \in Clients, FromClient(c, m)
        PROVE  Queueable(m)'
    <3>1. SUFFICES ASSUME m.type = "StateOp"
                   PROVE  Reliable(m.op)'
      BY Zenon DEF Queueable
    <3>2. m \in ClientMsg
      BY ElemsType, Zenon DEF TypeInv, TypeOK
    <3>3. m.op \in Op /\ Writing(c, m.op, TRUE)
      BY <2>2, <3>1, <3>2, ClientMsgFields, Zenon DEF FromClient
    <3> QED
      BY <3>3, ReliableNew, Zenon
  <2> QED
    BY <2>1, <2>2, UpMoves, Zenon
<1>2. ASSUME NEW k \in Conns, NEW m \in Elems(down'[k])
      PROVE  Queueable(m)'
  <2>1. CASE m \in Elems(down[k])
    BY <1>k, <2>1, Zenon DEF Streams
  <2>2. CASE m.type = "AuthOk"
    BY <2>2, Zenon DEF Queueable
  <2>3. CASE FromTask(m)
    <3>1. PICK t \in Tasks : Heads(t) /\ m = Msg(t) /\ (TaskSend(t) \/ TaskBroadcast(t))
      BY <2>3, Zenon DEF FromTask
    <3>2. Head(job[t]).do # "relay"
      BY <3>1, Zenon DEF TaskSend, TaskBroadcast, Todo
    <3> QED
      BY <1>k, <3>1, <3>2, Zenon DEF Streams
  <2> QED
    BY <2>1, <2>2, <2>3, DownMoves, Zenon
<1>3. ASSUME NEW t \in Tasks, Heads(t)', Head(job'[t]).do # "relay"
      PROVE  Queueable(Msg(t))'
  <2>1. CASE job'[t] = job[t]
    <3>1. Queueable(Msg(t)) /\ Msg(t)' = Msg(t)
      BY <1>3, <2>1, Zenon DEF Streams, Heads, Msg
    <3> QED
      BY <1>k, <3>1, Zenon DEF Queueable
  <2>2. CASE Streamed(Head(job'[t]))
    <3>0. PICK m : m = Msg(t)'
      BY Zenon
    <3>1. SUFFICES ASSUME m.type = "StateOp", m.op.key \in Positions
                   PROVE  Reliable(m.op)'
      BY <3>0, Zenon DEF Queueable
    <3>2. OnStream(m.op)
      BY <1>3, <2>2, <3>0, <3>1, Zenon DEF Streamed, Msg
    <3>3. Reliable(m.op)
      BY <3>1, <3>2, Zenon DEF OnStream, Streams, Queueable
    <3> QED
      BY <3>3, ReliableKept, Zenon
  <2> QED
    BY <1>3, <2>1, <2>2, JobMoves, Zenon DEF JobStep
<1> QED
  BY <1>1, <1>2, <1>3, Zenon DEF Streams

(* Both together. *)
LEMMA PositionsKept ==
    ASSUME HubInv, HubInv', Authored, Streams, [Next]_vars
    PROVE  Authored' /\ Streams'
<1>1. CASE Next
  BY <1>1, AuthoredKept, StreamsKept, Zenon DEF HubInv
<1>2. CASE UNCHANGED vars
  <2>1. UNCHANGED <<cl, issued, job, up, down>>
    BY <1>2, Zenon DEF vars, cliVars, netVars
  <2>2. Authored'
    BY <2>1, Zenon DEF Authored, Sessions, Mine, Me, MyPos
  <2>3. Streams'
    BY <2>1, Zenon DEF Streams, Queueable, Reliable, Sent, Only, Heads, Msg
  <2> QED
    BY <2>2, <2>3, Zenon
<1> QED
  BY <1>1, <1>2, Zenon

(* At the start nothing has been written and nothing is on its way. *)
LEMMA PositionsInit ==
    ASSUME Init
    PROVE  Authored /\ Streams
<1>1. /\ \A k \in Conns : up[k] = <<>> /\ down[k] = <<>>
      /\ \A t \in Tasks : job[t] = <<>>
      /\ issued = {}
  BY Zenon DEF Init
<1> QED
  BY <1>1, ElemsShort, Zenon DEF Authored, Streams, Heads

(* What is sent as a datagram only is on no control stream. *)
LEMMA NeverQueued ==
    ASSUME TypeInv, Authored, Streams
    PROVE  PositionsNeverQueue
<1>1. SUFFICES ASSUME NEW k \in Conns, NEW e \in issued, e.via = "datagram", NEW m,
                      m \in Elems(up[k]) \/ m \in Elems(down[k]), m.type = "StateOp"
               PROVE  m.op # e.op
  BY Zenon DEF PositionsNeverQueue, Elems
<1>2. e.op.key \in Positions /\ Only(e.op)
  BY <1>1, Zenon DEF Authored, Only
<1> QED
  BY <1>1, <1>2, Zenon DEF Streams, Queueable, Reliable
=============================================================================
