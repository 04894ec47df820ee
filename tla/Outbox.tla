------------------------------- MODULE Outbox -------------------------------
(***************************************************************************)
(* A connection's outbound queue (src/dessplay-rendezvous/src/outbox.rs):  *)
(* tasks of the server push frames without waiting, the connection's       *)
(* writer task drains them into it.  queued and closed are atomics: each   *)
(* access is a step of its own.                                            *)
(***************************************************************************)
EXTENDS Integers, Sequences, FiniteSets, Functions

CONSTANTS
    Pushers,    \* tasks holding a handle: serve loops, broadcasts, relays
    Sizes,      \* lengths of frames
    Limit,      \* limit
    MaxPushes   \* bound: pushes of one task

ASSUME OutboxAssumption ==
    /\ Sizes \subseteq Nat \ {0} /\ Limit \in Nat /\ MaxPushes \in Nat
    /\ IsFiniteSet(Pushers)

VARIABLES
    queued,     \* State.queued
    closed,     \* State.closed
    chan,       \* the channel from the handles to the writer
    pc,         \* where each task is in push
    frame,      \* the frame it pushes, [from, n, len]
    pushes,     \* pushes begun by each task
    writer,     \* where the writer is in drain
    taken,      \* the frame it has received
    conn,       \* the connection
    closing,    \* the overflow action has run: a task is to close it
    delivered   \* frames written to the connection

outboxVars == <<queued, closed, chan, pc, frame, pushes, writer, taken, conn,
                closing, delivered>>
writerVars == <<writer, taken, conn, delivered>>
pushVars == <<pc, frame, pushes, closing>>

Frames == [from : Pushers, n : 1 .. MaxPushes, len : Sizes]
NoFrame == [from |-> 0, n |-> 0, len |-> 0]

-----------------------------------------------------------------------------
(* push, by task p *)

\* The closed check; a refused push returns at once.
Push(p, len) ==
    /\ pc[p] = "idle" /\ pushes[p] < MaxPushes
    /\ pushes' = [pushes EXCEPT ![p] = @ + 1]
    /\ frame' = [frame EXCEPT ![p] = [from |-> p, n |-> pushes[p] + 1, len |-> len]]
    /\ pc' = [pc EXCEPT ![p] = IF closed THEN "idle" ELSE "add"]
    /\ UNCHANGED <<queued, closed, chan, closing, writerVars>>

\* fetch_add, and the test of what was queued before.
PushAdd(p) ==
    LET len == frame[p].len
    IN  /\ pc[p] = "add"
        /\ queued' = queued + len
        /\ pc' = [pc EXCEPT ![p] =
                    IF queued > 0 /\ queued + len > Limit THEN "undo" ELSE "send"]
        /\ UNCHANGED <<closed, chan, frame, pushes, closing, writerVars>>

\* A mutant: an overflowing push stays counted.
PushUndoForgotten(p) ==
    /\ pc[p] = "undo"
    /\ pc' = [pc EXCEPT ![p] = "overflow"]
    /\ UNCHANGED <<queued, closed, chan, frame, pushes, closing, writerVars>>

PushUndo(p) ==
    /\ pc[p] = "undo"
    /\ queued' = queued - frame[p].len
    /\ pc' = [pc EXCEPT ![p] = "overflow"]
    /\ UNCHANGED <<closed, chan, frame, pushes, closing, writerVars>>

\* overflow: the swap decides who runs the action.
Overflow(p) ==
    /\ pc[p] = "overflow"
    /\ closed' = TRUE
    /\ pc' = [pc EXCEPT ![p] = IF closed THEN "idle" ELSE "act"]
    /\ UNCHANGED <<queued, chan, frame, pushes, closing, writerVars>>

\* A mutant: the outbox closes and the connection does not.
OverflowActNothing(p) ==
    /\ pc[p] = "act"
    /\ pc' = [pc EXCEPT ![p] = "idle"]
    /\ UNCHANGED <<queued, closed, chan, frame, pushes, closing, writerVars>>

\* on_overflow: spawn the task that closes the connection.
OverflowAct(p) ==
    /\ pc[p] = "act"
    /\ closing' = TRUE
    /\ pc' = [pc EXCEPT ![p] = "idle"]
    /\ UNCHANGED <<queued, closed, chan, frame, pushes, writerVars>>

\* tx.send, which fails once the writer is gone.
PushSend(p) ==
    /\ pc[p] = "send"
    /\ \/ /\ writer # "exited"
          /\ chan' = Append(chan, frame[p])
          /\ pc' = [pc EXCEPT ![p] = "idle"]
       \/ /\ writer = "exited"
          /\ chan' = chan
          /\ pc' = [pc EXCEPT ![p] = "unsend"]
    /\ UNCHANGED <<queued, closed, frame, pushes, closing, writerVars>>

PushUnsend(p) ==
    /\ pc[p] = "unsend"
    /\ queued' = queued - frame[p].len
    /\ pc' = [pc EXCEPT ![p] = "idle"]
    /\ UNCHANGED <<closed, chan, frame, pushes, closing, writerVars>>

-----------------------------------------------------------------------------
(* drain *)

\* A mutant: the frame is written off before the peer has taken it.
ReceiveUncounted ==
    /\ writer = "recv" /\ chan # <<>>
    /\ taken' = Head(chan)
    /\ chan' = Tail(chan)
    /\ queued' = queued - taken'.len
    /\ writer' = "check"
    /\ UNCHANGED <<closed, conn, delivered, pushVars>>

Receive ==
    /\ writer = "recv" /\ chan # <<>>
    /\ taken' = Head(chan)
    /\ chan' = Tail(chan)
    /\ writer' = "check"
    /\ UNCHANGED <<queued, closed, conn, delivered, pushVars>>

\* The closed check; leaving the loop drops the channel and what is in it.
Check ==
    /\ writer = "check"
    /\ writer' = IF closed THEN "exited" ELSE "write"
    /\ chan' = IF closed THEN <<>> ELSE chan
    /\ UNCHANGED <<queued, closed, taken, conn, delivered, pushVars>>

\* sink.write: the peer takes the frame, or the connection is gone.  A peer
\* that does not read lets it wait.
WriteOk ==
    /\ writer = "write" /\ conn = "up"
    /\ delivered' = Append(delivered, taken)
    /\ writer' = "wrote"
    /\ UNCHANGED <<queued, closed, chan, taken, conn, pushVars>>

WriteFails ==
    /\ writer = "write" /\ conn = "gone"
    /\ writer' = "failed"
    /\ UNCHANGED <<queued, closed, chan, taken, conn, delivered, pushVars>>

Written ==
    /\ writer \in {"wrote", "failed"}
    /\ queued' = queued - taken.len
    /\ writer' = IF writer = "wrote" THEN "recv" ELSE "close"
    /\ UNCHANGED <<closed, chan, taken, conn, delivered, pushVars>>

CloseOnFailure ==
    /\ writer = "close"
    /\ closed' = TRUE
    /\ writer' = "exited"
    /\ chan' = <<>>
    /\ UNCHANGED <<queued, taken, conn, delivered, pushVars>>

-----------------------------------------------------------------------------
(* The connection *)

\* The task the overflow action spawned closes it.
CloseConnection ==
    /\ closing /\ conn = "up"
    /\ conn' = "gone"
    /\ UNCHANGED <<queued, closed, chan, writer, taken, delivered, pushVars>>

\* The peer goes away.
PeerGone ==
    /\ conn = "up"
    /\ conn' = "gone"
    /\ UNCHANGED <<queued, closed, chan, writer, taken, delivered, pushVars>>

-----------------------------------------------------------------------------

OutboxInit ==
    /\ queued = 0 /\ closed = FALSE /\ chan = <<>>
    /\ pc = [p \in Pushers |-> "idle"] /\ frame = [p \in Pushers |-> NoFrame]
    /\ pushes = [p \in Pushers |-> 0]
    /\ writer = "recv" /\ taken = NoFrame /\ conn = "up"
    /\ closing = FALSE /\ delivered = <<>>

PushStep(p) ==
    \/ PushAdd(p) \/ PushUndo(p) \/ Overflow(p) \/ OverflowAct(p)
    \/ PushSend(p) \/ PushUnsend(p)

DrainStep == Receive \/ Check \/ WriteFails \/ Written \/ CloseOnFailure

OutboxNext ==
    \/ \E p \in Pushers : PushStep(p) \/ \E len \in Sizes : Push(p, len)
    \/ DrainStep \/ WriteOk
    \/ CloseConnection \/ PeerGone

OutboxSpec == OutboxInit /\ [][OutboxNext]_outboxVars

\* Tasks run on; nothing makes a peer read.
OutboxFairness ==
    /\ \A p \in Pushers : WF_outboxVars(PushStep(p))
    /\ WF_outboxVars(DrainStep) /\ WF_outboxVars(CloseConnection)

-----------------------------------------------------------------------------
(* Properties *)

\* What the queue holds: the frame the writer has not written yet and those
\* behind it; nothing once the writer has given up.
Stopped == writer \in {"failed", "close", "exited"}

Waiting ==
    IF Stopped THEN <<>>
    ELSE (IF writer \in {"check", "write"} THEN <<taken>> ELSE <<>>) \o chan

FQ == INSTANCE FrameQueue WITH
        Len_ <- LAMBDA f : f.len, waiting <- Waiting, stopped <- Stopped

\* The outbox implements FrameQueue: whatever the interleaving of pushes, the
\* writer and the closing of the connection, frames accepted are delivered in
\* order, none twice and none skipped, and a frame is accepted only into an
\* empty queue or within the limit (the fetch_add before the send).
OutboxImplements == FQ!FqSpec

\* The byte counter is exact while the writer lives: it counts what waits,
\* what is being pushed and what is being taken back, and so neither refuses
\* a reading peer's frames for bytes already gone nor lets a backlog grow
\* past the limit.
Accounted ==
    writer # "exited" =>
        queued = FQ!Bytes(chan)
                 + (IF writer \in {"check", "write", "wrote", "failed"} THEN taken.len ELSE 0)
                 + SumFunction([p \in {p \in Pushers : pc[p] \in {"undo", "send", "unsend"}}
                                  |-> frame[p].len])

\* A closed outbox holds on to nothing: the overflow action closes the
\* connection, which fails the write the writer is parked on, and the backlog
\* of a peer that does not read is freed.
Released == []<>(closed => Waiting = <<>>)
=============================================================================
