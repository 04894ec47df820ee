--------------------------------- MODULE Mpv ---------------------------------
(***************************************************************************)
(* mpv, the pipe of commands to it, and the reader that turns its messages *)
(* into player events (player/mpv.rs).  mpv is external and modelled from  *)
(* how the reader and the actor use it.  Commands are written without      *)
(* waiting for mpv; events wait in a channel until the actor takes them;   *)
(* the user acts on mpv directly.                                          *)
(*                                                                         *)
(* Each file is at a path of its own.  Time is left out: mpv may take any  *)
(* time over a command, and timers may fire whenever they are armed.       *)
(***************************************************************************)
EXTENDS Integers, Sequences

CONSTANTS Files,        \* the files the session loads
          Own,          \* a file of the user's, dragged into the player
          None,
          LastPosition, \* where every file ends
          MaxEvents,    \* bound: events waiting for the actor
          Scenarios     \* bound: how often whom may act, by scenario

Paths == Files \cup {Own}
Positions == 0..LastPosition
Budget == {"load", "play", "lock", "sync", "recover", "press", "seek", "drag", "die", "fail", "quit", "attach"}

ASSUME MpvAssumption ==
    /\ None \notin Paths \cup BOOLEAN /\ Own \notin Files
    /\ LastPosition \in Nat \ {0}
    /\ MaxEvents \in Nat
    /\ Scenarios \subseteq [Budget -> Nat]

VARIABLES mpv, cmds, reader, events, left   \* left: what the environment may still do

mpvVars == <<mpv, cmds, reader, events>>

Spend(what) == left[what] > 0 /\ left' = [left EXCEPT ![what] = @ - 1]

-----------------------------------------------------------------------------
(* Commands to mpv. *)

SetPause(b) == [do |-> "pause", paused |-> b]
SeekTo(p) == [do |-> "seek", to |-> p]
\* setup: properties are observed in this order, once per connection.
ObserveProperty(what) == [do |-> "observe", what |-> what]
ObserveAll == <<ObserveProperty("pause"), ObserveProperty("path")>>
\* The reader's own queries: after a finished seek, or an observed pause.
QueryPosition(why) == [do |-> "query", why |-> why]
\* load: the file opens paused.
LoadFile(p) == <<SetPause(TRUE), [do |-> "loadfile", path |-> p]>>

Command ==
    [do : {"pause"}, paused : BOOLEAN] \cup [do : {"seek"}, to : Positions]
        \cup [do : {"observe"}, what : {"pause", "path"}] \cup [do : {"query"}, why : {"seek", "pause"}]
        \cup [do : {"loadfile"}, path : Files]

\* Events.  by tells the user's acts from everything else, and of the file that
\* was up; the actor can see neither.
Origins == {"user", "us", "mpv"}
PauseChanged(b, by) == [event |-> "pause", paused |-> b, by |-> by]
Seeked(p, f, by) == [event |-> "seeked", at |-> p, of |-> f, by |-> by]
Position(p, f) == [event |-> "position", at |-> p, of |-> f]
DurationKnown(f) == [event |-> "duration", of |-> f]
Loaded(f) == [event |-> "loaded", of |-> f]
PathChanged(f) == [event |-> "path", path |-> f]
Eof(f) == [event |-> "eof", of |-> f]
LoadFailed == [event |-> "failed"]
Exited == [event |-> "exited"]

Event ==
    [event : {"pause"}, paused : BOOLEAN, by : Origins]
        \cup [event : {"seeked"}, at : Positions, of : Paths, by : Origins]
        \cup [event : {"position"}, at : Positions, of : Paths]
        \cup [event : {"duration", "loaded", "eof"}, of : Paths]
        \cup [event : {"path"}, path : Paths]
        \cup [event : {"failed", "exited"}]

\* Translate, the held pause (whose it is) and the loading flag.
Reader ==
    [loading : BOOLEAN, seekPending : Origins \cup {None}, seekQuery : Origins \cup {None}, eof : BOOLEAN,
     lastPause : BOOLEAN \cup {None}, lastPath : Paths \cup {None}, held : Origins \cup {None}]
NewReader ==
    [loading |-> FALSE, seekPending |-> None, seekQuery |-> None, eof |-> FALSE,
     lastPause |-> None, lastPath |-> None, held |-> None]

\* path is the file up, opening one that mpv was told to load next.
Mpv ==
    [up : BOOLEAN, path : Paths \cup {None}, opening : Paths \cup {None}, loaded : BOOLEAN,
     paused : BOOLEAN, at : Positions, eof : BOOLEAN, restarting : BOOLEAN]
NoMpv ==
    [up |-> FALSE, path |-> None, opening |-> None, loaded |-> FALSE,
     paused |-> FALSE, at |-> 0, eof |-> FALSE, restarting |-> FALSE]

MpvTypeOK ==
    /\ mpv \in Mpv /\ cmds \in Seq(Command)
    /\ reader \in Reader /\ events \in Seq(Event)
    /\ left \in [Budget -> Nat]

MpvInit == mpv = NoMpv /\ cmds = <<>> /\ reader = NewReader /\ events = <<>> /\ left \in Scenarios

-----------------------------------------------------------------------------
(* A message is read as mpv sends it: the reader shares only the loading     *)
(* flag with the actor, and whatever a late reading finds, mpv could have    *)
(* sent late.                                                                *)

\* mpv acts by itself, or runs the next command.
MpvActs == mpv.up /\ Len(events) < MaxEvents
Observing == \A i \in 1..Len(cmds) : cmds[i].do # "observe"
Runs(what) == MpvActs /\ cmds # <<>> /\ Head(cmds).do = what

\* Events pass a held pause by, or settle it: then it was a real one, and the
\* reader asks where mpv stopped.
PassBy(es, rest, r) == events' = events \o es /\ cmds' = rest /\ reader' = r
Forward(es, rest, r) ==
    IF r.held = None THEN PassBy(es, rest, r)
    ELSE PassBy(<<PauseChanged(TRUE, r.held)>> \o es, Append(rest, QueryPosition("pause")),
                [r EXCEPT !.held = None])

\* The pause property as the reader sees it.
SeesPause(b, by, rest) ==
    LET r == [reader EXCEPT !.lastPause = b] IN
    IF reader.lastPause = b \/ reader.loading \/ (b /\ reader.eof) THEN PassBy(<<>>, rest, r)
    ELSE IF b THEN PassBy(<<>>, rest, [r EXCEPT !.held = by])
    ELSE Forward(<<PauseChanged(FALSE, by)>>, rest, r)

\* mpv announces what it is asked to observe; an idle one has no path.
RunObserve ==
    /\ Runs("observe")
    /\ IF Head(cmds).what = "pause" THEN SeesPause(mpv.paused, "mpv", Tail(cmds))
       ELSE IF mpv.path = None THEN PassBy(<<>>, Tail(cmds), reader)
       ELSE PassBy(<<PathChanged(mpv.path)>>, Tail(cmds), [reader EXCEPT !.lastPath = mpv.path])
    /\ UNCHANGED <<mpv, left>>

RunPause ==
    LET b == Head(cmds).paused IN
    /\ Runs("pause")
    /\ mpv' = [mpv EXCEPT !.paused = b]
    /\ IF b # mpv.paused THEN SeesPause(b, "us", Tail(cmds)) ELSE PassBy(<<>>, Tail(cmds), reader)
    /\ UNCHANGED left

RunLoadFile ==
    /\ Runs("loadfile")
    /\ mpv' = [mpv EXCEPT !.opening = Head(cmds).path] /\ cmds' = Tail(cmds)
    /\ UNCHANGED <<reader, events, left>>

\* A seek that finds no file is refused.
Seeking(p, by) ==
    /\ mpv' = [mpv EXCEPT !.at = p, !.eof = FALSE, !.restarting = TRUE]
    /\ reader' = [reader EXCEPT !.seekPending = by, !.eof = FALSE]
RunSeek ==
    /\ Runs("seek")
    /\ IF mpv.loaded THEN Seeking(Head(cmds).to, "us") ELSE UNCHANGED <<mpv, reader>>
    /\ cmds' = Tail(cmds)
    /\ UNCHANGED <<events, left>>

\* Faulty RunQuery: any reply is taken for the one that is awaited.
RunQueryUnmatched ==
    LET r == [reader EXCEPT !.seekQuery = None] IN
    /\ Runs("query")
    /\ IF mpv.loaded THEN Forward(<<Seeked(mpv.at, mpv.path, reader.seekQuery)>>, Tail(cmds), r)
       ELSE PassBy(<<>>, Tail(cmds), r)
    /\ UNCHANGED <<mpv, left>>

\* A reply to a query that a later one replaced is dropped.
RunQuery ==
    LET why == Head(cmds).why
        latest == \A i \in 2..Len(cmds) : cmds[i] # QueryPosition(why)
        r == [reader EXCEPT !.seekQuery = None]
    IN
    /\ Runs("query")
    /\ IF ~latest THEN PassBy(<<>>, Tail(cmds), reader)
       ELSE IF why = "pause"
       THEN PassBy(IF mpv.loaded THEN <<Position(mpv.at, mpv.path)>> ELSE <<>>, Tail(cmds), reader)
       ELSE IF mpv.loaded THEN Forward(<<Seeked(mpv.at, mpv.path, reader.seekQuery)>>, Tail(cmds), r)
       ELSE PassBy(<<>>, Tail(cmds), r)
    /\ UNCHANGED <<mpv, left>>

\* The old file is gone; the path is announced unless it is the same.
StartFile ==
    LET f == mpv.opening IN
    /\ MpvActs /\ Observing /\ f # None
    /\ mpv' = [mpv EXCEPT !.path = f, !.opening = None, !.loaded = FALSE, !.at = 0, !.eof = FALSE,
                          !.restarting = FALSE]
    /\ PassBy(IF f # reader.lastPath THEN <<PathChanged(f)>> ELSE <<>>, cmds,
              [reader EXCEPT !.lastPath = f, !.eof = FALSE])
    /\ UNCHANGED left

Opening == MpvActs /\ mpv.path # None /\ ~mpv.loaded /\ mpv.opening = None

FileLoaded ==
    /\ Opening
    /\ mpv' = [mpv EXCEPT !.loaded = TRUE, !.restarting = TRUE]
    /\ Forward(<<Loaded(mpv.path), DurationKnown(mpv.path)>>, cmds,
               [reader EXCEPT !.loading = FALSE, !.eof = FALSE])
    /\ UNCHANGED left

OpenFails ==
    /\ Opening /\ Spend("fail")
    /\ mpv' = [mpv EXCEPT !.path = None]
    /\ Forward(<<LoadFailed>>, cmds, [reader EXCEPT !.loading = FALSE])

\* playback-restart: after a load, or the seeks so far.  The reader asks where
\* a pending seek landed.
Restart ==
    /\ MpvActs /\ mpv.loaded /\ mpv.restarting
    /\ mpv' = [mpv EXCEPT !.restarting = FALSE]
    /\ IF reader.seekPending = None THEN UNCHANGED <<reader, cmds>>
       ELSE /\ reader' = [reader EXCEPT !.seekPending = None, !.seekQuery = reader.seekPending]
            /\ cmds' = Append(cmds, QueryPosition("seek"))
    /\ UNCHANGED <<events, left>>

\* Playback goes on, and parks at the end: mpv pauses itself and then says that
\* it reached the end, which explains the pause away.
Plays == MpvActs /\ mpv.loaded /\ ~mpv.paused /\ ~mpv.restarting /\ ~mpv.eof
PlayOn ==
    /\ Plays /\ mpv.at + 1 < LastPosition
    /\ mpv' = [mpv EXCEPT !.at = @ + 1]
    /\ PassBy(<<Position(mpv.at + 1, mpv.path)>>, cmds, reader)
    /\ UNCHANGED left
PlayToEnd ==
    /\ Plays /\ mpv.at + 1 = LastPosition
    /\ mpv' = [mpv EXCEPT !.at = LastPosition, !.paused = TRUE, !.eof = TRUE]
    /\ PassBy(<<Eof(mpv.path)>>, cmds, [reader EXCEPT !.lastPause = TRUE, !.eof = TRUE, !.held = None])
    /\ UNCHANGED left

\* Nothing followed a held pause in time.
HoldTimesOut ==
    /\ MpvActs /\ reader.held # None
    /\ Forward(<<>>, cmds, reader)
    /\ UNCHANGED <<mpv, left>>

\* The user at the player.
Press ==
    /\ MpvActs /\ Observing /\ ~mpv.eof /\ Spend("press")
    /\ mpv' = [mpv EXCEPT !.paused = ~@]
    /\ SeesPause(~mpv.paused, "user", cmds)
Scrubs(p) ==
    /\ MpvActs /\ Observing /\ mpv.loaded /\ Spend("seek")
    /\ Seeking(p, "user")
    /\ UNCHANGED <<events, cmds>>
DragIn(f) ==
    /\ MpvActs /\ Observing /\ Spend("drag")
    /\ mpv' = [mpv EXCEPT !.opening = f]
    /\ UNCHANGED <<cmds, reader, events>>

\* mpv ends; what it had announced is still read, and then its exit.
Die ==
    /\ mpv.up /\ Spend("die")
    /\ mpv' = NoMpv /\ cmds' = <<>> /\ events' = Append(events, Exited)
    /\ reader' = [reader EXCEPT !.held = None]

\* What mpv and the reader do by themselves, sooner or later.
MpvWorks ==
    \/ RunObserve \/ RunPause \/ RunLoadFile \/ RunSeek \/ RunQuery
    \/ StartFile \/ FileLoaded \/ Restart \/ PlayOn \/ PlayToEnd \/ HoldTimesOut

MpvNext ==
    \/ MpvWorks \/ OpenFails \/ Press \/ Die
    \/ \E p \in Positions \ {LastPosition} : Scrubs(p)
    \/ \E f \in Paths : DragIn(f)
=============================================================================
