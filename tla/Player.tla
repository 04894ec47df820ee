------------------------------- MODULE Player -------------------------------
(***************************************************************************)
(* The player actor (actors/player.rs): it commands mpv on behalf of the   *)
(* session and tells the user's acts from the echoes of its own commands,  *)
(* the loaded file's observations from another file's, and a crash loop    *)
(* from a crash.                                                           *)
(*                                                                         *)
(* The position estimate is not extrapolated, drift is measured by the     *)
(* environment, and the overlays, subtitles and screenshots are left out.  *)
(***************************************************************************)
EXTENDS Drift, Mpv

CONSTANTS ResumePoints, \* positions the session resumes at or seeks back to
          Deltas,       \* measured drifts
          GiveUpCount   \* CRASH_GIVE_UP_COUNT

ASSUME PlayerAssumption ==
    /\ ResumePoints \subseteq Positions
    /\ Deltas \subseteq Int
    /\ GiveUpCount \in Nat /\ GiveUpCount > 2

VARIABLES
    \* files
    current, observed, eofReported,
    \* pausing
    desired, believed, pauseEchoes,
    \* seeking and drift
    seekEchoes, userSeek, graceLock, restore, estimate, drift, speed,
    \* the player's life
    attach, alive, has, launch, failureExits, reattach, deaths, recent,
    \* the last output
    output

fileVars == <<current, observed, eofReported>>
pauseVars == <<desired, believed, pauseEchoes>>
seekVars == <<seekEchoes, userSeek, graceLock, restore, estimate>>
driftVars == <<drift, speed>>
lifeVars == <<attach, alive, has, launch, failureExits, reattach, deaths, recent>>
actorVars == <<fileVars, pauseVars, seekVars, driftVars, lifeVars>>
vars == <<mpvVars, left, actorVars, output>>

\* Where the player is thought to be, and the file that was up when it was
\* observed; a user seek waiting out the debounce window.
Estimate == [at : Positions, of : Paths]
Scrub == [from : Positions, to : Positions, of : Paths, by : Origins]

Say(what) == [say |-> what]
SayOf(what, f, of) == [say |-> what, file |-> f, of |-> of]
SayBy(what, by) == [say |-> what, by |-> by]
Silent == Say("nothing")
Output ==
    [say : {"nothing", "FatalCrash", "GaveUp", "LoadFailed", "GraceRefused", "PathObserved"}]
        \cup [say : {"DurationKnown", "Eof", "UserSeeked"}, file : Files, of : Paths]
        \cup [say : {"UserPaused", "UserUnpaused"}, by : Origins]

TypeOK ==
    /\ MpvTypeOK
    /\ current \in Files \cup {None} /\ observed \in Paths \cup {None} /\ eofReported \in BOOLEAN
    /\ desired \in BOOLEAN /\ believed \in BOOLEAN \cup {None} /\ pauseEchoes \in Seq(BOOLEAN)
    /\ seekEchoes \in Nat /\ userSeek \in Scrub \cup {None} /\ graceLock \in BOOLEAN
    /\ restore \in Positions \cup {None} /\ estimate \in Estimate \cup {None}
    /\ drift \in Controller /\ speed \in Slews
    /\ attach \in BOOLEAN /\ alive \in BOOLEAN /\ has \in BOOLEAN
    /\ launch \in {"none", "starting", "ready"} /\ failureExits \in BOOLEAN /\ reattach \in BOOLEAN
    /\ deaths \in 0..GiveUpCount /\ recent \in BOOLEAN
    /\ output \in Output

\* Attach mode waits for the user's mpv; otherwise one is launched.
Init ==
    /\ MpvInit
    /\ current = None /\ observed = None /\ eofReported = FALSE
    /\ desired = FALSE /\ believed = None /\ pauseEchoes = <<>>
    /\ seekEchoes = 0 /\ userSeek = None /\ graceLock = FALSE /\ restore = None /\ estimate = None
    /\ drift = IdleController /\ speed = Normal
    /\ attach = (left["attach"] > 0) /\ alive = TRUE /\ has = FALSE
    /\ launch = (IF attach THEN "none" ELSE "starting")
    /\ failureExits = TRUE /\ reattach = attach
    /\ deaths = 0 /\ recent = FALSE
    /\ output = Silent

-----------------------------------------------------------------------------
\* The run loop takes something up; an attach-mode probe is awaited inline.
Attends == alive /\ (attach => launch = "none")
\* Commands reach mpv, unless it is gone, known or not.
Reaches == has /\ mpv.up
\* player_on_current_file: the player has confirmed the file last commanded.
OnCurrentFile == current # None /\ observed = current

\* load, on a connection that is there: the loading flag is set either way.
SendLoad(f) ==
    /\ reader' = [reader EXCEPT !.loading = TRUE]
    /\ cmds' = IF mpv.up THEN cmds \o LoadFile(f) ELSE cmds

\* set_speed succeeds or leaves the speed alone.
SpeedAfter(s) == IF Reaches THEN s ELSE speed

\* apply_desired_pause, given what is wanted, believed and expected by then.
MustFlip(want, bel) == current # None /\ bel # ~want /\ Reaches
FlipCommands(want, bel) == IF MustFlip(want, bel) THEN <<SetPause(~want)>> ELSE <<>>
BelievedAfter(want, bel) == IF MustFlip(want, bel) THEN ~want ELSE bel
EchoesAfter(want, bel, echoes) == IF MustFlip(want, bel) THEN Append(echoes, ~want) ELSE echoes

\* seek_programmatic
SeekCommands(p) == IF Reaches THEN <<SeekTo(p)>> ELSE <<>>
SeekEchoesAfter(n) == IF Reaches THEN n + 1 ELSE n
EstimateAfter(p, est) == IF Reaches THEN [at |-> p, of |-> IF current # None THEN current ELSE est.of] ELSE est

EstimateNow == IF estimate # None THEN estimate.at ELSE None

-----------------------------------------------------------------------------
(* Commands from the session. *)

\* A different file is a clean slate for the crash counter, and brings a player
\* back after giving up.
Load(f, resume) ==
    LET different == current # f
        recover == different /\ ~has /\ ~reattach /\ launch = "none"
    IN
    /\ Attends /\ Spend("load")
    /\ current' = f /\ eofReported' = FALSE /\ restore' = resume
    /\ userSeek' = None /\ pauseEchoes' = <<>> /\ seekEchoes' = 0 /\ estimate' = None
    /\ believed' = TRUE /\ drift' = IdleController /\ speed' = SpeedAfter(Normal)
    /\ deaths' = (IF different THEN 0 ELSE deaths)
    /\ recent' = (IF different THEN FALSE ELSE recent)
    /\ launch' = (IF recover THEN "starting" ELSE launch)
    /\ failureExits' = (IF recover THEN FALSE ELSE failureExits)
    /\ IF has THEN SendLoad(f) ELSE UNCHANGED <<reader, cmds>>
    /\ output' = IF has /\ ~mpv.up THEN Say("LoadFailed") ELSE Silent
    /\ UNCHANGED <<mpv, events, observed, desired, graceLock, attach, alive, has, reattach>>

\* The derived playback state, which the session asserts again and again.
Play(b) ==
    /\ Attends
    /\ desired' = b
    /\ cmds' = cmds \o FlipCommands(b, believed)
    /\ believed' = BelievedAfter(b, believed)
    /\ pauseEchoes' = EchoesAfter(b, believed, pauseEchoes)
    /\ output' = Silent
    /\ UNCHANGED <<mpv, reader, events, fileVars, seekVars, driftVars, lifeVars>>
SetPlaying(b) == Spend("play") /\ Play(b)
Reassert == MustFlip(desired, believed) /\ Play(desired) /\ UNCHANGED left

\* Faulty SetGraceLock: what was scrubbed before the lock is let through.
SetGraceLockOnly(b) ==
    /\ Attends /\ Spend("lock") /\ b # graceLock
    /\ graceLock' = b /\ output' = Silent
    /\ UNCHANGED <<mpvVars, fileVars, pauseVars, seekEchoes, userSeek, restore, estimate, driftVars, lifeVars>>

\* A scrub still debouncing when the lock closes is undone.
SetGraceLock(b) ==
    LET undo == b /\ ~graceLock /\ userSeek # None IN
    /\ Attends /\ Spend("lock") /\ b # graceLock
    /\ graceLock' = b
    /\ userSeek' = (IF undo THEN None ELSE userSeek)
    /\ cmds' = (IF undo THEN cmds \o SeekCommands(userSeek.from) ELSE cmds)
    /\ seekEchoes' = (IF undo THEN SeekEchoesAfter(seekEchoes) ELSE seekEchoes)
    /\ estimate' = (IF undo THEN EstimateAfter(userSeek.from, estimate) ELSE estimate)
    /\ output' = IF undo THEN Say("GraceRefused") ELSE Silent
    /\ UNCHANGED <<mpv, reader, events, fileVars, pauseVars, restore, driftVars, lifeVars>>

\* Off the commanded file the controller forgets its run; while the user
\* scrubs, or nothing is known of the position, the sample is passed over.
SyncTo(delta, target) ==
    LET heeds == OnCurrentFile /\ userSeek = None /\ estimate # None
        seen == Observe(drift, delta)
        seeks == heeds /\ seen.action = "seek"
    IN
    /\ Attends /\ Spend("sync")
    /\ drift' = (IF ~OnCurrentFile THEN IdleController ELSE IF heeds THEN seen.controller ELSE drift)
    /\ speed' = (IF heeds /\ seen.action # "none" THEN SpeedAfter(seen.speed) ELSE speed)
    /\ cmds' = (IF seeks THEN cmds \o SeekCommands(target) ELSE cmds)
    /\ seekEchoes' = (IF seeks THEN SeekEchoesAfter(seekEchoes) ELSE seekEchoes)
    /\ estimate' = (IF seeks THEN EstimateAfter(target, estimate) ELSE estimate)
    /\ output' = Silent
    /\ UNCHANGED <<mpv, reader, events, fileVars, pauseVars, userSeek, graceLock, restore, lifeVars>>

ReleaseSlew ==
    /\ Attends /\ Spend("sync")
    /\ drift' = IdleController /\ speed' = SpeedAfter(Normal)
    /\ output' = Silent
    /\ UNCHANGED <<mpvVars, fileVars, pauseVars, seekVars, lifeVars>>

\* The session rejected an end of file, maybe not for the first time: re-arm, and
\* seek back if it has a place.
RecoverFalseEof(to) ==
    /\ Attends /\ Spend("recover") /\ current # None
    /\ eofReported \/ (mpv.eof /\ events = <<>>)
    /\ eofReported' = FALSE
    /\ cmds' = (IF to # None THEN cmds \o SeekCommands(to) ELSE cmds)
    /\ seekEchoes' = (IF to # None THEN SeekEchoesAfter(seekEchoes) ELSE seekEchoes)
    /\ estimate' = (IF to # None THEN EstimateAfter(to, estimate) ELSE estimate)
    /\ output' = Silent
    /\ UNCHANGED <<mpv, reader, events, current, observed, pauseVars, userSeek, graceLock, restore,
                   driftVars, lifeVars>>

\* mpv quits, unless it is the user's.
Shutdown ==
    /\ Attends /\ Spend("quit")
    /\ alive' = FALSE /\ output' = Silent
    /\ mpv' = (IF has /\ ~attach THEN NoMpv ELSE mpv)
    /\ UNCHANGED <<cmds, reader, events, fileVars, pauseVars, seekVars, driftVars,
                   attach, has, launch, failureExits, reattach, deaths, recent>>
-----------------------------------------------------------------------------
(* Events from the player. *)

Takes(what) == Attends /\ has /\ events # <<>> /\ Head(events).event = what /\ events' = Tail(events)
\* A handler that sends mpv nothing, or only commands.
Mute == UNCHANGED <<mpv, cmds, reader, left>>
Commands(cs) == cmds' = cmds \o cs /\ UNCHANGED <<mpv, reader, left>>

\* An expected flip is our own; anything else is the user's, and inside an
\* outage grace window a pause is undone at once.
OnPause ==
    LET e == Head(events)
        echo == pauseEchoes # <<>> /\ Head(pauseEchoes) = e.paused
        refused == ~echo /\ e.paused /\ graceLock /\ desired
    IN
    /\ Takes("pause")
    /\ believed' = (IF refused THEN BelievedAfter(desired, e.paused) ELSE e.paused)
    /\ pauseEchoes' = (IF echo THEN Tail(pauseEchoes) ELSE IF refused THEN EchoesAfter(desired, e.paused, <<>>) ELSE <<>>)
    /\ Commands(IF refused THEN FlipCommands(desired, e.paused) ELSE <<>>)
    /\ output' = (IF echo THEN Silent ELSE IF refused THEN Say("GraceRefused")
                  ELSE SayBy(IF e.paused THEN "UserPaused" ELSE "UserUnpaused", e.by))
    /\ UNCHANGED <<desired, fileVars, seekVars, driftVars, lifeVars>>

\* An outstanding echo is used up whichever file the seek was on; the rest is
\* for the commanded file.  Inside a grace window a user's seek is undone.
OnSeeked ==
    LET e == Head(events)
        echo == seekEchoes > 0
        echoes == IF echo THEN seekEchoes - 1 ELSE 0
        user == OnCurrentFile /\ ~echo
        from == IF userSeek # None THEN userSeek.from ELSE IF estimate # None THEN estimate.at ELSE e.at
        refused == user /\ graceLock
        here == [at |-> e.at, of |-> e.of]
    IN
    /\ Takes("seeked")
    /\ eofReported' = (eofReported /\ ~OnCurrentFile)
    /\ seekEchoes' = (IF refused THEN SeekEchoesAfter(echoes) ELSE echoes)
    /\ estimate' = (IF ~OnCurrentFile THEN estimate ELSE IF refused THEN EstimateAfter(from, here) ELSE here)
    /\ userSeek' = (IF user /\ ~refused THEN [from |-> from, to |-> e.at, of |-> e.of, by |-> e.by] ELSE userSeek)
    /\ Commands(IF refused THEN SeekCommands(from) ELSE <<>>)
    /\ output' = (IF refused THEN Say("GraceRefused") ELSE Silent)
    /\ UNCHANGED <<current, observed, pauseVars, graceLock, restore, driftVars, lifeVars>>

\* Faulty OnPosition: whatever file is up.
OnPositionUngated ==
    LET e == Head(events) IN
    /\ Takes("position") /\ Mute
    /\ estimate' = [at |-> e.at, of |-> e.of]
    /\ output' = Silent
    /\ UNCHANGED <<fileVars, pauseVars, seekEchoes, userSeek, graceLock, restore, driftVars, lifeVars>>

OnPosition ==
    LET e == Head(events) IN
    /\ Takes("position") /\ Mute
    /\ estimate' = (IF OnCurrentFile THEN [at |-> e.at, of |-> e.of] ELSE estimate)
    /\ output' = Silent
    /\ UNCHANGED <<fileVars, pauseVars, seekEchoes, userSeek, graceLock, restore, driftVars, lifeVars>>

OnDuration ==
    /\ Takes("duration") /\ Mute
    /\ output' = (IF OnCurrentFile THEN SayOf("DurationKnown", current, Head(events).of) ELSE Silent)
    /\ UNCHANGED actorVars

\* The file is up: a restore point is sought, the desired state applied.
OnLoaded ==
    LET seeks == restore # None
        f == IF current # None THEN current ELSE Head(events).of
        seeded == IF estimate = None THEN [at |-> 0, of |-> f] ELSE estimate
    IN
    /\ Takes("loaded")
    /\ restore' = None
    /\ seekEchoes' = (IF seeks THEN SeekEchoesAfter(seekEchoes) ELSE seekEchoes)
    /\ estimate' = (IF seeks THEN EstimateAfter(restore, seeded) ELSE seeded)
    /\ believed' = BelievedAfter(desired, TRUE)
    /\ pauseEchoes' = EchoesAfter(desired, TRUE, pauseEchoes)
    /\ Commands((IF seeks THEN SeekCommands(restore) ELSE <<>>) \o FlipCommands(desired, TRUE))
    /\ output' = Silent
    /\ UNCHANGED <<desired, fileVars, userSeek, graceLock, driftVars, lifeVars>>

\* The evidence that attribution waits for; a path other than the one commanded
\* is taken for the user's.
OnPath ==
    LET f == Head(events).path IN
    /\ Takes("path") /\ Mute
    /\ observed' = f
    /\ drift' = (IF current = f THEN drift ELSE IdleController)
    /\ output' = (IF current = f THEN Silent ELSE Say("PathObserved"))
    /\ UNCHANGED <<current, eofReported, pauseVars, seekVars, speed, lifeVars>>

OnEof ==
    LET tells == ~eofReported /\ OnCurrentFile IN
    /\ Takes("eof") /\ Mute
    /\ eofReported' = (eofReported \/ tells)
    /\ output' = (IF tells THEN SayOf("Eof", current, Head(events).of) ELSE Silent)
    /\ UNCHANGED <<current, observed, pauseVars, seekVars, driftVars, lifeVars>>

\* Not gated: a file that fails to open may never be observed.
OnLoadFailed ==
    /\ Takes("failed") /\ Mute
    /\ output' = (IF current # None THEN Say("LoadFailed") ELSE Silent)
    /\ UNCHANGED actorVars

-----------------------------------------------------------------------------
(* The player's deaths and launches. *)

\* Faulty Crash: the second death in a row is told and not followed by a launch.
CrashToldOnly ==
    LET n == IF recent THEN deaths + 1 ELSE 1 IN
    /\ deaths' = n /\ recent' = TRUE
    /\ output' = (IF n >= GiveUpCount THEN Say("GaveUp") ELSE IF n = 2 THEN Say("FatalCrash") ELSE Silent)
    /\ restore' = (IF n >= 2 THEN restore ELSE EstimateNow)
    /\ drift' = (IF n >= 2 THEN drift ELSE IdleController)
    /\ launch' = (IF n >= 2 THEN launch ELSE "starting")
    /\ failureExits' = (IF n >= 2 THEN failureExits ELSE TRUE)
    /\ UNCHANGED reattach

\* handle_crash: relaunch, tell the session on the second death in a row, give
\* up on the third.
Crash ==
    LET n == IF recent THEN deaths + 1 ELSE 1
        gives == n >= GiveUpCount
    IN
    /\ deaths' = n /\ recent' = TRUE
    /\ output' = (IF gives THEN Say("GaveUp") ELSE IF n = 2 THEN Say("FatalCrash") ELSE Silent)
    /\ restore' = (IF gives THEN restore ELSE EstimateNow)
    /\ drift' = (IF gives THEN drift ELSE IdleController)
    /\ launch' = (IF gives THEN launch ELSE "starting")
    /\ failureExits' = (IF gives THEN failureExits ELSE TRUE)
    /\ UNCHANGED reattach

\* Attach mode: not a crash, the user's mpv is waited for.
Detach ==
    /\ restore' = EstimateNow /\ drift' = IdleController /\ reattach' = TRUE
    /\ output' = Silent
    /\ UNCHANGED <<deaths, recent, launch, failureExits>>

\* handle_player_death: no player, no evidence.
OnExited ==
    /\ Attends /\ has /\ events # <<>> /\ Head(events) = Exited
    /\ has' = FALSE /\ events' = <<>>
    /\ observed' = None /\ pauseEchoes' = <<>> /\ seekEchoes' = 0 /\ userSeek' = None /\ believed' = None
    /\ speed' = Normal /\ estimate' = None
    /\ IF attach THEN Detach ELSE Crash
    /\ UNCHANGED <<mpv, cmds, reader, left, current, eofReported, desired, graceLock, attach, alive>>

\* The last death is no longer recent.
WindowPasses ==
    /\ alive /\ recent /\ recent' = FALSE /\ output' = Silent
    /\ UNCHANGED <<mpvVars, left, fileVars, pauseVars, seekVars, driftVars,
                   attach, alive, has, launch, failureExits, reattach, deaths>>

\* The factory connects: mpv is asked to announce what it does.  One that the
\* user started may be paused, and have a file up.
FreshMpv == [NoMpv EXCEPT !.up = TRUE]
TheUsersMpv == {FreshMpv} \cup {[FreshMpv EXCEPT !.paused = b, !.path = Own, !.loaded = TRUE] : b \in BOOLEAN}
Connect ==
    /\ alive /\ launch = "starting" /\ launch' = "ready"
    /\ mpv' \in (IF attach THEN TheUsersMpv ELSE {FreshMpv})
    /\ cmds' = ObserveAll /\ reader' = NewReader /\ events' = <<>>
    /\ output' = Silent
    /\ UNCHANGED <<left, fileVars, pauseVars, seekVars, driftVars,
                   attach, alive, has, failureExits, reattach, deaths, recent>>

\* finish_spawn and try_reattach: the current file is loaded again; a failure
\* to is told the session of in spawn mode.
Launched ==
    /\ alive /\ launch = "ready"
    /\ launch' = "none" /\ has' = TRUE
    /\ IF current # None THEN SendLoad(current) ELSE UNCHANGED <<reader, cmds>>
    /\ output' = (IF current # None /\ ~mpv.up /\ ~attach THEN Say("LoadFailed") ELSE Silent)
    /\ UNCHANGED <<mpv, events, left, fileVars, pauseVars, seekVars, driftVars,
                   attach, alive, failureExits, reattach, deaths, recent>>

\* A launch that fails, or vanishes with its task, ends the actor; only the
\* failure of one that was to recover from giving up is survived.
LaunchFails ==
    /\ alive /\ ~attach /\ launch = "starting" /\ Spend("fail")
    /\ launch' = "none" /\ alive' \in {~failureExits, FALSE}
    /\ output' = Say("FatalCrash")
    /\ UNCHANGED <<mpvVars, fileVars, pauseVars, seekVars, driftVars,
                   attach, has, failureExits, reattach, deaths, recent>>

\* A probe starts, or is given up and put off.
Probe ==
    /\ alive /\ reattach /\ launch = "none"
    /\ reattach' = FALSE /\ launch' = "starting" /\ output' = Silent
    /\ UNCHANGED <<mpvVars, left, fileVars, pauseVars, seekVars, driftVars,
                   attach, alive, has, failureExits, deaths, recent>>
\* Faulty ProbeFails: the next attempt is not scheduled.
ProbeFailsOnce ==
    /\ alive /\ attach /\ launch = "starting"
    /\ launch' = "none" /\ output' = Silent
    /\ UNCHANGED <<mpvVars, left, fileVars, pauseVars, seekVars, driftVars,
                   attach, alive, has, failureExits, reattach, deaths, recent>>
ProbeFails ==
    /\ alive /\ attach /\ launch = "starting"
    /\ reattach' = TRUE /\ launch' = "none" /\ output' = Silent
    /\ UNCHANGED <<mpvVars, left, fileVars, pauseVars, seekVars, driftVars,
                   attach, alive, has, failureExits, deaths, recent>>

-----------------------------------------------------------------------------
\* flush_user_seek: the debounce window is over.
FlushUserSeek ==
    /\ Attends /\ userSeek # None
    /\ userSeek' = None
    /\ output' = (IF current # None THEN SayOf("UserSeeked", current, userSeek.of) ELSE Silent)
    /\ UNCHANGED <<mpvVars, left, fileVars, pauseVars, seekEchoes, graceLock, restore, estimate, driftVars, lifeVars>>

\* maybe_emit_position: what a tick says, if anything, at any moment.  It
\* changes nothing.
PositionTick ==
    IF OnCurrentFile /\ estimate # None THEN SayOf("PositionTick", current, estimate.of) ELSE Silent

MpvStep == alive /\ MpvNext /\ output' = Silent /\ UNCHANGED actorVars

FromSession ==
    \/ \E f \in Files, r \in ResumePoints \cup {None} : Load(f, r)
    \/ \E b \in BOOLEAN : SetPlaying(b) \/ SetGraceLock(b)
    \/ Reassert
    \/ \E delta \in Deltas, p \in ResumePoints : SyncTo(delta, p)
    \/ ReleaseSlew
    \/ \E p \in ResumePoints \cup {None} : RecoverFalseEof(p)
    \/ Shutdown
FromPlayer ==
    \/ OnPause \/ OnSeeked \/ OnPosition \/ OnDuration \/ OnLoaded \/ OnPath \/ OnEof \/ OnLoadFailed
    \/ OnExited
Timers == WindowPasses \/ FlushUserSeek \/ Probe
Launches == Connect \/ Launched \/ LaunchFails \/ ProbeFails

Next == MpvStep \/ FromSession \/ FromPlayer \/ Timers \/ Launches

Spec == Init /\ [][Next]_vars

\* mpv and the actor keep working, and a player that is waited for comes up.
WorkStep == alive /\ MpvWorks /\ output' = Silent /\ UNCHANGED actorVars
Fairness ==
    /\ WF_vars(WorkStep) /\ WF_vars(FromPlayer)
    /\ SF_vars(Connect) /\ WF_vars(Launched) /\ WF_vars(Probe)
FairSpec == Spec /\ Fairness
-----------------------------------------------------------------------------
\* What is told the session of a file was observed of that file: no tick,
\* duration, end or user seek of the file that was up before, or that the user
\* dragged in, passes for the one last commanded (player_on_current_file).
RightFile ==
    \A o \in {output, PositionTick} : "of" \in DOMAIN o => o.of = o.file

\* Inside an outage grace window no scrub is left to become a seek of the
\* group's, not even one that was debouncing when the window opened.
GraceHolds == graceLock => userSeek = None

\* Without a player one is on its way, unless the actor gave up on a crash loop
\* or its attempt to come back from that failed.
NeverStranded ==
    alive /\ ~has /\ launch = "none" /\ ~reattach => deaths = GiveUpCount \/ ~failureExits

\* The player comes back, if the actor has not given up.
Returns == alive /\ ~has ~> has \/ ~alive \/ deaths = GiveUpCount \/ ~failureExits

\* A flip or a seek told as the user's is the user's: "The user unpaused in the
\* player." (PlayerOutput).  The pause state that mpv announces when it is first
\* observed is expected by nobody and passes for a press of the user's.
TheUsersOwn ==
    /\ "by" \in DOMAIN output => output.by = "user"
    /\ userSeek # None => userSeek.by = "user"
=============================================================================
