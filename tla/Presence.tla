------------------------------- MODULE Presence -------------------------------
(***************************************************************************)
(* Presence and playback control on the rendezvous server                  *)
(* (dessplay-rendezvous/src/server.rs): the registry of peers, the outage  *)
(* grace windows in it, and the playback registers of the shared state     *)
(* that the server writes when people come, drop, quit, and reach the end  *)
(* of a file; with the gating rules of dessplay-core/src/derive.rs.        *)
(*                                                                         *)
(* The registry and the state have a lock each, and no handler holds both. *)
(* A handler is therefore a program of sections, one per lock it takes:    *)
(* job[t] is what task t has still to run, and the sections of different   *)
(* tasks interleave.  A section that decides what follows puts it in front *)
(* of the rest.  Stamps and replicas belong to module StateSync: here the  *)
(* order of writes to a register is the order of their sections.           *)
(*                                                                         *)
(* Time is counted in sweeps.  A section takes microseconds and the timers *)
(* half a minute and more, so the clock moves only while no task is busy.  *)
(***************************************************************************)
EXTENDS Integers, Sequences, FiniteSets, Functions

CONSTANTS Users,
          Seeders,         \* the users whose role is not Interactive
          Commitment,      \* each user's SeriesWatchState for the files here
          Playlist,        \* the files in playlist order
          Selectable,      \* the files a client may put on by hand
          NoUser, NoFile,
          DepartAfter,     \* DEPART_AFTER_MILLIS, in ticks
          Grace            \* OUTAGE_GRACE_MILLIS, in ticks

\* Bounds: connections of a user, who may connect more than once, tasks busy at
\* once, and messages from clients.
CONSTANTS MaxConns, Returning, MaxBusy, MaxActs

Files == Range(Playlist)
Viewers == Users \ Seeders

ASSUME UsersAssumption ==
    /\ NoUser \notin Users
    /\ Seeders \subseteq Users
    /\ Commitment \in [Users -> {"Watching", "Maybe", "NotWatching"}]
ASSUME FilesAssumption ==
    /\ Playlist \in Seq(Files)
    /\ NoFile \notin Files
    /\ Selectable \subseteq Files
ASSUME TimersAssumption == DepartAfter \in Nat \ {0} /\ Grace \in Nat \ {0}
ASSUME BoundsAssumption ==
    {MaxConns, MaxBusy, MaxActs} \subseteq Nat /\ Returning \subseteq Users

VARIABLES
    peers,        \* Registry: each user's PeerEntry
    graceFile,    \* Registry: grace_file
    known,        \* the known_users table
    intent, nowPlaying, authority,   \* playback registers of the state
    hold,         \* manual_override
    acked,        \* acknowledged_absent
    avail,        \* file_availability of each <<file, user>>
    loaded,       \* the file each user's last position sample is for
    saved,        \* saved_position: whose samples the stored median is of
    watched,      \* watched flags
    serving,      \* the connections of each user whose serve loop runs
    job,          \* per server task: what it has still to do
    unanswered,   \* history: who dropped with neither a window nor a pause yet
    left          \* how often the environment may still act

regVars == <<peers, graceFile, known>>
playVars == <<intent, nowPlaying, authority>>
userVars == <<hold, acked, avail, loaded>>
fileVars == <<saved, watched>>
vars == <<regVars, playVars, userVars, fileVars, serving, job, unanswered, left>>

-----------------------------------------------------------------------------
Conns == 1..MaxConns

\* Server tasks: one per connection, named by user and number, and the sweeper.
Sweeper == <<NoUser, 0>>
Tasks == (Users \X Conns) \cup {Sweeper}

\* A window is the number of ticks left in it.
NoWindow == -1
Stages == {"none", "Present", "Lost", "Departed"}

\* PeerEntry: its connection, stage, ticks since it was lost, and window.
Entry == [conn : Conns \cup {0}, presence : Stages,
          lost : 0..DepartAfter, grace : {NoWindow} \cup 0..Grace]
NoEntry == [conn |-> 0, presence |-> "none", lost |-> 0, grace |-> NoWindow]

\* FileAvailability: "Ready" stands for DownloadingPlayable too, "Missing" for
\* Downloading; nothing reported yet permits playback.
Availabilities == {"unreported", "Ready", "Missing"}

\* PeerInfo as listed to clients, and a list of them.
Info == [presence : Stages, window : BOOLEAN]
PeerLists == [Users -> Info]
PeerInfos ==
    [u \in Users |-> [presence |-> peers[u].presence, window |-> peers[u].grace # NoWindow]]
NoPeers == [u \in Users |-> [presence |-> "none", window |-> FALSE]]

ByServer == [by |-> "Server", user |-> NoUser, file |-> NoFile]
ByUser(u) == [by |-> "User", user |-> u, file |-> NoFile]
ByLaggard(f) == [by |-> "Laggard", user |-> NoUser, file |-> f]
ByAnchor(u, f) == [by |-> "Anchor", user |-> u, file |-> f]
Authority ==
    {ByServer} \cup {ByUser(u) : u \in Viewers} \cup {ByLaggard(f) : f \in Files}
    \cup {ByAnchor(u, f) : u \in Viewers, f \in Files}

\* A section a task has still to run, with the locals it carries.
Sections == {"pause", "closing", "close", "follow", "authority", "list", "send", "save",
             "select", "eof", "judge", "open", "rescue", "reconcile", "stopped",
             "rejoin", "rejoinPeers", "pin", "depart", "rescues", "expire"}
Step == [do : Sections, user : Users \cup {NoUser}, file : Files \cup {NoFile},
         to : Authority, infos : PeerLists, gone : SUBSET Users]
DoWith(s, u, f, a, infos, gone) ==
    [do |-> s, user |-> u, file |-> f, to |-> a, infos |-> infos, gone |-> gone]
Do(s) == DoWith(s, NoUser, NoFile, ByServer, NoPeers, {})
DoFor(s, u) == DoWith(s, u, NoFile, ByServer, NoPeers, {})
DoOn(s, f) == DoWith(s, NoUser, f, ByServer, NoPeers, {})
DoSeeing(s, u, f) == DoWith(s, u, f, ByServer, PeerInfos, {})
SetAuthority(a) == DoWith("authority", NoUser, NoFile, a, NoPeers, {})
RescueAll(gone) == DoWith("rescues", NoUser, NoFile, ByServer, NoPeers, gone)

(* Every variable holds a value of its type. *)
TypeOK ==
    /\ peers \in [Users -> Entry] /\ graceFile \in Files \cup {NoFile}
    /\ known \subseteq Users
    /\ intent \in {"Playing", "Paused"} /\ nowPlaying \in Files \cup {NoFile}
    /\ authority \in Authority
    /\ hold \in [Users -> {"none", "Paused", "Away"}]
    /\ acked \subseteq Files \X Users /\ avail \in [Files \X Users -> Availabilities]
    /\ loaded \in [Users -> Files \cup {NoFile}]
    /\ saved \in [Files -> SUBSET Users] /\ watched \subseteq Files
    /\ serving \in [Users -> SUBSET Conns]
    /\ job \in [Tasks -> Seq(Step)]
    /\ unanswered \subseteq Users
    /\ left \in Nat

\* The server starts: nobody is registered; the state and the known users are
\* what storage held.
Init ==
    /\ peers = [u \in Users |-> NoEntry] /\ graceFile = NoFile
    /\ known \in SUBSET Viewers
    /\ intent \in {"Playing", "Paused"} /\ nowPlaying \in Files \cup {NoFile}
    /\ authority \in Authority
    /\ hold \in [Users -> {"none", "Paused", "Away"}] /\ acked \subseteq Files \X Users
    /\ avail \in [Files \X Users -> Availabilities]
    /\ loaded \in [Users -> Files \cup {NoFile}]
    /\ saved = [f \in Files |-> {}] /\ watched = {}
    /\ serving = [u \in Users |-> {}]
    /\ job = [t \in Tasks |-> <<>>]
    /\ unanswered = {}
    /\ left = MaxActs

\* A client acts.
Act == left > 0 /\ left' = left - 1

\* Task t runs the section at the head of its program, and then `next'.
Runs(t, section) == job[t] # <<>> /\ Head(job[t]).do = section
Continue(t, next) == job' = [job EXCEPT ![t] = next \o Tail(@)]

\* Another task may take something up.
Room == Cardinality({t \in Tasks : job[t] # <<>>}) < MaxBusy

\* Connection n of user u takes its next input, running `program' for it.
Takes(u, n, program) ==
    /\ Room /\ n \in serving[u] /\ job[<<u, n>>] = <<>>
    /\ job' = [job EXCEPT ![<<u, n>>] = program]

-----------------------------------------------------------------------------
(* Gating (derive.rs). *)

Interactive(u) == u \in Viewers

\* Whether u keeps the now-playing file from playing, as `infos' lists the
\* peers.  Someone without an entry counts as Departed once known.
Blocks(infos, u) ==
    LET there == infos[u].presence = "Present"
        away == \/ infos[u].presence \in {"Lost", "Departed"}
                \/ infos[u].presence = "none" /\ u \in known
    IN /\ Interactive(u) /\ hold[u] # "Away"
       /\ \/ /\ there /\ Commitment[u] # "NotWatching"
             /\ hold[u] = "Paused" \/ avail[<<nowPlaying, u>>] = "Missing"
          \/ /\ away /\ ~infos[u].window /\ Commitment[u] = "Watching"
             /\ <<nowPlaying, u>> \notin acked

PlaybackActive(infos) ==
    /\ intent = "Playing" /\ nowPlaying # NoFile
    /\ \A u \in Users : ~Blocks(infos, u)

\* Who has file f loaded, and whom the group may follow after an outage pause:
\* positions are not told apart, so any of them may be the furthest behind.
Loaded(infos, f) ==
    {u \in Users : /\ Interactive(u) /\ infos[u].presence = "Present"
                   /\ avail[<<f, u>>] = "Ready" /\ loaded[u] = f}

\* The saved-position write as the group stops watching f.
SavedPosition(infos, f) ==
    IF f # NoFile /\ Loaded(infos, f) # {}
      THEN [saved EXCEPT ![f] = Loaded(infos, f)] ELSE saved

\* Mutant of ForcePause: the windows stay open.
ForcePauseOnly == <<Do("pause")>>

-----------------------------------------------------------------------------
(* Programs: what a handler does, as the sections it runs. *)

ForcePause == <<Do("pause"), Do("closing")>>
Hooks == <<Do("reconcile"), Do("rejoin")>>

-----------------------------------------------------------------------------
(* Connections come and go. *)

\* Mutant of Register: grace_file survives the return of the last one away.
RegisterKeepsFile(u) ==
    LET n == peers[u].conn + 1 IN
    /\ Room /\ n \in Conns /\ (n = 1 \/ u \in Returning)
    /\ peers' = [peers EXCEPT ![u] = [conn |-> n, presence |-> "Present",
                                      lost |-> 0, grace |-> NoWindow]]
    /\ known' = IF Interactive(u) THEN known \cup {u} ELSE known
    /\ serving' = [serving EXCEPT ![u] = @ \cup {n}]
    /\ job' = [job EXCEPT ![<<u, n>>] = <<Do("list")>>]
    /\ unanswered' = unanswered \ {u}
    /\ UNCHANGED <<graceFile, playVars, userVars, fileVars, left>>

\* A client authenticates on a new connection, which supersedes the user's
\* entry.  Its own window is closed, and grace_file with the last one.
Register(u) ==
    LET n == peers[u].conn + 1 IN
    /\ Room /\ n \in Conns /\ (n = 1 \/ u \in Returning)
    /\ peers' = [peers EXCEPT ![u] = [conn |-> n, presence |-> "Present",
                                      lost |-> 0, grace |-> NoWindow]]
    /\ graceFile' = IF \E v \in Users : peers'[v].grace # NoWindow
                      THEN graceFile ELSE NoFile
    /\ known' = IF Interactive(u) THEN known \cup {u} ELSE known
    /\ serving' = [serving EXCEPT ![u] = @ \cup {n}]
    /\ job' = [job EXCEPT ![<<u, n>>] = <<Do("list")>>]
    /\ unanswered' = unanswered \ {u}
    /\ UNCHANGED <<playVars, userVars, fileVars, left>>

\* The serve loop of connection n ends: marks the entry if it is still ours,
\* keeping the peers as they were before.
Leave(u, n, stage) ==
    /\ Room /\ n \in serving[u] /\ job[<<u, n>>] = <<>>
    /\ peers[u].conn = n
    /\ serving' = [serving EXCEPT ![u] = @ \ {n}]
    /\ peers' = [peers EXCEPT ![u].presence = stage, ![u].lost = 0]
    /\ unanswered' = IF Interactive(u) THEN unanswered \cup {u} ELSE unanswered
    /\ UNCHANGED <<graceFile, known, playVars, userVars, fileVars, left>>

\* The last present viewer's leaving saves where they were.
SaveFirst(u) ==
    IF Interactive(u) /\ ~\E v \in Users \ {u} : Interactive(v) /\ peers[v].presence = "Present"
      THEN <<DoSeeing("save", NoUser, NoFile)>> ELSE <<>>

\* The connection died: the user is Lost.
Lost(u, n) ==
    /\ Leave(u, n, "Lost")
    /\ job' = [job EXCEPT ![<<u, n>>] =
                  SaveFirst(u) \o IF Interactive(u)
                                    THEN <<DoSeeing("judge", NoUser, NoFile)>>
                                    ELSE <<Do("list")>>]

\* The client said Goodbye: Departed at once, everyone pauses.
Goodbye(u, n) ==
    /\ Leave(u, n, "Departed")
    /\ job' = [job EXCEPT ![<<u, n>>] =
                  SaveFirst(u) \o <<Do("list")>>
                  \o IF Interactive(u) THEN ForcePause \o <<DoFor("rescue", u)>> ELSE <<>>]

\* Mutant of Superseded: the teardown does not ask whose entry it is.
SupersededTouches(u, n) ==
    /\ n \in serving[u] /\ job[<<u, n>>] = <<>>
    /\ peers[u].conn # n
    /\ serving' = [serving EXCEPT ![u] = @ \ {n}]
    /\ peers' = [peers EXCEPT ![u].presence = "Lost", ![u].lost = 0]
    /\ UNCHANGED <<graceFile, known, playVars, userVars, fileVars, job, unanswered, left>>

\* A superseded connection ends: the entry is no longer its to touch.
Superseded(u, n) ==
    /\ n \in serving[u] /\ job[<<u, n>>] = <<>>
    /\ peers[u].conn # n
    /\ serving' = [serving EXCEPT ![u] = @ \ {n}]
    /\ UNCHANGED <<regVars, playVars, userVars, fileVars, job, unanswered, left>>

-----------------------------------------------------------------------------
(* What clients send.  They refuse to pause, seek and change the file while  *)
(* the list they last saw has a window, but what was on its way then lands.  *)
(* A write that changes nothing counts like a position sample for the file   *)
(* already loaded: only the hooks run.                                       *)

Press(u, n, i) ==
    /\ Takes(u, n, Hooks) /\ Act
    /\ intent # i /\ intent' = i
    /\ unanswered' = IF i = "Paused" THEN {} ELSE unanswered
    /\ UNCHANGED <<regVars, nowPlaying, authority, userVars, fileVars, serving>>

\* A now-playing write, taken with the peers as they are.
Select(u, n, f) ==
    /\ Takes(u, n, <<DoSeeing("select", NoUser, f)>> \o Hooks) /\ Act
    /\ UNCHANGED <<regVars, playVars, userVars, fileVars, serving, unanswered>>

\* Only a viewer has a player to seek in.
Seek(u, n) ==
    /\ Interactive(u)
    /\ Takes(u, n, Hooks) /\ Act
    /\ authority' = ByUser(u)
    /\ UNCHANGED <<regVars, intent, nowPlaying, userVars, fileVars, serving, unanswered>>

\* u sets their own manual override or marks v away, or acknowledges v's
\* absence from this file.
Override(u, n, v, h) ==
    /\ Takes(u, n, Hooks) /\ Act
    /\ hold[v] # h /\ (v # u <=> h = "Away")
    /\ hold' = [hold EXCEPT ![v] = h]
    /\ UNCHANGED <<regVars, playVars, acked, avail, loaded, fileVars, serving, unanswered>>

Acknowledge(u, n, v) ==
    /\ Takes(u, n, Hooks) /\ Act
    /\ nowPlaying # NoFile /\ peers[v].presence # "Present" /\ <<nowPlaying, v>> \notin acked
    /\ acked' = acked \cup {<<nowPlaying, v>>}
    /\ UNCHANGED <<regVars, playVars, hold, avail, loaded, fileVars, serving, unanswered>>

\* u's client reports that it has the now-playing file, or that it has not.
Available(u, n, a) ==
    /\ Takes(u, n, Hooks) /\ Act
    /\ nowPlaying # NoFile /\ avail[<<nowPlaying, u>>] # a
    /\ avail' = [avail EXCEPT ![<<nowPlaying, u>>] = a]
    /\ UNCHANGED <<regVars, playVars, hold, acked, loaded, fileVars, serving, unanswered>>

\* A position sample, for the file u's player still has on or the one it goes to.
Report(u, n, f) ==
    /\ Takes(u, n, Hooks) /\ Act
    /\ loaded' = [loaded EXCEPT ![u] = f]
    /\ UNCHANGED <<regVars, playVars, hold, acked, avail, fileVars, serving, unanswered>>

\* An end-of-file report, taken with the peers as they are.
EofReached(u, n, f) ==
    /\ Interactive(u) /\ f # NoFile
    /\ Takes(u, n, <<DoSeeing("eof", u, f)>>) /\ Act
    /\ UNCHANGED <<regVars, playVars, userVars, fileVars, serving, unanswered>>

-----------------------------------------------------------------------------
(* Sections under the state lock. *)

\* The now-playing write lands; the server then takes seek authority.
RunSelect(t) ==
    LET step == Head(job[t]) IN
    /\ Runs(t, "select")
    /\ Continue(t, <<SetAuthority(ByServer)>>)
    /\ nowPlaying' = step.file
    /\ saved' = IF step.file # nowPlaying THEN SavedPosition(step.infos, nowPlaying) ELSE saved
    /\ UNCHANGED <<regVars, intent, authority, userVars, watched, serving, unanswered, left>>

\* The playlist entry after f, if any (the playlist is keyed by file).
Following(f) ==
    IF \E i \in 2..Len(Playlist) : Playlist[i - 1] = f
      THEN Playlist[CHOOSE i \in 2..Len(Playlist) : Playlist[i - 1] = f] ELSE NoFile

\* The first report for the now-playing file by someone watching advances
\* everyone; the next file loads paused.
RunEof(t) ==
    LET step == Head(job[t])
        watching == hold[step.user] = "none" /\ Commitment[step.user] # "NotWatching"
    IN
    /\ Runs(t, "eof")
    /\ IF nowPlaying = step.file /\ watching
         THEN /\ watched' = watched \cup {step.file}
              /\ saved' = SavedPosition(step.infos, step.file)
              /\ nowPlaying' = Following(step.file)
              /\ intent' = "Paused" /\ authority' = ByServer /\ unanswered' = {}
              /\ Continue(t, <<Do("reconcile")>>)
         ELSE /\ Continue(t, <<>>)
              /\ UNCHANGED <<playVars, fileVars, unanswered>>
    /\ UNCHANGED <<regVars, userVars, serving, left>>

RunSave(t) ==
    /\ Runs(t, "save")
    /\ Continue(t, <<>>)
    /\ saved' = SavedPosition(Head(job[t]).infos, nowPlaying)
    /\ UNCHANGED <<regVars, playVars, userVars, watched, serving, unanswered, left>>

RunPause(t) ==
    /\ Runs(t, "pause")
    /\ Continue(t, <<>>)
    /\ intent' = "Paused" /\ unanswered' = {}
    /\ UNCHANGED <<regVars, nowPlaying, authority, userVars, fileVars, serving, left>>

RunAuthority(t) ==
    /\ Runs(t, "authority")
    /\ Continue(t, <<>>)
    /\ authority' = Head(job[t]).to
    /\ UNCHANGED <<regVars, intent, nowPlaying, userVars, fileVars, serving, unanswered, left>>

\* A section that only reads: what the task goes on to do is all it changes.
Reads(t, section, next) ==
    /\ Runs(t, section)
    /\ Continue(t, next)
    /\ UNCHANGED <<regVars, playVars, userVars, fileVars, serving, unanswered, left>>

\* follow_laggard: only if the group is still on the file.
RunFollow(t) ==
    LET f == Head(job[t]).file
    IN Reads(t, "follow", IF nowPlaying = f THEN <<SetAuthority(ByLaggard(f))>> ELSE <<>>)

\* take_authority_from: only if the user holds it.
RunRescue(t) ==
    LET u == Head(job[t]).user
        holds == authority.by \in {"User", "Anchor"} /\ authority.user = u
    IN Reads(t, "rescue", IF holds THEN <<SetAuthority(ByServer)>> ELSE <<>>)

\* reconcile_grace_windows, once it knows the windows' file.
RunStopped(t) ==
    LET f == Head(job[t]).file
        paused == intent # "Playing"
        moved == nowPlaying # f
    IN Reads(t, "stopped",
             IF paused \/ moved THEN <<DoOn("close", IF moved THEN NoFile ELSE f)>> ELSE <<>>)

\* pin_rejoin_anchor: the Laggard is in force and play was pressed.
RunRejoin(t) ==
    Reads(t, "rejoin", IF authority.by = "Laggard" /\ intent = "Playing"
                         THEN <<DoOn("rejoinPeers", authority.file)>> ELSE <<>>)

\* Playback has resumed: pin someone with the file loaded, if anyone has.
RunPin(t) ==
    LET step == Head(job[t])
        behind == Loaded(step.infos, step.file)
        resumed == nowPlaying = step.file /\ PlaybackActive(step.infos)
    IN /\ Runs(t, "pin")
       /\ \/ ~resumed /\ Reads(t, "pin", <<>>)
          \/ resumed /\ behind = {} /\ Reads(t, "pin", <<SetAuthority(ByServer)>>)
          \/ \E u \in behind :
                resumed /\ Reads(t, "pin", <<SetAuthority(ByAnchor(u, step.file))>>)

-----------------------------------------------------------------------------
(* Outage grace windows. *)

\* What the Lost teardown does after it tried to open a window.
AfterDrop(u, windowed) ==
    <<Do("list")>> \o (IF windowed THEN <<>> ELSE ForcePause) \o <<DoFor("rescue", u)>>

\* Mutant of RunJudge: a drop while nothing plays is not answered.
RunJudgeNoPause(t) ==
    Reads(t, "judge", IF PlaybackActive(Head(job[t]).infos)
                        THEN <<DoOn("open", nowPlaying)>> ELSE AfterDrop(t[1], TRUE))

\* open_grace_window, state lock: was the video playing just before the drop?
RunJudge(t) ==
    Reads(t, "judge", IF PlaybackActive(Head(job[t]).infos)
                        THEN <<DoOn("open", nowPlaying)>> ELSE AfterDrop(t[1], FALSE))

\* Mutants of RunOpen: the entry is not looked at again; one tick too long.
RunOpenUnchecked(t) ==
    /\ Runs(t, "open")
    /\ Continue(t, AfterDrop(t[1], TRUE))
    /\ peers' = [peers EXCEPT ![t[1]].grace = Grace]
    /\ graceFile' = Head(job[t]).file
    /\ unanswered' = unanswered \ {t[1]}
    /\ UNCHANGED <<known, playVars, userVars, fileVars, serving, left>>

RunOpenLonger(t) ==
    /\ Runs(t, "open")
    /\ peers[t[1]].conn = t[2] /\ peers[t[1]].presence = "Lost"
    /\ Continue(t, AfterDrop(t[1], TRUE))
    /\ peers' = [peers EXCEPT ![t[1]].grace = Grace + 1]
    /\ graceFile' = Head(job[t]).file
    /\ unanswered' = unanswered \ {t[1]}
    /\ UNCHANGED <<known, playVars, userVars, fileVars, serving, left>>

\* open_grace_window, registry lock: the entry must still be ours, and Lost.
RunOpen(t) ==
    LET u == t[1]
        ours == peers[u].conn = t[2] /\ peers[u].presence = "Lost"
    IN
    /\ Runs(t, "open")
    /\ Continue(t, AfterDrop(u, ours))
    /\ peers' = IF ours THEN [peers EXCEPT ![u].grace = Grace] ELSE peers
    /\ graceFile' = IF ours THEN Head(job[t]).file ELSE graceFile
    /\ unanswered' = IF ours THEN unanswered \ {u} ELSE unanswered
    /\ UNCHANGED <<known, playVars, userVars, fileVars, serving, left>>

\* close_grace_windows: if any was open, the group follows the furthest behind
\* on the windows' file (when the caller names it) and the list goes out.
RunClose(t) ==
    LET f == Head(job[t]).file
        any == graceFile # NoFile \/ \E u \in Users : peers[u].grace # NoWindow
    IN
    /\ Runs(t, "close")
    /\ peers' = [u \in Users |-> [peers[u] EXCEPT !.grace = NoWindow]]
    /\ graceFile' = NoFile
    /\ Continue(t, IF any THEN (IF f # NoFile THEN <<DoOn("follow", f)>> ELSE <<>>)
                               \o <<Do("list")>>
                   ELSE <<>>)
    /\ UNCHANGED <<known, playVars, userVars, fileVars, serving, unanswered, left>>

\* force_pause reads the windows' file before it closes them.
RunClosing(t) == Reads(t, "closing", <<DoOn("close", graceFile)>>)

RunReconcile(t) ==
    Reads(t, "reconcile", IF graceFile # NoFile THEN <<DoOn("stopped", graceFile)>> ELSE <<>>)

RunRejoinPeers(t) ==
    Reads(t, "rejoinPeers", <<DoSeeing("pin", NoUser, Head(job[t]).file)>>)

\* broadcast_peer_list: the list is built under the registry lock and queued
\* to the live connections after the known users were read.
RunList(t) == Reads(t, "list", <<DoSeeing("send", NoUser, NoFile)>>)

RunSend(t) == Reads(t, "send", <<>>)

-----------------------------------------------------------------------------
(* The sweeper. *)

\* No task is busy, and superseded connections are gone.
Idle ==
    /\ \A t \in Tasks : job[t] = <<>>
    /\ \A u \in Users : serving[u] \subseteq {peers[u].conn}

\* A tick of the clock starts the sweep: departures, then expired windows.
Tick ==
    /\ Idle
    /\ \E u \in Users : peers[u].presence = "Lost" \/ peers[u].grace # NoWindow
    /\ peers' = [u \in Users |->
          [peers[u] EXCEPT !.lost = IF peers[u].presence = "Lost" /\ peers[u].lost < DepartAfter
                                      THEN peers[u].lost + 1 ELSE peers[u].lost,
                           !.grace = IF peers[u].grace > 0 THEN peers[u].grace - 1
                                       ELSE peers[u].grace]]
    /\ job' = [job EXCEPT ![Sweeper] = <<Do("depart"), Do("expire")>>]
    /\ UNCHANGED <<graceFile, known, playVars, userVars, fileVars, serving, unanswered, left>>

\* Mutant of RunDepart: nobody takes seek authority from who departed.
RunDepartNoRescue(t) ==
    LET promoted == {u \in Users : peers[u].presence = "Lost" /\ peers[u].lost >= DepartAfter}
    IN
    /\ Runs(t, "depart")
    /\ peers' = [u \in Users |-> IF u \in promoted THEN [peers[u] EXCEPT !.presence = "Departed"]
                                 ELSE peers[u]]
    /\ Continue(t, IF promoted = {} THEN <<>> ELSE <<Do("list")>>)
    /\ UNCHANGED <<graceFile, known, playVars, userVars, fileVars, serving, unanswered, left>>

\* sweep_departed: Lost for long enough is Departed.  Nobody is paused again;
\* seek authority is taken from each who departed.
RunDepart(t) ==
    LET promoted == {u \in Users : peers[u].presence = "Lost" /\ peers[u].lost >= DepartAfter}
    IN
    /\ Runs(t, "depart")
    /\ peers' = [u \in Users |-> IF u \in promoted THEN [peers[u] EXCEPT !.presence = "Departed"]
                                 ELSE peers[u]]
    /\ Continue(t, IF promoted = {} THEN <<>> ELSE <<Do("list"), RescueAll(promoted \cap Viewers)>>)
    /\ UNCHANGED <<graceFile, known, playVars, userVars, fileVars, serving, unanswered, left>>

\* One of them after another, in any order.
RunRescues(t) ==
    LET gone == Head(job[t]).gone IN
    /\ Runs(t, "rescues")
    /\ \/ gone = {} /\ Reads(t, "rescues", <<>>)
       \/ \E u \in gone : Reads(t, "rescues", <<DoFor("rescue", u), RescueAll(gone \ {u})>>)

\* sweep_grace: the first window to run out pauses everyone.
RunExpire(t) ==
    Reads(t, "expire", IF \E u \in Users : peers[u].grace = 0 THEN ForcePause ELSE <<>>)

-----------------------------------------------------------------------------
Section(t) ==
    \/ RunSelect(t) \/ RunEof(t) \/ RunSave(t) \/ RunPause(t) \/ RunAuthority(t)
    \/ RunFollow(t) \/ RunRescue(t) \/ RunStopped(t) \/ RunRejoin(t) \/ RunPin(t)
    \/ RunJudge(t) \/ RunOpen(t) \/ RunClose(t) \/ RunClosing(t) \/ RunReconcile(t)
    \/ RunRejoinPeers(t) \/ RunList(t) \/ RunSend(t) \/ RunDepart(t) \/ RunRescues(t)
    \/ RunExpire(t)

Message(u, n) ==
    \/ \E i \in {"Playing", "Paused"} : Press(u, n, i)
    \/ \E f \in Selectable : Select(u, n, f)
    \/ Seek(u, n)
    \/ \E v \in Users, h \in {"none", "Paused", "Away"} : Override(u, n, v, h)
    \/ \E v \in Users : Acknowledge(u, n, v)
    \/ \E a \in {"Ready", "Missing"} : Available(u, n, a)
    \/ \E f \in {loaded[u], nowPlaying} \ {NoFile} : Report(u, n, f)
    \/ EofReached(u, n, loaded[u])

Next ==
    \/ \E u \in Users : Register(u)
    \/ \E u \in Users, n \in Conns : Lost(u, n) \/ Goodbye(u, n) \/ Superseded(u, n) \/ Message(u, n)
    \/ \E t \in Tasks : Section(t)
    \/ Tick

Spec == Init /\ [][Next]_vars

-----------------------------------------------------------------------------
(* Properties. *)

Windowed == {u \in Users : peers[u].grace # NoWindow}

(* The registry's grace_file is set exactly while some window is open,       *)
(* whatever order drops, returns, pauses and expiries run in                 *)
(* (open_grace_window, close_grace_windows, a return in serve_connection).   *)
GraceFileMatches == graceFile # NoFile <=> Windowed # {}

(* A window is always that of a viewer who is away: the teardown that opens  *)
(* one late never gives it to somebody who is back (open_grace_window).      *)
WindowsOfTheAbsent ==
    \A u \in Windowed : Interactive(u) /\ peers[u].presence \in {"Lost", "Departed"}

(* An entry is Present exactly while the connection it names is served: the  *)
(* teardown of a superseded connection leaves its successor's entry alone    *)
(* (serve_connection).                                                       *)
PresentIffServed ==
    \A u \in Users : peers[u].presence = "Present" <=> peers[u].conn \in serving[u]

(* No drop or quit is passed over: once the tasks are done, each has been    *)
(* followed by a window, by a pause or by the user's return                  *)
(* (serve_connection's teardown, force_pause).                               *)
DropsAnswered == Idle => unanswered = {}

(* No window outlives its time: once a sweep is done no window is at zero,   *)
(* those opened during the sweep included (sweep_grace, force_pause).        *)
WindowsRunOut == Idle => \A u \in Windowed : peers[u].grace > 0

(* Nobody who timed out keeps seek authority once Departed, even if an       *)
(* anchor was pinned on them, or an old connection's seek served, just as    *)
(* they dropped (take_authority_from in sweep_departed).  Someone who said   *)
(* Goodbye departs at once and has lost = 0.                                 *)
NoGhostAuthority ==
    Idle /\ authority.by \in {"User", "Anchor"} /\ peers[authority.user].presence = "Departed"
        => peers[authority.user].lost = 0

(* The last list to go out shows the registry as it is: a task about to      *)
(* queue a peer list, with nothing more to do and no other task busy, has    *)
(* the current one (broadcast_peer_list).                                    *)
LastListCurrent ==
    \A t \in Tasks :
        Runs(t, "send") /\ Len(job[t]) = 1 /\ (\A s \in Tasks \ {t} : job[s] = <<>>)
            => Head(job[t]).infos = PeerInfos

=============================================================================
