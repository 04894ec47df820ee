------------------------------ MODULE MCPresence ------------------------------
(* Instances of Presence for TLC. *)
EXTENDS Presence, TLC

CONSTANTS ann, kim, f1, f2

OneCommitted == ann :> "Watching" @@ kim :> "Maybe"
TwoFiles == <<f1, f2>>
OneFile == <<f1>>

\* Everyone is connected and the group watches the first file; kim's player may
\* be on the second one still, after a switch back.
PlayingInit ==
    /\ peers = [u \in Users |-> [conn |-> 1, presence |-> "Present", lost |-> 0, grace |-> NoWindow]]
    /\ graceFile = NoFile /\ known = Viewers
    /\ intent = "Playing" /\ nowPlaying = Playlist[1] /\ authority = ByServer
    /\ hold = [u \in Users |-> "none"] /\ acked = {}
    /\ avail = [p \in Files \X Users |-> "Ready"]
    /\ \E f \in Files :
          loaded = [u \in Users |-> IF u = kim THEN f ELSE IF Interactive(u) THEN Playlist[1] ELSE NoFile]
    /\ saved = [f \in Files |-> {}] /\ watched = {}
    /\ serving = [u \in Users |-> {1}]
    /\ job = [t \in Tasks |-> <<>>]
    /\ unanswered = {}
    /\ left = MaxActs

PlayingSpec == PlayingInit /\ [][Next]_vars
=============================================================================
