------------------------------ MODULE MCPlayer ------------------------------
EXTENDS Player, TLC
CONSTANTS f1, f2

\* Nobody but those named acts.
Only(b) == b @@ [x \in Budget |-> 0]

\* A press against overlapping loads; a scrub and a hard seek against the grace
\* lock; a press against it, in the user's own mpv; a file dragged in; two files
\* played, and scrubbed; a crash loop, a failing launch and a new file; a lost
\* socket; an end rejected twice.
Acts == {
    Only("load" :> 2 @@ "press" :> 1),
    Only("load" :> 1 @@ "play" :> 1 @@ "seek" :> 1 @@ "lock" :> 1 @@ "sync" :> 1),
    Only("load" :> 1 @@ "play" :> 1 @@ "press" :> 1 @@ "lock" :> 1 @@ "attach" :> 1),
    Only("load" :> 2 @@ "drag" :> 1 @@ "attach" :> 1),
    Only("load" :> 2 @@ "play" :> 1),
    Only("load" :> 2 @@ "seek" :> 1 @@ "sync" :> 1),
    Only("load" :> 2 @@ "die" :> 3 @@ "fail" :> 1 @@ "quit" :> 1),
    Only("load" :> 1 @@ "die" :> 1 @@ "play" :> 1 @@ "attach" :> 1),
    Only("load" :> 1 @@ "play" :> 1 @@ "recover" :> 2)}
\* A player is launched, and nobody acts.
LaunchOnly == {Only(<<>>)}
=============================================================================
