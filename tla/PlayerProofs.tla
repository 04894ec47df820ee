---------------------------- MODULE PlayerProofs ----------------------------
(***************************************************************************)
(* Player for any files and any bounds: the types, that nothing observed   *)
(* of one file is told of another, that no scrub outlives a grace lock,    *)
(* and that the actor is never left without a player unless it gave up.    *)
(***************************************************************************)
EXTENDS Player, SequenceTheorems, TLAPS

\* Time, and a second attempt, for the SMT solver on a slow machine.
USE SMTT(60), Z3T(60)

\* Events that speak of the file that is up.
OfKinds == {"seeked", "position", "duration", "loaded", "eof"}

\* f is the path that the actor will have observed after the first n of the
\* waiting events es, o being the one it has observed now.
Up(es, o, n, f) ==
    \/ \E i \in 1..n : /\ es[i].event = "path" /\ es[i].path = f
                       /\ \A k \in (i + 1)..n : es[k].event # "path"
    \/ f = o /\ \A k \in 1..n : es[k].event # "path"

\* When the actor comes to an event that speaks of a file, it has observed no
\* path or that file's.
Attributed(es, o) ==
    \A j \in 1..Len(es) :
        es[j].event \in OfKinds => Up(es, o, j - 1, None) \/ Up(es, o, j - 1, es[j].of)

\* What mpv may announce while p is up, but for a new path.
Fits(xs, p) ==
    \A i \in 1..Len(xs) :
        /\ xs[i].event # "path" /\ xs[i].event # "exited"
        /\ xs[i].event \in OfKinds => xs[i].of = p

NoExit(es) == \A i \in 1..Len(es) : es[i].event # "exited"
Awaited(cs, query) == \A i \in 1..Len(cs) : cs[i] = QueryPosition("seek") => query # None

\* mpv's side: the reader knows the path that the actor will have observed.
MpvInv ==
    /\ MpvTypeOK
    /\ mpv.loaded => mpv.path # None
    /\ Awaited(cmds, reader.seekQuery)
    /\ Attributed(events, observed)
    /\ mpv.up => /\ NoExit(events)
                 /\ Up(events, observed, Len(events), reader.lastPath)
                 /\ reader.lastPath = None \/ mpv.path = None \/ reader.lastPath = mpv.path

\* The same, of a connection that is there.
Sound ==
    /\ cmds \in Seq(Command) /\ reader \in Reader /\ events \in Seq(Event)
    /\ Awaited(cmds, reader.seekQuery)
    /\ Attributed(events, observed) /\ NoExit(events)
    /\ Up(events, observed, Len(events), reader.lastPath)

-----------------------------------------------------------------------------
(* The waiting events. *)

\* Before any waiting event the path is the one observed.
LEMMA UpStart == ASSUME NEW es, NEW o, NEW f PROVE Up(es, o, 0, f) <=> f = o
  BY DEF Up

\* Only the first n events matter to the path after them.
LEMMA UpPrefix ==
    ASSUME NEW es \in Seq(Event), NEW xs \in Seq(Event), NEW o, NEW f, NEW n \in 0..Len(es)
    PROVE  Up(es \o xs, o, n, f) <=> Up(es, o, n, f)
<1>1. \A i \in 1..n : (es \o xs)[i] = es[i]
  BY LenProperties
<1>. QED
  BY <1>1 DEF Up

\* Events that are no path change leave the path as it was.
LEMMA UpKept ==
    ASSUME NEW es, NEW o, NEW f, NEW n \in Nat, NEW m \in Nat, n <= m,
           Up(es, o, n, f), \A k \in (n + 1)..m : es[k].event # "path"
    PROVE  Up(es, o, m, f)
<1>1. CASE \E i \in 1..n : /\ es[i].event = "path" /\ es[i].path = f
                           /\ \A k \in (i + 1)..n : es[k].event # "path"
  <2>1. PICK i \in 1..n : /\ es[i].event = "path" /\ es[i].path = f
                          /\ \A k \in (i + 1)..n : es[k].event # "path"
    BY <1>1
  <2>2. i \in 1..m /\ \A k \in (i + 1)..m : es[k].event # "path"
    <3>1. \A k \in (i + 1)..m : k \in (i + 1)..n \/ k \in (n + 1)..m
      OBVIOUS
    <3>. QED
      BY <2>1, <3>1
  <2>. QED
    BY <2>1, <2>2 DEF Up
<1>2. CASE f = o /\ \A k \in 1..n : es[k].event # "path"
  <2>1. \A k \in 1..m : k \in 1..n \/ k \in (n + 1)..m
    OBVIOUS
  <2>. QED
    BY <1>2, <2>1 DEF Up
<1>. QED
  BY <1>1, <1>2 DEF Up

\* Announcements that fit the file that is up are attributed to it.
LEMMA FittingEvents ==
    ASSUME NEW es \in Seq(Event), NEW xs \in Seq(Event), NEW o, NEW lp, NEW p,
           Attributed(es, o), NoExit(es), Up(es, o, Len(es), lp), Fits(xs, p), lp = None \/ lp = p
    PROVE  /\ es \o xs \in Seq(Event)
           /\ Attributed(es \o xs, o) /\ NoExit(es \o xs)
           /\ Up(es \o xs, o, Len(es \o xs), lp)
<1>. DEFINE ys == es \o xs
<1>0. /\ ys \in Seq(Event) /\ Len(ys) = Len(es) + Len(xs) /\ Len(es) \in Nat /\ Len(xs) \in Nat
      /\ \A i \in 1..Len(es) : ys[i] = es[i]
      /\ \A i \in (Len(es) + 1)..Len(ys) : i - Len(es) \in 1..Len(xs) /\ ys[i] = xs[i - Len(es)]
  OBVIOUS
<1>1. \A i \in (Len(es) + 1)..Len(ys) : /\ ys[i].event # "path" /\ ys[i].event # "exited"
                                        /\ ys[i].event \in OfKinds => ys[i].of = p
  BY <1>0 DEF Fits
<1>2. Up(ys, o, Len(es), lp)
  BY <1>0, UpPrefix
<1>. HIDE DEF ys
<1>3. ASSUME NEW m \in Len(es)..Len(ys) PROVE Up(ys, o, m, lp)
  <2>1. \A k \in (Len(es) + 1)..m : ys[k].event # "path"
    BY <1>0, <1>1
  <2>2. m \in Nat /\ Len(es) <= m
    BY <1>0
  <2>. QED
    BY <1>0, <1>2, <2>1, <2>2, UpKept
<1>4. NoExit(ys)
  <2>1. \A i \in 1..Len(ys) : i \in 1..Len(es) \/ i \in (Len(es) + 1)..Len(ys)
    BY <1>0
  <2>. QED
    BY <1>0, <1>1, <2>1 DEF NoExit
<1>5. ASSUME NEW j \in 1..Len(ys), ys[j].event \in OfKinds
      PROVE  Up(ys, o, j - 1, None) \/ Up(ys, o, j - 1, ys[j].of)
  <2>1. CASE j \in 1..Len(es)
    <3>1. j - 1 \in 0..Len(es)
      BY <2>1
    <3>2. Up(es, o, j - 1, None) \/ Up(es, o, j - 1, es[j].of)
      BY <1>0, <1>5, <2>1 DEF Attributed
    <3>. QED
      BY <1>0, <2>1, <3>1, <3>2, UpPrefix DEF ys
  <2>2. CASE j \in (Len(es) + 1)..Len(ys)
    <3>1. j - 1 \in Len(es)..Len(ys)
      BY <1>0, <2>2
    <3>2. Up(ys, o, j - 1, lp)
      BY <1>3, <3>1
    <3>3. ys[j].of = p
      BY <1>1, <1>5, <2>2
    <3>. QED
      BY <3>2, <3>3
  <2>. QED
    BY <1>0, <2>1, <2>2
<1>6. Attributed(ys, o)
  BY <1>5 DEF Attributed
<1>7. Up(ys, o, Len(ys), lp)
  BY <1>0, <1>3
<1>. QED
  BY <1>0, <1>4, <1>6, <1>7 DEF ys

\* A new path is what the actor will have observed.
LEMMA NewPath ==
    ASSUME NEW es \in Seq(Event), NEW o, NEW f \in Paths, Attributed(es, o), NoExit(es)
    PROVE  LET ys == es \o <<PathChanged(f)>> IN
           ys \in Seq(Event) /\ Attributed(ys, o) /\ NoExit(ys) /\ Up(ys, o, Len(ys), f)
<1>. DEFINE e == PathChanged(f)
            ys == es \o <<e>>
<1>1. e \in Event /\ e.event = "path" /\ e.path = f
  BY DEF PathChanged, Event
<1>. HIDE DEF e
<1>2. /\ ys \in Seq(Event) /\ Len(ys) = Len(es) + 1 /\ Len(es) \in Nat
      /\ \A i \in 1..Len(es) : ys[i] = es[i]
      /\ ys[Len(ys)] = e
  BY <1>1
<1>3. Up(ys, o, Len(ys), f)
  <2>. HIDE DEF ys
  <2>1. Len(ys) \in 1..Len(ys) /\ \A k \in (Len(ys) + 1)..Len(ys) : ys[k].event # "path"
    BY <1>2
  <2>. QED
    BY <1>1, <1>2, <2>1 DEF Up
<1>4. ASSUME NEW j \in 1..Len(ys), ys[j].event \in OfKinds
      PROVE  Up(ys, o, j - 1, None) \/ Up(ys, o, j - 1, ys[j].of)
  <2>1. j # Len(ys)
    BY <1>1, <1>2, <1>4 DEF OfKinds
  <2>2. j \in 1..Len(es) /\ j - 1 \in 0..Len(es)
    BY <1>2, <2>1
  <2>3. Up(es, o, j - 1, None) \/ Up(es, o, j - 1, es[j].of)
    BY <1>2, <1>4, <2>2 DEF Attributed
  <2>4. <<e>> \in Seq(Event)
    BY <1>1
  <2>. QED
    BY <1>2, <2>2, <2>3, <2>4, UpPrefix, ZenonT(60)
<1>5. NoExit(ys)
  BY <1>1, <1>2 DEF NoExit
<1>. QED
  BY <1>2, <1>3, <1>4, <1>5 DEF Attributed, e

\* What the actor has observed after it took the first event.
ObservedNext(es, o) == IF Head(es).event = "path" THEN Head(es).path ELSE o

\* Taking the first event leaves the later ones their path.
LEMMA UpTail ==
    ASSUME NEW es \in Seq(Event), es # <<>>, NEW o, NEW f, NEW n \in 1..Len(es), Up(es, o, n, f)
    PROVE  Up(Tail(es), ObservedNext(es, o), n - 1, f)
<1>. DEFINE ts == Tail(es)
            p == ObservedNext(es, o)
<1>1. Len(es) \in Nat /\ Head(es) = es[1] /\ \A i \in 1..(Len(es) - 1) : ts[i] = es[i + 1]
  OBVIOUS
<1>. HIDE DEF ts
<1>2. CASE \E i \in 1..n : /\ es[i].event = "path" /\ es[i].path = f
                           /\ \A k \in (i + 1)..n : es[k].event # "path"
  <2>1. PICK i \in 1..n : /\ es[i].event = "path" /\ es[i].path = f
                          /\ \A k \in (i + 1)..n : es[k].event # "path"
    BY <1>2
  <2>2. CASE i = 1
    <3>1. p = f
      BY <1>1, <2>1, <2>2 DEF ObservedNext
    <3>2. \A k \in 1..(n - 1) : ts[k].event # "path"
      BY <1>1, <2>1, <2>2
    <3>. QED
      BY <3>1, <3>2 DEF Up, ts
  <2>3. CASE i # 1
    <3>1. i - 1 \in 1..(n - 1) /\ ts[i - 1] = es[i]
      BY <1>1, <2>3
    <3>2. ASSUME NEW k \in ((i - 1) + 1)..(n - 1) PROVE ts[k].event # "path"
      <4>1. k + 1 \in (i + 1)..n /\ k \in 1..(Len(es) - 1)
        BY <1>1
      <4>. QED
        BY <1>1, <2>1, <4>1
    <3>. QED
      BY <2>1, <3>1, <3>2 DEF Up, ts
  <2>. QED
    BY <2>2, <2>3
<1>3. CASE f = o /\ \A k \in 1..n : es[k].event # "path"
  <2>1. p = f
    BY <1>1, <1>3 DEF ObservedNext
  <2>2. \A k \in 1..(n - 1) : ts[k].event # "path"
    BY <1>1, <1>3
  <2>. QED
    BY <2>1, <2>2 DEF Up, ts
<1>. QED
  BY <1>2, <1>3 DEF Up

\* Taking an event keeps the attribution of the others, and one that speaks of
\* a file meets an actor that has observed no path or that file's.
LEMMA TakenEvent ==
    ASSUME NEW es \in Seq(Event), es # <<>>, NEW o, Attributed(es, o)
    PROVE  /\ Tail(es) \in Seq(Event) /\ Head(es) \in Event
           /\ Attributed(Tail(es), ObservedNext(es, o))
           /\ NoExit(es) => NoExit(Tail(es))
           /\ \A f : Up(es, o, Len(es), f) => Up(Tail(es), ObservedNext(es, o), Len(Tail(es)), f)
           /\ Head(es).event \in OfKinds => o = None \/ o = Head(es).of
<1>. DEFINE ts == Tail(es)
<1>1. /\ Len(es) \in Nat /\ Len(es) > 0 /\ Len(ts) = Len(es) - 1 /\ Head(es) = es[1]
      /\ \A i \in 1..Len(ts) : i + 1 \in 1..Len(es) /\ ts[i] = es[i + 1]
      /\ ts \in Seq(Event) /\ Head(es) \in Event
  OBVIOUS
<1>. HIDE DEF ts
<1>2. ASSUME NEW j \in 1..Len(ts), ts[j].event \in OfKinds
      PROVE  \/ Up(ts, ObservedNext(es, o), j - 1, None)
             \/ Up(ts, ObservedNext(es, o), j - 1, ts[j].of)
  <2>1. j + 1 \in 1..Len(es) /\ j \in 1..Len(es) /\ (j + 1) - 1 = j
    BY <1>1
  <2>2. Up(es, o, j, None) \/ Up(es, o, j, es[j + 1].of)
    BY <1>1, <1>2, <2>1 DEF Attributed
  <2>. QED
    BY <1>1, <2>1, <2>2, UpTail DEF ts
<1>3. NoExit(es) => NoExit(ts)
  BY <1>1 DEF NoExit
<1>4. ASSUME NEW f, Up(es, o, Len(es), f) PROVE Up(ts, ObservedNext(es, o), Len(ts), f)
  <2>1. Len(es) \in 1..Len(es) /\ Len(ts) = Len(es) - 1
    BY <1>1
  <2>. QED
    BY <1>4, <2>1, UpTail DEF ts
<1>5. Head(es).event \in OfKinds => o = None \/ o = Head(es).of
  <2>1. 1 \in 1..Len(es) /\ 1 - 1 = 0
    BY <1>1
  <2>. QED
    BY <1>1, <2>1, UpStart DEF Attributed
<1>. QED
  BY <1>1, <1>2, <1>3, <1>4, <1>5 DEF ts, Attributed

-----------------------------------------------------------------------------
(* mpv and the reader. *)

\* Announcements that fit the file that is up, whether they settle a held pause
\* or pass it by.
LEMMA Announces ==
    ASSUME MpvInv, mpv.up, observed' = observed,
           NEW es \in Seq(Event), NEW rest \in Seq(Command), NEW r \in Reader, NEW p,
           Fits(es, p), reader.lastPath = None \/ reader.lastPath = p,
           r.lastPath = reader.lastPath, Awaited(rest, r.seekQuery),
           PassBy(es, rest, r) \/ Forward(es, rest, r)
    PROVE  Sound' /\ reader'.lastPath = reader.lastPath
<1>1. /\ events \in Seq(Event) /\ Attributed(events, observed) /\ NoExit(events)
      /\ Up(events, observed, Len(events), reader.lastPath)
  BY DEF MpvInv, MpvTypeOK
<1>2. ASSUME NEW xs \in Seq(Event), Fits(xs, p), events' = events \o xs,
             reader'.lastPath = reader.lastPath
      PROVE  /\ events' \in Seq(Event)
             /\ Attributed(events', observed') /\ NoExit(events')
             /\ Up(events', observed', Len(events'), reader'.lastPath)
  BY <1>1, <1>2, FittingEvents
<1>3. CASE PassBy(es, rest, r)
  BY <1>2, <1>3 DEF PassBy, Sound
<1>4. CASE Forward(es, rest, r) /\ r.held # None
  <2>. DEFINE e == PauseChanged(TRUE, r.held)
              xs == <<e>> \o es
              q == QueryPosition("pause")
  <2>1. e \in Event /\ e.event = "pause"
    BY <1>4 DEF PauseChanged, Event, Reader
  <2>2. q \in Command /\ q # QueryPosition("seek")
    BY DEF QueryPosition, Command
  <2>3. events' = events \o xs /\ cmds' = Append(rest, q) /\ reader' = [r EXCEPT !.held = None]
    BY <1>4, Zenon DEF Forward, PassBy
  <2>. HIDE DEF e, q
  <2>4. xs \in Seq(Event) /\ Len(xs) = Len(es) + 1 /\ xs[1] = e /\ Len(es) \in Nat
        /\ \A i \in 2..Len(xs) : i - 1 \in 1..Len(es) /\ xs[i] = es[i - 1]
    BY <2>1
  <2>. HIDE DEF xs
  <2>5. Fits(xs, p)
    <3>1. \A i \in 1..Len(xs) : i = 1 \/ i \in 2..Len(xs)
      BY <2>4
    <3>. QED
      BY <2>1, <2>4, <3>1, ZenonT(60) DEF Fits, OfKinds
  <2>6. reader' \in Reader /\ reader'.lastPath = reader.lastPath /\ reader'.seekQuery = r.seekQuery
    BY <2>3, Zenon DEF Reader
  <2>7. cmds' \in Seq(Command)
    BY <2>2, <2>3
  <2>8. Awaited(cmds', r.seekQuery)
    BY <2>2, <2>3 DEF Awaited
  <2>. QED
    BY <1>2, <2>3, <2>4, <2>5, <2>6, <2>7, <2>8, Zenon DEF Sound
<1>5. CASE Forward(es, rest, r) /\ r.held = None
  BY <1>3, <1>5 DEF Forward
<1>. QED
  BY <1>3, <1>4, <1>5

\* So does the pause property: it speaks of no file.
LEMMA AnnouncesPause ==
    ASSUME MpvInv, mpv.up, observed' = observed,
           NEW b \in BOOLEAN, NEW by \in Origins, NEW rest \in Seq(Command),
           Awaited(rest, reader.seekQuery), SeesPause(b, by, rest)
    PROVE  Sound' /\ reader'.lastPath = reader.lastPath
<1>. DEFINE r == [reader EXCEPT !.lastPause = b]
            h == [r EXCEPT !.held = by]
            e == PauseChanged(FALSE, by)
<1>1. /\ r \in Reader /\ r.lastPath = reader.lastPath /\ r.seekQuery = reader.seekQuery
      /\ h \in Reader /\ h.lastPath = reader.lastPath /\ h.seekQuery = reader.seekQuery
  BY Zenon DEF MpvInv, MpvTypeOK, Reader
<1>2. e \in Event /\ e.event = "pause"
  BY DEF PauseChanged, Event
<1>3. PassBy(<<>>, rest, r) \/ PassBy(<<>>, rest, h) \/ Forward(<<e>>, rest, r)
  BY DEF SeesPause
<1>. HIDE DEF r, h, e
<1>4. Fits(<<>>, reader.lastPath) /\ Fits(<<e>>, reader.lastPath)
  BY <1>2 DEF Fits, OfKinds
<1>5. <<>> \in Seq(Event) /\ <<e>> \in Seq(Event)
  BY <1>2
<1>6. CASE PassBy(<<>>, rest, r)
  BY <1>1, <1>4, <1>5, <1>6, Announces, Zenon
<1>7. CASE PassBy(<<>>, rest, h)
  BY <1>1, <1>4, <1>5, <1>7, Announces, Zenon
<1>8. CASE Forward(<<e>>, rest, r)
  BY <1>1, <1>4, <1>5, <1>8, Announces, Zenon
<1>. QED
  BY <1>3, <1>6, <1>7, <1>8

\* The commands that remain once mpv has run the first.
LEMMA TailCommands ==
    ASSUME MpvInv, cmds # <<>>
    PROVE  /\ Head(cmds) \in Command /\ Tail(cmds) \in Seq(Command)
           /\ Awaited(Tail(cmds), reader.seekQuery)
<1>1. cmds \in Seq(Command)
  BY DEF MpvInv, MpvTypeOK
<1>2. /\ Head(cmds) \in Command /\ Tail(cmds) \in Seq(Command)
      /\ \A i \in 1..Len(Tail(cmds)) : i + 1 \in 1..Len(cmds) /\ Tail(cmds)[i] = cmds[i + 1]
  BY <1>1
<1>. QED
  BY <1>2 DEF MpvInv, Awaited

\* The first and the last position are positions.
LEMMA Ends == 0 \in Positions /\ LastPosition \in Positions
  BY MpvAssumption DEF Positions

\* What mpv has to do besides.
LEMMA MpvKeeps ==
    ASSUME Sound', mpv' \in Mpv, left' \in [Budget -> Nat], mpv'.loaded => mpv'.path # None,
           reader'.lastPath = None \/ mpv'.path = None \/ reader'.lastPath = mpv'.path
    PROVE  MpvInv'
  BY DEF Sound, MpvInv, MpvTypeOK

\* Spending from the budget leaves a budget.
LEMMA Spending ==
    ASSUME MpvInv, NEW what \in Budget, Spend(what)
    PROVE  left' \in [Budget -> Nat]
  BY DEF Spend, MpvInv, MpvTypeOK

\* Commands that mpv runs.
LEMMA CommandRun ==
    ASSUME MpvInv, observed' = observed,
           RunObserve \/ RunPause \/ RunLoadFile \/ RunSeek \/ RunQuery
    PROVE  MpvInv'
<1>0. /\ mpv \in Mpv /\ reader \in Reader /\ events \in Seq(Event) /\ left \in [Budget -> Nat]
      /\ cmds \in Seq(Command)
  BY DEF MpvInv, MpvTypeOK
<1>1. /\ mpv.up /\ cmds # <<>> /\ left' = left
      /\ reader.lastPath = None \/ mpv.path = None \/ reader.lastPath = mpv.path
      /\ mpv.loaded => mpv.path # None
  BY DEF MpvInv, RunObserve, RunPause, RunLoadFile, RunSeek, RunQuery, Runs, MpvActs
<1>2. /\ Head(cmds) \in Command /\ Tail(cmds) \in Seq(Command)
      /\ Awaited(Tail(cmds), reader.seekQuery)
  BY <1>1, TailCommands
<1>3. /\ Attributed(events, observed) /\ NoExit(events)
      /\ Up(events, observed, Len(events), reader.lastPath)
  BY <1>1 DEF MpvInv
<1>q. <<>> \in Seq(Event) /\ Fits(<<>>, reader.lastPath)
  BY DEF Fits
<1>4. CASE RunObserve
  <2>1. CASE Head(cmds).what = "pause"
    <3>1. SeesPause(mpv.paused, "mpv", Tail(cmds)) /\ mpv.paused \in BOOLEAN /\ "mpv" \in Origins
      BY <1>0, <1>4, <2>1 DEF RunObserve, Mpv, Origins
    <3>2. Sound' /\ reader'.lastPath = reader.lastPath
      BY <1>1, <1>2, <3>1, AnnouncesPause, Zenon
    <3>. QED
      BY <1>0, <1>1, <1>4, <3>2, MpvKeeps DEF RunObserve
  <2>2. CASE Head(cmds).what # "pause" /\ mpv.path = None
    <3>1. PassBy(<<>>, Tail(cmds), reader)
      BY <1>4, <2>2 DEF RunObserve
    <3>2. Sound' /\ reader'.lastPath = reader.lastPath
      BY <1>0, <1>1, <1>2, <1>q, <3>1, Announces, ZenonT(60)
    <3>. QED
      BY <1>0, <1>1, <1>4, <3>2, MpvKeeps DEF RunObserve
  <2>3. CASE Head(cmds).what # "pause" /\ mpv.path # None
    <3>1. mpv.path \in Paths /\ mpv' = mpv
      BY <1>0, <1>4, <2>3 DEF Mpv, RunObserve
    <3>2. /\ events' = events \o <<PathChanged(mpv.path)>> /\ cmds' = Tail(cmds)
          /\ reader' = [reader EXCEPT !.lastPath = mpv.path]
      BY <1>4, <2>3 DEF RunObserve, PassBy
    <3>3. reader' \in Reader /\ reader'.lastPath = mpv.path /\ reader'.seekQuery = reader.seekQuery
      BY <1>0, <3>1, <3>2, Zenon DEF Reader
    <3>4. Sound'
      BY <1>0, <1>2, <1>3, <3>1, <3>2, <3>3, NewPath, ZenonT(60) DEF Sound
    <3>. QED
      BY <1>0, <1>1, <3>1, <3>3, <3>4, MpvKeeps
  <2>. QED
    BY <2>1, <2>2, <2>3
<1>5. CASE RunPause
  <2>. DEFINE b == Head(cmds).paused
  <2>1. b \in BOOLEAN /\ "us" \in Origins
    BY <1>2, <1>5 DEF RunPause, Runs, Command, Origins
  <2>2. mpv' \in Mpv /\ mpv'.path = mpv.path /\ mpv'.loaded = mpv.loaded
    BY <1>0, <1>5, <2>1, Zenon DEF RunPause, Mpv
  <2>3. SeesPause(b, "us", Tail(cmds)) \/ PassBy(<<>>, Tail(cmds), reader)
    BY <1>5 DEF RunPause
  <2>. HIDE DEF b
  <2>4. Sound' /\ reader'.lastPath = reader.lastPath
    <3>1. CASE SeesPause(b, "us", Tail(cmds))
      BY <1>1, <1>2, <2>1, <3>1, AnnouncesPause, Zenon
    <3>2. CASE PassBy(<<>>, Tail(cmds), reader)
      BY <1>0, <1>1, <1>2, <1>q, <3>2, Announces, ZenonT(60)
    <3>. QED
      BY <2>3, <3>1, <3>2
  <2>. QED
    BY <1>0, <1>1, <2>2, <2>4, MpvKeeps
<1>6. CASE RunLoadFile
  <2>1. Head(cmds).path \in Paths
    BY <1>2, <1>6 DEF RunLoadFile, Runs, Command, Paths
  <2>2. mpv' \in Mpv /\ mpv'.path = mpv.path /\ mpv'.loaded = mpv.loaded
    BY <1>0, <1>6, <2>1, Zenon DEF RunLoadFile, Mpv
  <2>3. Sound' /\ reader' = reader
    BY <1>0, <1>2, <1>3, <1>6 DEF RunLoadFile, Sound
  <2>. QED
    BY <1>0, <1>1, <2>2, <2>3, MpvKeeps
<1>7. CASE RunSeek
  <2>1. Head(cmds).to \in Positions
    BY <1>2, <1>7 DEF RunSeek, Runs, Command
  <2>2. mpv' \in Mpv /\ mpv'.path = mpv.path /\ mpv'.loaded = mpv.loaded
    BY <1>0, <1>7, <2>1, Zenon DEF RunSeek, Seeking, Mpv
  <2>3. reader' \in Reader /\ reader'.lastPath = reader.lastPath /\ reader'.seekQuery = reader.seekQuery
    BY <1>0, <1>7, ZenonT(60) DEF RunSeek, Seeking, Reader, Origins
  <2>4. Sound'
    BY <1>0, <1>2, <1>3, <1>7, <2>3 DEF RunSeek, Sound
  <2>. QED
    BY <1>0, <1>1, <2>2, <2>3, <2>4, MpvKeeps
<1>8. CASE RunQuery
  <2>. DEFINE why == Head(cmds).why
              latest == \A i \in 2..Len(cmds) : cmds[i] # QueryPosition(why)
              r == [reader EXCEPT !.seekQuery = None]
              at == Position(mpv.at, mpv.path)
              seeked == Seeked(mpv.at, mpv.path, reader.seekQuery)
  <2>1. why \in {"seek", "pause"} /\ Head(cmds) = QueryPosition(why) /\ mpv' = mpv
    BY <1>2, <1>8 DEF RunQuery, Runs, Command, QueryPosition
  <2>2. r \in Reader /\ r.lastPath = reader.lastPath /\ r.seekQuery = None
    BY <1>0, Zenon DEF Reader
  <2>3. why = "seek" => reader.seekQuery \in Origins
    <3>1. 1 \in 1..Len(cmds) /\ Head(cmds) = cmds[1]
      BY <1>0, <1>1
    <3>. QED
      BY <1>0, <2>1, <3>1 DEF MpvInv, Awaited, Reader
  <2>4. mpv.loaded => /\ mpv.path \in Paths /\ at \in Event /\ at.event = "position" /\ at.of = mpv.path
                      /\ mpv.at \in Positions
    BY <1>0, <1>1 DEF Position, Event, Mpv
  <2>5. mpv.loaded /\ why = "seek" =>
            seeked \in Event /\ seeked.event = "seeked" /\ seeked.of = mpv.path
    BY <2>3, <2>4 DEF Seeked, Event
  <2>6. \/ PassBy(<<>>, Tail(cmds), reader)
        \/ mpv.loaded /\ PassBy(<<at>>, Tail(cmds), reader)
        \/ latest /\ why = "seek" /\ mpv.loaded /\ Forward(<<seeked>>, Tail(cmds), r)
        \/ latest /\ why = "seek" /\ PassBy(<<>>, Tail(cmds), r)
    BY <1>8, <2>1 DEF RunQuery
  <2>7. latest /\ why = "seek" => Awaited(Tail(cmds), r.seekQuery)
    <3>1. \A i \in 1..Len(Tail(cmds)) : i + 1 \in 2..Len(cmds) /\ Tail(cmds)[i] = cmds[i + 1]
      BY <1>0, <1>1
    <3>. QED
      BY <3>1 DEF Awaited
  <2>. HIDE DEF why, latest, r, at, seeked
  <2>8. mpv.loaded => Fits(<<at>>, mpv.path) /\ <<at>> \in Seq(Event)
    BY <2>4 DEF Fits
  <2>9. mpv.loaded /\ why = "seek" => Fits(<<seeked>>, mpv.path) /\ <<seeked>> \in Seq(Event)
    BY <2>5 DEF Fits
  <2>10. Sound' /\ reader'.lastPath = reader.lastPath
    <3>1. CASE PassBy(<<>>, Tail(cmds), reader)
      BY <1>0, <1>1, <1>2, <1>q, <3>1, Announces, Zenon
    <3>2. CASE mpv.loaded /\ PassBy(<<at>>, Tail(cmds), reader)
      BY <1>0, <1>1, <1>2, <2>8, <3>2, Announces, Zenon
    <3>3. CASE latest /\ why = "seek" /\ mpv.loaded /\ Forward(<<seeked>>, Tail(cmds), r)
      BY <1>0, <1>1, <1>2, <2>2, <2>7, <2>9, <3>3, Announces, Zenon
    <3>4. CASE latest /\ why = "seek" /\ PassBy(<<>>, Tail(cmds), r)
      BY <1>0, <1>1, <1>2, <1>q, <2>2, <2>7, <3>4, Announces, ZenonT(60)
    <3>. QED
      BY <2>6, <3>1, <3>2, <3>3, <3>4
  <2>. QED
    BY <1>0, <1>1, <2>1, <2>10, MpvKeeps
<1>. QED
  BY <1>4, <1>5, <1>6, <1>7, <1>8

\* What mpv does by itself.
LEMMA OwnStep ==
    ASSUME MpvInv, observed' = observed,
           \/ StartFile \/ FileLoaded \/ OpenFails \/ Restart \/ PlayOn \/ PlayToEnd \/ HoldTimesOut
    PROVE  MpvInv'
<1>0. /\ mpv \in Mpv /\ reader \in Reader /\ events \in Seq(Event) /\ left \in [Budget -> Nat]
      /\ cmds \in Seq(Command) /\ Awaited(cmds, reader.seekQuery)
  BY DEF MpvInv, MpvTypeOK
<1>1. mpv.up
  BY DEF StartFile, FileLoaded, OpenFails, Opening, Restart, PlayOn, PlayToEnd, Plays, HoldTimesOut, MpvActs
<1>2. /\ reader.lastPath = None \/ mpv.path = None \/ reader.lastPath = mpv.path
      /\ mpv.loaded => mpv.path # None
      /\ Attributed(events, observed) /\ NoExit(events)
      /\ Up(events, observed, Len(events), reader.lastPath)
  BY <1>1 DEF MpvInv
<1>q. <<>> \in Seq(Event) /\ Fits(<<>>, reader.lastPath)
  BY DEF Fits
<1>3. CASE StartFile
  <2>. DEFINE f == mpv.opening
              r == [reader EXCEPT !.lastPath = f, !.eof = FALSE]
  <2>1. f \in Paths /\ left' = left
    BY <1>0, <1>3 DEF StartFile, Mpv
  <2>2. mpv' \in Mpv /\ mpv'.path = f /\ mpv'.loaded = FALSE
    BY <1>0, <1>3, <2>1, Ends, Zenon DEF StartFile, Mpv
  <2>3. r \in Reader /\ r.lastPath = f /\ r.seekQuery = reader.seekQuery
    BY <1>0, <2>1, Zenon DEF Reader
  <2>4. /\ cmds' = cmds /\ reader' = r
        /\ events' = events \o (IF f # reader.lastPath THEN <<PathChanged(f)>> ELSE <<>>)
    BY <1>3 DEF StartFile, PassBy
  <2>. HIDE DEF f, r
  <2>5. CASE f # reader.lastPath
    <3>1. Sound'
      BY <1>0, <1>2, <2>1, <2>3, <2>4, <2>5, NewPath, ZenonT(60) DEF Sound
    <3>. QED
      BY <1>0, <2>1, <2>2, <2>3, <2>4, <3>1, MpvKeeps
  <2>6. CASE f = reader.lastPath
    <3>1. events' = events
      BY <1>0, <2>4, <2>6
    <3>2. Sound'
      BY <1>0, <1>2, <2>3, <2>4, <2>6, <3>1 DEF Sound
    <3>. QED
      BY <1>0, <2>1, <2>2, <2>3, <2>4, <3>2, MpvKeeps
  <2>. QED
    BY <2>5, <2>6
<1>4. CASE FileLoaded
  <2>. DEFINE e == Loaded(mpv.path)
              d == DurationKnown(mpv.path)
              r == [reader EXCEPT !.loading = FALSE, !.eof = FALSE]
  <2>1. mpv.path \in Paths /\ left' = left /\ Forward(<<e, d>>, cmds, r)
    BY <1>0, <1>4 DEF FileLoaded, Opening, Mpv
  <2>2. mpv' \in Mpv /\ mpv'.path = mpv.path
    BY <1>0, <1>4, Zenon DEF FileLoaded, Mpv
  <2>3. r \in Reader /\ r.lastPath = reader.lastPath /\ r.seekQuery = reader.seekQuery
    BY <1>0, Zenon DEF Reader
  <2>4. /\ e \in Event /\ e.event = "loaded" /\ e.of = mpv.path
        /\ d \in Event /\ d.event = "duration" /\ d.of = mpv.path
    BY <2>1 DEF Loaded, DurationKnown, Event
  <2>. HIDE DEF e, d, r
  <2>5. <<e, d>> \in Seq(Event) /\ Fits(<<e, d>>, mpv.path)
    <3>1. \A i \in 1..2 : <<e, d>>[i] = e \/ <<e, d>>[i] = d
      OBVIOUS
    <3>. QED
      BY <2>4, <3>1 DEF Fits
  <2>6. reader.lastPath = None \/ reader.lastPath = mpv.path
    BY <1>2, <1>4 DEF FileLoaded, Opening
  <2>7. Sound' /\ reader'.lastPath = reader.lastPath
    BY <1>0, <1>1, <2>1, <2>3, <2>5, <2>6, Announces, ZenonT(60)
  <2>. QED
    BY <1>0, <2>1, <2>2, <2>6, <2>7, <1>4, MpvKeeps DEF FileLoaded, Opening
<1>5. CASE OpenFails
  <2>. DEFINE e == LoadFailed
              r == [reader EXCEPT !.loading = FALSE]
  <2>1. left' \in [Budget -> Nat] /\ Forward(<<e>>, cmds, r)
    BY <1>5, Spending DEF OpenFails, Budget
  <2>2. mpv' \in Mpv /\ mpv'.path = None /\ mpv'.loaded = FALSE
    BY <1>0, <1>5, Zenon DEF OpenFails, Opening, Mpv
  <2>3. r \in Reader /\ r.lastPath = reader.lastPath /\ r.seekQuery = reader.seekQuery
    BY <1>0, ZenonT(60) DEF Reader
  <2>4. e \in Event /\ e.event = "failed"
    BY DEF LoadFailed, Event
  <2>. HIDE DEF e, r
  <2>5. <<e>> \in Seq(Event) /\ Fits(<<e>>, reader.lastPath)
    BY <2>4 DEF Fits, OfKinds
  <2>6. Sound' /\ reader'.lastPath = reader.lastPath
    BY <1>0, <1>1, <2>1, <2>3, <2>5, Announces, Zenon
  <2>. QED
    BY <2>1, <2>2, <2>6, MpvKeeps
<1>6. CASE Restart
  <2>1. mpv' \in Mpv /\ mpv'.path = mpv.path /\ mpv'.loaded = mpv.loaded /\ left' = left /\ events' = events
    BY <1>0, <1>6, ZenonT(60) DEF Restart, Mpv
  <2>2. CASE reader.seekPending = None
    <3>1. Sound' /\ reader' = reader
      BY <1>0, <1>2, <1>6, <2>2 DEF Restart, Sound
    <3>. QED
      BY <1>0, <1>2, <2>1, <3>1, MpvKeeps
  <2>3. CASE reader.seekPending # None
    <3>. DEFINE q == QueryPosition("seek")
    <3>1. /\ reader' = [reader EXCEPT !.seekPending = None, !.seekQuery = reader.seekPending]
          /\ cmds' = Append(cmds, q)
      BY <1>6, <2>3 DEF Restart
    <3>2. reader' \in Reader /\ reader'.lastPath = reader.lastPath /\ reader'.seekQuery # None
      BY <1>0, <2>3, <3>1, Zenon DEF Reader
    <3>3. q \in Command
      BY DEF QueryPosition, Command
    <3>. HIDE DEF q
    <3>4. cmds' \in Seq(Command) /\ Awaited(cmds', reader'.seekQuery)
      BY <1>0, <3>1, <3>2, <3>3 DEF Awaited
    <3>5. Sound'
      BY <1>0, <1>2, <1>6, <3>2, <3>4 DEF Sound, Restart
    <3>. QED
      BY <1>0, <1>2, <2>1, <3>2, <3>5, MpvKeeps
  <2>. QED
    BY <2>2, <2>3
<1>7. CASE PlayOn
  <2>. DEFINE e == Position(mpv.at + 1, mpv.path)
  <2>1. /\ mpv.path \in Paths /\ mpv.at + 1 \in Positions /\ left' = left
        /\ PassBy(<<e>>, cmds, reader)
    BY <1>0, <1>2, <1>7, MpvAssumption DEF PlayOn, Plays, Mpv, Positions
  <2>2. mpv' \in Mpv /\ mpv'.path = mpv.path
    BY <1>0, <1>7, <2>1, ZenonT(60) DEF PlayOn, Mpv
  <2>3. e \in Event /\ e.event = "position" /\ e.of = mpv.path
    BY <2>1 DEF Position, Event
  <2>. HIDE DEF e
  <2>4. <<e>> \in Seq(Event) /\ Fits(<<e>>, mpv.path)
    BY <2>3 DEF Fits
  <2>5. mpv.path # None
    BY <1>2, <1>7 DEF PlayOn, Plays
  <2>6. Sound' /\ reader'.lastPath = reader.lastPath
    BY <1>0, <1>1, <1>2, <2>1, <2>4, <2>5, Announces, ZenonT(60)
  <2>. QED
    BY <1>0, <1>2, <2>1, <2>2, <2>5, <2>6, MpvKeeps
<1>8. CASE PlayToEnd
  <2>. DEFINE e == Eof(mpv.path)
              r == [reader EXCEPT !.lastPause = TRUE, !.eof = TRUE, !.held = None]
  <2>1. mpv.path \in Paths /\ mpv.path # None /\ left' = left /\ PassBy(<<e>>, cmds, r)
    BY <1>0, <1>2, <1>8 DEF PlayToEnd, Plays, Mpv
  <2>2. mpv' \in Mpv /\ mpv'.path = mpv.path
    BY <1>0, <1>8, Ends, Zenon DEF PlayToEnd, Mpv
  <2>3. e \in Event /\ e.event = "eof" /\ e.of = mpv.path
    BY <2>1 DEF Eof, Event
  <2>4. r \in Reader /\ r.lastPath = reader.lastPath /\ r.seekQuery = reader.seekQuery
    BY <1>0, Zenon DEF Reader
  <2>. HIDE DEF e, r
  <2>5. <<e>> \in Seq(Event) /\ Fits(<<e>>, mpv.path)
    BY <2>3 DEF Fits
  <2>6. Sound' /\ reader'.lastPath = reader.lastPath
    BY <1>0, <1>1, <1>2, <2>1, <2>4, <2>5, Announces, ZenonT(60)
  <2>. QED
    BY <1>0, <1>2, <2>1, <2>2, <2>6, MpvKeeps
<1>9. CASE HoldTimesOut
  <2>1. Forward(<<>>, cmds, reader) /\ mpv' = mpv /\ left' = left
    BY <1>9 DEF HoldTimesOut
  <2>2. Sound' /\ reader'.lastPath = reader.lastPath
    BY <1>0, <1>1, <1>q, <2>1, Announces, Zenon
  <2>. QED
    BY <1>0, <1>2, <2>1, <2>2, MpvKeeps
<1>. QED
  BY <1>3, <1>4, <1>5, <1>6, <1>7, <1>8, <1>9

\* What the user does at the player, and its death.
LEMMA UserStep ==
    ASSUME MpvInv, observed' = observed,
           \/ Press \/ Die
           \/ \E p \in Positions \ {LastPosition} : Scrubs(p)
           \/ \E f \in Paths : DragIn(f)
    PROVE  MpvInv'
<1>0. /\ mpv \in Mpv /\ reader \in Reader /\ events \in Seq(Event) /\ left \in [Budget -> Nat]
      /\ cmds \in Seq(Command) /\ Awaited(cmds, reader.seekQuery)
  BY DEF MpvInv, MpvTypeOK
<1>1. mpv.up
  BY DEF Press, Die, Scrubs, DragIn, MpvActs
<1>2. /\ reader.lastPath = None \/ mpv.path = None \/ reader.lastPath = mpv.path
      /\ mpv.loaded => mpv.path # None
      /\ Attributed(events, observed) /\ NoExit(events)
      /\ Up(events, observed, Len(events), reader.lastPath)
  BY <1>1 DEF MpvInv
<1>3. left' \in [Budget -> Nat]
  BY Spending DEF Press, Die, Scrubs, DragIn, Budget
<1>4. CASE Press
  <2>1. mpv' \in Mpv /\ mpv'.path = mpv.path /\ mpv'.loaded = mpv.loaded
    BY <1>0, <1>4, Zenon DEF Press, Mpv
  <2>2. SeesPause(~mpv.paused, "user", cmds) /\ (~mpv.paused) \in BOOLEAN /\ "user" \in Origins
    BY <1>4 DEF Press, Origins
  <2>3. Sound' /\ reader'.lastPath = reader.lastPath
    BY <1>0, <1>1, <2>2, AnnouncesPause, ZenonT(60)
  <2>. QED
    BY <1>2, <1>3, <2>1, <2>3, MpvKeeps
<1>5. ASSUME NEW p \in Positions \ {LastPosition}, Scrubs(p) PROVE MpvInv'
  <2>1. mpv' \in Mpv /\ mpv'.path = mpv.path /\ mpv'.loaded = mpv.loaded
    BY <1>0, <1>5, Zenon DEF Scrubs, Seeking, Mpv
  <2>2. reader' \in Reader /\ reader'.lastPath = reader.lastPath /\ reader'.seekQuery = reader.seekQuery
    BY <1>0, <1>5, ZenonT(60) DEF Scrubs, Seeking, Reader, Origins
  <2>3. Sound'
    BY <1>0, <1>2, <1>5, <2>2 DEF Scrubs, Sound
  <2>. QED
    BY <1>2, <1>3, <2>1, <2>2, <2>3, MpvKeeps
<1>6. ASSUME NEW f \in Paths, DragIn(f) PROVE MpvInv'
  <2>1. mpv' \in Mpv /\ mpv'.path = mpv.path /\ mpv'.loaded = mpv.loaded
    BY <1>0, <1>6, Zenon DEF DragIn, Mpv
  <2>2. Sound' /\ reader' = reader
    BY <1>0, <1>2, <1>6 DEF DragIn, Sound
  <2>. QED
    BY <1>2, <1>3, <2>1, <2>2, MpvKeeps
<1>7. CASE Die
  <2>1. mpv' \in Mpv /\ mpv'.up = FALSE /\ mpv'.loaded = FALSE
    BY <1>7, Ends DEF Die, NoMpv, Mpv
  <2>2. reader' \in Reader /\ cmds' = <<>> /\ events' = Append(events, Exited)
    BY <1>0, <1>7, ZenonT(60) DEF Die, Reader
  <2>3. Exited \in Event /\ Exited.event = "exited"
    BY DEF Exited, Event
  <2>4. events' \in Seq(Event) /\ cmds' \in Seq(Command)
    BY <1>0, <2>2, <2>3
  <2>5. Attributed(events', observed)
    <3>1. /\ Len(events') = Len(events) + 1 /\ Len(events) \in Nat
          /\ \A i \in 1..Len(events) : events'[i] = events[i]
          /\ events'[Len(events) + 1] = Exited
      BY <1>0, <2>2
    <3>2. ASSUME NEW j \in 1..Len(events'), events'[j].event \in OfKinds
          PROVE  j \in 1..Len(events)
      BY <2>3, <3>1, <3>2 DEF OfKinds
    <3>3. ASSUME NEW j \in 1..Len(events), NEW f, Up(events, observed, j - 1, f)
          PROVE  Up(events', observed, j - 1, f)
      BY <3>1, <3>3 DEF Up
    <3>. QED
      BY <1>2, <3>1, <3>2, <3>3 DEF Attributed
  <2>6. Awaited(cmds', reader'.seekQuery)
    BY <2>2 DEF Awaited
  <2>. QED
    BY <1>3, <2>1, <2>2, <2>4, <2>5, <2>6 DEF MpvInv, MpvTypeOK
<1>. QED
  BY <1>4, <1>5, <1>6, <1>7

\* Every step of mpv's keeps its invariant.
LEMMA MpvPreserves == MpvInv /\ MpvNext /\ observed' = observed => MpvInv'
<1>. SUFFICES ASSUME MpvInv, MpvNext, observed' = observed PROVE MpvInv'
  OBVIOUS
<1>. QED
  BY CommandRun, OwnStep, UserStep DEF MpvNext, MpvWorks

-----------------------------------------------------------------------------
(* The actor. *)

ActorTypes ==
    /\ current \in Files \cup {None} /\ observed \in Paths \cup {None} /\ eofReported \in BOOLEAN
    /\ desired \in BOOLEAN /\ believed \in BOOLEAN \cup {None} /\ pauseEchoes \in Seq(BOOLEAN)
    /\ seekEchoes \in Nat /\ userSeek \in Scrub \cup {None} /\ graceLock \in BOOLEAN
    /\ restore \in Positions \cup {None} /\ estimate \in Estimate \cup {None}
    /\ drift \in Controller /\ speed \in Slews
    /\ attach \in BOOLEAN /\ alive \in BOOLEAN /\ has \in BOOLEAN
    /\ launch \in {"none", "starting", "ready"} /\ failureExits \in BOOLEAN /\ reattach \in BOOLEAN
    /\ deaths \in 0..GiveUpCount /\ recent \in BOOLEAN
    /\ output \in Output

\* The same, by what changes together.
FileTypes == current \in Files \cup {None} /\ observed \in Paths \cup {None} /\ eofReported \in BOOLEAN
PauseTypes == desired \in BOOLEAN /\ believed \in BOOLEAN \cup {None} /\ pauseEchoes \in Seq(BOOLEAN)
SeekTypes ==
    /\ seekEchoes \in Nat /\ userSeek \in Scrub \cup {None} /\ graceLock \in BOOLEAN
    /\ restore \in Positions \cup {None} /\ estimate \in Estimate \cup {None}
DriftTypes == drift \in Controller /\ speed \in Slews
LifeTypes ==
    /\ attach \in BOOLEAN /\ alive \in BOOLEAN /\ has \in BOOLEAN
    /\ launch \in {"none", "starting", "ready"} /\ failureExits \in BOOLEAN /\ reattach \in BOOLEAN
    /\ deaths \in 0..GiveUpCount /\ recent \in BOOLEAN

\* There is a player, or a launch, or a wait for one, and then the crash
\* counter is below its limit; without a player no path has been observed.
Life ==
    /\ has => launch = "none" /\ ~reattach
    /\ launch # "none" => ~reattach
    /\ ~has => observed = None
    /\ has \/ launch # "none" \/ reattach => deaths < GiveUpCount

\* What the actor holds and tells of the file last commanded is of that file.
Held ==
    /\ estimate # None /\ current # None => estimate.of = current
    /\ userSeek # None => current # None /\ userSeek.of = current
Told == "of" \in DOMAIN output => output.of = output.file

PlayerInv == ActorTypes /\ MpvInv /\ Life /\ Held /\ Told /\ GraceHolds /\ NeverStranded

\* Commands other than the reader's own query.
Plain(cs) == cs \in Seq(Command) /\ \A i \in 1..Len(cs) : cs[i] # QueryPosition("seek")

\* Plain commands after plain commands are plain.
LEMMA PlainConcat == ASSUME NEW cs, NEW ds, Plain(cs), Plain(ds) PROVE Plain(cs \o ds)
<1>1. /\ cs \o ds \in Seq(Command) /\ Len(cs \o ds) = Len(cs) + Len(ds)
      /\ Len(cs) \in Nat /\ Len(ds) \in Nat
      /\ \A i \in 1..Len(cs) : (cs \o ds)[i] = cs[i]
      /\ \A i \in (Len(cs) + 1)..Len(cs \o ds) : i - Len(cs) \in 1..Len(ds) /\ (cs \o ds)[i] = ds[i - Len(cs)]
  BY DEF Plain
<1>2. ASSUME NEW i \in 1..Len(cs \o ds) PROVE (cs \o ds)[i] # QueryPosition("seek")
  <2>1. i \in 1..Len(cs) \/ i \in (Len(cs) + 1)..Len(cs \o ds)
    BY <1>1
  <2>. QED
    BY <1>1, <2>1 DEF Plain
<1>. QED
  BY <1>1, <1>2 DEF Plain

\* The actor's commands are plain.
LEMMA PlainCommands ==
    /\ Plain(<<>>)
    /\ \A f \in Files : Plain(LoadFile(f))
    /\ \A p \in Positions : Plain(SeekCommands(p))
    /\ \A w \in BOOLEAN : \A b : Plain(FlipCommands(w, b))
<1>1. ASSUME NEW c \in Command, c.do # "query" PROVE Plain(<<c>>)
  BY <1>1 DEF Plain, QueryPosition
<1>2. Plain(<<>>)
  BY DEF Plain
<1>3. \A w \in BOOLEAN : SetPause(w) \in Command /\ SetPause(w).do # "query"
  BY DEF SetPause, Command
<1>4. ASSUME NEW f \in Files PROVE Plain(LoadFile(f))
  <2>. DEFINE l == [do |-> "loadfile", path |-> f]
  <2>1. l \in Command /\ l.do # "query"
    BY DEF Command
  <2>. DEFINE s == SetPause(TRUE)
  <2>2. LoadFile(f) = <<s, l>> /\ s \in Command /\ s.do # "query"
    BY <1>3, Zenon DEF LoadFile
  <2>. HIDE DEF l, s
  <2>. QED
    BY <2>1, <2>2 DEF Plain, QueryPosition
<1>5. ASSUME NEW p \in Positions PROVE Plain(SeekCommands(p))
  <2>1. SeekTo(p) \in Command /\ SeekTo(p).do # "query"
    BY DEF SeekTo, Command
  <2>. QED
    BY <1>1, <1>2, <2>1 DEF SeekCommands
<1>6. ASSUME NEW w \in BOOLEAN, NEW b PROVE Plain(FlipCommands(w, b))
  <2>1. (~w) \in BOOLEAN
    OBVIOUS
  <2>. QED
    BY <1>1, <1>2, <1>3, <2>1, Zenon DEF FlipCommands
<1>. QED
  BY <1>2, <1>4, <1>5, <1>6

\* The actor sends commands, and takes an event or none.
LEMMA ActorKeeps ==
    ASSUME MpvInv, mpv' = mpv, left' \in [Budget -> Nat],
           NEW cs, Plain(cs), cmds' = cmds \o cs,
           reader' = reader \/ reader' = [reader EXCEPT !.loading = TRUE],
           \/ events' = events /\ observed' = observed
           \/ /\ events # <<>> /\ events' = Tail(events)
              /\ observed' = ObservedNext(events, observed)
    PROVE  MpvInv'
<1>0. /\ mpv \in Mpv /\ reader \in Reader /\ events \in Seq(Event) /\ cmds \in Seq(Command)
      /\ Attributed(events, observed) /\ Awaited(cmds, reader.seekQuery)
      /\ mpv.loaded => mpv.path # None
  BY DEF MpvInv, MpvTypeOK
<1>1. /\ reader' \in Reader /\ reader'.lastPath = reader.lastPath /\ reader'.seekQuery = reader.seekQuery
  BY <1>0, Zenon DEF Reader
<1>2. cmds' \in Seq(Command) /\ Awaited(cmds', reader'.seekQuery)
  <2>1. /\ cs \in Seq(Command) /\ cmds' \in Seq(Command) /\ Len(cmds') = Len(cmds) + Len(cs)
        /\ Len(cs) \in Nat /\ Len(cmds) \in Nat
        /\ \A i \in 1..Len(cmds) : cmds'[i] = cmds[i]
        /\ \A i \in (Len(cmds) + 1)..Len(cmds') : i - Len(cmds) \in 1..Len(cs) /\ cmds'[i] = cs[i - Len(cmds)]
    BY <1>0 DEF Plain
  <2>2. \A i \in 1..Len(cmds') : i \in 1..Len(cmds) \/ i \in (Len(cmds) + 1)..Len(cmds')
    BY <2>1
  <2>. QED
    BY <1>0, <1>1, <2>1, <2>2 DEF Awaited, Plain
<1>3. /\ events' \in Seq(Event) /\ Attributed(events', observed')
      /\ NoExit(events) => NoExit(events')
      /\ \A f : Up(events, observed, Len(events), f) => Up(events', observed', Len(events'), f)
  <2>1. CASE events' = events /\ observed' = observed
    BY <1>0, <2>1
  <2>2. CASE /\ events # <<>> /\ events' = Tail(events)
             /\ observed' = ObservedNext(events, observed)
    BY <1>0, <2>2, TakenEvent
  <2>. QED
    BY <2>1, <2>2
<1>. QED
  BY <1>0, <1>1, <1>2, <1>3 DEF MpvInv, MpvTypeOK

\* What the handlers compute.
LEMMA HandlerTypes ==
    ASSUME ActorTypes
    PROVE  /\ \A w \in BOOLEAN, b \in BOOLEAN \cup {None} : BelievedAfter(w, b) \in BOOLEAN \cup {None}
           /\ \A w \in BOOLEAN, b \in BOOLEAN \cup {None}, s \in Seq(BOOLEAN) :
                  EchoesAfter(w, b, s) \in Seq(BOOLEAN)
           /\ \A n \in Nat : SeekEchoesAfter(n) \in Nat
           /\ \A s \in Slews : SpeedAfter(s) \in Slews
           /\ Normal \in Slews /\ IdleController \in Controller
<1>1. \A w \in BOOLEAN : (~w) \in BOOLEAN
  OBVIOUS
<1>2. Normal \in Slews /\ IdleController \in Controller
  <2>1. Normal \in Slews /\ 0 \in 0..(EngageRun - 1) /\ 0 \in 0..RecommandSamples
    BY DriftBands DEF Normal, Slews
  <2>. QED
    BY <2>1 DEF IdleController, Controller
<1>3. \A w \in BOOLEAN, b \in BOOLEAN \cup {None} : BelievedAfter(w, b) \in BOOLEAN \cup {None}
  BY <1>1 DEF BelievedAfter
<1>4. \A w \in BOOLEAN, b \in BOOLEAN \cup {None}, s \in Seq(BOOLEAN) : EchoesAfter(w, b, s) \in Seq(BOOLEAN)
  <2>1. \A x \in BOOLEAN, s \in Seq(BOOLEAN) : Append(s, x) \in Seq(BOOLEAN)
    OBVIOUS
  <2>. QED
    BY <1>1, <2>1, Zenon DEF EchoesAfter
<1>5. \A n \in Nat : SeekEchoesAfter(n) \in Nat
  BY DEF SeekEchoesAfter
<1>6. \A s \in Slews : SpeedAfter(s) \in Slews
  BY DEF SpeedAfter, ActorTypes
<1>. QED
  BY <1>2, <1>3, <1>4, <1>5, <1>6

\* A programmatic seek moves the estimate and keeps its file.
LEMMA EstimateMoves ==
    ASSUME ActorTypes, NEW p \in Positions, NEW est \in Estimate \cup {None},
           current # None \/ est \in Estimate, est # None /\ current # None => est.of = current
    PROVE  /\ EstimateAfter(p, est) \in Estimate \cup {None}
           /\ EstimateAfter(p, est) # None /\ current # None => EstimateAfter(p, est).of = current
  BY DEF EstimateAfter, Estimate, ActorTypes, Paths

\* The controller's answer to a sample.
LEMMA ObserveType ==
    ASSUME NEW d \in Controller, NEW delta \in Int
    PROVE  Observe(d, delta).controller \in Controller /\ Observe(d, delta).speed \in Slews
<1>0. 0 \in 0..(EngageRun - 1) /\ 0 \in 0..RecommandSamples
  BY DriftBands
<1>1. Clamped(delta) \in Slews /\ Normal \in Slews
  BY DriftBands DEF Clamped, Slews, Normal
<1>2. IdleController \in Controller
  BY <1>0, <1>1 DEF IdleController, Controller
<1>3. \A c \in Controller : Keep(c).controller \in Controller /\ Keep(c).speed \in Slews
  BY <1>1 DEF Keep
<1>4. \A c \in Controller, s \in Slews : SetSpeed(c, s).controller \in Controller /\ SetSpeed(c, s).speed \in Slews
  BY <1>0, Zenon DEF SetSpeed, Controller
<1>5. HardSeek.controller \in Controller /\ HardSeek.speed \in Slews
  BY <1>1, <1>2 DEF HardSeek
<1>6. ASSUME NEW c \in Controller
      PROVE  Correct(c, delta).controller \in Controller /\ Correct(c, delta).speed \in Slews
  <2>1. [c EXCEPT !.engageRun = 0] \in Controller
    BY <1>0 DEF Controller
  <2>. QED
    BY <1>1, <1>3, <1>4, <2>1 DEF Correct
<1>. DEFINE c == [d EXCEPT !.since = IF @ < RecommandSamples THEN @ + 1 ELSE @]
            e == [c EXCEPT !.seekRun = 0]
<1>7. c \in Controller
  <2>1. d.since < RecommandSamples => d.since + 1 \in 0..RecommandSamples
    BY DriftBands DEF Controller
  <2>. QED
    BY <2>1 DEF Controller
<1>8. /\ e \in Controller /\ [e EXCEPT !.engageRun = 0] \in Controller
      /\ e.engageRun = c.engageRun
  BY <1>0, <1>7, Zenon DEF Controller
<1>9. ~(c.seekRun + 1 >= EngageRun) => [c EXCEPT !.seekRun = @ + 1] \in Controller
  <2>. HIDE DEF c
  <2>1. ~(c.seekRun + 1 >= EngageRun) => c.seekRun + 1 \in 0..(EngageRun - 1)
    BY <1>7, DriftBands DEF Controller
  <2>. QED
    BY <1>7, <2>1 DEF Controller
<1>10. c.engageRun + 1 < EngageRun => [e EXCEPT !.engageRun = @ + 1] \in Controller
  <2>. HIDE DEF c, e
  <2>1. c.engageRun + 1 < EngageRun => e.engageRun + 1 \in 0..(EngageRun - 1)
    BY <1>7, <1>8, DriftBands DEF Controller
  <2>. QED
    BY <1>8, <2>1 DEF Controller
<1>. HIDE DEF c, e
<1>11. \/ Observe(d, delta) = HardSeek
       \/ ~(c.seekRun + 1 >= EngageRun) /\ Observe(d, delta) = Keep([c EXCEPT !.seekRun = @ + 1])
       \/ Observe(d, delta) = Keep([e EXCEPT !.engageRun = 0])
       \/ c.engageRun + 1 < EngageRun /\ Observe(d, delta) = Keep([e EXCEPT !.engageRun = @ + 1])
       \/ Observe(d, delta) = Correct(e, delta)
  BY DEF Observe, c, e
<1>. QED
  BY <1>3, <1>5, <1>6, <1>8, <1>9, <1>10, <1>11

\* An output that tells nothing of one file as of another.
Honest(o) == o \in Output /\ ("of" \in DOMAIN o => o.of = o.file)

\* What the actor says is honest.
LEMMA Sayings ==
    /\ \A w \in {"nothing", "FatalCrash", "GaveUp", "LoadFailed", "GraceRefused", "PathObserved"} : Honest(Say(w))
    /\ \A w \in {"UserPaused", "UserUnpaused"}, b \in Origins : Honest(SayBy(w, b))
    /\ \A w \in {"DurationKnown", "Eof", "UserSeeked"}, f \in Files : Honest(SayOf(w, f, f))
    /\ Honest(Silent)
<1>1. \A w \in {"nothing", "FatalCrash", "GaveUp", "LoadFailed", "GraceRefused", "PathObserved"} : Honest(Say(w))
  BY DEF Honest, Say, Output
<1>2. \A w \in {"UserPaused", "UserUnpaused"}, b \in Origins : Honest(SayBy(w, b))
  BY DEF Honest, SayBy, Output
<1>3. \A w \in {"DurationKnown", "Eof", "UserSeeked"}, f \in Files : Honest(SayOf(w, f, f))
  BY DEF Honest, SayOf, Output, Paths
<1>. QED
  BY <1>1, <1>2, <1>3 DEF Silent

\* A handler keeps the types when it keeps those of each group it changes.
LEMMA TypesByGroup ==
    ASSUME ActorTypes, Honest(output'),
           FileTypes' \/ UNCHANGED fileVars, PauseTypes' \/ UNCHANGED pauseVars,
           SeekTypes' \/ UNCHANGED seekVars, DriftTypes' \/ UNCHANGED driftVars,
           LifeTypes' \/ UNCHANGED lifeVars
    PROVE  ActorTypes'
<1>1. FileTypes'
  BY Zenon DEF ActorTypes, FileTypes, fileVars
<1>2. PauseTypes'
  BY Zenon DEF ActorTypes, PauseTypes, pauseVars
<1>3. SeekTypes'
  BY Zenon DEF ActorTypes, SeekTypes, seekVars
<1>4. DriftTypes'
  BY Zenon DEF ActorTypes, DriftTypes, driftVars
<1>5. LifeTypes'
  BY ZenonT(60) DEF ActorTypes, LifeTypes, lifeVars
<1>6. output' \in Output
  BY DEF Honest
<1>. QED
  BY <1>1, <1>2, <1>3, <1>4, <1>5, <1>6, Zenon
     DEF ActorTypes, FileTypes, PauseTypes, SeekTypes, DriftTypes, LifeTypes

\* No commands are sent.
LEMMA NothingSent == ASSUME MpvInv, cmds' = cmds PROVE cmds' = cmds \o <<>>
<1>1. cmds \in Seq(Command)
  BY DEF MpvInv, MpvTypeOK
<1>. QED
  BY <1>1

\* Handlers that leave the player's life alone.
LEMMA LifeKept ==
    ASSUME Life, NeverStranded, UNCHANGED lifeVars, observed' = observed \/ has
    PROVE  Life' /\ NeverStranded'
  BY DEF Life, NeverStranded, lifeVars

\* Loading a file keeps the invariant.
LEMMA LoadPreserves ==
    ASSUME PlayerInv, NEW f \in Files, NEW resume \in ResumePoints \cup {None}, Load(f, resume)
    PROVE  PlayerInv'
<1>i. ActorTypes /\ MpvInv /\ Life /\ Held /\ GraceHolds /\ NeverStranded
  BY DEF PlayerInv
<1>. USE <1>i
<1>1. MpvInv'
  <2>1. left' \in [Budget -> Nat]
    BY Spending DEF Load, Budget
  <2>2. mpv' = mpv /\ events' = events /\ observed' = observed
    BY DEF Load
  <2>3. CASE has /\ mpv.up
    BY <2>1, <2>2, <2>3, PlainCommands, ActorKeeps, Zenon DEF Load, SendLoad
  <2>4. CASE ~(has /\ mpv.up)
    <3>1. cmds' = cmds \o <<>>
      BY <2>4, NothingSent, ZenonT(60) DEF Load, SendLoad
    <3>. QED
      BY <2>1, <2>2, <3>1, PlainCommands, ActorKeeps, Zenon DEF Load, SendLoad
  <2>. QED
    BY <2>3, <2>4
<1>2. Honest(output')
  BY Sayings DEF Load
<1>3. ActorTypes'
  <2>1. resume \in Positions \cup {None} /\ 0 \in 0..GiveUpCount
    BY PlayerAssumption
  <2>2. <<>> \in Seq(BOOLEAN) /\ 0 \in Nat
    OBVIOUS
  <2>3. FileTypes'
    BY Zenon DEF Load, FileTypes, ActorTypes
  <2>4. PauseTypes'
    BY <2>2, Zenon DEF Load, PauseTypes, ActorTypes
  <2>5. SeekTypes'
    BY <2>1, <2>2, Zenon DEF Load, SeekTypes, ActorTypes
  <2>6. DriftTypes'
    BY HandlerTypes, Zenon DEF Load, DriftTypes, ActorTypes
  <2>7. LifeTypes'
    BY <2>1, ZenonT(60) DEF Load, LifeTypes, ActorTypes
  <2>. QED
    BY <1>2, <2>3, <2>4, <2>5, <2>6, <2>7, TypesByGroup, ZenonT(60)
<1>4. Life' /\ NeverStranded'
  BY PlayerAssumption DEF Load, Life, NeverStranded, ActorTypes
<1>5. Held' /\ GraceHolds'
  BY DEF Load, Held, GraceHolds
<1>. QED
  BY <1>1, <1>2, <1>3, <1>4, <1>5 DEF PlayerInv, Told, Honest

\* So does setting the play state.
LEMMA PlayPreserves ==
    ASSUME PlayerInv, NEW b \in BOOLEAN, Play(b), left' \in [Budget -> Nat]
    PROVE  PlayerInv'
<1>i. ActorTypes /\ MpvInv /\ Life /\ Held /\ GraceHolds /\ NeverStranded
  BY DEF PlayerInv
<1>. USE <1>i
<1>1. MpvInv'
  BY PlainCommands, ActorKeeps DEF Play, fileVars
<1>2. Honest(output')
  BY Sayings DEF Play
<1>3. ActorTypes'
  <2>1. PauseTypes'
    BY HandlerTypes, ZenonT(60) DEF Play, PauseTypes, ActorTypes
  <2>. QED
    BY <1>2, <2>1, TypesByGroup, Zenon DEF Play
<1>4. Life' /\ NeverStranded'
  BY LifeKept DEF Play, fileVars
<1>5. Held' /\ GraceHolds'
  BY DEF Play, Held, GraceHolds, fileVars, seekVars
<1>. QED
  BY <1>1, <1>2, <1>3, <1>4, <1>5 DEF PlayerInv, Told, Honest

\* So does the grace lock, which drops the scrub.
LEMMA SetGraceLockPreserves ==
    ASSUME PlayerInv, NEW b \in BOOLEAN, SetGraceLock(b)
    PROVE  PlayerInv'
<1>i. ActorTypes /\ MpvInv /\ Life /\ Held /\ GraceHolds /\ NeverStranded
  BY DEF PlayerInv
<1>. USE <1>i
<1>. DEFINE undo == b /\ ~graceLock /\ userSeek # None
<1>0. undo => userSeek.from \in Positions /\ current # None
  BY DEF ActorTypes, Scrub, Held
<1>1. MpvInv'
  <2>1. left' \in [Budget -> Nat] /\ mpv' = mpv /\ events' = events /\ observed' = observed /\ reader' = reader
    BY Spending DEF SetGraceLock, Budget, fileVars
  <2>2. CASE undo
    BY <1>0, <2>1, <2>2, PlainCommands, ActorKeeps DEF SetGraceLock
  <2>3. CASE ~undo
    <3>1. cmds' = cmds \o <<>>
      BY <2>3, NothingSent, ZenonT(60) DEF SetGraceLock
    <3>. QED
      BY <2>1, <3>1, PlainCommands, ActorKeeps, Zenon
  <2>. QED
    BY <2>2, <2>3
<1>2. Honest(output')
  BY Sayings DEF SetGraceLock
<1>3. /\ estimate' \in Estimate \cup {None}
      /\ estimate' # None /\ current # None => estimate'.of = current
  <2>1. CASE undo
    BY <1>0, <2>1, EstimateMoves, Zenon DEF SetGraceLock, ActorTypes, Held
  <2>2. CASE ~undo
    BY <2>2, Zenon DEF SetGraceLock, ActorTypes, Held
  <2>. QED
    BY <2>1, <2>2
<1>4. ActorTypes'
  <2>1. SeekTypes'
    BY <1>3, HandlerTypes, ZenonT(60) DEF SetGraceLock, SeekTypes, ActorTypes
  <2>. QED
    BY <1>2, <2>1, TypesByGroup, Zenon DEF SetGraceLock
<1>5. Life' /\ NeverStranded'
  BY LifeKept DEF SetGraceLock, fileVars
<1>6. Held' /\ GraceHolds'
  BY <1>3, ZenonT(60) DEF SetGraceLock, Held, GraceHolds, fileVars, ActorTypes
<1>. QED
  BY <1>1, <1>2, <1>4, <1>5, <1>6 DEF PlayerInv, Told, Honest

\* So does a sync to the session position, by seek or by slew.
LEMMA SyncToPreserves ==
    ASSUME PlayerInv, NEW delta \in Deltas, NEW target \in ResumePoints, SyncTo(delta, target)
    PROVE  PlayerInv'
<1>i. ActorTypes /\ MpvInv /\ Life /\ Held /\ GraceHolds /\ NeverStranded
  BY DEF PlayerInv
<1>. USE <1>i
<1>. DEFINE heeds == OnCurrentFile /\ userSeek = None /\ estimate # None
            seen == Observe(drift, delta)
            seeks == heeds /\ seen.action = "seek"
<1>0. target \in Positions /\ delta \in Int
  BY PlayerAssumption
<1>1. seen.controller \in Controller /\ seen.speed \in Slews
  BY <1>0, ObserveType DEF ActorTypes
<1>2. /\ drift' = (IF ~OnCurrentFile THEN IdleController ELSE IF heeds THEN seen.controller ELSE drift)
      /\ speed' = (IF heeds /\ seen.action # "none" THEN SpeedAfter(seen.speed) ELSE speed)
      /\ cmds' = (IF seeks THEN cmds \o SeekCommands(target) ELSE cmds)
      /\ seekEchoes' = (IF seeks THEN SeekEchoesAfter(seekEchoes) ELSE seekEchoes)
      /\ estimate' = (IF seeks THEN EstimateAfter(target, estimate) ELSE estimate)
      /\ output' = Silent
      /\ UNCHANGED <<mpv, reader, events, fileVars, pauseVars, userSeek, graceLock, restore, lifeVars>>
  BY DEF SyncTo
<1>3. seeks => current # None
  BY DEF OnCurrentFile
<1>. HIDE DEF seen, seeks, heeds
<1>4. MpvInv'
  <2>1. left' \in [Budget -> Nat] /\ mpv' = mpv /\ events' = events /\ observed' = observed /\ reader' = reader
    BY <1>2, Spending DEF SyncTo, Budget, fileVars
  <2>2. CASE seeks
    BY <1>0, <1>2, <2>1, <2>2, PlainCommands, ActorKeeps, Zenon
  <2>3. CASE ~seeks
    <3>1. cmds' = cmds \o <<>>
      BY <1>2, <2>3, NothingSent, ZenonT(60)
    <3>. QED
      BY <2>1, <3>1, PlainCommands, ActorKeeps, Zenon
  <2>. QED
    BY <2>2, <2>3, ZenonT(60)
<1>5. Honest(output')
  BY <1>2, Sayings
<1>6. /\ estimate' \in Estimate \cup {None}
      /\ estimate' # None /\ current # None => estimate'.of = current
  <2>1. CASE seeks
    BY <1>0, <1>2, <1>3, <2>1, EstimateMoves, ZenonT(60) DEF ActorTypes, Held
  <2>2. CASE ~seeks
    BY <1>2, <2>2, Zenon DEF ActorTypes, Held
  <2>. QED
    BY <2>1, <2>2, Zenon
<1>7. drift' \in Controller /\ speed' \in Slews /\ seekEchoes' \in Nat
  BY <1>1, <1>2, HandlerTypes, Zenon DEF ActorTypes
<1>8. ActorTypes'
  <2>1. SeekTypes'
    BY <1>2, <1>6, <1>7, Zenon DEF SeekTypes, ActorTypes
  <2>2. DriftTypes'
    BY <1>7 DEF DriftTypes
  <2>. QED
    BY <1>2, <1>5, <2>1, <2>2, TypesByGroup, Zenon
<1>9. Life' /\ NeverStranded'
  BY <1>2, LifeKept DEF fileVars
<1>10. Held' /\ GraceHolds'
  BY <1>2, <1>6 DEF Held, GraceHolds, fileVars
<1>. QED
  BY <1>4, <1>5, <1>8, <1>9, <1>10 DEF PlayerInv, Told, Honest

\* So does the release of the slew.
LEMMA ReleaseSlewPreserves == ASSUME PlayerInv, ReleaseSlew PROVE PlayerInv'
<1>i. ActorTypes /\ MpvInv /\ Life /\ Held /\ GraceHolds /\ NeverStranded
  BY DEF PlayerInv
<1>. USE <1>i
<1>1. MpvInv'
  <2>1. left' \in [Budget -> Nat] /\ cmds' = cmds \o <<>>
    BY Spending, NothingSent DEF ReleaseSlew, Budget, mpvVars
  <2>. QED
    BY <2>1, PlainCommands, ActorKeeps, ZenonT(60) DEF ReleaseSlew, mpvVars, fileVars
<1>2. Honest(output')
  BY Sayings, Zenon DEF ReleaseSlew
<1>3. ActorTypes'
  <2>1. DriftTypes'
    BY HandlerTypes, ZenonT(60) DEF ReleaseSlew, DriftTypes
  <2>. QED
    BY <1>2, <2>1, TypesByGroup, Zenon DEF ReleaseSlew
<1>4. Life' /\ NeverStranded'
  BY LifeKept DEF ReleaseSlew, fileVars
<1>5. Held' /\ GraceHolds'
  BY Zenon DEF ReleaseSlew, Held, GraceHolds, fileVars, seekVars
<1>. QED
  BY <1>1, <1>2, <1>3, <1>4, <1>5, ZenonT(60) DEF PlayerInv, Told, Honest

\* So does the recovery from a false end of file.
LEMMA RecoverPreserves ==
    ASSUME PlayerInv, NEW to \in ResumePoints \cup {None}, RecoverFalseEof(to)
    PROVE  PlayerInv'
<1>i. ActorTypes /\ MpvInv /\ Life /\ Held /\ GraceHolds /\ NeverStranded
  BY DEF PlayerInv
<1>. USE <1>i
<1>0. to # None => to \in Positions
  BY PlayerAssumption
<1>1. MpvInv'
  <2>1. left' \in [Budget -> Nat] /\ mpv' = mpv /\ events' = events /\ observed' = observed /\ reader' = reader
    BY Spending DEF RecoverFalseEof, Budget
  <2>2. CASE to # None
    BY <1>0, <2>1, <2>2, PlainCommands, ActorKeeps, Zenon DEF RecoverFalseEof
  <2>3. CASE to = None
    <3>1. cmds' = cmds \o <<>>
      BY <2>3, NothingSent, ZenonT(60) DEF RecoverFalseEof
    <3>. QED
      BY <2>1, <3>1, PlainCommands, ActorKeeps, Zenon
  <2>. QED
    BY <2>2, <2>3
<1>2. Honest(output')
  BY Sayings DEF RecoverFalseEof
<1>3. /\ estimate' \in Estimate \cup {None}
      /\ estimate' # None /\ current # None => estimate'.of = current
  <2>1. CASE to # None
    BY <1>0, <2>1, EstimateMoves, Zenon DEF RecoverFalseEof, ActorTypes, Held
  <2>2. CASE to = None
    BY <2>2, Zenon DEF RecoverFalseEof, ActorTypes, Held
  <2>. QED
    BY <2>1, <2>2, Zenon
<1>4. ActorTypes'
  <2>1. FileTypes'
    BY Zenon DEF RecoverFalseEof, FileTypes, ActorTypes
  <2>2. SeekTypes'
    BY <1>3, HandlerTypes, ZenonT(60) DEF RecoverFalseEof, SeekTypes, ActorTypes
  <2>. QED
    BY <1>2, <2>1, <2>2, TypesByGroup, Zenon DEF RecoverFalseEof
<1>5. Life' /\ NeverStranded'
  BY LifeKept DEF RecoverFalseEof
<1>6. Held' /\ GraceHolds'
  BY <1>3 DEF RecoverFalseEof, Held, GraceHolds
<1>. QED
  BY <1>1, <1>2, <1>4, <1>5, <1>6, ZenonT(60) DEF PlayerInv, Told, Honest

\* So does the shutdown, after which there is no player.
LEMMA ShutdownPreserves == ASSUME PlayerInv, Shutdown PROVE PlayerInv'
<1>i. ActorTypes /\ MpvInv /\ Life /\ Held /\ GraceHolds /\ NeverStranded
  BY DEF PlayerInv
<1>. USE <1>i
<1>1. MpvInv'
  <2>1. left' \in [Budget -> Nat]
    BY Spending, ZenonT(60) DEF Shutdown, Budget
  <2>2. mpv' \in Mpv /\ (mpv' = mpv \/ mpv' = NoMpv)
    BY Ends DEF Shutdown, MpvInv, MpvTypeOK, NoMpv, Mpv
  <2>3. NoMpv.up = FALSE /\ NoMpv.loaded = FALSE
    BY DEF NoMpv
  <2>4. UNCHANGED <<cmds, reader, events, observed>>
    BY DEF Shutdown, fileVars
  <2>. QED
    BY <2>1, <2>2, <2>3, <2>4, ZenonT(60) DEF MpvInv, MpvTypeOK
<1>2. Honest(output')
  BY Sayings DEF Shutdown
<1>3. ActorTypes'
  <2>1. LifeTypes'
    BY ZenonT(60) DEF Shutdown, LifeTypes, ActorTypes
  <2>. QED
    BY <1>2, <2>1, TypesByGroup, Zenon DEF Shutdown
<1>4. Life' /\ NeverStranded'
  BY DEF Shutdown, Life, NeverStranded, fileVars
<1>5. Held' /\ GraceHolds'
  BY DEF Shutdown, Held, GraceHolds, fileVars, seekVars
<1>. QED
  BY <1>1, <1>2, <1>3, <1>4, <1>5 DEF PlayerInv, Told, Honest

\* An event that the actor takes: if it speaks of a file and the commanded file
\* is observed, then it speaks of that.
LEMMA Taken ==
    ASSUME PlayerInv, NEW what, Takes(what)
    PROVE  /\ has /\ events # <<>> /\ events' = Tail(events)
           /\ Head(events) \in Event /\ Head(events).event = what
           /\ OnCurrentFile => current \in Files
           /\ what \in OfKinds /\ OnCurrentFile => Head(events).of = current
  BY TakenEvent DEF PlayerInv, MpvInv, MpvTypeOK, Takes, OnCurrentFile, ActorTypes

\* Taking one, and sending commands.
LEMMA TakesAndSends ==
    ASSUME PlayerInv, NEW what, Takes(what), what # "path", observed' = observed, NEW cs, Plain(cs), Commands(cs)
    PROVE  MpvInv'
  BY Taken, ActorKeeps, ZenonT(60) DEF PlayerInv, MpvInv, MpvTypeOK, Commands, ObservedNext

\* Taking one, and sending nothing.
LEMMA TakesMutely ==
    ASSUME PlayerInv, NEW what, Takes(what), what # "path", observed' = observed, Mute
    PROVE  MpvInv'
<1>1. Commands(<<>>)
  BY DEF Mute, Commands, PlayerInv, MpvInv, MpvTypeOK
<1>. QED
  BY <1>1, PlainCommands, TakesAndSends

\* A pause, the user's or the echo of a command, keeps the invariant.
LEMMA OnPausePreserves == ASSUME PlayerInv, OnPause PROVE PlayerInv'
<1>i. ActorTypes /\ MpvInv /\ Life /\ Held /\ GraceHolds /\ NeverStranded
  BY DEF PlayerInv
<1>. USE <1>i
<1>. DEFINE e == Head(events)
            echo == pauseEchoes # <<>> /\ Head(pauseEchoes) = e.paused
            refused == ~echo /\ e.paused /\ graceLock /\ desired
<1>0. /\ Takes("pause")
      /\ believed' = (IF refused THEN BelievedAfter(desired, e.paused) ELSE e.paused)
      /\ pauseEchoes' = (IF echo THEN Tail(pauseEchoes)
                         ELSE IF refused THEN EchoesAfter(desired, e.paused, <<>>) ELSE <<>>)
      /\ Commands(IF refused THEN FlipCommands(desired, e.paused) ELSE <<>>)
      /\ output' = (IF echo THEN Silent ELSE IF refused THEN Say("GraceRefused")
                    ELSE SayBy(IF e.paused THEN "UserPaused" ELSE "UserUnpaused", e.by))
      /\ UNCHANGED <<desired, fileVars, seekVars, driftVars, lifeVars>>
  BY Zenon DEF OnPause
<1>1. e \in Event /\ e.event = "pause"
  BY <1>0, Taken, ZenonT(60)
<1>2. e.paused \in BOOLEAN /\ e.by \in Origins
  BY <1>1 DEF Event
<1>3. echo => Tail(pauseEchoes) \in Seq(BOOLEAN)
  BY DEF ActorTypes
<1>. HIDE DEF e, echo, refused
<1>4. MpvInv'
  <2>1. Plain(IF refused THEN FlipCommands(desired, e.paused) ELSE <<>>)
    BY PlainCommands DEF ActorTypes
  <2>. QED
    BY <1>0, <2>1, TakesAndSends DEF fileVars
<1>5. Honest(output')
  BY <1>0, <1>2, Sayings, Zenon
<1>6. believed' \in BOOLEAN \cup {None}
  BY <1>0, <1>2, HandlerTypes, Zenon DEF ActorTypes
<1>7. pauseEchoes' \in Seq(BOOLEAN)
  <2>1. <<>> \in Seq(BOOLEAN)
    OBVIOUS
  <2>. QED
    BY <1>0, <1>2, <1>3, <2>1, HandlerTypes, ZenonT(60) DEF ActorTypes
<1>8. ActorTypes'
  <2>1. PauseTypes'
    BY <1>0, <1>6, <1>7, ZenonT(60) DEF PauseTypes, ActorTypes
  <2>. QED
    BY <1>0, <1>5, <2>1, TypesByGroup, Zenon
<1>9. Life' /\ NeverStranded'
  BY <1>0, LifeKept DEF fileVars
<1>10. Held' /\ GraceHolds'
  BY <1>0, ZenonT(60) DEF Held, GraceHolds, fileVars, seekVars
<1>. QED
  BY <1>4, <1>5, <1>8, <1>9, <1>10 DEF PlayerInv, Told, Honest

\* So does a seek, the user's or an echo.
LEMMA OnSeekedPreserves == ASSUME PlayerInv, OnSeeked PROVE PlayerInv'
<1>i. ActorTypes /\ MpvInv /\ Life /\ Held /\ GraceHolds /\ NeverStranded
  BY DEF PlayerInv
<1>. USE <1>i
<1>. DEFINE e == Head(events)
            echo == seekEchoes > 0
            echoes == IF echo THEN seekEchoes - 1 ELSE 0
            user == OnCurrentFile /\ ~echo
            from == IF userSeek # None THEN userSeek.from ELSE IF estimate # None THEN estimate.at ELSE e.at
            refused == user /\ graceLock
            here == [at |-> e.at, of |-> e.of]
            scrub == [from |-> from, to |-> e.at, of |-> e.of, by |-> e.by]
<1>0. /\ Takes("seeked")
      /\ eofReported' = (eofReported /\ ~OnCurrentFile)
      /\ seekEchoes' = (IF refused THEN SeekEchoesAfter(echoes) ELSE echoes)
      /\ estimate' = (IF ~OnCurrentFile THEN estimate ELSE IF refused THEN EstimateAfter(from, here) ELSE here)
      /\ userSeek' = (IF user /\ ~refused THEN scrub ELSE userSeek)
      /\ Commands(IF refused THEN SeekCommands(from) ELSE <<>>)
      /\ output' = (IF refused THEN Say("GraceRefused") ELSE Silent)
      /\ UNCHANGED <<current, observed, pauseVars, graceLock, restore, driftVars, lifeVars>>
  BY ZenonT(60) DEF OnSeeked
<1>1. /\ e \in Event /\ e.event = "seeked"
      /\ OnCurrentFile => e.of = current /\ current \in Files /\ current # None
  BY <1>0, Taken DEF OfKinds, OnCurrentFile
<1>2. e.at \in Positions /\ e.of \in Paths /\ e.by \in Origins
  BY <1>1, Zenon DEF Event
<1>3. from \in Positions
  BY <1>2, Zenon DEF ActorTypes, Scrub, Estimate
<1>4. echoes \in Nat
  <2>1. seekEchoes \in Nat
    BY Zenon DEF ActorTypes
  <2>. HIDE <1>i
  <2>. QED
    BY <2>1
<1>5. here \in Estimate /\ here.of = e.of /\ scrub \in Scrub /\ scrub.of = e.of
  BY <1>2, <1>3, ZenonT(60) DEF Estimate, Scrub
<1>. HIDE DEF e, echo, echoes, from, here, scrub
<1>6. MpvInv'
  <2>1. Plain(IF refused THEN SeekCommands(from) ELSE <<>>)
    BY <1>3, PlainCommands
  <2>. QED
    BY <1>0, <2>1, TakesAndSends
<1>7. Honest(output')
  BY <1>0, Sayings
<1>8. /\ estimate' \in Estimate \cup {None}
      /\ estimate' # None /\ current # None => estimate'.of = current
  <2>1. CASE ~OnCurrentFile
    BY <1>0, <2>1, Zenon DEF ActorTypes, Held
  <2>2. CASE OnCurrentFile /\ ~refused
    BY <1>0, <1>1, <1>5, <2>2, Zenon
  <2>3. CASE OnCurrentFile /\ refused
    BY <1>0, <1>1, <1>3, <1>5, <2>3, EstimateMoves, ZenonT(60)
  <2>. QED
    BY <2>1, <2>2, <2>3, Zenon
<1>9. /\ userSeek' \in Scrub \cup {None}
      /\ userSeek' # None => current # None /\ userSeek'.of = current
      /\ graceLock => userSeek' = None
  BY <1>0, <1>1, <1>5, Zenon DEF ActorTypes, Held, GraceHolds
<1>10. seekEchoes' \in Nat /\ eofReported' \in BOOLEAN
  BY <1>0, <1>4, HandlerTypes, Zenon DEF ActorTypes
<1>11. ActorTypes'
  <2>1. FileTypes'
    BY <1>0, <1>10, Zenon DEF FileTypes, ActorTypes
  <2>2. SeekTypes'
    BY <1>0, <1>8, <1>9, <1>10, ZenonT(60) DEF SeekTypes, ActorTypes
  <2>. QED
    BY <1>0, <1>7, <2>1, <2>2, TypesByGroup, ZenonT(60)
<1>12. Life' /\ NeverStranded'
  BY <1>0, LifeKept
<1>13. Held' /\ GraceHolds'
  BY <1>0, <1>8, <1>9, ZenonT(60) DEF Held, GraceHolds
<1>. QED
  BY <1>6, <1>7, <1>11, <1>12, <1>13 DEF PlayerInv, Told, Honest

\* So does a position.
LEMMA OnPositionPreserves == ASSUME PlayerInv, OnPosition PROVE PlayerInv'
<1>i. ActorTypes /\ MpvInv /\ Life /\ Held /\ GraceHolds /\ NeverStranded
  BY DEF PlayerInv
<1>. USE <1>i
<1>. DEFINE e == Head(events)
            here == [at |-> e.at, of |-> e.of]
<1>0. /\ Takes("position") /\ Mute /\ output' = Silent
      /\ estimate' = (IF OnCurrentFile THEN here ELSE estimate)
      /\ UNCHANGED <<fileVars, pauseVars, seekEchoes, userSeek, graceLock, restore, driftVars, lifeVars>>
  BY Zenon DEF OnPosition
<1>1. /\ e \in Event /\ e.event = "position"
      /\ OnCurrentFile => e.of = current
  BY <1>0, Taken, ZenonT(60) DEF OfKinds
<1>2. here \in Estimate /\ here.of = e.of
  <2>1. e.at \in Positions /\ e.of \in Paths
    BY <1>1 DEF Event
  <2>. QED
    BY <2>1 DEF Estimate
<1>. HIDE DEF e, here
<1>3. MpvInv'
  BY <1>0, TakesMutely DEF fileVars
<1>4. Honest(output')
  BY <1>0, Sayings, Zenon
<1>5. ActorTypes'
  <2>1. SeekTypes'
    BY <1>0, <1>2, ZenonT(60) DEF SeekTypes, ActorTypes
  <2>. QED
    BY <1>0, <1>4, <2>1, TypesByGroup, ZenonT(60)
<1>6. Life' /\ NeverStranded'
  BY <1>0, LifeKept DEF fileVars
<1>7. Held' /\ GraceHolds'
  BY <1>0, <1>1, <1>2 DEF Held, GraceHolds, fileVars
<1>. QED
  BY <1>3, <1>4, <1>5, <1>6, <1>7 DEF PlayerInv, Told, Honest

\* Handlers that only tell.
LEMMA TellingPreserves == ASSUME PlayerInv, OnDuration \/ OnLoadFailed PROVE PlayerInv'
<1>i. ActorTypes /\ MpvInv /\ Life /\ Held /\ GraceHolds /\ NeverStranded
  BY DEF PlayerInv
<1>. USE <1>i
<1>1. UNCHANGED actorVars
  BY DEF OnDuration, OnLoadFailed
<1>2. MpvInv'
  BY <1>1, TakesMutely DEF OnDuration, OnLoadFailed, actorVars, fileVars
<1>3. Honest(output')
  <2>1. CASE OnDuration
    BY <2>1, Taken, Sayings DEF OnDuration, OfKinds
  <2>2. CASE OnLoadFailed
    BY <2>2, Sayings, Zenon DEF OnLoadFailed
  <2>. QED
    BY <2>1, <2>2, ZenonT(60)
<1>4. ActorTypes'
  BY <1>1, <1>3, TypesByGroup, ZenonT(60) DEF actorVars
<1>5. Life' /\ NeverStranded'
  BY <1>1, LifeKept DEF actorVars, fileVars
<1>6. Held' /\ GraceHolds'
  BY <1>1, ZenonT(60) DEF Held, GraceHolds, actorVars, fileVars, seekVars
<1>. QED
  BY <1>2, <1>3, <1>4, <1>5, <1>6 DEF PlayerInv, Told, Honest

\* So does the end of a load, which restores position and play state.
LEMMA OnLoadedPreserves == ASSUME PlayerInv, OnLoaded PROVE PlayerInv'
<1>i. ActorTypes /\ MpvInv /\ Life /\ Held /\ GraceHolds /\ NeverStranded
  BY DEF PlayerInv
<1>. USE <1>i
<1>. DEFINE seeks == restore # None
            f == IF current # None THEN current ELSE Head(events).of
            seeded == IF estimate = None THEN [at |-> 0, of |-> f] ELSE estimate
            cs == (IF seeks THEN SeekCommands(restore) ELSE <<>>) \o FlipCommands(desired, TRUE)
<1>0. /\ Takes("loaded") /\ output' = Silent
      /\ restore' = None
      /\ seekEchoes' = (IF seeks THEN SeekEchoesAfter(seekEchoes) ELSE seekEchoes)
      /\ estimate' = (IF seeks THEN EstimateAfter(restore, seeded) ELSE seeded)
      /\ believed' = BelievedAfter(desired, TRUE)
      /\ pauseEchoes' = EchoesAfter(desired, TRUE, pauseEchoes)
      /\ Commands(cs)
      /\ UNCHANGED <<desired, fileVars, userSeek, graceLock, driftVars, lifeVars>>
  BY Zenon DEF OnLoaded
<1>1. f \in Paths /\ (current # None => f = current)
  <2>1. Head(events) \in Event /\ Head(events).event = "loaded"
    BY <1>0, Taken, ZenonT(60)
  <2>. QED
    BY <2>1, Zenon DEF Event, ActorTypes, Paths
<1>. HIDE DEF f
<1>2. /\ seeded \in Estimate \cup {None} /\ (current # None \/ seeded \in Estimate)
      /\ seeded # None /\ current # None => seeded.of = current
  <2>. DEFINE s == [at |-> 0, of |-> f]
  <2>1. s \in Estimate /\ s.of = f /\ s.at = 0
    BY <1>1, Ends DEF Estimate
  <2>. QED
    BY <1>1, <2>1 DEF Held, ActorTypes
<1>3. Plain(cs)
  <2>1. Plain(IF seeks THEN SeekCommands(restore) ELSE <<>>)
    BY PlainCommands DEF ActorTypes
  <2>2. Plain(FlipCommands(desired, TRUE))
    BY PlainCommands, ZenonT(60) DEF ActorTypes
  <2>. QED
    BY <2>1, <2>2, PlainConcat, ZenonT(60)
<1>. HIDE DEF seeded, cs
<1>4. MpvInv'
  BY <1>0, <1>3, TakesAndSends DEF fileVars
<1>5. Honest(output')
  BY <1>0, Sayings
<1>6. /\ estimate' \in Estimate \cup {None}
      /\ estimate' # None /\ current # None => estimate'.of = current
  <2>1. CASE seeks
    <3>1. restore \in Positions
      BY <2>1 DEF ActorTypes
    <3>. QED
      BY <1>0, <1>2, <2>1, <3>1, EstimateMoves
  <2>2. CASE ~seeks
    BY <1>0, <1>2, <2>2, Zenon
  <2>. QED
    BY <2>1, <2>2
<1>7. /\ believed' \in BOOLEAN \cup {None} /\ pauseEchoes' \in Seq(BOOLEAN) /\ seekEchoes' \in Nat
  BY <1>0, HandlerTypes, Zenon DEF ActorTypes
<1>8. ActorTypes'
  <2>1. PauseTypes'
    BY <1>0, <1>7, Zenon DEF PauseTypes, ActorTypes
  <2>2. SeekTypes'
    BY <1>0, <1>6, <1>7, ZenonT(60) DEF SeekTypes, ActorTypes
  <2>. QED
    BY <1>0, <1>5, <2>1, <2>2, TypesByGroup, ZenonT(60)
<1>9. Life' /\ NeverStranded'
  BY <1>0, LifeKept DEF fileVars
<1>10. Held' /\ GraceHolds'
  BY <1>0, <1>6, ZenonT(60) DEF Held, GraceHolds, fileVars
<1>. QED
  BY <1>4, <1>5, <1>8, <1>9, <1>10 DEF PlayerInv, Told, Honest

\* So does a path change.
LEMMA OnPathPreserves == ASSUME PlayerInv, OnPath PROVE PlayerInv'
<1>i. ActorTypes /\ MpvInv /\ Life /\ Held /\ GraceHolds /\ NeverStranded
  BY DEF PlayerInv
<1>. USE <1>i
<1>. DEFINE f == Head(events).path
<1>0. /\ Takes("path") /\ Mute /\ observed' = f
      /\ drift' = (IF current = f THEN drift ELSE IdleController)
      /\ output' = (IF current = f THEN Silent ELSE Say("PathObserved"))
      /\ UNCHANGED <<current, eofReported, pauseVars, seekVars, speed, lifeVars>>
  BY DEF OnPath
<1>1. /\ has /\ events # <<>> /\ events' = Tail(events)
      /\ Head(events) \in Event /\ Head(events).event = "path"
  BY <1>0, Taken
<1>2. f \in Paths
  BY <1>1 DEF Event
<1>3. MpvInv'
  <2>1. cmds' = cmds \o <<>> /\ left' \in [Budget -> Nat] /\ mpv' = mpv /\ reader' = reader
    BY <1>0 DEF Mute, MpvInv, MpvTypeOK
  <2>2. observed' = ObservedNext(events, observed)
    BY <1>0, <1>1 DEF ObservedNext
  <2>. QED
    BY <1>1, <2>1, <2>2, PlainCommands, ActorKeeps, ZenonT(60)
<1>. HIDE DEF f
<1>4. Honest(output')
  BY <1>0, Sayings, Zenon
<1>5. drift' \in Controller
  BY <1>0, HandlerTypes, Zenon DEF ActorTypes
<1>6. ActorTypes'
  <2>1. FileTypes'
    BY <1>0, <1>2, Zenon DEF FileTypes, ActorTypes
  <2>2. DriftTypes'
    BY <1>0, <1>5, ZenonT(60) DEF DriftTypes, ActorTypes
  <2>. QED
    BY <1>0, <1>4, <2>1, <2>2, TypesByGroup, Zenon
<1>7. Life' /\ NeverStranded'
  BY <1>0, <1>1, LifeKept
<1>8. Held' /\ GraceHolds'
  BY <1>0 DEF Held, GraceHolds, seekVars
<1>. QED
  BY <1>3, <1>4, <1>6, <1>7, <1>8 DEF PlayerInv, Told, Honest

\* So does the end of a file.
LEMMA OnEofPreserves == ASSUME PlayerInv, OnEof PROVE PlayerInv'
<1>i. ActorTypes /\ MpvInv /\ Life /\ Held /\ GraceHolds /\ NeverStranded
  BY DEF PlayerInv
<1>. USE <1>i
<1>1. MpvInv'
  BY TakesMutely, Zenon DEF OnEof
<1>2. Honest(output')
  <2>1. OnCurrentFile => Head(events).of = current /\ current \in Files
    BY Taken DEF OnEof, OfKinds
  <2>. QED
    BY <2>1, Sayings, ZenonT(60) DEF OnEof
<1>3. eofReported' \in BOOLEAN
  BY DEF OnEof, ActorTypes
<1>4. UNCHANGED <<current, observed, pauseVars, seekVars, driftVars, lifeVars>>
  BY Zenon DEF OnEof
<1>5. ActorTypes'
  <2>1. FileTypes'
    BY <1>3, <1>4, ZenonT(60) DEF FileTypes, ActorTypes
  <2>. QED
    BY <1>2, <1>4, <2>1, TypesByGroup, Zenon
<1>6. Life' /\ NeverStranded'
  BY <1>4, LifeKept
<1>7. Held' /\ GraceHolds'
  BY <1>4, Zenon DEF Held, GraceHolds, seekVars
<1>. QED
  BY <1>1, <1>2, <1>5, <1>6, <1>7 DEF PlayerInv, Told, Honest

\* An exit at the head of the events is an event the reader has reported.
LEMMA ExitHeard ==
    ASSUME events \in Seq(Event), events # <<>>, Head(events) = Exited
    PROVE  1 \in 1..Len(events) /\ events[1].event = "exited"
<1>1. Len(events) \in Nat /\ Len(events) # 0 /\ Head(events) = events[1]
  OBVIOUS
<1>2. Exited.event = "exited"
  BY DEF Exited
<1>. QED
  BY <1>1, <1>2

\* The exit is the last that is heard of an mpv that is gone.
LEMMA OnExitedPreserves == ASSUME PlayerInv, OnExited PROVE PlayerInv'
<1>i. ActorTypes /\ MpvInv /\ Life /\ Held /\ GraceHolds /\ NeverStranded
  BY DEF PlayerInv
<1>. USE <1>i
<1>1. MpvInv'
  <2>1. ~mpv.up
    <3>1. 1 \in 1..Len(events) /\ events[1].event = "exited"
      BY ExitHeard, ZenonT(60) DEF OnExited, MpvInv, MpvTypeOK
    <3>. QED
      BY <3>1, Zenon DEF MpvInv, NoExit
  <2>2. /\ events' = <<>> /\ UNCHANGED <<mpv, cmds, reader, left>>
    BY DEF OnExited
  <2>3. events' \in Seq(Event) /\ Attributed(events', observed')
    <3>. HIDE <1>i
    <3>. QED
      BY <2>2 DEF Attributed
  <2>. QED
    BY <2>1, <2>2, <2>3, Zenon DEF MpvInv, MpvTypeOK
<1>2. Honest(output')
  BY Sayings, ZenonT(60) DEF OnExited, Detach, Crash
<1>3. has /\ deaths < GiveUpCount /\ launch = "none"
  BY DEF OnExited, Life
<1>4. EstimateNow \in Positions \cup {None}
  BY DEF EstimateNow, ActorTypes, Estimate
<1>. DEFINE n == IF recent THEN deaths + 1 ELSE 1
<1>5. n \in 0..GiveUpCount /\ (n >= GiveUpCount => n = GiveUpCount)
  BY <1>3, PlayerAssumption DEF ActorTypes
<1>6. /\ restore' \in Positions \cup {None} /\ drift' \in Controller
      /\ launch' \in {"none", "starting", "ready"} /\ failureExits' \in BOOLEAN /\ reattach' \in BOOLEAN
      /\ deaths' \in 0..GiveUpCount /\ recent' \in BOOLEAN
  <2>1. CASE attach
    BY <1>4, <2>1, HandlerTypes DEF OnExited, Detach, ActorTypes
  <2>2. CASE ~attach
    <3>1. deaths' = n /\ recent' = TRUE
      BY <2>2 DEF OnExited, Crash
    <3>2. restore' \in {restore, EstimateNow} /\ drift' \in {drift, IdleController}
      BY <2>2 DEF OnExited, Crash
    <3>3. launch' \in {launch, "starting"} /\ failureExits' \in {failureExits, TRUE} /\ reattach' = reattach
      BY <2>2, Zenon DEF OnExited, Crash
    <3>. HIDE DEF n
    <3>. QED
      BY <1>4, <1>5, <3>1, <3>2, <3>3, HandlerTypes, ZenonT(60) DEF ActorTypes
  <2>. QED
    BY <2>1, <2>2
<1>7. ActorTypes'
  <2>1. /\ UNCHANGED <<current, eofReported, desired, graceLock, attach, alive>>
        /\ has' = FALSE /\ observed' = None /\ pauseEchoes' = <<>> /\ seekEchoes' = 0 /\ userSeek' = None
        /\ believed' = None /\ speed' = Normal /\ estimate' = None
    BY Zenon DEF OnExited
  <2>2. <<>> \in Seq(BOOLEAN) /\ FALSE \in BOOLEAN /\ 0 \in Nat
    OBVIOUS
  <2>3. FileTypes'
    BY <2>1, Zenon DEF FileTypes, ActorTypes
  <2>4. PauseTypes'
    BY <2>1, <2>2, Zenon DEF PauseTypes, ActorTypes
  <2>5. SeekTypes'
    BY <1>6, <2>1, <2>2, Zenon DEF SeekTypes, ActorTypes
  <2>6. DriftTypes'
    BY <1>6, <2>1, HandlerTypes, Zenon DEF DriftTypes
  <2>7. LifeTypes'
    BY <1>6, <2>1, <2>2, ZenonT(60) DEF LifeTypes, ActorTypes
  <2>. QED
    BY <1>2, <2>3, <2>4, <2>5, <2>6, <2>7, TypesByGroup, ZenonT(60)
<1>8. Life' /\ NeverStranded'
  <2>1. has' = FALSE /\ observed' = None
    BY DEF OnExited
  <2>2. CASE attach
    BY <1>3, <2>1, <2>2 DEF OnExited, Detach, Life, NeverStranded
  <2>3. CASE ~attach
    <3>1. deaths' = n /\ reattach' = reattach /\ launch' = (IF n >= GiveUpCount THEN launch ELSE "starting")
      BY <2>3 DEF OnExited, Crash
    <3>2. ~reattach
      BY <1>3 DEF Life
    <3>. HIDE DEF n
    <3>. QED
      BY <1>3, <1>5, <2>1, <3>1, <3>2, PlayerAssumption DEF Life, NeverStranded
  <2>. QED
    BY <2>2, <2>3
<1>9. Held' /\ GraceHolds'
  BY ZenonT(60) DEF OnExited, Held, GraceHolds
<1>. QED
  BY <1>1, <1>2, <1>7, <1>8, <1>9 DEF PlayerInv, Told, Honest

\* The crash window, the flush of a settled scrub and the probe keep it too.
LEMMA TimersPreserve == ASSUME PlayerInv, Timers PROVE PlayerInv'
<1>i. ActorTypes /\ MpvInv /\ Life /\ Held /\ GraceHolds /\ NeverStranded
  BY DEF PlayerInv
<1>. USE <1>i
<1>1. UNCHANGED <<mpvVars, left, fileVars, pauseVars, seekEchoes, graceLock, restore, estimate, driftVars,
                  attach, alive, has, failureExits, deaths>>
  BY Zenon DEF Timers, WindowPasses, FlushUserSeek, Probe, seekVars, lifeVars
<1>2. MpvInv'
  BY <1>1, Zenon DEF MpvInv, MpvTypeOK, mpvVars, fileVars
<1>3. userSeek' \in {userSeek, None}
  BY Zenon DEF Timers, WindowPasses, FlushUserSeek, Probe, seekVars
<1>4. Honest(output')
  BY Sayings, Zenon DEF Timers, WindowPasses, FlushUserSeek, Probe, Held, ActorTypes
<1>5. /\ launch' \in {"none", "starting", "ready"} /\ reattach' \in BOOLEAN /\ recent' \in BOOLEAN
  BY Zenon DEF Timers, WindowPasses, FlushUserSeek, Probe, lifeVars, ActorTypes
<1>6. ActorTypes'
  <2>1. SeekTypes'
    BY <1>1, <1>3, Zenon DEF SeekTypes, ActorTypes
  <2>2. LifeTypes'
    BY <1>1, <1>5, ZenonT(60) DEF LifeTypes, ActorTypes
  <2>. QED
    BY <1>1, <1>4, <2>1, <2>2, TypesByGroup, Zenon
<1>7. Life' /\ NeverStranded'
  BY <1>1 DEF Timers, WindowPasses, FlushUserSeek, Probe, Life, NeverStranded, lifeVars, fileVars
<1>8. Held' /\ GraceHolds'
  BY <1>1, <1>3 DEF Held, GraceHolds, fileVars
<1>. QED
  BY <1>2, <1>4, <1>6, <1>7, <1>8 DEF PlayerInv, Told, Honest

\* A connection to a new mpv starts from no events and no observed path.
LEMMA ConnectPreserves == ASSUME PlayerInv, Connect PROVE PlayerInv'
<1>i. ActorTypes /\ MpvInv /\ Life /\ Held /\ GraceHolds /\ NeverStranded
  BY DEF PlayerInv
<1>. USE <1>i
<1>0. UNCHANGED <<left, fileVars, pauseVars, seekVars, driftVars,
                  attach, alive, has, failureExits, reattach, deaths, recent>>
  BY ZenonT(60) DEF Connect
<1>1. MpvInv'
  <2>1. FreshMpv \in Mpv /\ FreshMpv.path = None /\ FreshMpv.loaded = FALSE
    BY Ends, Zenon DEF FreshMpv, NoMpv, Mpv
  <2>2. \A m \in TheUsersMpv : m \in Mpv /\ (m.loaded => m.path # None)
    <3>1. ASSUME NEW b \in BOOLEAN
          PROVE  LET m == [FreshMpv EXCEPT !.paused = b, !.path = Own, !.loaded = TRUE]
                 IN  m \in Mpv /\ m.path # None
      BY <2>1, MpvAssumption, ZenonT(60) DEF Mpv, Paths
    <3>. QED
      BY <2>1, <3>1, Zenon DEF TheUsersMpv
  <2>3. mpv' \in Mpv /\ (mpv'.loaded => mpv'.path # None)
    BY <2>1, <2>2 DEF Connect
  <2>4. observed = None
    BY DEF Connect, Life
  <2>5. /\ cmds' = ObserveAll /\ reader' = NewReader /\ events' = <<>> /\ left' = left /\ observed' = None
    BY <1>0, <2>4 DEF Connect, fileVars
  <2>6. NewReader \in Reader /\ NewReader.lastPath = None
    BY DEF NewReader, Reader
  <2>7. ObserveAll \in Seq(Command) /\ Awaited(ObserveAll, NewReader.seekQuery)
    BY DEF ObserveAll, ObserveProperty, Command, Awaited, QueryPosition
  <2>8. <<>> \in Seq(Event) /\ Attributed(<<>>, None) /\ NoExit(<<>>) /\ Up(<<>>, None, Len(<<>>), None)
    BY UpStart DEF Attributed, NoExit
  <2>. QED
    BY <2>3, <2>5, <2>6, <2>7, <2>8, ZenonT(60) DEF MpvInv, MpvTypeOK
<1>2. Honest(output')
  BY Sayings DEF Connect
<1>3. launch = "starting" /\ launch' = "ready"
  BY Zenon DEF Connect
<1>4. ActorTypes'
  <2>1. LifeTypes'
    BY <1>0, <1>3, ZenonT(60) DEF LifeTypes, ActorTypes
  <2>. QED
    BY <1>0, <1>2, <2>1, TypesByGroup, Zenon
<1>5. Life' /\ NeverStranded'
  BY <1>0, <1>3 DEF Life, NeverStranded, fileVars
<1>6. Held' /\ GraceHolds'
  BY <1>0, ZenonT(60) DEF Held, GraceHolds, fileVars, seekVars
<1>. QED
  BY <1>1, <1>2, <1>4, <1>5, <1>6 DEF PlayerInv, Told, Honest

\* A launch that succeeds gives the actor its player, the file loaded again.
LEMMA LaunchedPreserves == ASSUME PlayerInv, Launched PROVE PlayerInv'
<1>i. ActorTypes /\ MpvInv /\ Life /\ Held /\ GraceHolds /\ NeverStranded
  BY DEF PlayerInv
<1>. USE <1>i
<1>0. /\ UNCHANGED <<mpv, events, left, fileVars, pauseVars, seekVars, driftVars,
                     attach, alive, failureExits, reattach, deaths, recent>>
      /\ launch = "ready" /\ launch' = "none" /\ has' = TRUE
  BY DEF Launched
<1>1. MpvInv'
  <2>1. left' \in [Budget -> Nat] /\ mpv' = mpv /\ events' = events /\ observed' = observed
    BY <1>0 DEF fileVars, MpvInv, MpvTypeOK
  <2>2. CASE current # None /\ mpv.up
    <3>1. current \in Files
      BY <2>2 DEF ActorTypes
    <3>. QED
      BY <2>1, <2>2, <3>1, PlainCommands, ActorKeeps, ZenonT(60) DEF Launched, SendLoad
  <2>3. CASE ~(current # None /\ mpv.up)
    <3>1. cmds' = cmds \o <<>>
      BY <2>3, NothingSent, ZenonT(60) DEF Launched, SendLoad
    <3>. QED
      BY <2>1, <3>1, PlainCommands, ActorKeeps, Zenon DEF Launched, SendLoad
  <2>. QED
    BY <2>2, <2>3, ZenonT(60)
<1>2. Honest(output')
  BY Sayings DEF Launched
<1>3. ActorTypes'
  <2>1. LifeTypes'
    BY <1>0, ZenonT(60) DEF LifeTypes, ActorTypes
  <2>. QED
    BY <1>0, <1>2, <2>1, TypesByGroup, Zenon
<1>4. Life' /\ NeverStranded'
  BY <1>0 DEF Life, NeverStranded, fileVars
<1>5. Held' /\ GraceHolds'
  BY <1>0 DEF Held, GraceHolds, fileVars, seekVars
<1>. QED
  BY <1>1, <1>2, <1>3, <1>4, <1>5 DEF PlayerInv, Told, Honest

\* Launches and probes that fail keep the invariant.
LEMMA LaunchFailuresPreserve == ASSUME PlayerInv, LaunchFails \/ ProbeFails PROVE PlayerInv'
<1>i. ActorTypes /\ MpvInv /\ Life /\ Held /\ GraceHolds /\ NeverStranded
  BY DEF PlayerInv
<1>. USE <1>i
<1>0. /\ UNCHANGED <<mpvVars, fileVars, pauseVars, seekVars, driftVars, attach, has, failureExits, deaths, recent>>
      /\ launch = "starting" /\ launch' = "none"
  BY Zenon DEF LaunchFails, ProbeFails
<1>1. MpvInv'
  <2>1. left' \in [Budget -> Nat]
    BY Spending, Zenon DEF LaunchFails, ProbeFails, Budget, MpvInv, MpvTypeOK
  <2>. QED
    BY <1>0, <2>1, Zenon DEF MpvInv, MpvTypeOK, mpvVars, fileVars
<1>2. Honest(output')
  BY Sayings, Zenon DEF LaunchFails, ProbeFails
<1>3. alive' \in BOOLEAN /\ reattach' \in BOOLEAN
  BY Zenon DEF LaunchFails, ProbeFails, ActorTypes
<1>4. ActorTypes'
  <2>1. LifeTypes'
    BY <1>0, <1>3, Zenon DEF LifeTypes, ActorTypes
  <2>. QED
    BY <1>0, <1>2, <2>1, TypesByGroup, Zenon
<1>5. Life' /\ NeverStranded'
  BY <1>0, ZenonT(60) DEF LaunchFails, ProbeFails, Life, NeverStranded, ActorTypes, fileVars
<1>6. Held' /\ GraceHolds'
  BY <1>0 DEF Held, GraceHolds, fileVars, seekVars
<1>. QED
  BY <1>1, <1>2, <1>4, <1>5, <1>6 DEF PlayerInv, Told, Honest

\* So do the steps of mpv and its user.
LEMMA MpvStepPreserves == ASSUME PlayerInv, MpvStep PROVE PlayerInv'
<1>i. ActorTypes /\ MpvInv /\ Life /\ Held /\ GraceHolds /\ NeverStranded
  BY DEF PlayerInv
<1>. USE <1>i
<1>0. MpvNext /\ UNCHANGED actorVars /\ output' = Silent
  BY DEF MpvStep
<1>1. MpvInv'
  BY <1>0, MpvPreserves DEF actorVars, fileVars
<1>2. Honest(output')
  BY <1>0, Sayings
<1>3. ActorTypes'
  BY <1>0, <1>2, TypesByGroup, ZenonT(60) DEF actorVars
<1>4. Life' /\ NeverStranded'
  BY <1>0, LifeKept DEF actorVars, fileVars
<1>5. Held' /\ GraceHolds'
  BY <1>0 DEF Held, GraceHolds, actorVars, fileVars, seekVars
<1>. QED
  BY <1>1, <1>2, <1>3, <1>4, <1>5 DEF PlayerInv, Told, Honest

-----------------------------------------------------------------------------
(* The theorems. *)

\* The invariant holds at the start.
LEMMA PlayerInvInit == Init => PlayerInv
<1>. SUFFICES ASSUME Init PROVE PlayerInv
  OBVIOUS
<1>1. MpvInv
  <2>1. NoMpv \in Mpv /\ NoMpv.up = FALSE /\ NoMpv.loaded = FALSE
    BY Ends, ZenonT(60) DEF NoMpv, Mpv
  <2>2. NewReader \in Reader
    BY DEF NewReader, Reader
  <2>3. left \in [Budget -> Nat] /\ mpv = NoMpv /\ cmds = <<>> /\ reader = NewReader /\ events = <<>>
    BY MpvAssumption DEF Init, MpvInit
  <2>4. Awaited(<<>>, NewReader.seekQuery) /\ Attributed(<<>>, observed)
    BY DEF Awaited, Attributed
  <2>. QED
    BY <2>1, <2>2, <2>3, <2>4 DEF MpvInv, MpvTypeOK
<1>2. Honest(output)
  BY Sayings DEF Init
<1>3. attach \in BOOLEAN /\ launch \in {"none", "starting", "ready"}
  BY DEF Init
<1>4. ActorTypes
  <2>1. Normal \in Slews /\ IdleController \in Controller
    <3>1. Normal \in Slews /\ 0 \in 0..(EngageRun - 1) /\ 0 \in 0..RecommandSamples
      BY DriftBands DEF Normal, Slews
    <3>. QED
      BY <3>1 DEF IdleController, Controller
  <2>2. 0 \in 0..GiveUpCount /\ <<>> \in Seq(BOOLEAN)
    BY PlayerAssumption
  <2>3. reattach \in BOOLEAN
    BY <1>3 DEF Init
  <2>. QED
    BY <1>2, <1>3, <2>1, <2>2, <2>3, ZenonT(60) DEF Init, ActorTypes, Honest
<1>5. Life /\ NeverStranded
  BY <1>3, PlayerAssumption DEF Init, Life, NeverStranded
<1>6. Held /\ GraceHolds
  BY DEF Init, Held, GraceHolds
<1>. QED
  BY <1>1, <1>2, <1>4, <1>5, <1>6 DEF PlayerInv, Told, Honest

\* Every step keeps it.
LEMMA PlayerInvStep == PlayerInv /\ [Next]_vars => PlayerInv'
<1>. SUFFICES ASSUME PlayerInv, [Next]_vars PROVE PlayerInv'
  OBVIOUS
<1>1. CASE MpvStep
  BY <1>1, MpvStepPreserves
<1>2. CASE FromSession
  <2>1. ASSUME NEW f \in Files, NEW r \in ResumePoints \cup {None}, Load(f, r) PROVE PlayerInv'
    BY <2>1, LoadPreserves
  <2>2. ASSUME NEW b \in BOOLEAN, SetPlaying(b) PROVE PlayerInv'
    BY <2>2, PlayPreserves, Spending DEF SetPlaying, PlayerInv, Budget
  <2>3. ASSUME NEW b \in BOOLEAN, SetGraceLock(b) PROVE PlayerInv'
    BY <2>3, SetGraceLockPreserves, Zenon
  <2>4. CASE Reassert
    BY <2>4, PlayPreserves, ZenonT(60) DEF Reassert, PlayerInv, MpvInv, MpvTypeOK, ActorTypes
  <2>5. ASSUME NEW delta \in Deltas, NEW p \in ResumePoints, SyncTo(delta, p) PROVE PlayerInv'
    BY <2>5, SyncToPreserves
  <2>6. CASE ReleaseSlew
    BY <2>6, ReleaseSlewPreserves
  <2>7. ASSUME NEW p \in ResumePoints \cup {None}, RecoverFalseEof(p) PROVE PlayerInv'
    BY <2>7, RecoverPreserves
  <2>8. CASE Shutdown
    BY <2>8, ShutdownPreserves
  <2>. QED
    BY <1>2, <2>1, <2>2, <2>3, <2>4, <2>5, <2>6, <2>7, <2>8 DEF FromSession
<1>3. CASE FromPlayer
  BY <1>3, OnPausePreserves, OnSeekedPreserves, OnPositionPreserves, TellingPreserves, OnLoadedPreserves,
     OnPathPreserves, OnEofPreserves, OnExitedPreserves DEF FromPlayer
<1>4. CASE Timers
  BY <1>4, TimersPreserve
<1>5. CASE Launches
  BY <1>5, ConnectPreserves, LaunchedPreserves, LaunchFailuresPreserve DEF Launches
<1>6. CASE UNCHANGED vars
  <2>1. UNCHANGED <<mpv, cmds, reader, events, left, output>> /\ UNCHANGED actorVars
    BY <1>6, Zenon DEF vars, mpvVars
  <2>2. MpvInv'
    BY <2>1, ZenonT(60) DEF PlayerInv, MpvInv, MpvTypeOK, actorVars, fileVars
  <2>3. ActorTypes' /\ Told'
    BY <2>1 DEF PlayerInv, ActorTypes, Told, actorVars, fileVars, pauseVars, seekVars, driftVars, lifeVars
  <2>4. Life' /\ NeverStranded'
    BY <2>1, LifeKept DEF PlayerInv, actorVars, fileVars
  <2>5. Held' /\ GraceHolds'
    BY <2>1 DEF PlayerInv, Held, GraceHolds, actorVars, fileVars, seekVars
  <2>. QED
    BY <2>2, <2>3, <2>4, <2>5 DEF PlayerInv
<1>. QED
  BY <1>1, <1>2, <1>3, <1>4, <1>5, <1>6 DEF Next

\* In every reachable state the waiting events are attributed to the path that
\* was up when mpv sent them, and the actor holds what it observed of the file
\* last commanded.
THEOREM PlayerInvariant == Spec => []PlayerInv
<1>1. Init => PlayerInv
  BY PlayerInvInit
<1>2. PlayerInv /\ [Next]_vars => PlayerInv'
  BY PlayerInvStep
<1>. QED
  BY <1>1, <1>2, PTL DEF Spec

\* The variables of the actor, of mpv and of the reader keep their types.
THEOREM PlayerTypes == Spec => []TypeOK
<1>1. PlayerInv => TypeOK
  BY DEF PlayerInv, ActorTypes, MpvInv, TypeOK
<1>. QED
  BY <1>1, PlayerInvariant, PTL

\* What is told the session of a file was observed of that file, whatever loads,
\* drags and deaths the events in the channel have been overtaken by.
THEOREM AlwaysTheRightFile == Spec => []RightFile
<1>1. PlayerInv => RightFile
  <2>. SUFFICES ASSUME PlayerInv PROVE RightFile
    OBVIOUS
  <2>1. "of" \in DOMAIN PositionTick => PositionTick.of = PositionTick.file
    <3>1. CASE OnCurrentFile /\ estimate # None
      <4>1. PositionTick = SayOf("PositionTick", current, estimate.of) /\ estimate.of = current
        BY <3>1, ZenonT(60) DEF PositionTick, PlayerInv, Held, OnCurrentFile
      <4>. QED
        BY <4>1, Zenon DEF SayOf
    <3>2. CASE ~(OnCurrentFile /\ estimate # None)
      <4>1. PositionTick = Silent
        BY <3>2 DEF PositionTick
      <4>. QED
        BY <4>1, Sayings DEF Honest
    <3>. QED
      BY <3>1, <3>2, Zenon
  <2>2. "of" \in DOMAIN output => output.of = output.file
    BY DEF PlayerInv, Told
  <2>. QED
    BY <2>1, <2>2 DEF RightFile
<1>. QED
  BY <1>1, PlayerInvariant, PTL

\* No scrub is pending inside an outage grace window, however lock, seek and
\* debounce follow on each other.
THEOREM GraceAlwaysHolds == Spec => []GraceHolds
<1>1. PlayerInv => GraceHolds
  BY DEF PlayerInv
<1>. QED
  BY <1>1, PlayerInvariant, PTL

\* Without a player one is on its way, unless the actor gave up or failed to come
\* back from that: for any number of deaths, failing launches and new files.
THEOREM NeverLeftStranded == Spec => []NeverStranded
<1>1. PlayerInv => NeverStranded
  BY DEF PlayerInv
<1>. QED
  BY <1>1, PlayerInvariant, PTL
=============================================================================
