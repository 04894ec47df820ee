-------------------------- MODULE TransfersProofs -----------------------------
(***************************************************************************)
(* Proofs about the downloads of Transfers, for any number of peers, files *)
(* and chunks: types, what is in flight is still needed, what is verified  *)
(* is good, what the group was told of playability is so, and bulk chunks  *)
(* are assigned once and within each peer's budget.                        *)
(***************************************************************************)
EXTENDS Transfers, FiniteSetTheorems, TLAPS

\* Time, and a second attempt, for the SMT solver on a slow machine.
USE SMTT(60), Z3T(60)

-----------------------------------------------------------------------------
(* What holds of a download, and of a scheduler call's result.             *)

\* v is a record with the fields F.
Record(v, F) == DOMAIN v = F /\ v = [x \in F |-> v[x]]

SourceFields == {"has", "inFlight", "silent", "solicited", "replied", "attempts", "dead", "wait"}
FileFields == {"written", "bad", "verified", "hashes", "src", "denied", "play", "since", "bps", "playable"}
ResultFields == {"dl", "cancel", "request", "ask", "done"}

\* A source as the code has it, whatever its clocks and counters say.
SourceOK(s) ==
    /\ Record(s, SourceFields)
    /\ s.attempts \in 0 .. MaxSolicitAttempts

\* The store: a verified block is written in full, and holds no bad chunk.
StoreOK(d) ==
    /\ d.written \subseteq Chunks /\ d.bad \subseteq d.written
    /\ d.verified \subseteq Blocks
    /\ \A c \in Chunks : BlockOf(c) \in d.verified => c \in d.written
    /\ \A c \in d.bad : BlockOf(c) \notin d.verified

\* The sources: what one was asked for is still needed.
SourcesOK(src, need) ==
    /\ src = [p \in DOMAIN src |-> src[p]] /\ DOMAIN src \subseteq Peers
    /\ \A p \in DOMAIN src : SourceOK(src[p]) /\ src[p].inFlight \subseteq need

Sound(d) ==
    /\ Record(d, FileFields) /\ StoreOK(d) /\ SourcesOK(d.src, Needed(d))
    /\ d.denied \subseteq Peers

\* The playability last computed is current.
Settled(d) == d.hashes => d.playable = Playable(d)

IsResult(r) == Record(r, ResultFields)

\* A call's result in which all downloads but those in S are settled.
Good(r, S) ==
    /\ IsResult(r)
    /\ r.dl = [f \in DOMAIN r.dl |-> r.dl[f]] /\ DOMAIN r.dl \subseteq Files
    /\ \A f \in DOMAIN r.dl : Sound(r.dl[f]) /\ (f \notin S => Settled(r.dl[f]))
    /\ r.ask \subseteq Key /\ r.done \subseteq Files

\* What source p was asked for, by the sources of a download and by file.
Asked(src, p) == IF p \in DOMAIN src THEN src[p].inFlight ELSE {}
Flight(D, f, p) == IF f \in DOMAIN D THEN Asked(D[f].src, p) ELSE {}

\* Nothing is in flight that was not.
SourcesFewer(new, src) == \A p : Asked(new, p) \subseteq Asked(src, p)
Fewer(E, D) == \A f, p : Flight(E, f, p) \subseteq Flight(D, f, p)

\* The downloads in both have the same urgent chunks, whichever file plays,
\* but for the files in S when they play.
Alike(E, D, S) ==
    \A f \in DOMAIN E : f \in DOMAIN D =>
        \A g : f \notin S \/ g # f => Urgent(E[f], g = f) = Urgent(D[f], g = f)

\* x comes out of r by retracting requests, and then perhaps planning new ones.
Refills(x, r, v) ==
    \E e, sweep : Good(e, {}) /\ Fewer(e.dl, r.dl) /\ (x = e \/ x = PlanAll(e, v, sweep))

\* x comes out of r by new sources for f, and then planning.
Resupplies(x, r, f, v) ==
    \E e : /\ Good(e, {}) /\ Fewer(e.dl, r.dl) /\ Alike(e.dl, r.dl, {f})
          /\ x = PlanAll(e, v, FALSE)

-----------------------------------------------------------------------------
(* Folds, by induction as the least counterexample. *)

(* A non-empty set of naturals has a least element. *)
LEMMA Least ==
    ASSUME NEW T, T \subseteq Nat, T # {}
    PROVE  \E x \in T : \A y \in T : x <= y
<1> DEFINE R == {ss \in Nat \X Nat : ss[1] < ss[2]}
<1>1. IsWellFoundedOn(R, Nat)
  BY NatLessThanWellFounded, Zenon DEF OpToRel
<1>2. \A x, y \in Nat : x < y => <<x, y>> \in R
  OBVIOUS
<1> HIDE DEF R
<1>3. PICK x \in T : \A y \in T : ~(<<y, x>> \in R)
  BY <1>1, WFMin, Zenon
<1>4. \A y \in T : ~(y < x)
  BY <1>2, <1>3, Zenon
<1>5. \A y \in T : x <= y
  BY <1>4
<1> QED
  BY <1>5

(* A non-empty set of indices has its maximum. *)
LEMMA MaxIn ==
    ASSUME NEW k \in Nat, NEW s \in SUBSET (1 .. k), s # {}
    PROVE  Max(s) \in s /\ \A y \in s : y <= Max(s)
<1> DEFINE T == {k - x : x \in s}
<1>0. \A x \in s : x \in Nat /\ x <= k /\ k - x \in Nat
  OBVIOUS
<1>1. T \subseteq Nat /\ T # {}
  BY <1>0, Zenon
<1>2. PICK m \in T : \A y \in T : m <= y
  <2> HIDE DEF T
  <2> QED
    BY <1>1, Least, Zenon
<1>3. PICK x \in s : m = k - x
  OBVIOUS
<1>4. \A y \in s : x >= y
  <2>1. \A y \in s : m <= k - y
    BY <1>2, Zenon
  <2> QED
    BY <1>0, <1>3, <2>1
<1>5. Max(s) \in s /\ \A y \in s : Max(s) >= y
  BY <1>4, Zenon DEF Max
<1> QED
  BY <1>5

\* The steps of the scheduler's loops: over the sources and over the files
\* in planning, over the files in a tick and over the files of a plan.
Step(loop, a, b, acc, x) ==
    IF loop = "sources" THEN PlanSource(acc, a, x, b)
    ELSE IF loop = "files" THEN PlanFile(acc, x, a, b)
    ELSE IF loop = "tick" THEN ProgressAndSolicit(Snub(acc, x), x)
    ELSE IF x \in local \cup a.idle THEN acc
    ELSE SetSources(acc, x, NewDownload(disk[x] # {None}, disk[x], a.play),
                    a.present, a.play, Ranking(a))

\* g is the table of the loop's results over the sets of indices in Z.
Tabulates(g, loop, a, b, r, q, Z) ==
    g = [s \in Z |-> IF s = {} THEN r ELSE Step(loop, a, b, g[s \ {Max(s)}], q[Max(s)])]

Folded(loop, a, b, r, q) ==
    (CHOOSE g : Tabulates(g, loop, a, b, r, q, SUBSET DOMAIN q))[DOMAIN q]

(* FoldLeft looks its result up in such a table: the sources of a file, *)
LEMMA SourcesLookup ==
    ASSUME NEW f, NEW b, NEW r, NEW q
    PROVE  FoldLeft(LAMBDA acc, p : PlanSource(acc, f, p, b), r, q)
             = Folded("sources", f, b, r, q)
BY Zenon DEF FoldLeft, MapThenFoldSet, Folded, Tabulates, Step

(* the files in planning, *)
LEMMA FilesLookup ==
    ASSUME NEW a, NEW b, NEW r, NEW q
    PROVE  FoldLeft(LAMBDA acc, f : PlanFile(acc, f, a, b), r, q)
             = Folded("files", a, b, r, q)
BY Zenon DEF FoldLeft, MapThenFoldSet, Folded, Tabulates, Step

(* the files in a tick *)
LEMMA TickLookup ==
    ASSUME NEW r, NEW q
    PROVE  FoldLeft(LAMBDA acc, f : ProgressAndSolicit(Snub(acc, f), f), r, q)
             = Folded("tick", 0, 0, r, q)
BY Zenon DEF FoldLeft, MapThenFoldSet, Folded, Tabulates, Step

(* and the files of a plan. *)
LEMMA PlanLookup ==
    ASSUME NEW o
    PROVE  Planned(o) = Folded("plan", o, 0, Result(Without(dl, DOMAIN dl \ Range(o.order))), o.order)
BY Zenon DEF Planned, FoldLeft, MapThenFoldSet, Folded, Tabulates, Step

(* What holds at m, and at k + 1 whenever at k, holds at n. *)
LEMMA Climbs ==
    ASSUME NEW n \in Nat, NEW m \in 0 .. n, NEW T, m \in T,
           \A k \in m .. n : k \in T /\ k + 1 \in m .. n => k + 1 \in T
    PROVE  n \in T
<1> DEFINE Bad == {k \in m .. n : k \notin T}
<1>1. Bad \subseteq Nat /\ m \notin Bad
  OBVIOUS
<1>2. SUFFICES ASSUME Bad # {} PROVE FALSE
  OBVIOUS
<1>3. PICK k \in Bad : \A y \in Bad : k <= y
  <2> HIDE DEF Bad
  <2> QED
    BY <1>1, <1>2, Least, Zenon
<1>4. k - 1 \in m .. n /\ k - 1 \notin Bad /\ (k - 1) + 1 = k
  BY <1>1, <1>3
<1> QED
  BY <1>3, <1>4

\* t lists the loop's results after each of its n steps.
Unfolds(t, loop, a, b, r, n, q) ==
    /\ t[0] = r /\ t[n] = Folded(loop, a, b, r, q)
    /\ \A k \in 0 .. n - 1 : t[k + 1] = Step(loop, a, b, t[k], q[k + 1])

(* A loop's results, one after the other. *)
LEMMA FoldTable ==
    ASSUME NEW loop, NEW a, NEW b, NEW r, NEW n \in Nat, NEW q, DOMAIN q = 1 .. n
    PROVE  \E t : Unfolds(t, loop, a, b, r, n, q)
<1> DEFINE Tab(g, k) == Tabulates(g, loop, a, b, r, q, SUBSET (1 .. k))
           Has(k) == \E g : Tab(g, k)
<1>1. Has(0)
  <2> DEFINE g == [s \in SUBSET (1 .. 0) |-> r]
  <2>1. \A s \in SUBSET (1 .. 0) : s = {}
    OBVIOUS
  <2>2. Tab(g, 0)
    BY <2>1, Zenon DEF Tabulates
  <2> QED
    BY <2>2
<1>2. ASSUME NEW k \in Nat, Has(k)
      PROVE  Has(k + 1)
  <2>1. PICK g : Tab(g, k)
    BY <1>2
  <2> DEFINE h == [s \in SUBSET (1 .. k + 1) |->
                     IF s = {} THEN r ELSE Step(loop, a, b, g[s \ {Max(s)}], q[Max(s)])]
  <2>2. ASSUME NEW s \in SUBSET (1 .. k)
        PROVE  s \in SUBSET (1 .. k + 1) /\ h[s] = g[s]
    <3>1. s \in SUBSET (1 .. k + 1)
      OBVIOUS
    <3>2. g[s] = IF s = {} THEN r ELSE Step(loop, a, b, g[s \ {Max(s)}], q[Max(s)])
      BY <2>1, <2>2, Zenon DEF Tabulates
    <3> QED
      BY <3>1, <3>2, Zenon
  <2>3. ASSUME NEW s \in SUBSET (1 .. k + 1), s # {}
        PROVE  s \ {Max(s)} \in SUBSET (1 .. k)
    <3>1. k + 1 \in Nat
      OBVIOUS
    <3>2. Max(s) \in s /\ \A y \in s : y <= Max(s)
      BY <2>3, <3>1, MaxIn, Zenon
    <3>3. PICK m : m = Max(s)
      OBVIOUS
    <3>4. m \in s /\ \A y \in s : y <= m
      BY <3>2, <3>3, Zenon
    <3>5. s \ {m} \in SUBSET (1 .. k)
      BY <2>3, <3>4
    <3> QED
      BY <3>3, <3>5, Zenon
  <2>4. \A s \in SUBSET (1 .. k + 1) : s # {} => h[s \ {Max(s)}] = g[s \ {Max(s)}]
    BY <2>2, <2>3, Zenon
  <2>5. Tab(h, k + 1)
    BY <2>4, Zenon DEF Tabulates
  <2> QED
    BY <2>5
<1>3. Has(n)
  <2> DEFINE Bad == {k \in Nat : ~Has(k)}
  <2>1. 0 \notin Bad /\ \A k \in Nat : k \notin Bad => k + 1 \notin Bad
    <3> HIDE DEF Has
    <3> QED
      BY <1>1, <1>2
  <2>2. Bad \subseteq Nat /\ \A k \in Nat : k \notin Bad => Has(k)
    <3> HIDE DEF Has
    <3> QED
      OBVIOUS
  <2> HIDE DEF Bad, Has
  <2>3. SUFFICES ASSUME Bad # {} PROVE FALSE
    BY <2>2
  <2>4. PICK m \in Bad : \A y \in Bad : m <= y
    BY <2>2, <2>3, Least, Zenon
  <2>5. m # 0 /\ m - 1 \in Nat /\ m - 1 \notin Bad /\ m = (m - 1) + 1
    BY <2>1, <2>2, <2>4
  <2> QED
    BY <2>1, <2>4, <2>5
<1>4. PICK g : g = (CHOOSE h : Tab(h, n)) /\ Tab(g, n)
  BY <1>3
<1>5. Folded(loop, a, b, r, q) = g[1 .. n]
  BY <1>4, Zenon DEF Folded
<1>6. \A s \in SUBSET (1 .. n) : g[s] = IF s = {} THEN r ELSE Step(loop, a, b, g[s \ {Max(s)}], q[Max(s)])
  BY <1>4, Zenon DEF Tabulates
<1> HIDE DEF Tab
<1> DEFINE t == [k \in 0 .. n |-> g[1 .. k]]
<1>7. 0 \in 0 .. n /\ n \in 0 .. n /\ \A k \in 0 .. n - 1 : k \in 0 .. n /\ k + 1 \in 0 .. n /\ k \in Nat
  OBVIOUS
<1>8. t[0] = r
  <2>1. 1 .. 0 = {} /\ 1 .. 0 \in SUBSET (1 .. n)
    OBVIOUS
  <2> QED
    BY <1>6, <1>7, <2>1, Zenon
<1>9. ASSUME NEW k \in 0 .. n - 1
      PROVE  t[k + 1] = Step(loop, a, b, t[k], q[k + 1])
  <2>0. k \in Nat /\ k + 1 \in 1 .. n
    OBVIOUS
  <2>1. k \in Nat /\ 1 .. k + 1 \in SUBSET (1 .. n) /\ 1 .. k + 1 # {} /\ k + 1 \in 1 .. n
    <3>1. PICK j : j = k + 1
      OBVIOUS
    <3>2. j \in 1 .. j /\ 1 .. j \in SUBSET (1 .. n)
      BY <2>0, <3>1
    <3> QED
      BY <2>0, <3>1, <3>2, Zenon
  <2>2. Max(1 .. k + 1) \in 1 .. k + 1 /\ \A y \in 1 .. k + 1 : y <= Max(1 .. k + 1)
    <3>1. k + 1 \in Nat /\ 1 .. k + 1 \in SUBSET (1 .. k + 1)
      BY <2>1
    <3> QED
      BY <2>1, <3>1, MaxIn, Zenon
  <2>3. \A m : (m \in 1 .. k + 1 /\ \A y \in 1 .. k + 1 : y <= m) => m = k + 1
    BY <2>1
  <2>4. Max(1 .. k + 1) = k + 1
    BY <2>2, <2>3, Zenon
  <2>5. (1 .. k + 1) \ {k + 1} = 1 .. k
    BY <2>1
  <2>6. g[1 .. k + 1] = Step(loop, a, b, g[1 .. k], q[k + 1])
    BY <1>6, <2>1, <2>4, <2>5, Zenon
  <2> QED
    BY <1>7, <2>6, Zenon
<1>10. t[n] = Folded(loop, a, b, r, q)
  BY <1>5, <1>7, Zenon
<1> HIDE DEF t
<1> QED
  BY <1>8, <1>9, <1>10, Zenon DEF Unfolds

(* What every step of a loop keeps, the loop keeps. *)
LEMMA FoldKeeps ==
    ASSUME NEW loop, NEW a, NEW b, NEW r, Good(r, {}),
           NEW n \in Nat, NEW q, DOMAIN q = 1 .. n,
           \A acc : \A i \in 1 .. n : Good(acc, {}) => Good(Step(loop, a, b, acc, q[i]), {})
    PROVE  Good(Folded(loop, a, b, r, q), {})
<1>1. PICK t : Unfolds(t, loop, a, b, r, n, q)
  BY FoldTable, Zenon
<1> DEFINE T == {k \in 0 .. n : Good(t[k], {})}
<1>2. 0 \in 0 .. n /\ n \in 0 .. n /\ \A k \in 0 .. n : k + 1 \in 0 .. n => k \in 0 .. n - 1 /\ k + 1 \in 1 .. n
  OBVIOUS
<1>3. 0 \in T
  BY <1>1, <1>2, Zenon DEF Unfolds
<1>4. \A k \in 0 .. n : k \in T /\ k + 1 \in 0 .. n => k + 1 \in T
  BY <1>1, <1>2, Zenon DEF Unfolds
<1>5. n \in T
  <2> HIDE DEF T
  <2> QED
    BY <1>2, <1>3, <1>4, Climbs, Zenon
<1> QED
  BY <1>1, <1>5, Zenon DEF Unfolds

-----------------------------------------------------------------------------
(* One download of a result changes. *)

\* r becomes e, in which the download f is d.
Puts(e, r, f, d) == IsResult(e) /\ e.dl = [r.dl EXCEPT ![f] = d]

(* With a sound download put in, the result stays good; with a settled one, *)
(* it is settled.                                                           *)
LEMMA PutKeeps ==
    ASSUME NEW r, NEW f, Good(r, {f}), f \in DOMAIN r.dl, NEW d, Sound(d),
           NEW e, Puts(e, r, f, d), e.ask \subseteq Key, e.done \subseteq Files
    PROVE  Good(e, {f}) /\ (Settled(d) => Good(e, {}))
<1>1. IsResult(e) /\ e.dl = [r.dl EXCEPT ![f] = d]
  BY Zenon DEF Puts
<1>2. /\ r.dl = [g \in DOMAIN r.dl |-> r.dl[g]] /\ DOMAIN r.dl \subseteq Files
      /\ \A g \in DOMAIN r.dl : Sound(r.dl[g]) /\ (g # f => Settled(r.dl[g]))
  BY Zenon DEF Good
<1>3. DOMAIN e.dl = DOMAIN r.dl /\ e.dl[f] = d /\ \A g \in DOMAIN r.dl : g # f => e.dl[g] = r.dl[g]
  BY <1>1, Zenon
<1>4. e.dl = [g \in DOMAIN e.dl |-> e.dl[g]]
  BY <1>1, <1>3
<1>5. \A g \in DOMAIN e.dl : Sound(e.dl[g]) /\ (g # f => Settled(e.dl[g]))
  BY <1>2, <1>3, Zenon
<1> QED
  BY <1>1, <1>2, <1>3, <1>4, <1>5, Zenon DEF Good

(* Where the sources of the download put in have no more in flight, the   *)
(* result has not.                                                          *)
LEMMA PutFewer ==
    ASSUME NEW D, NEW f \in DOMAIN D, NEW d, SourcesFewer(d.src, D[f].src),
           NEW E, E = [D EXCEPT ![f] = d]
    PROVE  Fewer(E, D)
<1>1. DOMAIN E = DOMAIN D /\ E[f] = d /\ \A g \in DOMAIN D : g # f => E[g] = D[g]
  BY Zenon
<1>2. ASSUME NEW g, NEW p PROVE Flight(E, g, p) \subseteq Flight(D, g, p)
  <2>1. CASE g = f
    BY <1>1, <2>1, Zenon DEF Flight, SourcesFewer
  <2>2. CASE g # f
    BY <1>1, <2>2, Zenon DEF Flight
  <2> QED
    BY <2>1, <2>2, Zenon
<1> QED
  BY <1>2, Zenon DEF Fewer

(* Retracting and retracting again is retracting. *)
LEMMA FewerOrder ==
    /\ \A D : Fewer(D, D)
    /\ \A C, D, E : Fewer(E, D) /\ Fewer(D, C) => Fewer(E, C)
<1>1. \A D : Fewer(D, D)
  BY Zenon DEF Fewer
<1>2. \A C, D, E : Fewer(E, D) /\ Fewer(D, C) => Fewer(E, C)
  BY Zenon DEF Fewer
<1> QED
  BY <1>1, <1>2

(* Files or sources left out leave the others as they were. *)
LEMMA WithoutFewer ==
    ASSUME NEW D, NEW F
    PROVE  Fewer(Without(D, F), D) /\ SourcesFewer(Without(D, F), D) /\ Alike(Without(D, F), D, {})
<1>1. DOMAIN Without(D, F) = DOMAIN D \ F /\ \A g \in DOMAIN D \ F : Without(D, F)[g] = D[g]
  BY Zenon DEF Without
<1>2. Fewer(Without(D, F), D)
  BY <1>1, Zenon DEF Fewer, Flight
<1>3. SourcesFewer(Without(D, F), D)
  BY <1>1, Zenon DEF SourcesFewer, Asked
<1>4. Alike(Without(D, F), D, {})
  BY <1>1, Zenon DEF Alike
<1> QED
  BY <1>2, <1>3, <1>4

(* What is urgent depends on what is needed, on the playback position and   *)
(* on how long it has been so, the last two for the file that plays only.   *)
LEMMA SameUrgent ==
    ASSUME NEW d, NEW e, Needed(e) = Needed(d)
    PROVE  /\ \A f, g : g # f => Urgent(e, g = f) = Urgent(d, g = f)
           /\ e.play = d.play /\ e.since = d.since
                => \A f, g : Urgent(e, g = f) = Urgent(d, g = f)
<1>1. Endgame(e) = Endgame(d)
  BY Zenon DEF Endgame
<1>2. ASSUME NEW f, NEW g, g # f PROVE Urgent(e, g = f) = Urgent(d, g = f)
  <2>1. Urgent(e, g = f) = {c \in Needed(d) : Endgame(d)} /\ Urgent(d, g = f) = {c \in Needed(d) : Endgame(d)}
    BY <1>1, <1>2, Zenon DEF Urgent
  <2> QED
    BY <2>1, Zenon
<1>3. ASSUME e.play = d.play, e.since = d.since, NEW f, NEW g
      PROVE  Urgent(e, g = f) = Urgent(d, g = f)
  <2>1. \A c : InWindow(e, c) = InWindow(d, c)
    BY <1>3, Zenon DEF InWindow
  <2> QED
    BY <1>1, <1>3, <2>1, Zenon DEF Urgent
<1> QED
  BY <1>2, <1>3, Zenon

(* Nothing is put where there is nothing. *)
LEMMA NoSuch ==
    ASSUME NEW F, F = [x \in DOMAIN F |-> F[x]], NEW z, z \notin DOMAIN F, NEW v
    PROVE  [F EXCEPT ![z] = v] = F
OBVIOUS

(* A result good throughout is good but for some. *)
LEMMA GoodBut == ASSUME NEW r, NEW f, Good(r, {}) PROVE Good(r, {f})
BY Zenon DEF Good

-----------------------------------------------------------------------------
(* Planning *)

(* plan_requests takes needed chunks only. *)
LEMMA TakeNeeded ==
    ASSUME NEW dls, NEW f, NEW p, NEW pl
    PROVE  Take(dls, f, p, pl) \subseteq Needed(dls[f])
<1>1. Urgent(dls[f], pl) \subseteq Needed(dls[f])
  BY Zenon DEF Urgent
<1>2. \A S, n : Foremost(dls[f], S, n) \subseteq S
  BY Zenon DEF Foremost
<1> DEFINE d == dls[f]
           urgent == Urgent(d, pl)
           bulk == IF Cardinality({q \in Sources(d) : q < p}) >= MaxSources THEN {}
                   ELSE ((Needed(d) \cap d.src[p].has) \ urgent) \ Flying(d)
           first == Foremost(d, bulk, Max({PipelineDepth - Load(dls, p), 0}))
<1>3. Take(dls, f, p, pl) = IF d.src[p].wait > 0 THEN {}
                            ELSE ((urgent \cap d.src[p].has) \ d.src[p].inFlight) \cup first
  BY Zenon DEF Take
<1>4. bulk \subseteq Needed(d)
  BY Zenon
<1>5. first \subseteq bulk
  <2> HIDE DEF bulk
  <2> QED
    BY <1>2, Zenon
<1> HIDE DEF d, urgent, bulk, first
<1>6. urgent \subseteq Needed(d)
  BY <1>1 DEF urgent, d
<1>7. Take(dls, f, p, pl) \subseteq Needed(d)
  BY <1>3, <1>4, <1>5, <1>6
<1> QED
  BY <1>7 DEF d

\* What planning may change of a download: the sources' requests, and since.
PlannedFrom(d, src, since) == [d EXCEPT !.src = src, !.since = since]

(* Changing only that keeps the store, and what it computed of it. *)
LEMMA PlannedSound ==
    ASSUME NEW d, Sound(d), NEW src, NEW since, SourcesOK(src, Needed(d))
    PROVE  /\ Sound(PlannedFrom(d, src, since))
           /\ Settled(d) => Settled(PlannedFrom(d, src, since))
<1> DEFINE e == PlannedFrom(d, src, since)
<1>1. /\ e.written = d.written /\ e.bad = d.bad /\ e.verified = d.verified
      /\ e.hashes = d.hashes /\ e.denied = d.denied /\ e.play = d.play /\ e.bps = d.bps
      /\ e.playable = d.playable /\ e.src = src /\ Record(e, FileFields)
  BY Zenon DEF Sound, Record, FileFields, PlannedFrom
<1> HIDE DEF e
<1>2. Needed(e) = Needed(d) /\ Playable(e) = Playable(d)
  BY <1>1, Zenon DEF Needed, Playable
<1>3. StoreOK(e)
  BY <1>1, Zenon DEF Sound, StoreOK
<1>4. Sound(e) /\ (Settled(d) => Settled(e))
  BY <1>1, <1>2, <1>3, Zenon DEF Sound, Settled
<1> QED
  BY <1>4 DEF e

(* A source asked for more of what is needed. *)
LEMMA AskedMore ==
    ASSUME NEW src, NEW need, SourcesOK(src, need), NEW p, NEW take, take \subseteq need
    PROVE  SourcesOK([src EXCEPT ![p].inFlight = @ \cup take], need)
<1> DEFINE s == [src[p] EXCEPT !.inFlight = @ \cup take]
           new == [src EXCEPT ![p] = s]
<1>1. DOMAIN new = DOMAIN src /\ new = [q \in DOMAIN new |-> new[q]]
  OBVIOUS
<1>2. \A q \in DOMAIN src : q # p => new[q] = src[q]
  BY Zenon
<1>3. p \in DOMAIN src => new[p] = s
  BY Zenon
<1>4. p \in DOMAIN src => SourceOK(s) /\ s.inFlight \subseteq need
  <2>1. SUFFICES ASSUME p \in DOMAIN src PROVE SourceOK(s) /\ s.inFlight \subseteq need
    OBVIOUS
  <2>2. PICK x : x = src[p] /\ SourceOK(x) /\ x.inFlight \subseteq need
    BY <2>1, Zenon DEF SourcesOK
  <2>3. s = [x EXCEPT !.inFlight = @ \cup take]
    BY <2>2, Zenon
  <2> HIDE DEF s
  <2> QED
    BY <2>2, <2>3 DEF SourceOK, Record, SourceFields
<1> HIDE DEF new, s
<1>5. \A q \in DOMAIN src : SourceOK(new[q]) /\ new[q].inFlight \subseteq need
  BY <1>2, <1>3, <1>4, Zenon DEF SourcesOK
<1>6. SourcesOK(new, need)
  BY <1>1, <1>5, Zenon DEF SourcesOK
<1> QED
  BY <1>6, Zenon DEF new, s

\* The download, with source p asked for the chunks in take too.
Asking(d, p, take) ==
    PlannedFrom(d, [d.src EXCEPT ![p].inFlight = @ \cup take],
                [c \in DOMAIN d.since \cup take |-> IF c \in DOMAIN d.since THEN d.since[c] ELSE 0])

\* r becomes e by just that, for download f, if there is one.
PlansSource(e, r, f, p, take) ==
    /\ IsResult(e) /\ e.ask = r.ask /\ e.done = r.done
    /\ f \in DOMAIN r.dl => e.dl = [r.dl EXCEPT ![f] = Asking(r.dl[f], p, take)]
    /\ f \notin DOMAIN r.dl => e.dl = r.dl

(* That is what one source of plan_requests does. *)
LEMMA PlanSourcePuts ==
    ASSUME NEW r, Good(r, {}), NEW f, NEW p, NEW pl
    PROVE  PlansSource(PlanSource(r, f, p, pl), r, f, p, Take(r.dl, f, p, pl))
<1> DEFINE e == PlanSource(r, f, p, pl)
<1>1. IsResult(r)
  BY Zenon DEF Good
<1>2. CASE f \in DOMAIN r.dl
  <2>1. Sound(r.dl[f])
    BY <1>2, Zenon DEF Good
  <2>2. /\ e.dl = [r.dl EXCEPT ![f] = Asking(r.dl[f], p, Take(r.dl, f, p, pl))]
        /\ e.ask = r.ask /\ e.done = r.done /\ IsResult(e)
    BY <1>1, <1>2, <2>1, Zenon DEF PlanSource, PlannedFrom, Asking, IsResult, Record, ResultFields
  <2> QED
    BY <1>2, <2>2, Zenon DEF PlansSource
<1>3. CASE f \notin DOMAIN r.dl
  <2>1. \A d : [r.dl EXCEPT ![f] = d] = r.dl
    BY <1>3, NoSuch, Zenon DEF Good
  <2>2. \E A, B, R : e = [[[r EXCEPT !.dl = [@ EXCEPT ![f] = A]]
                              EXCEPT !.dl = [@ EXCEPT ![f] = B]] EXCEPT !.request = R]
    BY Zenon DEF PlanSource
  <2>3. PICK A, B, R : e = [[[r EXCEPT !.dl = [@ EXCEPT ![f] = A]]
                              EXCEPT !.dl = [@ EXCEPT ![f] = B]] EXCEPT !.request = R]
    BY <2>2, Zenon
  <2> HIDE DEF e
  <2>4. e.dl = r.dl /\ e.ask = r.ask /\ e.done = r.done /\ IsResult(e)
    BY <1>1, <2>1, <2>3, Zenon DEF IsResult, Record, ResultFields
  <2> QED
    BY <1>3, <2>4, Zenon DEF e, PlansSource
<1> QED
  BY <1>2, <1>3, Zenon

(* One source of plan_requests keeps a result good. *)
LEMMA PlanSourceKeeps ==
    ASSUME NEW r, Good(r, {}), NEW f, NEW p, NEW pl
    PROVE  Good(PlanSource(r, f, p, pl), {})
<1> DEFINE e == PlanSource(r, f, p, pl)
           take == Take(r.dl, f, p, pl)
           new == Asking(r.dl[f], p, take)
<1>1. /\ IsResult(e) /\ e.ask = r.ask /\ e.done = r.done
      /\ f \in DOMAIN r.dl => e.dl = [r.dl EXCEPT ![f] = new]
      /\ f \notin DOMAIN r.dl => e.dl = r.dl
  <2>1. PlansSource(e, r, f, p, take)
    BY PlanSourcePuts, Zenon
  <2> QED
    BY <2>1, Zenon DEF PlansSource
<1> HIDE DEF e
<1>2. CASE f \in DOMAIN r.dl
  <2>1. Sound(r.dl[f]) /\ Settled(r.dl[f])
    BY <1>2, Zenon DEF Good
  <2>2. SourcesOK([r.dl[f].src EXCEPT ![p].inFlight = @ \cup take], Needed(r.dl[f]))
    BY <2>1, TakeNeeded, AskedMore, Zenon DEF Sound
  <2>3. Sound(new) /\ Settled(new)
    BY <2>1, <2>2, PlannedSound, Zenon DEF Asking
  <2> HIDE DEF new
  <2>4. Good(r, {f}) /\ r.ask \subseteq Key /\ r.done \subseteq Files
    BY GoodBut, Zenon DEF Good
  <2> QED
    BY <1>1, <1>2, <2>3, <2>4, PutKeeps, Zenon DEF Puts, e
<1>3. CASE f \notin DOMAIN r.dl
  <2>1. Good(e, {})
    BY <1>1, <1>3, Zenon DEF Good
  <2> QED
    BY <2>1 DEF e
<1> QED
  BY <1>2, <1>3

(* A download whose store is left alone is sound, and stays settled. *)
LEMMA SameStore ==
    ASSUME NEW d, Sound(d), NEW e, Record(e, FileFields),
           e.written = d.written, e.bad = d.bad, e.verified = d.verified,
           SourcesOK(e.src, Needed(d)), e.denied \subseteq Peers
    PROVE  /\ Sound(e) /\ Needed(e) = Needed(d)
           /\ e.play = d.play => Playable(e) = Playable(d)
           /\ e.play = d.play /\ e.hashes = d.hashes /\ e.playable = d.playable
                => (Settled(d) => Settled(e))
<1>1. Needed(e) = Needed(d) /\ (e.play = d.play => Playable(e) = Playable(d))
  BY Zenon DEF Needed, Playable
<1>2. StoreOK(e)
  BY Zenon DEF Sound, StoreOK
<1> QED
  BY <1>1, <1>2, Zenon DEF Sound, Settled

(* There are finitely many sources and downloads to go through. *)
LEMMA OrderDomain ==
    ASSUME NEW S, S \subseteq Peers \/ S \subseteq Files
    PROVE  Cardinality(S) \in Nat
<1>1. IsFiniteSet(S)
  BY DownloadAssumption, FS_Subset
<1> QED
  BY <1>1, FS_CardinalityType

(* plan_requests over the sources of one file keeps a result good. *)
LEMMA PlanFileKeeps ==
    ASSUME NEW r, Good(r, {}), NEW f, NEW pl, NEW sweep
    PROVE  Good(PlanFile(r, f, pl, sweep), {})
<1>1. CASE f \in DOMAIN r.dl
  <2> DEFINE q == InOrder(Sources(r.dl[f]), <)
             loop == FoldLeft(LAMBDA acc, p : PlanSource(acc, f, p, pl = f), r, q)
  <2>1. PlanFile(r, f, pl, sweep) = r \/ PlanFile(r, f, pl, sweep) = loop
    BY Zenon DEF PlanFile
  <2>2. DOMAIN q = 1 .. Cardinality(Sources(r.dl[f])) /\ Cardinality(Sources(r.dl[f])) \in Nat
    <3>1. Sources(r.dl[f]) \subseteq Peers
      BY <1>1, Zenon DEF Good, Sound, SourcesOK, Sources
    <3> QED
      BY <3>1, OrderDomain, Zenon DEF InOrder
  <2>3. loop = Folded("sources", f, pl = f, r, q)
    BY SourcesLookup, Zenon
  <2> HIDE DEF q, loop
  <2>4. \A acc : \A i \in 1 .. Cardinality(Sources(r.dl[f])) :
           Good(acc, {}) => Good(Step("sources", f, pl = f, acc, q[i]), {})
    BY PlanSourceKeeps, Zenon DEF Step
  <2>5. PICK n \in Nat : n = Cardinality(Sources(r.dl[f]))
    BY <2>2, Zenon
  <2>6. Good(Folded("sources", f, pl = f, r, q), {})
    BY <2>2, <2>4, <2>5, FoldKeeps, Zenon
  <2> QED
    BY <2>1, <2>3, <2>6, Zenon
<1>2. CASE f \notin DOMAIN r.dl
  BY <1>2, Zenon DEF PlanFile
<1> QED
  BY <1>1, <1>2

(* priority_ordered_files lists as many files as there are. *)
LEMMA OrderedDomain ==
    ASSUME NEW r, NEW S, Good(r, S), NEW v
    PROVE  \E n \in Nat : DOMAIN Ordered(r.dl, v) = 1 .. n
<1>1. DOMAIN r.dl \subseteq Files
  BY Zenon DEF Good
<1>2. DOMAIN Ordered(r.dl, v) = 1 .. Cardinality(DOMAIN r.dl)
  BY Zenon DEF Ordered, InOrder
<1> QED
  BY <1>1, <1>2, OrderDomain, Zenon

(* plan_all keeps a result good. *)
LEMMA PlanAllKeeps ==
    ASSUME NEW r, Good(r, {}), NEW v, NEW sweep
    PROVE  Good(PlanAll(r, v, sweep), {})
<1> DEFINE q == Ordered(r.dl, v)
<1>1. PICK n \in Nat : DOMAIN q = 1 .. n
  BY OrderedDomain, Zenon
<1>2. PlanAll(r, v, sweep) = Folded("files", v.playing, sweep, r, q)
  BY FilesLookup, Zenon DEF PlanAll
<1>3. \A acc : \A i \in 1 .. n :
         Good(acc, {}) => Good(Step("files", v.playing, sweep, acc, q[i]), {})
  BY PlanFileKeeps, Zenon DEF Step
<1> HIDE DEF q
<1> QED
  BY <1>1, <1>2, <1>3, FoldKeeps, Zenon

-----------------------------------------------------------------------------
(* Progress *)

(* A source edited where no property looks. *)
LEMMA SolicitedOK ==
    ASSUME NEW s, SourceOK(s), NEW b
    PROVE  SourceOK([s EXCEPT !.solicited = b]) /\ [s EXCEPT !.solicited = b].inFlight = s.inFlight
BY Zenon DEF SourceOK, Record, SourceFields

(* A download ends. *)
LEMMA EndsKeeps ==
    ASSUME NEW r, NEW S, NEW F, Good(r, S), NEW e, IsResult(e), e.dl = Without(r.dl, F),
           e.ask \subseteq Key, e.done \subseteq Files, S \subseteq F
    PROVE  Good(e, {})
<1>1. DOMAIN e.dl = DOMAIN r.dl \ F /\ \A g \in DOMAIN r.dl \ F : e.dl[g] = r.dl[g]
  BY Zenon DEF Without
<1>2. e.dl = [g \in DOMAIN e.dl |-> e.dl[g]]
  BY DEF Without
<1>3. DOMAIN r.dl \subseteq Files /\ \A g \in DOMAIN r.dl : Sound(r.dl[g]) /\ (g \notin S => Settled(r.dl[g]))
  BY Zenon DEF Good
<1>4. \A g \in DOMAIN e.dl : Sound(e.dl[g]) /\ Settled(e.dl[g])
  BY <1>1, <1>3, Zenon
<1>5. DOMAIN e.dl \subseteq Files
  BY <1>1, <1>3, Zenon
<1> QED
  BY <1>2, <1>4, <1>5, Zenon DEF Good

(* progress_and_solicit settles its file. *)
LEMMA ProgressSettles ==
    ASSUME NEW r, NEW f, Good(r, {f})
    PROVE  /\ Good(ProgressAndSolicit(r, f), {}) /\ Fewer(ProgressAndSolicit(r, f).dl, r.dl)
           /\ Alike(ProgressAndSolicit(r, f).dl, r.dl, {})
<1> DEFINE e == ProgressAndSolicit(r, f)
           d == r.dl[f]
           mute == {p \in Sources(d) : ~d.src[p].solicited /\ d.src[p].has = {}}
           asked == [p \in Sources(d) |-> [d.src[p] EXCEPT !.solicited = @ \/ p \in mute]]
           new == IF d.hashes
                  THEN [d EXCEPT !.src = asked, !.bps = Cardinality(d.verified), !.playable = Playable(d)]
                  ELSE [d EXCEPT !.src = asked]
<1>0. IsResult(r) /\ r.ask \subseteq Key /\ r.done \subseteq Files /\ DOMAIN r.dl \subseteq Files
  BY Zenon DEF Good
<1>1. CASE f \notin DOMAIN r.dl
  <2>1. e = r
    BY <1>1, Zenon DEF ProgressAndSolicit
  <2>2. Good(r, {})
    BY <1>1, Zenon DEF Good
  <2>3. Fewer(r.dl, r.dl) /\ Alike(r.dl, r.dl, {})
    BY FewerOrder, Zenon DEF Alike
  <2> QED
    BY <2>1, <2>2, <2>3, Zenon
<1>2. CASE f \in DOMAIN r.dl /\ d.verified = Blocks
  <2>1. e = [r EXCEPT !.dl = Without(@, {f}), !.done = @ \cup {f}]
    BY <1>2, Zenon DEF ProgressAndSolicit
  <2> HIDE DEF e
  <2>2. IsResult(e) /\ e.dl = Without(r.dl, {f}) /\ e.ask = r.ask /\ e.done = r.done \cup {f}
    BY <1>0, <2>1, Zenon DEF IsResult, Record, ResultFields
  <2>3. e.done \subseteq Files
    BY <1>0, <1>2, <2>2, Zenon
  <2>4. Good(e, {})
    BY <1>0, <2>2, <2>3, EndsKeeps, Zenon
  <2>5. Fewer(e.dl, r.dl) /\ Alike(e.dl, r.dl, {})
    BY <2>2, WithoutFewer, Zenon
  <2> QED
    BY <2>4, <2>5 DEF e
<1>3. CASE f \in DOMAIN r.dl /\ d.verified # Blocks
  <2>1. e = [r EXCEPT !.ask = @ \cup (mute \X {f}), !.dl[f] = new]
    BY <1>3, Zenon DEF ProgressAndSolicit
  <2>2. Sound(d)
    BY <1>3, Zenon DEF Good
  <2>3. SourcesOK(asked, Needed(d)) /\ SourcesFewer(asked, d.src)
    <3>1. Sources(d) \subseteq Peers /\ \A p \in Sources(d) : SourceOK(d.src[p]) /\ d.src[p].inFlight \subseteq Needed(d)
      BY <2>2, Zenon DEF Sound, SourcesOK, Sources
    <3>2. DOMAIN asked = Sources(d) /\ asked = [p \in DOMAIN asked |-> asked[p]]
      OBVIOUS
    <3>3. \A p \in Sources(d) : SourceOK(asked[p]) /\ asked[p].inFlight = d.src[p].inFlight
      BY <3>1, SolicitedOK, Zenon
    <3> HIDE DEF asked, d
    <3>4. SourcesOK(asked, Needed(d))
      BY <3>1, <3>2, <3>3, Zenon DEF SourcesOK
    <3>5. SourcesFewer(asked, d.src)
      BY <3>2, <3>3, Zenon DEF SourcesFewer, Asked, Sources
    <3> QED
      BY <3>4, <3>5
  <2>4. mute \X {f} \subseteq Key
    <3>1. Sources(d) \subseteq Peers /\ f \in Files
      BY <1>0, <1>3, <2>2, Zenon DEF Sound, SourcesOK, Sources
    <3>2. mute \subseteq Sources(d)
      BY Zenon
    <3> HIDE DEF mute, d
    <3> QED
      BY <3>1, <3>2 DEF Key
  <2> HIDE DEF e, asked, mute
  <2>5. /\ Record(new, FileFields) /\ new.written = d.written /\ new.bad = d.bad
        /\ new.verified = d.verified /\ new.src = asked /\ new.denied = d.denied
        /\ new.play = d.play /\ new.since = d.since /\ new.hashes = d.hashes
        /\ d.hashes => new.playable = Playable(d)
    <3>1. Record(d, FileFields)
      BY <2>2, Zenon DEF Sound
    <3> HIDE DEF d
    <3>2. CASE d.hashes
      BY <3>1, <3>2, Zenon DEF Record, FileFields
    <3>3. CASE ~d.hashes
      BY <3>1, <3>3, Zenon DEF Record, FileFields
    <3> QED
      BY <3>2, <3>3
  <2> HIDE DEF new
  <2>6. d.denied \subseteq Peers
    BY <2>2, Zenon DEF Sound
  <2>7. Sound(new) /\ Needed(new) = Needed(d) /\ Playable(new) = Playable(d)
    BY <2>2, <2>3, <2>5, <2>6, SameStore, Zenon
  <2>8. Settled(new)
    BY <2>5, <2>7, Zenon DEF Settled
  <2>9. IsResult(e) /\ e.dl = [r.dl EXCEPT ![f] = new] /\ e.ask = r.ask \cup (mute \X {f}) /\ e.done = r.done
    BY <1>0, <2>1, Zenon DEF IsResult, Record, ResultFields
  <2>10. e.ask \subseteq Key /\ e.done \subseteq Files
    BY <1>0, <2>4, <2>9, Zenon
  <2>11. Good(e, {})
    BY <1>3, <2>7, <2>8, <2>9, <2>10, PutKeeps, Zenon DEF Puts
  <2>12. Fewer(e.dl, r.dl)
    BY <1>3, <2>3, <2>5, <2>9, PutFewer, Zenon
  <2>13. Alike(e.dl, r.dl, {})
    <3>1. \A g, h : Urgent(new, h = g) = Urgent(d, h = g)
      BY <2>5, <2>7, SameUrgent, Zenon
    <3>2. DOMAIN e.dl = DOMAIN r.dl /\ e.dl[f] = new /\ \A g \in DOMAIN r.dl : g # f => e.dl[g] = r.dl[g]
      BY <1>3, <2>9, Zenon
    <3>3. ASSUME NEW g \in DOMAIN e.dl, NEW h PROVE Urgent(e.dl[g], h = g) = Urgent(r.dl[g], h = g)
      <4>1. CASE g = f
        <5>1. e.dl[g] = new /\ r.dl[g] = d
          BY <3>2, <4>1, Zenon DEF d
        <5> HIDE DEF new, d
        <5> QED
          BY <3>1, <5>1, Zenon
      <4>2. CASE g # f
        BY <3>2, <4>2, Zenon
      <4> QED
        BY <4>1, <4>2, Zenon
    <3> QED
      BY <3>3, Zenon DEF Alike
  <2> QED
    BY <2>11, <2>12, <2>13 DEF e
<1> QED
  BY <1>1, <1>2, <1>3, Zenon

(* progress_and_refill *)
LEMMA RefillSettles ==
    ASSUME NEW o, NEW r, NEW f, Good(r, {f}), Fewer(r.dl, o.dl), NEW v
    PROVE  Refills(ProgressAndRefill(r, f, v), o, v)
BY ProgressSettles, FewerOrder, Zenon DEF ProgressAndRefill, Refills

(* Whatever is refilled is good. *)
LEMMA RefillsGood == ASSUME NEW x, NEW r, NEW v, Refills(x, r, v) PROVE Good(x, {})
BY PlanAllKeeps, Zenon DEF Refills

(* What has been left alone needs no refill. *)
LEMMA RefillsSelf == ASSUME NEW r, NEW v, Good(r, {}) PROVE Refills(r, r, v)
BY FewerOrder, Zenon DEF Refills

-----------------------------------------------------------------------------
(* The calls *)

(* One source of a download is edited, or replaced. *)
LEMMA SourceEdited ==
    ASSUME NEW src, NEW need, SourcesOK(src, need), NEW p, NEW s,
           p \in DOMAIN src => SourceOK(s) /\ s.inFlight \subseteq need
    PROVE  SourcesOK([src EXCEPT ![p] = s], need)
<1> DEFINE new == [src EXCEPT ![p] = s]
<1>1. DOMAIN new = DOMAIN src /\ new = [q \in DOMAIN new |-> new[q]]
  OBVIOUS
<1>2. \A q \in DOMAIN src : new[q] = IF q = p THEN s ELSE src[q]
  BY Zenon
<1> HIDE DEF new
<1>3. \A q \in DOMAIN src : SourceOK(new[q]) /\ new[q].inFlight \subseteq need
  BY <1>2, Zenon DEF SourcesOK
<1>4. SourcesOK(new, need)
  BY <1>1, <1>3, Zenon DEF SourcesOK
<1> QED
  BY <1>4 DEF new

(* If no more is in flight with it, no more is with any. *)
LEMMA EditedFewer ==
    ASSUME NEW src, NEW p, NEW s, p \in DOMAIN src => s.inFlight \subseteq src[p].inFlight
    PROVE  SourcesFewer([src EXCEPT ![p] = s], src)
<1> DEFINE new == [src EXCEPT ![p] = s]
<1>1. DOMAIN new = DOMAIN src /\ \A q \in DOMAIN src : new[q] = IF q = p THEN s ELSE src[q]
  BY Zenon
<1> HIDE DEF new
<1>2. SourcesFewer(new, src)
  BY <1>1, Zenon DEF SourcesFewer, Asked
<1> QED
  BY <1>2 DEF new

(* Sources that stay are as they were. *)
LEMMA SourcesLeft ==
    ASSUME NEW src, NEW need, SourcesOK(src, need), NEW P
    PROVE  SourcesOK(Without(src, P), need)
<1>1. DOMAIN Without(src, P) = DOMAIN src \ P /\ \A p \in DOMAIN src \ P : Without(src, P)[p] = src[p]
  BY Zenon DEF Without
<1>2. Without(src, P) = [p \in DOMAIN Without(src, P) |-> Without(src, P)[p]]
  BY DEF Without
<1> QED
  BY <1>1, <1>2, Zenon DEF SourcesOK

(* A record of the fields of a download is one. *)
LEMMA FileRecord ==
    ASSUME NEW w, NEW b, NEW v, NEW h, NEW s, NEW d, NEW p, NEW t, NEW n, NEW a
    PROVE  Record([written |-> w, bad |-> b, verified |-> v, hashes |-> h, src |-> s,
                   denied |-> d, play |-> p, since |-> t, bps |-> n, playable |-> a], FileFields)
<1> DEFINE r == [written |-> w, bad |-> b, verified |-> v, hashes |-> h, src |-> s,
                 denied |-> d, play |-> p, since |-> t, bps |-> n, playable |-> a]
<1>1. DOMAIN r = FileFields
  BY DEF FileFields
<1>2. r = [x \in DOMAIN r |-> r[x]]
  OBVIOUS
<1> QED
  BY <1>1, <1>2, Zenon DEF Record

(* What start inserts is sound, also for a file that is partly there. *)
LEMMA NewSound ==
    ASSUME NEW resumed, NEW absent, resumed => absent \subseteq Chunks, NEW play
    PROVE  Sound(NewDownload(resumed, absent, play)) /\ NewDownload(resumed, absent, play).src = <<>>
<1> DEFINE d == NewDownload(resumed, absent, play)
<1>1. /\ d.written = (IF resumed THEN Chunks ELSE {}) /\ d.bad = (IF resumed THEN absent ELSE {})
      /\ d.verified = {} /\ d.src = <<>> /\ d.denied = {} /\ Record(d, FileFields)
  <2>1. /\ d.written = (IF resumed THEN Chunks ELSE {}) /\ d.bad = (IF resumed THEN absent ELSE {})
        /\ d.verified = {} /\ d.src = <<>> /\ d.denied = {}
    BY Zenon DEF NewDownload
  <2>2. Record(d, FileFields)
    BY FileRecord, Zenon DEF NewDownload
  <2> QED
    BY <2>1, <2>2
<1> HIDE DEF d
<1>2. StoreOK(d)
  BY <1>1, Zenon DEF StoreOK
<1>3. SourcesOK(<<>>, Needed(d))
  BY DEF SourcesOK
<1>4. Sound(d) /\ d.src = <<>>
  BY <1>1, <1>2, <1>3 DEF Sound
<1> QED
  BY <1>4 DEF d

(* A new source has been asked for nothing. *)
LEMMA NewSourceOK == SourceOK(NewSource) /\ NewSource.inFlight = {}
BY DownloadAssumption DEF SourceOK, NewSource, Record, SourceFields

(* set_sources, and start before it, keep a result good; they leave what    *)
(* is urgent as it was, unless the file plays.                              *)
LEMMA SetSourcesKeeps ==
    ASSUME NEW r, Good(r, {}), NEW f \in Files, NEW fresh, Sound(fresh), fresh.src = <<>>,
           NEW offered, offered \subseteq Peers, NEW play, NEW v
    PROVE  Resupplies(SetSources(r, f, fresh, offered, play, v), r, f, v)
<1> DEFINE d == IF f \in DOMAIN r.dl THEN r.dl[f] ELSE fresh
           denied == d.denied \cap offered
           src == [p \in (Sources(d) \cap offered) \cup (offered \ denied) |->
                     IF p \in Sources(d) THEN d.src[p] ELSE NewSource]
           new == [d EXCEPT !.play = play, !.denied = denied, !.src = src]
           e == [r EXCEPT !.dl = [g \in DOMAIN @ \cup {f} |-> IF g = f THEN new ELSE @[g]]]
<1>1. SetSources(r, f, fresh, offered, play, v) = ProgressAndRefill(e, f, v)
  BY Zenon DEF SetSources
<1>2. Sound(d)
  BY Zenon DEF Good
<1> HIDE DEF d
<1>3. SourcesOK(src, Needed(d)) /\ SourcesFewer(src, d.src)
  <2>1. \A p \in Sources(d) : SourceOK(d.src[p]) /\ d.src[p].inFlight \subseteq Needed(d)
    BY <1>2, Zenon DEF Sound, SourcesOK, Sources
  <2>2. DOMAIN src \subseteq Peers /\ src = [p \in DOMAIN src |-> src[p]]
    OBVIOUS
  <2>3. \A p \in DOMAIN src : src[p] = IF p \in Sources(d) THEN d.src[p] ELSE NewSource
    BY Zenon
  <2> HIDE DEF src
  <2>4. \A p \in DOMAIN src : SourceOK(src[p]) /\ src[p].inFlight \subseteq Needed(d)
    BY <2>1, <2>3, NewSourceOK, Zenon
  <2>5. SourcesOK(src, Needed(d))
    BY <2>2, <2>4, Zenon DEF SourcesOK
  <2>6. SourcesFewer(src, d.src)
    BY <2>3, NewSourceOK, Zenon DEF SourcesFewer, Asked, Sources
  <2> QED
    BY <2>5, <2>6
<1>4. denied \subseteq Peers
  BY Zenon
<1> HIDE DEF src, denied
<1>5. /\ Record(new, FileFields) /\ new.written = d.written /\ new.bad = d.bad
      /\ new.verified = d.verified /\ new.src = src /\ new.denied = denied
  BY <1>2, Zenon DEF Sound, Record, FileFields
<1> HIDE DEF new
<1>6. Sound(new) /\ Needed(new) = Needed(d)
  BY <1>2, <1>3, <1>4, <1>5, SameStore, Zenon
<1>7. /\ IsResult(e) /\ e.ask = r.ask /\ e.done = r.done
      /\ e.dl = [g \in DOMAIN r.dl \cup {f} |-> IF g = f THEN new ELSE r.dl[g]]
  BY Zenon DEF Good, IsResult, Record, ResultFields
<1> HIDE DEF e
<1>8. /\ DOMAIN e.dl = DOMAIN r.dl \cup {f}
      /\ \A g \in DOMAIN e.dl : e.dl[g] = IF g = f THEN new ELSE r.dl[g]
  BY <1>7, Zenon
<1>9. e.dl = [g \in DOMAIN e.dl |-> e.dl[g]]
  BY <1>7
<1>10. Good(e, {f})
  BY <1>6, <1>7, <1>8, <1>9, Zenon DEF Good
<1>11. Fewer(e.dl, r.dl)
  <2>1. f \in DOMAIN r.dl => SourcesFewer(src, r.dl[f].src)
    BY <1>3, Zenon DEF d
  <2>2. f \notin DOMAIN r.dl => \A p : Asked(src, p) = {}
    <3>1. \A p : Asked(<<>>, p) = {}
      BY DEF Asked
    <3> QED
      BY <1>3, <3>1, Zenon DEF d, SourcesFewer
  <2>3. ASSUME NEW g, NEW p PROVE Flight(e.dl, g, p) \subseteq Flight(r.dl, g, p)
    <3>1. CASE g = f
      BY <1>5, <1>8, <2>1, <2>2, <3>1, Zenon DEF Flight, SourcesFewer
    <3>2. CASE g # f
      BY <1>8, <3>2, Zenon DEF Flight
    <3> QED
      BY <3>1, <3>2
  <2> QED
    BY <2>3, Zenon DEF Fewer
<1>12. Alike(e.dl, r.dl, {f})
  <2>1. \A g, h : h # g => Urgent(new, h = g) = Urgent(d, h = g)
    BY <1>6, SameUrgent, Zenon
  <2>2. f \in DOMAIN r.dl => d = r.dl[f]
    BY Zenon DEF d
  <2>3. ASSUME NEW g \in DOMAIN e.dl, g \in DOMAIN r.dl, NEW h, g \notin {f} \/ h # g
        PROVE  Urgent(e.dl[g], h = g) = Urgent(r.dl[g], h = g)
    <3>1. CASE g = f
      <4>1. e.dl[g] = new /\ r.dl[g] = d /\ h # g
        BY <1>8, <2>2, <2>3, <3>1, Zenon
      <4> QED
        BY <2>1, <4>1, Zenon
    <3>2. CASE g # f
      BY <1>8, <2>3, <3>2, Zenon
    <3> QED
      BY <3>1, <3>2, Zenon
  <2> QED
    BY <2>3, Zenon DEF Alike
<1> DEFINE x == ProgressAndSolicit(e, f)
<1>13. Good(x, {}) /\ Fewer(x.dl, e.dl) /\ Alike(x.dl, e.dl, {})
  BY <1>10, ProgressSettles, Zenon
<1>14. SetSources(r, f, fresh, offered, play, v) = PlanAll(x, v, FALSE)
  BY <1>1, Zenon DEF ProgressAndRefill
<1> HIDE DEF x
<1>15. Fewer(x.dl, r.dl)
  BY <1>11, <1>13, FewerOrder, Zenon
<1>16. Alike(x.dl, r.dl, {f})
  <2>1. \A g \in DOMAIN x.dl : g \in DOMAIN e.dl \/ g \notin DOMAIN r.dl
    BY <1>8, Zenon
  <2>2. ASSUME NEW g \in DOMAIN x.dl, g \in DOMAIN r.dl, NEW h, g \notin {f} \/ h # g
        PROVE  Urgent(x.dl[g], h = g) = Urgent(r.dl[g], h = g)
    <3>1. g \in DOMAIN e.dl /\ g \notin {}
      BY <2>1, <2>2, Zenon
    <3>2. Urgent(x.dl[g], h = g) = Urgent(e.dl[g], h = g)
      BY <1>13, <3>1, Zenon DEF Alike
    <3>3. Urgent(e.dl[g], h = g) = Urgent(r.dl[g], h = g)
      BY <1>12, <2>2, <3>1, Zenon DEF Alike
    <3> QED
      BY <3>2, <3>3, Zenon
  <2> QED
    BY <2>2, Zenon DEF Alike
<1> QED
  BY <1>13, <1>14, <1>15, <1>16, Zenon DEF Resupplies

(* The result is as it was but for one download, edited outside its store. *)
LEMMA EditKeeps ==
    ASSUME NEW r, Good(r, {}), NEW f \in DOMAIN r.dl, NEW e, NEW new, Puts(e, r, f, new),
           Record(new, FileFields), new.written = r.dl[f].written, new.bad = r.dl[f].bad,
           new.verified = r.dl[f].verified, new.hashes = r.dl[f].hashes,
           new.play = r.dl[f].play, new.playable = r.dl[f].playable,
           SourcesOK(new.src, Needed(r.dl[f])), SourcesFewer(new.src, r.dl[f].src),
           new.denied \subseteq Peers, e.ask \subseteq Key, e.done \subseteq Files
    PROVE  Good(e, {}) /\ Fewer(e.dl, r.dl)
<1>1. Sound(r.dl[f]) /\ Settled(r.dl[f])
  BY Zenon DEF Good
<1>2. Sound(new) /\ Settled(new)
  BY <1>1, SameStore, Zenon
<1>3. Good(e, {})
  BY <1>2, GoodBut, PutKeeps, Zenon
<1>4. Fewer(e.dl, r.dl)
  BY PutFewer, Zenon DEF Puts
<1> QED
  BY <1>3, <1>4

(* FileAvailability keeps a result good. *)
LEMMA AvailabilityKeeps ==
    ASSUME NEW r, Good(r, {}), NEW f, NEW p, NEW has, NEW v
    PROVE  Refills(OnAvailability(r, f, p, has, v), r, v)
<1>1. CASE f \notin DOMAIN r.dl
  BY <1>1, RefillsSelf, Zenon DEF OnAvailability
<1>2. CASE f \in DOMAIN r.dl /\ p \notin Sources(r.dl[f])
  BY <1>2, GoodBut, FewerOrder, RefillSettles, Zenon DEF OnAvailability
<1>3. CASE f \in DOMAIN r.dl /\ p \in Sources(r.dl[f])
  <2> DEFINE s == [r.dl[f].src[p] EXCEPT !.has = has]
             src == [r.dl[f].src EXCEPT ![p] = s]
             new == [r.dl[f] EXCEPT !.src = src]
             e == [r EXCEPT !.dl = [@ EXCEPT ![f] = new]]
  <2>1. OnAvailability(r, f, p, has, v) = ProgressAndRefill(e, f, v)
    BY <1>3, Zenon DEF OnAvailability
  <2>2. SourcesOK(r.dl[f].src, Needed(r.dl[f])) /\ Record(r.dl[f], FileFields) /\ r.dl[f].denied \subseteq Peers
    BY <1>3, Zenon DEF Good, Sound
  <2>3. SourceOK(s) /\ s.inFlight = r.dl[f].src[p].inFlight /\ s.inFlight \subseteq Needed(r.dl[f])
    <3>1. SourceOK(r.dl[f].src[p]) /\ r.dl[f].src[p].inFlight \subseteq Needed(r.dl[f])
      BY <1>3, <2>2, Zenon DEF SourcesOK, Sources
    <3> QED
      BY <3>1, Zenon DEF SourceOK, Record, SourceFields
  <2>4. SourcesOK(src, Needed(r.dl[f])) /\ SourcesFewer(src, r.dl[f].src)
    <3> HIDE DEF s
    <3> QED
      BY <2>2, <2>3, SourceEdited, EditedFewer, Zenon
  <2> HIDE DEF src
  <2>5. /\ Record(new, FileFields) /\ new.written = r.dl[f].written /\ new.bad = r.dl[f].bad
        /\ new.verified = r.dl[f].verified /\ new.hashes = r.dl[f].hashes /\ new.src = src
        /\ new.play = r.dl[f].play /\ new.playable = r.dl[f].playable /\ new.denied = r.dl[f].denied
    BY <2>2, Zenon DEF Record, FileFields
  <2> HIDE DEF new
  <2>6. IsResult(e) /\ e.dl = [r.dl EXCEPT ![f] = new] /\ e.ask = r.ask /\ e.done = r.done
    BY Zenon DEF Good, IsResult, Record, ResultFields
  <2> HIDE DEF e
  <2>7. e.ask \subseteq Key /\ e.done \subseteq Files
    BY <2>6, Zenon DEF Good
  <2>8. Good(e, {}) /\ Fewer(e.dl, r.dl)
    BY <1>3, <2>2, <2>4, <2>5, <2>6, <2>7, EditKeeps, Zenon DEF Puts
  <2> QED
    BY <2>1, <2>8, GoodBut, RefillSettles, Zenon
<1> QED
  BY <1>1, <1>2, <1>3

(* CannotServe keeps a result good. *)
LEMMA CannotServeKeeps ==
    ASSUME NEW r, Good(r, {}), NEW f, NEW p \in Peers, NEW v
    PROVE  Refills(OnCannotServe(r, f, p, v), r, v)
<1>1. CASE f \notin DOMAIN r.dl
  BY <1>1, RefillsSelf, Zenon DEF OnCannotServe
<1>2. CASE f \in DOMAIN r.dl
  <2> DEFINE src == Without(r.dl[f].src, {p})
             new == [r.dl[f] EXCEPT !.src = src, !.denied = @ \cup {p}]
             e == [r EXCEPT !.dl[f].src = Without(@, {p}), !.dl[f].denied = @ \cup {p}]
  <2>1. OnCannotServe(r, f, p, v) = ProgressAndRefill(e, f, v)
    BY <1>2, Zenon DEF OnCannotServe
  <2>2. SourcesOK(r.dl[f].src, Needed(r.dl[f])) /\ Record(r.dl[f], FileFields) /\ r.dl[f].denied \subseteq Peers
    BY <1>2, Zenon DEF Good, Sound
  <2>3. SourcesOK(src, Needed(r.dl[f])) /\ SourcesFewer(src, r.dl[f].src)
    BY <2>2, SourcesLeft, WithoutFewer, Zenon
  <2>4. /\ Record(new, FileFields) /\ new.written = r.dl[f].written /\ new.bad = r.dl[f].bad
        /\ new.verified = r.dl[f].verified /\ new.hashes = r.dl[f].hashes /\ new.src = src
        /\ new.play = r.dl[f].play /\ new.playable = r.dl[f].playable
        /\ new.denied = r.dl[f].denied \cup {p}
    BY <2>2, Zenon DEF Record, FileFields
  <2>5. IsResult(e) /\ e.dl = [r.dl EXCEPT ![f] = new] /\ e.ask = r.ask /\ e.done = r.done
    BY <1>2, <2>2, Zenon DEF Good, IsResult, Record, ResultFields, FileFields
  <2> HIDE DEF e, new, src
  <2>6. e.ask \subseteq Key /\ e.done \subseteq Files /\ new.denied \subseteq Peers
    BY <2>2, <2>4, <2>5, Zenon DEF Good
  <2>7. Good(e, {}) /\ Fewer(e.dl, r.dl)
    BY <1>2, <2>3, <2>4, <2>5, <2>6, EditKeeps, Zenon DEF Puts
  <2> QED
    BY <2>1, <2>7, GoodBut, RefillSettles, Zenon
<1> QED
  BY <1>1, <1>2

(* verify keeps a download sound: a block whose chunks are all written and  *)
(* good verifies, one with a bad chunk is cleared, and nothing that was     *)
(* needed stops being so.                                                   *)
LEMMA VerifySound ==
    ASSUME NEW d, Sound(d)
    PROVE  Sound(Verify(d)) /\ Verify(d).src = d.src
<1> DEFINE full == {b \in Blocks \ d.verified : ChunksOf(b) \subseteq d.written}
           good == {b \in full : ChunksOf(b) \cap d.bad = {}}
           cleared == UNION {ChunksOf(b) : b \in full \ good}
           e == [d EXCEPT !.verified = @ \cup good, !.written = @ \ cleared, !.bad = @ \ cleared]
<1>1. Verify(d) = IF d.hashes THEN e ELSE d
  BY Zenon DEF Verify
<1>2. StoreOK(d) /\ Record(d, FileFields) /\ SourcesOK(d.src, Needed(d)) /\ d.denied \subseteq Peers
  BY Zenon DEF Sound
<1>3. \A b : \A c : c \in ChunksOf(b) <=> c \in Chunks /\ BlockOf(c) = b
  BY Zenon DEF ChunksOf
<1>4. \A b \in full : b \in Blocks /\ b \notin d.verified /\ ChunksOf(b) \subseteq d.written
  BY Zenon
<1>5. good \subseteq full /\ \A b \in good : \A c \in ChunksOf(b) : c \notin d.bad
  BY Zenon
<1>6. \A c : c \in cleared <=> c \in Chunks /\ BlockOf(c) \in full \ good
  <2> HIDE DEF full, good
  <2> QED
    BY <1>3, Zenon
<1> HIDE DEF full, good, cleared
<1>7. /\ e.verified = d.verified \cup good /\ e.written = d.written \ cleared
      /\ e.bad = d.bad \ cleared /\ e.src = d.src /\ e.denied = d.denied /\ Record(e, FileFields)
  BY <1>2, Zenon DEF Record, FileFields
<1> HIDE DEF e
<1>8. StoreOK(e)
  <2>1. /\ d.written \subseteq Chunks /\ d.bad \subseteq d.written /\ d.verified \subseteq Blocks
        /\ \A c \in Chunks : BlockOf(c) \in d.verified => c \in d.written
        /\ \A c \in d.bad : BlockOf(c) \notin d.verified
    BY <1>2, Zenon DEF StoreOK
  <2>2. e.written \subseteq Chunks /\ e.bad \subseteq e.written
    BY <1>7, <2>1, Zenon
  <2>3. e.verified \subseteq Blocks
    BY <1>4, <1>5, <1>7, <2>1, Zenon
  <2>4. ASSUME NEW c \in Chunks, BlockOf(c) \in e.verified PROVE c \in e.written
    <3>1. CASE BlockOf(c) \in d.verified
      BY <1>4, <1>6, <1>7, <2>1, <3>1, Zenon
    <3>2. CASE BlockOf(c) \in good
      BY <1>3, <1>4, <1>5, <1>6, <1>7, <3>2, Zenon
    <3> QED
      BY <1>7, <2>4, <3>1, <3>2, Zenon
  <2>5. ASSUME NEW c \in e.bad PROVE BlockOf(c) \notin e.verified
    <3>1. c \in d.bad /\ c \in Chunks /\ BlockOf(c) \notin d.verified
      BY <1>7, <2>1, <2>5, Zenon
    <3>2. BlockOf(c) \notin good
      BY <1>3, <1>5, <3>1, Zenon
    <3> QED
      BY <1>7, <3>1, <3>2, Zenon
  <2> QED
    BY <2>2, <2>3, <2>4, <2>5, Zenon DEF StoreOK
<1>9. Needed(d) \subseteq Needed(e)
  <2>1. SUFFICES ASSUME NEW c \in Chunks, c \notin d.written, BlockOf(c) \notin d.verified
                 PROVE  c \notin e.written /\ BlockOf(c) \notin e.verified
    BY Zenon DEF Needed
  <2>2. BlockOf(c) \notin good
    BY <1>3, <1>4, <1>5, <2>1, Zenon
  <2> QED
    BY <1>7, <2>1, <2>2, Zenon
<1>10. SourcesOK(e.src, Needed(e))
  BY <1>2, <1>7, <1>9, Zenon DEF SourcesOK
<1>11. Sound(e)
  BY <1>2, <1>7, <1>8, <1>10, Zenon DEF Sound
<1> QED
  BY <1>1, <1>7, <1>11, Zenon

(* The result is as it was but for one download, verified anew. *)
LEMMA VerifiedPut ==
    ASSUME NEW r, NEW f, Good(r, {f}), f \in DOMAIN r.dl,
           NEW d, Sound(d), SourcesFewer(d.src, r.dl[f].src),
           NEW e, Puts(e, r, f, Verify(d)), e.ask = r.ask, e.done = r.done, NEW v
    PROVE  Refills(ProgressAndRefill(e, f, v), r, v)
<1>1. e.ask \subseteq Key /\ e.done \subseteq Files
  BY Zenon DEF Good
<1>2. Sound(Verify(d)) /\ SourcesFewer(Verify(d).src, r.dl[f].src)
  BY VerifySound, Zenon
<1>3. Good(e, {f})
  BY <1>1, <1>2, PutKeeps, Zenon
<1>4. Fewer(e.dl, r.dl)
  BY <1>2, PutFewer, Zenon DEF Puts
<1> QED
  BY <1>3, <1>4, RefillSettles, Zenon

(* on_block_hashes keeps a result good. *)
LEMMA BlockHashesKeep ==
    ASSUME NEW r, Good(r, {}), NEW f, NEW p, NEW match, NEW v
    PROVE  Refills(OnBlockHashes(r, f, p, match, v), r, v)
<1>1. CASE f \notin DOMAIN r.dl \/ r.dl[f].hashes
  BY <1>1, RefillsSelf, Zenon DEF OnBlockHashes
<1>2. ASSUME f \in DOMAIN r.dl
      PROVE  SourcesOK(r.dl[f].src, Needed(r.dl[f])) /\ Record(r.dl[f], FileFields) /\ r.dl[f].denied \subseteq Peers
  BY <1>2, Zenon DEF Good, Sound
<1>3. CASE f \in DOMAIN r.dl /\ ~r.dl[f].hashes /\ ~match
  <2> DEFINE src == Without(r.dl[f].src, {p})
             new == [r.dl[f] EXCEPT !.src = src]
             e == [r EXCEPT !.dl[f].src = Without(@, {p})]
  <2>1. OnBlockHashes(r, f, p, match, v) = ProgressAndRefill(e, f, v)
    BY <1>3, Zenon DEF OnBlockHashes
  <2>2. SourcesOK(src, Needed(r.dl[f])) /\ SourcesFewer(src, r.dl[f].src)
    BY <1>2, <1>3, SourcesLeft, WithoutFewer, Zenon
  <2>3. /\ Record(new, FileFields) /\ new.written = r.dl[f].written /\ new.bad = r.dl[f].bad
        /\ new.verified = r.dl[f].verified /\ new.hashes = r.dl[f].hashes /\ new.src = src
        /\ new.play = r.dl[f].play /\ new.playable = r.dl[f].playable
        /\ new.denied = r.dl[f].denied
    BY <1>2, <1>3, Zenon DEF Record, FileFields
  <2>4. IsResult(e) /\ e.dl = [r.dl EXCEPT ![f] = new] /\ e.ask = r.ask /\ e.done = r.done
    BY <1>3, Zenon DEF Good, IsResult, Record, ResultFields
  <2> HIDE DEF e, new, src
  <2>5. e.ask \subseteq Key /\ e.done \subseteq Files
    BY <2>4, Zenon DEF Good
  <2>6. Good(e, {}) /\ Fewer(e.dl, r.dl)
    BY <1>2, <1>3, <2>2, <2>3, <2>4, <2>5, EditKeeps, Zenon DEF Puts
  <2> QED
    BY <2>1, <2>6, GoodBut, RefillSettles, Zenon
<1>4. CASE f \in DOMAIN r.dl /\ ~r.dl[f].hashes /\ match
  <2> DEFINE heard == IF p \in Sources(r.dl[f]) THEN [r.dl[f] EXCEPT !.src[p].replied = TRUE] ELSE r.dl[f]
             new == [heard EXCEPT !.hashes = TRUE]
             e == [r EXCEPT !.dl[f] = Verify(new)]
  <2>1. OnBlockHashes(r, f, p, match, v) = ProgressAndRefill(e, f, v)
    BY <1>4, Zenon DEF OnBlockHashes
  <2>2. Sound(heard) /\ SourcesFewer(heard.src, r.dl[f].src)
    <3>1. CASE p \in Sources(r.dl[f])
      <4> DEFINE s == [r.dl[f].src[p] EXCEPT !.replied = TRUE]
                 src == [r.dl[f].src EXCEPT ![p] = s]
      <4>1. SourceOK(s) /\ s.inFlight = r.dl[f].src[p].inFlight /\ s.inFlight \subseteq Needed(r.dl[f])
        <5>1. SourceOK(r.dl[f].src[p]) /\ r.dl[f].src[p].inFlight \subseteq Needed(r.dl[f])
          BY <1>2, <1>4, <3>1, Zenon DEF SourcesOK, Sources
        <5> QED
          BY <5>1, Zenon DEF SourceOK, Record, SourceFields
      <4>2. heard = [r.dl[f] EXCEPT !.src = src]
        BY <3>1, Zenon
      <4> HIDE DEF s, heard
      <4>3. SourcesOK(src, Needed(r.dl[f])) /\ SourcesFewer(src, r.dl[f].src)
        BY <1>2, <1>4, <4>1, SourceEdited, EditedFewer, Zenon
      <4> HIDE DEF src
      <4>4. /\ Record(heard, FileFields) /\ heard.written = r.dl[f].written /\ heard.bad = r.dl[f].bad
            /\ heard.verified = r.dl[f].verified /\ heard.src = src /\ heard.denied = r.dl[f].denied
        BY <1>2, <1>4, <4>2, Zenon DEF Record, FileFields
      <4>5. Sound(r.dl[f])
        BY <1>4, Zenon DEF Good
      <4> QED
        BY <1>2, <1>4, <4>3, <4>4, <4>5, SameStore, Zenon
    <3>2. CASE p \notin Sources(r.dl[f])
      BY <1>4, <3>2, Zenon DEF Good, SourcesFewer
    <3> QED
      BY <3>1, <3>2
  <2> HIDE DEF heard
  <2>3. SourcesOK(heard.src, Needed(heard)) /\ Record(heard, FileFields) /\ heard.denied \subseteq Peers
    BY <2>2, Zenon DEF Sound
  <2>4. /\ Record(new, FileFields) /\ new.written = heard.written /\ new.bad = heard.bad
        /\ new.verified = heard.verified /\ new.src = heard.src /\ new.denied = heard.denied
    BY <2>3, Zenon DEF Record, FileFields
  <2> HIDE DEF new
  <2>5. Sound(new) /\ SourcesFewer(new.src, r.dl[f].src)
    BY <2>2, <2>3, <2>4, SameStore, Zenon
  <2>6. Puts(e, r, f, Verify(new)) /\ e.ask = r.ask /\ e.done = r.done
    BY Zenon DEF Good, IsResult, Record, ResultFields, Puts
  <2> HIDE DEF e
  <2> QED
    BY <1>4, <2>1, <2>5, <2>6, GoodBut, VerifiedPut, Zenon
<1> QED
  BY <1>1, <1>3, <1>4

\* The sources once chunk c has been retracted from all but p.
Retracted(src, p, c) ==
    LET others == {q \in DOMAIN src \ {p} : c \in src[q].inFlight}
    IN  [q \in DOMAIN src |-> IF q \in others THEN [src[q] EXCEPT !.inFlight = @ \ {c}] ELSE src[q]]

(* cancel_elsewhere puts in the sources so retracted. *)
LEMMA CancelPuts ==
    ASSUME NEW r, IsResult(r), NEW f \in DOMAIN r.dl, Record(r.dl[f], FileFields), NEW p, NEW c
    PROVE  /\ Puts(CancelElsewhere(r, f, p, c), r, f, [r.dl[f] EXCEPT !.src = Retracted(@, p, c)])
           /\ CancelElsewhere(r, f, p, c).ask = r.ask
           /\ CancelElsewhere(r, f, p, c).done = r.done
<1> DEFINE e == CancelElsewhere(r, f, p, c)
           d == r.dl[f]
           others == {q \in DOMAIN d.src \ {p} : c \in d.src[q].inFlight}
           new == [q \in DOMAIN d.src |->
                     IF q \in others THEN [d.src[q] EXCEPT !.inFlight = @ \ {c}] ELSE d.src[q]]
<1>1. new = Retracted(d.src, p, c)
  BY Zenon DEF Retracted
<1>2. \E C : e = [r EXCEPT !.dl[f].src = new, !.cancel = C]
  BY Zenon DEF CancelElsewhere, Sources
<1>3. PICK C : e = [r EXCEPT !.dl[f].src = new, !.cancel = C]
  BY <1>2, Zenon
<1> HIDE DEF e, new
<1>4. /\ IsResult(e) /\ e.dl = [r.dl EXCEPT ![f] = [r.dl[f] EXCEPT !.src = new]]
      /\ e.ask = r.ask /\ e.done = r.done
  BY <1>3, Zenon DEF IsResult, Record, ResultFields
<1>5. Puts(e, r, f, [r.dl[f] EXCEPT !.src = Retracted(@, p, c)])
  BY <1>1, <1>4, Zenon DEF Puts
<1> QED
  BY <1>4, <1>5, Zenon DEF e

(* The sources so retracted hold c nowhere, if p does not. *)
LEMMA RetractedOK ==
    ASSUME NEW src, NEW need, SourcesOK(src, need), NEW p, NEW c
    PROVE  /\ SourcesOK(Retracted(src, p, c), need)
           /\ SourcesFewer(Retracted(src, p, c), src)
           /\ p \notin DOMAIN src \/ c \notin src[p].inFlight
                => SourcesOK(Retracted(src, p, c), need \ {c})
<1> DEFINE new == Retracted(src, p, c)
           Less(s) == [s EXCEPT !.inFlight = @ \ {c}]
<1>1. DOMAIN new = DOMAIN src /\ new = [q \in DOMAIN new |-> new[q]]
  BY DEF Retracted
<1>2. \A s : SourceOK(s) => SourceOK(Less(s)) /\ Less(s).inFlight = s.inFlight \ {c}
  BY Zenon DEF SourceOK, Record, SourceFields
<1>3. \A q \in DOMAIN src : new[q] = IF q # p /\ c \in src[q].inFlight THEN Less(src[q]) ELSE src[q]
  BY Zenon DEF Retracted
<1> HIDE DEF new, Less
<1>4. DOMAIN src \subseteq Peers /\ \A q \in DOMAIN src : SourceOK(src[q]) /\ src[q].inFlight \subseteq need
  BY Zenon DEF SourcesOK
<1>5. \A q \in DOMAIN src : SourceOK(new[q]) /\ new[q].inFlight \subseteq src[q].inFlight
  BY <1>2, <1>3, <1>4, Zenon
<1>6. SourcesOK(new, need)
  BY <1>1, <1>4, <1>5, Zenon DEF SourcesOK
<1>7. ASSUME p \notin DOMAIN src \/ c \notin src[p].inFlight
      PROVE  SourcesOK(new, need \ {c})
  <2>1. \A q \in DOMAIN src : c \notin new[q].inFlight
    BY <1>2, <1>3, <1>4, <1>7, Zenon
  <2>2. \A q \in DOMAIN src : new[q].inFlight \subseteq need \ {c}
    BY <1>4, <1>5, <2>1, Zenon
  <2> QED
    BY <1>1, <1>4, <1>5, <2>2, Zenon DEF SourcesOK
<1>8. SourcesFewer(new, src)
  BY <1>1, <1>5, Zenon DEF SourcesFewer, Asked
<1> QED
  BY <1>6, <1>7, <1>8 DEF new

(* What a chunk makes of a download whose store did not have it, once it is *)
(* retracted elsewhere.                                                     *)
LEMMA WrittenSound ==
    ASSUME NEW d, Sound(d), NEW p, NEW c \in Chunks, c \notin d.written, NEW good,
           p \in Sources(d) => c \notin d.src[p].inFlight
    PROVE  /\ Sound([WriteChunk(d, c, good) EXCEPT !.src = Retracted(@, p, c)])
           /\ [WriteChunk(d, c, good) EXCEPT !.src = Retracted(@, p, c)].src = Retracted(d.src, p, c)
<1> DEFINE w == WriteChunk(d, c, good)
           e == [w EXCEPT !.src = Retracted(@, p, c)]
<1>1. StoreOK(d) /\ Record(d, FileFields) /\ SourcesOK(d.src, Needed(d)) /\ d.denied \subseteq Peers
  BY Zenon DEF Sound
<1>2. /\ w.written = d.written \cup {c} /\ w.bad = (IF good THEN d.bad \ {c} ELSE d.bad \cup {c})
      /\ w.verified = d.verified /\ w.src = d.src /\ w.denied = d.denied /\ Record(w, FileFields)
  BY <1>1, Zenon DEF WriteChunk, Record, FileFields
<1> HIDE DEF w
<1>3. /\ e.written = w.written /\ e.bad = w.bad /\ e.verified = w.verified
      /\ e.src = Retracted(w.src, p, c) /\ e.denied = w.denied /\ Record(e, FileFields)
  BY <1>2, Zenon DEF Record, FileFields
<1> HIDE DEF e
<1>4. /\ d.written \subseteq Chunks /\ d.bad \subseteq d.written /\ d.verified \subseteq Blocks
      /\ \A x \in Chunks : BlockOf(x) \in d.verified => x \in d.written
      /\ \A x \in d.bad : BlockOf(x) \notin d.verified
  BY <1>1, Zenon DEF StoreOK
<1>5. BlockOf(c) \notin d.verified
  BY <1>4, Zenon
<1>6. StoreOK(e)
  <2>1. e.written \subseteq Chunks /\ e.bad \subseteq d.bad \cup {c} /\ e.bad \subseteq e.written
    <3>1. CASE good
      BY <1>2, <1>3, <1>4, <3>1, Zenon
    <3>2. CASE ~good
      BY <1>2, <1>3, <1>4, <3>2, Zenon
    <3> QED
      BY <3>1, <3>2
  <2>2. \A x \in e.bad : BlockOf(x) \notin e.verified
    BY <1>2, <1>3, <1>4, <1>5, <2>1, Zenon
  <2> QED
    BY <1>2, <1>3, <1>4, <2>1, <2>2, Zenon DEF StoreOK
<1>7. Needed(d) \ {c} \subseteq Needed(e)
  BY <1>2, <1>3, Zenon DEF Needed
<1>8. SourcesOK(e.src, Needed(d) \ {c})
  <2>1. p \notin DOMAIN d.src \/ c \notin d.src[p].inFlight
    BY Zenon DEF Sources
  <2>2. SourcesOK(Retracted(d.src, p, c), Needed(d) \ {c})
    BY <1>1, <2>1, RetractedOK, Zenon
  <2> QED
    BY <1>2, <1>3, <2>2, Zenon
<1>9. SourcesOK(e.src, Needed(e))
  BY <1>7, <1>8, Zenon DEF SourcesOK
<1>10. Sound(e)
  BY <1>1, <1>2, <1>3, <1>6, <1>9, Zenon DEF Sound
<1>11. e.src = Retracted(d.src, p, c)
  BY <1>2, <1>3, Zenon
<1> QED
  BY <1>10, <1>11 DEF e, w

(* on_chunk_data keeps a result good, whatever the chunk's bytes. *)
LEMMA ChunkDataKeeps ==
    ASSUME NEW r, Good(r, {}), NEW f, NEW p, NEW c \in Chunks, NEW good, NEW v
    PROVE  Refills(OnChunkData(r, f, p, c, good, v), r, v)
<1>1. CASE f \notin DOMAIN r.dl
  BY <1>1, RefillsSelf, Zenon DEF OnChunkData
<1>2. CASE f \in DOMAIN r.dl
  <2> DEFINE d == r.dl[f]
             e == IF p \in Sources(d)
                  THEN [d EXCEPT !.src[p].silent = 0, !.src[p].dead = 0, !.src[p].inFlight = @ \ {c}]
                  ELSE d
             heard == [r EXCEPT !.dl[f] = e]
             wrote == [heard EXCEPT !.dl[f] = WriteChunk(e, c, good)]
             cut == CancelElsewhere(wrote, f, p, c)
             new == [cut EXCEPT !.dl[f] = Verify(@)]
  <2>0. OnChunkData(r, f, p, c, good, v) =
          IF c \in d.written THEN CancelElsewhere(heard, f, p, c) ELSE ProgressAndRefill(new, f, v)
    BY <1>2, Zenon DEF OnChunkData
  <2>1. /\ IsResult(r) /\ Sound(d) /\ Settled(d) /\ SourcesOK(d.src, Needed(d))
        /\ Record(d, FileFields) /\ d.denied \subseteq Peers /\ r.ask \subseteq Key /\ r.done \subseteq Files
    BY <1>2, Zenon DEF Good, Sound
  <2> HIDE DEF d
  <2>2. /\ Record(e, FileFields) /\ e.written = d.written /\ e.bad = d.bad
        /\ e.verified = d.verified /\ e.hashes = d.hashes /\ e.play = d.play
        /\ e.playable = d.playable /\ e.denied = d.denied
        /\ SourcesFewer(e.src, d.src)
        /\ SourcesOK(e.src, Needed(d)) /\ (p \in DOMAIN e.src => c \notin e.src[p].inFlight)
    <3>1. CASE p \in Sources(d)
      <4> DEFINE s == [d.src[p] EXCEPT !.silent = 0, !.dead = 0, !.inFlight = @ \ {c}]
                 src == [d.src EXCEPT ![p] = s]
      <4>1. e = [d EXCEPT !.src[p].silent = 0, !.src[p].dead = 0, !.src[p].inFlight = @ \ {c}]
        BY <3>1, Zenon
      <4> HIDE DEF e
      <4>2. /\ Record(e, FileFields) /\ e.written = d.written /\ e.bad = d.bad
            /\ e.verified = d.verified /\ e.hashes = d.hashes /\ e.play = d.play
            /\ e.playable = d.playable /\ e.denied = d.denied /\ e.src = src
        BY <2>1, <3>1, <4>1, Zenon DEF Record, FileFields, Sources
      <4>3. /\ SourceOK(s) /\ s.inFlight \subseteq Needed(d) /\ c \notin s.inFlight
            /\ s.inFlight \subseteq d.src[p].inFlight
        <5>1. SourceOK(d.src[p]) /\ d.src[p].inFlight \subseteq Needed(d)
          BY <2>1, <3>1, Zenon DEF SourcesOK, Sources
        <5> QED
          BY <5>1, Zenon DEF SourceOK, Record, SourceFields
      <4> HIDE DEF s
      <4>4. SourcesOK(src, Needed(d)) /\ src[p] = s /\ SourcesFewer(src, d.src)
        BY <2>1, <3>1, <4>3, SourceEdited, EditedFewer, Zenon DEF Sources
      <4> QED
        BY <4>2, <4>3, <4>4, Zenon
    <3>2. CASE p \notin Sources(d)
      BY <2>1, <3>2, Zenon DEF Sources, SourcesFewer
    <3> QED
      BY <3>1, <3>2
  <2> HIDE DEF e
  <2>3. Sound(e) /\ Settled(e)
    BY <2>1, <2>2, SameStore, Zenon
  <2>4. IsResult(heard) /\ heard.dl = [r.dl EXCEPT ![f] = e] /\ heard.ask = r.ask /\ heard.done = r.done
    BY <2>1, Zenon DEF IsResult, Record, ResultFields
  <2> HIDE DEF heard
  <2>5. Good(heard, {}) /\ f \in DOMAIN heard.dl /\ heard.dl[f] = e
    BY <1>2, <2>1, <2>3, <2>4, GoodBut, PutKeeps, Zenon DEF Puts
  <2>6. Fewer(heard.dl, r.dl)
    BY <1>2, <2>2, <2>4, PutFewer, Zenon DEF d
  <2>7. CASE c \in d.written
    <3> DEFINE x == CancelElsewhere(heard, f, p, c)
               y == [e EXCEPT !.src = Retracted(@, p, c)]
    <3>1. Puts(x, heard, f, y) /\ x.ask = heard.ask /\ x.done = heard.done
      <4>1. IsResult(heard) /\ f \in DOMAIN heard.dl /\ heard.dl[f] = e /\ Record(heard.dl[f], FileFields)
        BY <2>2, <2>4, <2>5, Zenon
      <4>2. /\ Puts(x, heard, f, [heard.dl[f] EXCEPT !.src = Retracted(@, p, c)])
            /\ x.ask = heard.ask /\ x.done = heard.done
        BY <4>1, CancelPuts, Zenon
      <4> QED
        BY <4>1, <4>2, Zenon
    <3> HIDE DEF x
    <3>2. /\ Record(y, FileFields) /\ y.written = e.written /\ y.bad = e.bad
          /\ y.verified = e.verified /\ y.hashes = e.hashes /\ y.play = e.play
          /\ y.playable = e.playable /\ y.denied = e.denied /\ y.src = Retracted(e.src, p, c)
      BY <2>2, Zenon DEF Record, FileFields
    <3> HIDE DEF y
    <3>3. SourcesOK(y.src, Needed(e)) /\ SourcesFewer(y.src, e.src) /\ y.denied \subseteq Peers
      <4>1. SourcesOK(e.src, Needed(e)) /\ e.denied \subseteq Peers
        BY <2>3, Zenon DEF Sound
      <4>2. SourcesOK(Retracted(e.src, p, c), Needed(e)) /\ SourcesFewer(Retracted(e.src, p, c), e.src)
        BY <4>1, RetractedOK, Zenon
      <4> QED
        BY <3>2, <4>1, <4>2, Zenon
    <3>4. x.ask \subseteq Key /\ x.done \subseteq Files
      BY <2>1, <2>4, <3>1, Zenon
    <3>5. Good(x, {}) /\ Fewer(x.dl, heard.dl)
      BY <2>5, <3>1, <3>2, <3>3, <3>4, EditKeeps, Zenon
    <3>6. Refills(x, r, v)
      BY <2>6, <3>5, FewerOrder, Zenon DEF Refills
    <3> QED
      BY <2>0, <2>7, <3>6, Zenon DEF x
  <2>8. CASE c \notin d.written
    <3> DEFINE w == WriteChunk(e, c, good)
               y == [w EXCEPT !.src = Retracted(@, p, c)]
    <3>1. /\ IsResult(wrote) /\ wrote.dl = [r.dl EXCEPT ![f] = w]
          /\ wrote.ask = r.ask /\ wrote.done = r.done
      BY <1>2, <2>4, Zenon DEF IsResult, Record, ResultFields
    <3>2. f \in DOMAIN wrote.dl /\ wrote.dl[f] = w /\ Record(w, FileFields)
      BY <1>2, <2>2, <3>1, Zenon DEF WriteChunk, Record, FileFields
    <3>3. Sound(y) /\ y.src = Retracted(e.src, p, c)
      BY <2>2, <2>3, <2>8, WrittenSound, Zenon DEF Sources
    <3> HIDE DEF wrote, w
    <3>4. Puts(cut, wrote, f, y) /\ cut.ask = wrote.ask /\ cut.done = wrote.done
      <4>0. IsResult(wrote) /\ f \in DOMAIN wrote.dl /\ Record(wrote.dl[f], FileFields)
        BY <3>1, <3>2, Zenon
      <4>1. /\ Puts(cut, wrote, f, [wrote.dl[f] EXCEPT !.src = Retracted(@, p, c)])
            /\ cut.ask = wrote.ask /\ cut.done = wrote.done
        BY <4>0, CancelPuts, ZenonT(60)
      <4> QED
        BY <3>2, <4>1, Zenon
    <3> HIDE DEF y, cut
    <3>5. IsResult(cut) /\ cut.dl = [r.dl EXCEPT ![f] = y]
      BY <3>1, <3>4, Zenon DEF Puts
    <3>6. Puts(new, r, f, Verify(y)) /\ new.ask = r.ask /\ new.done = r.done
      BY <1>2, <3>1, <3>4, <3>5, Zenon DEF Puts, IsResult, Record, ResultFields
    <3> HIDE DEF new
    <3>7. SourcesFewer(y.src, r.dl[f].src)
      <4>1. SourcesFewer(Retracted(e.src, p, c), e.src)
        BY <2>2, RetractedOK, Zenon
      <4> QED
        BY <2>2, <3>3, <4>1, Zenon DEF SourcesFewer, d
    <3>8. Refills(ProgressAndRefill(new, f, v), r, v)
      BY <1>2, <3>3, <3>6, <3>7, GoodBut, VerifiedPut, Zenon
    <3> QED
      BY <2>0, <2>8, <3>8, Zenon
  <2> QED
    BY <2>7, <2>8
<1> QED
  BY <1>1, <1>2

(* What requeue_source makes of a source: nothing is in flight with it. *)
LEMMA RequeuedOK ==
    ASSUME NEW s, SourceOK(s)
    PROVE  SourceOK(Requeued(s)) /\ Requeued(s).inFlight = {}
<1>1. PICK n, w : Requeued(s) = [s EXCEPT !.inFlight = {}, !.solicited = FALSE, !.silent = 0,
                                          !.dead = n, !.wait = w]
  BY Zenon DEF Requeued
<1> QED
  BY <1>1, Zenon DEF SourceOK, Record, SourceFields

(* requeue_source keeps a result good. *)
LEMMA RequeueKeeps ==
    ASSUME NEW r, Good(r, {}), NEW f, NEW p
    PROVE  Good(RequeueSource(r, f, p), {}) /\ Fewer(RequeueSource(r, f, p).dl, r.dl)
<1>1. CASE f \notin DOMAIN r.dl \/ p \notin Sources(r.dl[f])
  BY <1>1, FewerOrder, Zenon DEF RequeueSource
<1>2. CASE f \in DOMAIN r.dl /\ p \in Sources(r.dl[f])
  <2> DEFINE s == Requeued(r.dl[f].src[p])
             src == [r.dl[f].src EXCEPT ![p] = s]
             new == [r.dl[f] EXCEPT !.src = src]
             e == RequeueSource(r, f, p)
  <2>1. e = [r EXCEPT !.dl = [@ EXCEPT ![f] = new]]
    BY <1>2, Zenon DEF RequeueSource
  <2>2. SourcesOK(r.dl[f].src, Needed(r.dl[f])) /\ Record(r.dl[f], FileFields) /\ r.dl[f].denied \subseteq Peers
    BY <1>2, Zenon DEF Good, Sound
  <2>3. SourceOK(s) /\ s.inFlight = {}
    BY <1>2, <2>2, RequeuedOK, Zenon DEF SourcesOK, Sources
  <2> HIDE DEF s, e
  <2>4. SourcesOK(src, Needed(r.dl[f])) /\ SourcesFewer(src, r.dl[f].src)
    <3>1. s.inFlight \subseteq Needed(r.dl[f]) /\ s.inFlight \subseteq r.dl[f].src[p].inFlight
      BY <2>3, Zenon
    <3> QED
      BY <2>2, <2>3, <3>1, SourceEdited, EditedFewer, Zenon
  <2> HIDE DEF src
  <2>5. /\ Record(new, FileFields) /\ new.written = r.dl[f].written /\ new.bad = r.dl[f].bad
        /\ new.verified = r.dl[f].verified /\ new.hashes = r.dl[f].hashes /\ new.src = src
        /\ new.play = r.dl[f].play /\ new.playable = r.dl[f].playable /\ new.denied = r.dl[f].denied
    BY <2>2, Zenon DEF Record, FileFields
  <2> HIDE DEF new
  <2>6. IsResult(e) /\ e.dl = [r.dl EXCEPT ![f] = new] /\ e.ask = r.ask /\ e.done = r.done
    BY <2>1, Zenon DEF Good, IsResult, Record, ResultFields
  <2>7. e.ask \subseteq Key /\ e.done \subseteq Files
    BY <2>6, Zenon DEF Good
  <2>8. Good(e, {}) /\ Fewer(e.dl, r.dl)
    BY <1>2, <2>2, <2>4, <2>5, <2>6, <2>7, EditKeeps, Zenon DEF Puts
  <2> QED
    BY <2>8 DEF e
<1> QED
  BY <1>1, <1>2

(* on_source_stream_lost keeps a result good. *)
LEMMA StreamLostKeeps ==
    ASSUME NEW r, Good(r, {}), NEW f, NEW p, NEW v
    PROVE  Refills(OnSourceStreamLost(r, f, p, v), r, v)
BY RequeueKeeps, GoodBut, RefillSettles, Zenon DEF OnSourceStreamLost

(* A source asked again has been asked at most so often. *)
LEMMA ResolicitedOK ==
    ASSUME NEW s, SourceOK(s)
    PROVE  SourceOK(Resolicited(s)) /\ Resolicited(s).inFlight = s.inFlight
<1> DEFINE n == IF s.attempts >= MaxSolicitAttempts THEN 1 ELSE s.attempts + 1
<1>1. Resolicited(s) = [s EXCEPT !.silent = 0, !.attempts = n]
  BY Zenon DEF Resolicited
<1>2. n \in 0 .. MaxSolicitAttempts
  BY DownloadAssumption DEF SourceOK
<1> HIDE DEF n
<1> QED
  BY <1>1, <1>2, Zenon DEF SourceOK, Record, SourceFields

(* snub keeps a result good. *)
LEMMA SnubKeeps ==
    ASSUME NEW r, Good(r, {}), NEW f
    PROVE  Good(Snub(r, f), {}) /\ Fewer(Snub(r, f).dl, r.dl)
<1>1. CASE f \notin DOMAIN r.dl
  BY <1>1, FewerOrder, Zenon DEF Snub
<1>2. CASE f \in DOMAIN r.dl
  <2> DEFINE d == r.dl[f]
             snubbed == {p \in Sources(d) : d.src[p].inFlight # {} /\ d.src[p].silent >= SnubTimeout}
             again == {p \in Sources(d) \ snubbed : Stalled(d, d.src[p])}
             src == [p \in Sources(d) \ snubbed |-> IF p \in again THEN Resolicited(d.src[p]) ELSE d.src[p]]
             new == [d EXCEPT !.src = src]
             e == Snub(r, f)
  <2>1. \E C : e = [r EXCEPT !.dl[f].src = src, !.cancel = C, !.ask = @ \cup (again \X {f})]
    BY <1>2, Zenon DEF Snub
  <2>2. PICK C : e = [r EXCEPT !.dl[f].src = src, !.cancel = C, !.ask = @ \cup (again \X {f})]
    BY <2>1, Zenon
  <2>3. /\ Sources(d) \subseteq Peers /\ f \in Files
        /\ \A p \in Sources(d) : SourceOK(d.src[p]) /\ d.src[p].inFlight \subseteq Needed(d)
    BY <1>2, Zenon DEF Good, Sound, SourcesOK, Sources
  <2>4. again \subseteq Sources(d)
    BY Zenon
  <2>5. /\ DOMAIN src \subseteq Sources(d) /\ src = [p \in DOMAIN src |-> src[p]]
        /\ \A p \in DOMAIN src : src[p] = IF p \in again THEN Resolicited(d.src[p]) ELSE d.src[p]
    <3> HIDE DEF again, snubbed, d
    <3> QED
      OBVIOUS
  <2>6. Record(d, FileFields) /\ d.denied \subseteq Peers
    BY <1>2, Zenon DEF Good, Sound
  <2> HIDE DEF e, again, src
  <2>7. SourcesOK(src, Needed(d)) /\ SourcesFewer(src, d.src)
    <3>1. \A p \in DOMAIN src : SourceOK(src[p]) /\ src[p].inFlight = d.src[p].inFlight
      BY <2>3, <2>5, ResolicitedOK, Zenon
    <3>2. DOMAIN src \subseteq Peers
      BY <2>3, <2>5, Zenon
    <3> HIDE DEF d
    <3> QED
      BY <2>3, <2>5, <3>1, <3>2, Zenon DEF SourcesOK, SourcesFewer, Asked, Sources
  <2>8. /\ Record(new, FileFields) /\ new.written = d.written /\ new.bad = d.bad
        /\ new.verified = d.verified /\ new.hashes = d.hashes /\ new.src = src
        /\ new.play = d.play /\ new.playable = d.playable /\ new.denied = d.denied
    BY <2>6, Zenon DEF Record, FileFields
  <2>9. /\ IsResult(e) /\ e.dl = [r.dl EXCEPT ![f] = new]
        /\ e.ask = r.ask \cup (again \X {f}) /\ e.done = r.done
    BY <2>2, Zenon DEF Good, IsResult, Record, ResultFields
  <2>10. e.ask \subseteq Key /\ e.done \subseteq Files
    <3>1. again \X {f} \subseteq Key
      <4> HIDE DEF d
      <4> QED
        BY <2>3, <2>4 DEF Key
    <3> QED
      BY <2>9, <3>1, Zenon DEF Good
  <2> HIDE DEF new
  <2>11. Good(e, {}) /\ Fewer(e.dl, r.dl)
    BY <1>2, <2>6, <2>7, <2>8, <2>9, <2>10, EditKeeps, Zenon DEF Puts
  <2> QED
    BY <2>11 DEF e
<1> QED
  BY <1>1, <1>2

(* Time that passes changes the clocks only. *)
LEMMA ElapseSound ==
    ASSUME NEW d, Sound(d)
    PROVE  /\ Sound(Elapse(d)) /\ (Settled(d) => Settled(Elapse(d))) /\ Elapse(d).playable = d.playable
           /\ SourcesFewer(Elapse(d).src, d.src)
<1> DEFINE Later(s) == [s EXCEPT !.silent = Min({@ + 1, SnubTimeout * Cooldown}), !.wait = Max({@ - 1, 0})]
           src == [p \in Sources(d) |-> Later(d.src[p])]
           e == Elapse(d)
<1>1. \E t : e = [d EXCEPT !.since = t, !.src = src]
  BY Zenon DEF Elapse
<1>2. PICK t : e = [d EXCEPT !.since = t, !.src = src]
  BY <1>1, Zenon
<1>3. \A s : SourceOK(s) => SourceOK(Later(s)) /\ Later(s).inFlight = s.inFlight
  BY Zenon DEF SourceOK, Record, SourceFields
<1>4. \A p \in Sources(d) : src[p] = Later(d.src[p])
  BY Zenon
<1> HIDE DEF e, Later
<1>5. DOMAIN src = Sources(d) /\ src = [p \in DOMAIN src |-> src[p]]
  OBVIOUS
<1> HIDE DEF src
<1>6. /\ Record(d, FileFields) /\ d.denied \subseteq Peers /\ Sources(d) \subseteq Peers
      /\ \A p \in Sources(d) : SourceOK(d.src[p]) /\ d.src[p].inFlight \subseteq Needed(d)
  BY Zenon DEF Sound, SourcesOK, Sources
<1>7. SourcesOK(src, Needed(d)) /\ SourcesFewer(src, d.src)
  <2>1. \A p \in Sources(d) : SourceOK(src[p]) /\ src[p].inFlight = d.src[p].inFlight
    BY <1>3, <1>4, <1>6, Zenon
  <2> QED
    BY <1>5, <1>6, <2>1, Zenon DEF SourcesOK, SourcesFewer, Asked, Sources
<1>8. /\ Record(e, FileFields) /\ e.written = d.written /\ e.bad = d.bad
      /\ e.verified = d.verified /\ e.hashes = d.hashes /\ e.src = src
      /\ e.play = d.play /\ e.playable = d.playable /\ e.denied = d.denied
  BY <1>2, <1>6, Zenon DEF Record, FileFields
<1>9. Sound(e) /\ (Settled(d) => Settled(e))
  BY <1>6, <1>7, <1>8, SameStore, Zenon
<1> QED
  BY <1>7, <1>8, <1>9, Zenon DEF e

(* tick keeps a result good. *)
LEMMA TickKeeps ==
    ASSUME NEW r, Good(r, {}), NEW v, NEW elapsed
    PROVE  Refills(TickAll(r, v, elapsed), r, v)
<1> DEFINE late == [r EXCEPT !.dl = [f \in DOMAIN @ |-> Elapse(@[f])]]
           aged == IF elapsed THEN late ELSE r
           q == Ordered(r.dl, v)
           swept == FoldLeft(LAMBDA acc, f : ProgressAndSolicit(Snub(acc, f), f), aged, q)
<1>1. TickAll(r, v, elapsed) = PlanAll(swept, v, TRUE)
  BY Zenon DEF TickAll
<1>2. Good(late, {}) /\ Fewer(late.dl, r.dl)
  <2>1. /\ IsResult(late) /\ late.ask = r.ask /\ late.done = r.done
        /\ late.dl = [f \in DOMAIN r.dl |-> Elapse(r.dl[f])]
    BY ZenonT(60) DEF Good, IsResult, Record, ResultFields
  <2> HIDE DEF late
  <2>2. DOMAIN late.dl = DOMAIN r.dl /\ \A f \in DOMAIN r.dl : late.dl[f] = Elapse(r.dl[f])
    BY <2>1, Zenon
  <2>3. late.dl = [f \in DOMAIN late.dl |-> late.dl[f]]
    BY <2>1
  <2>4. \A f \in DOMAIN late.dl : Sound(late.dl[f]) /\ Settled(late.dl[f])
    BY <2>2, ElapseSound, Zenon DEF Good
  <2>5. Good(late, {})
    BY <2>1, <2>2, <2>3, <2>4, Zenon DEF Good
  <2>6. \A f \in DOMAIN r.dl : SourcesFewer(late.dl[f].src, r.dl[f].src)
    BY <2>2, ElapseSound, Zenon DEF Good
  <2>7. Fewer(late.dl, r.dl)
    BY <2>2, <2>6, Zenon DEF Fewer, Flight, SourcesFewer
  <2> QED
    BY <2>5, <2>7
<1>3. Good(aged, {}) /\ Fewer(aged.dl, r.dl)
  BY <1>2, FewerOrder, Zenon
<1>4. PICK n \in Nat : DOMAIN q = 1 .. n
  BY OrderedDomain, Zenon
<1>5. ASSUME NEW acc, NEW i \in 1 .. n, Good(acc, {}), Fewer(acc.dl, r.dl)
      PROVE  Good(Step("tick", 0, 0, acc, q[i]), {}) /\ Fewer(Step("tick", 0, 0, acc, q[i]).dl, r.dl)
  <2> DEFINE snub == Snub(acc, q[i])
  <2>1. Good(snub, {q[i]}) /\ Fewer(snub.dl, r.dl)
    BY <1>5, SnubKeeps, GoodBut, FewerOrder, Zenon
  <2>2. Step("tick", 0, 0, acc, q[i]) = ProgressAndSolicit(snub, q[i])
    BY Zenon DEF Step
  <2> HIDE DEF snub
  <2> QED
    BY <2>1, <2>2, ProgressSettles, FewerOrder, Zenon
<1>6. swept = Folded("tick", 0, 0, aged, q)
  BY TickLookup, Zenon
<1> HIDE DEF aged, q, swept
<1>7. Good(swept, {}) /\ Fewer(swept.dl, r.dl)
  <2>1. PICK t : Unfolds(t, "tick", 0, 0, aged, n, q)
    BY <1>4, FoldTable, Zenon
  <2> DEFINE T == {k \in 0 .. n : Good(t[k], {}) /\ Fewer(t[k].dl, r.dl)}
  <2>2. 0 \in T
    BY <1>3, <2>1 DEF Unfolds
  <2>3. ASSUME NEW k \in 0 .. n, k \in T, k + 1 \in 0 .. n PROVE k + 1 \in T
    <3>1. k + 1 \in 1 .. n /\ k \in 0 .. n - 1
      BY <2>3
    <3> QED
      BY <1>5, <2>1, <2>3, <3>1, Zenon DEF Unfolds
  <2> HIDE DEF T
  <2>4. n \in T
    <3>1. 0 \in 0 .. n
      OBVIOUS
    <3> QED
      BY <2>2, <2>3, <3>1, Climbs, Zenon
  <2> QED
    BY <1>6, <2>1, <2>4, Zenon DEF T, Unfolds
<1> QED
  BY <1>1, <1>7, Zenon DEF Refills

-----------------------------------------------------------------------------
(* Sums over files, as counts of pairs of a file and a chunk. *)

(* The larger of two integers. *)
LEMMA MaxOfTwo ==
    ASSUME NEW a \in Int, NEW b \in Int
    PROVE  Max({a, b}) = IF a >= b THEN a ELSE b
<1> DEFINE P(x) == x \in {a, b} /\ \A y \in {a, b} : x >= y
           m == IF a >= b THEN a ELSE b
<1>1. P(m) /\ \A x : P(x) => x = m
  OBVIOUS
<1>2. Max({a, b}) = CHOOSE x : P(x)
  BY Zenon DEF Max
<1> HIDE DEF P, m
<1>3. P(CHOOSE x : P(x))
  BY <1>1, Zenon
<1>4. Max({a, b}) = m
  BY <1>1, <1>2, <1>3, Zenon
<1> QED
  BY <1>4, Zenon DEF m

(* Pairs of a file and a chunk are finitely many, *)
LEMMA FewPairs ==
    ASSUME NEW K, K \subseteq Files \X Chunks
    PROVE  IsFiniteSet(K) /\ Cardinality(K) \in Nat
<1>1. IsFiniteSet(Chunks)
  <2>1. Size - 1 \in Int /\ 0 \in Int
    BY DownloadAssumption
  <2> QED
    BY <2>1, FS_Interval, Zenon DEF Chunks
<1>2. IsFiniteSet(Files \X Chunks)
  BY <1>1, DownloadAssumption, FS_Product, Zenon
<1>3. IsFiniteSet(K)
  BY <1>2, FS_Subset, Zenon
<1> QED
  BY <1>3, FS_CardinalityType, Zenon

(* and so are chunks. *)
LEMMA FewChunks ==
    ASSUME NEW S, S \subseteq Chunks
    PROVE  IsFiniteSet(S) /\ Cardinality(S) \in Nat
<1>1. IsFiniteSet(Chunks)
  <2>1. Size - 1 \in Int /\ 0 \in Int
    BY DownloadAssumption
  <2> QED
    BY <2>1, FS_Interval, Zenon DEF Chunks
<1>2. IsFiniteSet(S)
  BY <1>1, FS_Subset, Zenon
<1> QED
  BY <1>2, FS_CardinalityType, Zenon

\* The table of MapThenSumSet: the sums of w over the subsets of S.
Totals(t, w, S) ==
    t = [s \in SUBSET S |-> IF s = {} THEN 0
                            ELSE w[CHOOSE x \in s : TRUE] + t[s \ {CHOOSE x \in s : TRUE}]]

(* There is one such table at most. *)
LEMMA SameTotals ==
    ASSUME NEW S, IsFiniteSet(S), NEW w, NEW t, NEW u, Totals(t, w, S), Totals(u, w, S)
    PROVE  t[S] = u[S]
<1> DEFINE B == {s \in SUBSET S : t[s] # u[s]}
           T == {Cardinality(s) : s \in B}
<1> SUFFICES ASSUME S \in B PROVE FALSE
  BY Zenon
<1>1. \A s \in SUBSET S : IsFiniteSet(s) /\ Cardinality(s) \in Nat
  BY FS_Subset, FS_CardinalityType, Zenon
<1>2. T \subseteq Nat /\ T # {}
  BY <1>1, Zenon
<1> HIDE DEF B
<1>3. PICK n \in T : \A m \in T : n <= m
  BY <1>2, Least, Zenon
<1>4. PICK s \in B : n = Cardinality(s)
  BY <1>3, Zenon
<1>5. s \in SUBSET S /\ t[s] # u[s]
  BY <1>4, Zenon DEF B
<1>6. CASE s = {}
  BY <1>5, <1>6, Zenon DEF Totals
<1>7. CASE s # {}
  <2>1. PICK x : x = CHOOSE y \in s : TRUE
    BY Zenon
  <2>2. x \in s
    BY <1>7, <2>1, Zenon
  <2>3. t[s] = w[x] + t[s \ {x}] /\ u[s] = w[x] + u[s \ {x}]
    BY <1>5, <1>7, <2>1, Zenon DEF Totals
  <2>4. s \ {x} \in SUBSET S /\ t[s \ {x}] # u[s \ {x}]
    BY <1>5, <2>3, Zenon
  <2>5. s \ {x} \in B
    BY <2>4, Zenon DEF B
  <2>6. Cardinality(s \ {x}) = Cardinality(s) - 1
    BY <1>1, <1>5, <2>2, FS_RemoveElement, Zenon
  <2>7. n <= Cardinality(s \ {x})
    BY <1>3, <2>5, Zenon
  <2>8. Cardinality(s) \in Nat
    BY <1>1, <1>5, Zenon
  <2> QED
    BY <1>4, <2>6, <2>7, <2>8
<1> QED
  BY <1>6, <1>7

\* The pairs of a file in S and a chunk that v has for it.
Pairs(v, S) == {k \in Files \X Chunks : k[1] \in S /\ k[2] \in v[k[1]]}

(* Counting the pairs gives such a table. *)
LEMMA PairTotals ==
    ASSUME NEW S, S \subseteq Files, NEW v, \A f \in S : v[f] \subseteq Chunks,
           NEW w, \A f \in S : w[f] = Cardinality(v[f])
    PROVE  Totals([s \in SUBSET S |-> Cardinality(Pairs(v, s))], w, S)
<1> DEFINE u == [s \in SUBSET S |-> Cardinality(Pairs(v, s))]
           pick(s) == CHOOSE x \in s : TRUE
<1>1. ASSUME NEW s \in SUBSET S, s = {} PROVE u[s] = 0
  <2>1. Pairs(v, s) = {}
    BY <1>1, Zenon DEF Pairs
  <2> QED
    BY <2>1, FS_EmptySet, Zenon
<1>2. ASSUME NEW s \in SUBSET S, NEW x \in s
      PROVE  Cardinality(Pairs(v, s)) = w[x] + Cardinality(Pairs(v, s \ {x}))
  <2> DEFINE rest == Pairs(v, s \ {x})
             own == {x} \X v[x]
  <2>1. Pairs(v, s) = own \cup rest /\ own \cap rest = {}
    <3>1. x \in Files /\ v[x] \subseteq Chunks
      OBVIOUS
    <3>2. own = {k \in Files \X Chunks : k[1] = x /\ k[2] \in v[x]}
      BY <3>1
    <3> HIDE DEF own
    <3> QED
      BY <3>2, Zenon DEF Pairs
  <2>2. IsFiniteSet(rest) /\ Cardinality(rest) \in Nat
    <3>1. rest \subseteq Files \X Chunks
      BY Zenon DEF Pairs
    <3> QED
      BY <3>1, FewPairs, Zenon
  <2>3. IsFiniteSet(v[x]) /\ Cardinality(v[x]) \in Nat
    BY FewChunks, Zenon
  <2>4. IsFiniteSet({x}) /\ Cardinality({x}) = 1
    BY FS_Singleton, Zenon
  <2>5. IsFiniteSet(own) /\ Cardinality(own) = 1 * Cardinality(v[x])
    <3>1. IsFiniteSet({x} \X v[x]) /\ Cardinality({x} \X v[x]) = Cardinality({x}) * Cardinality(v[x])
      BY <2>3, <2>4, FS_Product, Zenon
    <3> QED
      BY <2>4, <3>1, Zenon
  <2> HIDE DEF own, rest
  <2>6. Cardinality(own \cup rest) = Cardinality(own) + Cardinality(rest) - Cardinality({})
    <3>1. Cardinality(own \cup rest) = Cardinality(own) + Cardinality(rest) - Cardinality(own \cap rest)
      BY <2>2, <2>5, FS_Union, Zenon
    <3> QED
      BY <2>1, <3>1, Zenon
  <2>7. Cardinality({}) = 0
    BY FS_EmptySet, Zenon
  <2>8. w[x] = Cardinality(v[x])
    BY Zenon
  <2> QED
    BY <2>1, <2>2, <2>3, <2>5, <2>6, <2>7, <2>8 DEF rest
<1>3. \A s \in SUBSET S : u[s] = IF s = {} THEN 0 ELSE w[pick(s)] + u[s \ {pick(s)}]
  <2>1. ASSUME NEW s \in SUBSET S, s # {} PROVE u[s] = w[pick(s)] + u[s \ {pick(s)}]
    <3>1. pick(s) \in s /\ s \ {pick(s)} \in SUBSET S
      BY <2>1, Zenon
    <3> HIDE DEF pick
    <3> QED
      BY <1>2, <3>1, Zenon
  <2> HIDE DEF pick, u
  <2> QED
    BY <1>1, <2>1, Zenon
<1>4. u = [s \in SUBSET S |-> IF s = {} THEN 0 ELSE w[pick(s)] + u[s \ {pick(s)}]]
  <2>1. u = [s \in SUBSET S |-> u[s]]
    BY Zenon
  <2> HIDE DEF pick, u
  <2> QED
    BY <1>3, <2>1, Zenon
<1> QED
  BY <1>4, Zenon DEF Totals

\* The two sums, of what is in flight with p and of the bulk part of it.
Weight(of, D, p, g, f) ==
    IF of = "load" THEN Cardinality(D[f].src[p].inFlight) ELSE Cardinality(BulkHeld(D[f], p, g = f))
Summed(of, D, p, g, S) == MapThenSumSet(LAMBDA f : Weight(of, D, p, g, f), S)

Weighs(v, of, D, p, g, S) ==
    \A f \in S : v[f] \subseteq Chunks /\ Weight(of, D, p, g, f) = Cardinality(v[f])

(* A sum counts the pairs. *)
LEMMA SumCounts ==
    ASSUME NEW of, NEW D, NEW p, NEW g, NEW S, S \subseteq Files, NEW v, Weighs(v, of, D, p, g, S)
    PROVE  Summed(of, D, p, g, S) = Cardinality(Pairs(v, S))
<1> DEFINE w == [f \in S |-> Weight(of, D, p, g, f)]
           u == [s \in SUBSET S |-> Cardinality(Pairs(v, s))]
           P(t) == t = [s \in SUBSET S |-> IF s = {} THEN 0
                          ELSE Weight(of, D, p, g, CHOOSE x \in s : TRUE) + t[s \ {CHOOSE x \in s : TRUE}]]
<1>1. Summed(of, D, p, g, S) = (CHOOSE t : P(t))[S]
  BY Zenon DEF Summed, MapThenSumSet, MapThenFoldSet
<1>2. \A s \in SUBSET S : s # {} => w[CHOOSE x \in s : TRUE] = Weight(of, D, p, g, CHOOSE x \in s : TRUE)
  BY Zenon
<1>3. ASSUME NEW t PROVE P(t) <=> Totals(t, w, S)
  <2> DEFINE a == [s \in SUBSET S |-> IF s = {} THEN 0
                          ELSE Weight(of, D, p, g, CHOOSE x \in s : TRUE) + t[s \ {CHOOSE x \in s : TRUE}]]
             b == [s \in SUBSET S |-> IF s = {} THEN 0
                          ELSE w[CHOOSE x \in s : TRUE] + t[s \ {CHOOSE x \in s : TRUE}]]
             pick(s) == CHOOSE x \in s : TRUE
  <2> HIDE DEF w
  <2>3. a = b
    <3>1. \A s \in SUBSET S : s # {} => w[pick(s)] = Weight(of, D, p, g, pick(s))
      BY <1>2, Zenon
    <3>2. /\ a = [s \in SUBSET S |-> IF s = {} THEN 0 ELSE Weight(of, D, p, g, pick(s)) + t[s \ {pick(s)}]]
          /\ b = [s \in SUBSET S |-> IF s = {} THEN 0 ELSE w[pick(s)] + t[s \ {pick(s)}]]
      BY Zenon
    <3> HIDE DEF a, b, pick
    <3> QED
      BY <3>1, <3>2, Zenon
  <2> QED
    BY <2>3, Zenon DEF Totals
<1>4. Totals(u, w, S)
  <2>1. \A f \in S : w[f] = Cardinality(v[f]) /\ v[f] \subseteq Chunks
    BY Zenon DEF Weighs
  <2> HIDE DEF w
  <2> QED
    BY <2>1, PairTotals, Zenon
<1>5. u[S] = Cardinality(Pairs(v, S))
  BY Zenon
<1>6. IsFiniteSet(S)
  BY DownloadAssumption, FS_Subset, Zenon
<1> HIDE DEF P, u, w
<1>7. P(u)
  BY <1>3, <1>4, Zenon
<1>8. P(CHOOSE t : P(t))
  BY <1>7, Zenon
<1>9. PICK t : t = CHOOSE y : P(y)
  BY Zenon
<1>10. Totals(t, w, S)
  BY <1>3, <1>8, <1>9, Zenon
<1>11. t[S] = u[S]
  BY <1>4, <1>6, <1>10, SameTotals, Zenon
<1> QED
  BY <1>1, <1>5, <1>9, <1>11, Zenon

\* What is in flight with p, and the bulk part of it where g plays.
HeldBy(D, p) == {k \in Files \X Chunks : k[2] \in Flight(D, k[1], p)}
BulkBy(D, p, g) == {k \in HeldBy(D, p) : k[2] \notin Urgent(D[k[1]], g = k[1])}
BulkSum(D, p, g) == MapThenSumSet(LAMBDA f : Cardinality(BulkHeld(D[f], p, g = f)), DOMAIN D)

AllSound(D) == DOMAIN D \subseteq Files /\ \A f \in DOMAIN D : Sound(D[f])

(* Load counts the one, *)
LEMMA HeldCounts ==
    ASSUME NEW D, AllSound(D), NEW p
    PROVE  Load(D, p) = Cardinality(HeldBy(D, p))
<1> DEFINE S == {f \in DOMAIN D : p \in Sources(D[f])}
           v == [f \in S |-> D[f].src[p].inFlight]
<1>1. Load(D, p) = Summed("load", D, p, None, S)
  BY Zenon DEF Load, Summed, Weight, MapThenSumSet, MapThenFoldSet
<1>2. \A f \in S : v[f] \subseteq Chunks /\ Weight("load", D, p, None, f) = Cardinality(v[f])
  BY Zenon DEF AllSound, Sound, SourcesOK, Sources, Needed, Weight
<1>3. S \subseteq Files
  BY Zenon DEF AllSound
<1>4. Pairs(v, S) = HeldBy(D, p)
  BY Zenon DEF Pairs, HeldBy, Flight, Asked, Sources
<1> HIDE DEF S, v
<1>5. Summed("load", D, p, None, S) = Cardinality(Pairs(v, S))
  <2>1. Weighs(v, "load", D, p, None, S)
    BY <1>2, Zenon DEF Weighs
  <2> QED
    BY <1>3, <2>1, SumCounts, ZenonT(60)
<1> QED
  BY <1>1, <1>4, <1>5, Zenon

(* and the sum of SharedBudget the other. *)
LEMMA BulkCounts ==
    ASSUME NEW D, AllSound(D), NEW p, NEW g
    PROVE  BulkSum(D, p, g) = Cardinality(BulkBy(D, p, g))
<1> DEFINE S == DOMAIN D
           v == [f \in S |-> BulkHeld(D[f], p, g = f)]
<1>1. BulkSum(D, p, g) = Summed("bulk", D, p, g, S)
  BY Zenon DEF BulkSum, Summed, Weight, MapThenSumSet, MapThenFoldSet
<1>2. \A f \in S : v[f] \subseteq Chunks /\ Weight("bulk", D, p, g, f) = Cardinality(v[f])
  <2>1. \A f \in S : BulkHeld(D[f], p, g = f) \subseteq Chunks
    BY Zenon DEF AllSound, Sound, SourcesOK, Sources, Needed, BulkHeld
  <2> QED
    BY <2>1, Zenon DEF Weight
<1>3. S \subseteq Files
  BY Zenon DEF AllSound
<1>4. Pairs(v, S) = BulkBy(D, p, g)
  BY Zenon DEF Pairs, BulkBy, HeldBy, BulkHeld, Flight, Asked, Sources
<1> HIDE DEF S, v
<1>5. Summed("bulk", D, p, g, S) = Cardinality(Pairs(v, S))
  <2>1. Weighs(v, "bulk", D, p, g, S)
    BY <1>2, Zenon DEF Weighs
  <2> QED
    BY <1>3, <2>1, SumCounts, ZenonT(60)
<1> QED
  BY <1>1, <1>4, <1>5, Zenon

(* Sub- and supersets of pairs, by size. *)
LEMMA FewerPairs ==
    ASSUME NEW K, NEW L, K \subseteq L, L \subseteq Files \X Chunks
    PROVE  Cardinality(K) \in Nat /\ Cardinality(L) \in Nat /\ Cardinality(K) <= Cardinality(L)
<1>1. IsFiniteSet(L) /\ Cardinality(L) \in Nat
  BY FewPairs, Zenon
<1>2. K \subseteq Files \X Chunks
  BY Zenon
<1>3. Cardinality(K) \in Nat
  BY <1>2, FewPairs, Zenon
<1> QED
  BY <1>1, <1>3, FS_Subset, Zenon

(* The first n of a set of chunks in the order of bulk candidates are at   *)
(* most n: the order is total, so that no two have as many before them.    *)
LEMMA ForemostFew ==
    ASSUME NEW d, Sources(d) \subseteq Peers, NEW S, S \subseteq Chunks, NEW n \in Nat
    PROVE  Cardinality(Foremost(d, S, n)) <= n
<1> DEFINE W == {c \in Chunks : InWindow(d, c)}
           rare == [c \in Chunks |-> Rarity(d, c)]
           prior(c) == {b \in S : Before(d, b, c)}
           F == Foremost(d, S, n)
           rank == [c \in F |-> Cardinality(prior(c))]
<1>1. \A c \in Chunks : rare[c] \in Nat
  <2>1. ASSUME NEW c PROVE Rarity(d, c) \in Nat
    <3>1. {p \in Sources(d) : c \in d.src[p].has} \subseteq Peers
      BY Zenon
    <3> QED
      BY <3>1, DownloadAssumption, FS_Subset, FS_CardinalityType, Zenon DEF Rarity
  <2> QED
    BY <2>1, Zenon
<1>2. \A a, b \in Chunks : Before(d, a, b) <=>
        \/ a \in W /\ b \notin W
        \/ a \in W /\ b \in W /\ a < b
        \/ a \notin W /\ b \notin W /\ rare[a] = rare[b] /\ a < b
        \/ a \notin W /\ b \notin W /\ rare[a] # rare[b] /\ rare[a] < rare[b]
  <2>1. \A c \in Chunks : InWindow(d, c) <=> c \in W
    BY Zenon
  <2>2. \A c : InWindow(d, c) \in BOOLEAN
    BY Zenon DEF InWindow
  <2>3. \A c \in Chunks : rare[c] = Rarity(d, c)
    BY Zenon
  <2> HIDE DEF W, rare
  <2> QED
    BY <2>1, <2>2, <2>3, Zenon DEF Before
<1>3. Chunks \subseteq Int
  BY DEF Chunks
<1> HIDE DEF W, rare
<1>4. \A a, b, c \in Chunks : Before(d, a, b) /\ Before(d, b, c) => Before(d, a, c)
  BY <1>1, <1>2, <1>3
<1>5. \A a, b \in Chunks : a # b => Before(d, a, b) \/ Before(d, b, a)
  BY <1>1, <1>2, <1>3
<1>6. \A a \in Chunks : ~Before(d, a, a)
  BY <1>1, <1>2, <1>3
<1>7. ASSUME NEW a \in S, NEW b \in S, Before(d, a, b)
      PROVE  Cardinality(prior(a)) # Cardinality(prior(b))
  <2>1. prior(a) \subseteq prior(b) /\ a \in prior(b) /\ a \notin prior(a)
    BY <1>4, <1>6, <1>7, Zenon
  <2>2. IsFiniteSet(prior(b))
    BY FewChunks, Zenon
  <2> HIDE DEF prior
  <2> QED
    BY <2>1, <2>2, FS_Subset, Zenon
<1>8. \A c \in S : Cardinality(prior(c)) \in Nat
  <2>1. ASSUME NEW c \in S PROVE Cardinality(prior(c)) \in Nat
    <3>1. prior(c) \subseteq Chunks
      BY Zenon
    <3> QED
      BY <3>1, FewChunks, Zenon
  <2> QED
    BY <2>1
<1>9. F \subseteq S /\ \A c \in F : Cardinality(prior(c)) < n
  BY Zenon DEF Foremost
<1> HIDE DEF F, prior
<1>10. rank \in [F -> 0 .. n - 1]
  <2>1. \A c \in F : Cardinality(prior(c)) \in 0 .. n - 1
    BY <1>8, <1>9
  <2> QED
    BY <2>1, Zenon
<1>11. \A a, b \in F : rank[a] = rank[b] => a = b
  <2>1. ASSUME NEW a \in F, NEW b \in F, rank[a] = rank[b] PROVE a = b
    <3>1. Cardinality(prior(a)) = Cardinality(prior(b))
      BY <2>1, Zenon
    <3> QED
      BY <1>5, <1>7, <1>9, <3>1, Zenon
  <2> QED
    BY <2>1
<1>12. IsFiniteSet(0 .. n - 1) /\ Cardinality(0 .. n - 1) = n
  <2>1. 0 \in Int /\ n - 1 \in Int
    OBVIOUS
  <2>2. IsFiniteSet(0 .. n - 1) /\ Cardinality(0 .. n - 1) = IF 0 > n - 1 THEN 0 ELSE n - 1 - 0 + 1
    BY <2>1, FS_Interval, Zenon
  <2> QED
    BY <2>2
<1>13. IsFiniteSet(F) /\ Cardinality(F) \in Nat
  <2>1. F \subseteq Chunks
    BY <1>9, Zenon
  <2> QED
    BY <2>1, FewChunks, Zenon
<1> HIDE DEF rank
<1>14. ~(Cardinality(0 .. n - 1) < Cardinality(F))
  <2> SUFFICES ASSUME Cardinality(0 .. n - 1) < Cardinality(F) PROVE FALSE
    BY Zenon
  <2>1. PICK T : T = 0 .. n - 1
    BY Zenon
  <2>2. IsFiniteSet(T) /\ Cardinality(T) < Cardinality(F) /\ rank \in [F -> T]
    BY <1>10, <1>12, <2>1, Zenon
  <2>3. PICK a \in F, b \in F : a # b /\ rank[a] = rank[b]
    BY <1>13, <2>2, FS_PigeonHole, Zenon
  <2> QED
    BY <1>11, <2>3, Zenon
<1>15. Cardinality(F) <= n
  BY <1>12, <1>13, <1>14
<1> QED
  BY <1>15, Zenon DEF F

-----------------------------------------------------------------------------
(* The single assignment of bulk chunks. *)

\* Of what is in flight with two sources in E, where g plays, each chunk is
\* urgent or was so in D.
Once(E, D, g) ==
    \A f, p, q, c :
        p # q /\ c \in Flight(E, f, p) /\ c \in Flight(E, f, q)
            => \/ c \in Urgent(E[f], g = f)
               \/ c \in Flight(D, f, p) /\ c \in Flight(D, f, q)

(* Retracting requests assigns nothing, ... *)
LEMMA FewerOnce == ASSUME NEW E, NEW D, Fewer(E, D), NEW g PROVE Once(E, D, g)
BY Zenon DEF Fewer, Once

(* ... also after some were assigned, as long as what is urgent stays so. *)
LEMMA OnceFewer ==
    ASSUME NEW C, NEW D, NEW E, NEW S, NEW g, Once(C, D, g), Fewer(E, C), Alike(E, C, S), g \notin S
    PROVE  Once(E, D, g)
<1> SUFFICES ASSUME NEW f, NEW p, NEW q, NEW c, p # q, c \in Flight(E, f, p), c \in Flight(E, f, q),
                    ~(c \in Flight(D, f, p) /\ c \in Flight(D, f, q))
             PROVE  c \in Urgent(E[f], g = f)
  BY Zenon DEF Once
<1>1. c \in Flight(C, f, p) /\ c \in Flight(C, f, q)
  BY Zenon DEF Fewer
<1>2. f \in DOMAIN E /\ f \in DOMAIN C
  BY <1>1, Zenon DEF Flight
<1>3. c \in Urgent(C[f], g = f)
  BY <1>1, Zenon DEF Once
<1>4. f \notin S \/ g # f
  BY Zenon
<1>5. Urgent(E[f], g = f) = Urgent(C[f], g = f)
  BY <1>2, <1>4, Zenon DEF Alike
<1> QED
  BY <1>3, <1>5, Zenon

(* What plan_requests takes beyond the urgent chunks is in flight with no  *)
(* source.                                                                 *)
LEMMA TakeBulk ==
    ASSUME NEW dls, NEW f, NEW p, NEW pl, NEW c \in Take(dls, f, p, pl)
    PROVE  c \in Urgent(dls[f], pl) \/ c \notin Flying(dls[f])
<1> DEFINE d == dls[f]
           urgent == Urgent(d, pl)
           bulk == IF Cardinality({q \in Sources(d) : q < p}) >= MaxSources THEN {}
                   ELSE ((Needed(d) \cap d.src[p].has) \ urgent) \ Flying(d)
           first == Foremost(d, bulk, Max({PipelineDepth - Load(dls, p), 0}))
<1>1. Take(dls, f, p, pl) = IF d.src[p].wait > 0 THEN {}
                            ELSE ((urgent \cap d.src[p].has) \ d.src[p].inFlight) \cup first
  BY Zenon DEF Take
<1>2. \A x \in bulk : x \notin Flying(d)
  BY Zenon
<1>3. first \subseteq bulk
  <2> HIDE DEF bulk
  <2> QED
    BY Zenon DEF Foremost
<1> HIDE DEF bulk, first
<1> QED
  BY <1>1, <1>2, <1>3, Zenon

\* The same chunks are urgent, whichever file it is and whichever plays.
Unhurried(e, d) == \A f, g : Urgent(e, g = f) = Urgent(d, g = f)

(* Asking for chunks makes none urgent: they have only just been asked for; *)
(* and it asks one source.                                                  *)
LEMMA AskingUrgent ==
    ASSUME NEW d, Sound(d), NEW p, NEW take
    PROVE  /\ Unhurried(Asking(d, p, take), d)
           /\ \A q : q # p => Asked(Asking(d, p, take).src, q) = Asked(d.src, q)
           /\ Asked(Asking(d, p, take).src, p) \subseteq Asked(d.src, p) \cup take
<1> DEFINE e == Asking(d, p, take)
           since == [c \in DOMAIN d.since \cup take |-> IF c \in DOMAIN d.since THEN d.since[c] ELSE 0]
           src == [d.src EXCEPT ![p].inFlight = @ \cup take]
<1>1. e = [d EXCEPT !.src = src, !.since = since]
  BY Zenon DEF Asking, PlannedFrom
<1>2. \A c : c \in DOMAIN since /\ since[c] >= UrgentAge <=> c \in DOMAIN d.since /\ d.since[c] >= UrgentAge
  <2>1. ~(0 >= UrgentAge)
    BY DownloadAssumption
  <2> QED
    BY <2>1, Zenon
<1> HIDE DEF e, since, src
<1>3. /\ e.written = d.written /\ e.verified = d.verified /\ e.play = d.play
      /\ e.since = since /\ e.src = src
  BY <1>1, Zenon DEF Sound, Record, FileFields
<1>4. Needed(e) = Needed(d)
  BY <1>3, Zenon DEF Needed
<1>5. Endgame(e) = Endgame(d)
  BY <1>4, Zenon DEF Endgame
<1>6. \A c : InWindow(e, c) = InWindow(d, c)
  BY <1>3, Zenon DEF InWindow
<1>7. ASSUME NEW f, NEW g PROVE Urgent(e, g = f) = Urgent(d, g = f)
  <2>1. \A c : c \in Urgent(e, g = f) <=> c \in Urgent(d, g = f)
    BY <1>2, <1>3, <1>4, <1>5, <1>6, Zenon DEF Urgent
  <2> QED
    BY <2>1, Zenon
<1>8. Unhurried(e, d)
  BY <1>7, Zenon DEF Unhurried
<1>9. /\ \A q : q # p => Asked(src, q) = Asked(d.src, q)
      /\ Asked(src, p) \subseteq Asked(d.src, p) \cup take
  <2> DEFINE s == [d.src[p] EXCEPT !.inFlight = @ \cup take]
  <2>1. src = [d.src EXCEPT ![p] = s]
    BY Zenon DEF src
  <2>2. p \in DOMAIN d.src => s.inFlight = d.src[p].inFlight \cup take
    <3>1. p \in DOMAIN d.src => SourceOK(d.src[p])
      BY Zenon DEF Sound, SourcesOK
    <3> QED
      BY <3>1, Zenon DEF SourceOK, Record, SourceFields
  <2> HIDE DEF s
  <2>3. /\ DOMAIN src = DOMAIN d.src /\ (p \in DOMAIN d.src => src[p] = s)
        /\ \A q \in DOMAIN d.src : q # p => src[q] = d.src[q]
    BY <2>1, Zenon
  <2> QED
    BY <2>2, <2>3, Zenon DEF Asked
<1> QED
  BY <1>3, <1>8, <1>9, Zenon DEF e

(* One source of plan_requests assigns bulk chunks once. *)
LEMMA PlanSourceOnce ==
    ASSUME NEW r, Good(r, {}), NEW f, NEW p, NEW D, NEW g, Once(r.dl, D, g)
    PROVE  Once(PlanSource(r, f, p, g = f).dl, D, g)
<1> DEFINE e == PlanSource(r, f, p, g = f)
           take == Take(r.dl, f, p, g = f)
           new == Asking(r.dl[f], p, take)
<1>1. /\ f \in DOMAIN r.dl => e.dl = [r.dl EXCEPT ![f] = new]
      /\ f \notin DOMAIN r.dl => e.dl = r.dl
  <2>1. PlansSource(e, r, f, p, take)
    BY PlanSourcePuts, Zenon
  <2> QED
    BY <2>1, Zenon DEF PlansSource
<1> HIDE DEF e
<1>2. CASE f \in DOMAIN r.dl
  <2> DEFINE d == r.dl[f]
             E == e.dl
  <2>1. /\ Unhurried(new, d)
        /\ \A a : a # p => Asked(new.src, a) = Asked(d.src, a)
        /\ Asked(new.src, p) \subseteq Asked(d.src, p) \cup take
    <3>1. Sound(d)
      BY <1>2, Zenon DEF Good
    <3> HIDE DEF take
    <3> QED
      BY <3>1, AskingUrgent, Zenon
  <2>2. DOMAIN E = DOMAIN r.dl /\ E[f] = new /\ \A h \in DOMAIN r.dl : h # f => E[h] = r.dl[h]
    BY <1>1, <1>2, Zenon
  <2>4. \A c \in take : c \in Urgent(d, g = f) \/ \A a : c \notin Asked(d.src, a)
    <3>1. \A c \in take : c \in Urgent(d, g = f) \/ c \notin Flying(d)
      BY TakeBulk, Zenon
    <3>2. \A c, a : c \in Asked(d.src, a) => c \in Flying(d)
      BY Zenon DEF Asked, Flying, Sources
    <3> QED
      BY <3>1, <3>2, Zenon
  <2> HIDE DEF d, E, new, take
  <2>5. SUFFICES ASSUME NEW h, NEW a, NEW b, NEW c, a # b, c \in Flight(E, h, a), c \in Flight(E, h, b)
                 PROVE  \/ c \in Urgent(E[h], g = h)
                        \/ c \in Flight(D, h, a) /\ c \in Flight(D, h, b)
    BY Zenon DEF Once, E, e
  <2>6. CASE h # f
    <3>1. h \in DOMAIN r.dl /\ E[h] = r.dl[h]
      BY <2>2, <2>5, <2>6, Zenon DEF Flight
    <3>2. c \in Flight(r.dl, h, a) /\ c \in Flight(r.dl, h, b)
      BY <2>2, <2>5, <3>1, Zenon DEF Flight
    <3> QED
      BY <2>5, <3>1, <3>2, Zenon DEF Once
  <2>7. CASE h = f
    <3>1. c \in Asked(new.src, a) /\ c \in Asked(new.src, b)
      BY <1>2, <2>2, <2>5, <2>7, Zenon DEF Flight
    <3>2. E[h] = new /\ Urgent(new, g = h) = Urgent(d, g = h)
      BY <2>1, <2>2, <2>7, Zenon DEF Unhurried
    <3>3. CASE c \in Asked(d.src, a) /\ c \in Asked(d.src, b)
      <4>1. c \in Flight(r.dl, h, a) /\ c \in Flight(r.dl, h, b)
        BY <1>2, <2>7, <3>3, Zenon DEF Flight, d
      <4>2. \/ c \in Urgent(r.dl[h], g = h)
            \/ c \in Flight(D, h, a) /\ c \in Flight(D, h, b)
        BY <2>5, <4>1, Zenon DEF Once
      <4>3. r.dl[h] = d
        BY <2>7, Zenon DEF d
      <4> QED
        BY <3>2, <4>2, <4>3, Zenon
    <3>4. CASE ~(c \in Asked(d.src, a) /\ c \in Asked(d.src, b))
      <4>1. c \in take /\ \E x : c \in Asked(d.src, x)
        BY <2>1, <2>5, <3>1, <3>4, Zenon
      <4>2. c \in Urgent(d, g = f)
        BY <2>4, <4>1, Zenon
      <4> QED
        BY <2>7, <3>2, <4>2, Zenon
    <3> QED
      BY <3>3, <3>4, Zenon
  <2> QED
    BY <2>6, <2>7, Zenon
<1>3. CASE f \notin DOMAIN r.dl
  BY <1>1, <1>3, Zenon DEF e
<1> QED
  BY <1>2, <1>3

-----------------------------------------------------------------------------
(* The shared budget of a peer. *)

\* What is in flight with a peer beyond the urgent, in E where g plays, is
\* within the pipeline, or no more than was in flight with it in D.
Budget(E, D, g) ==
    \A p \in Peers : Cardinality(BulkBy(E, p, g)) <= Max({PipelineDepth, Cardinality(HeldBy(D, p))})

(* Of two sets of pairs. *)
LEMMA BudgetSub ==
    ASSUME NEW C, NEW D, NEW E, NEW g, NEW h, NEW p \in Peers,
           Cardinality(BulkBy(C, p, h)) <= Max({PipelineDepth, Cardinality(HeldBy(D, p))}),
           BulkBy(E, p, g) \subseteq BulkBy(C, p, h)
    PROVE  Cardinality(BulkBy(E, p, g)) <= Max({PipelineDepth, Cardinality(HeldBy(D, p))})
<1>1. BulkBy(C, p, h) \subseteq Files \X Chunks /\ HeldBy(D, p) \subseteq Files \X Chunks
  BY Zenon DEF BulkBy, HeldBy
<1>2. /\ Cardinality(BulkBy(E, p, g)) \in Nat /\ Cardinality(BulkBy(C, p, h)) \in Nat
      /\ Cardinality(BulkBy(E, p, g)) <= Cardinality(BulkBy(C, p, h))
  BY <1>1, FewerPairs, Zenon
<1>3. Cardinality(HeldBy(D, p)) \in Nat
  BY <1>1, FewPairs, Zenon
<1>4. PipelineDepth \in Int /\ Cardinality(HeldBy(D, p)) \in Int
  BY <1>3, DownloadAssumption
<1>5. Max({PipelineDepth, Cardinality(HeldBy(D, p))})
        = IF PipelineDepth >= Cardinality(HeldBy(D, p)) THEN PipelineDepth ELSE Cardinality(HeldBy(D, p))
  BY <1>4, MaxOfTwo, Zenon
<1> QED
  BY <1>2, <1>4, <1>5

(* Retracting requests keeps to it, ... *)
LEMMA FewerBudget == ASSUME NEW E, NEW D, Fewer(E, D), NEW g PROVE Budget(E, D, g)
<1> SUFFICES ASSUME NEW p \in Peers
             PROVE  Cardinality(BulkBy(E, p, g)) <= Max({PipelineDepth, Cardinality(HeldBy(D, p))})
  BY Zenon DEF Budget
<1>1. BulkBy(E, p, g) \subseteq HeldBy(D, p) /\ HeldBy(D, p) \subseteq Files \X Chunks
  BY Zenon DEF BulkBy, HeldBy, Fewer
<1>2. /\ Cardinality(BulkBy(E, p, g)) \in Nat /\ Cardinality(HeldBy(D, p)) \in Nat
      /\ Cardinality(BulkBy(E, p, g)) <= Cardinality(HeldBy(D, p))
  BY <1>1, FewerPairs, Zenon
<1>3. PipelineDepth \in Int /\ Cardinality(HeldBy(D, p)) \in Int
  BY <1>2, DownloadAssumption
<1>4. Max({PipelineDepth, Cardinality(HeldBy(D, p))})
        = IF PipelineDepth >= Cardinality(HeldBy(D, p)) THEN PipelineDepth ELSE Cardinality(HeldBy(D, p))
  BY <1>3, MaxOfTwo, Zenon
<1> QED
  BY <1>2, <1>3, <1>4

(* ... also after some were assigned, as long as what is urgent stays so. *)
LEMMA BudgetFewer ==
    ASSUME NEW C, NEW D, NEW E, NEW S, NEW g, Budget(C, D, g), Fewer(E, C), Alike(E, C, S), g \notin S
    PROVE  Budget(E, D, g)
<1> SUFFICES ASSUME NEW p \in Peers
             PROVE  Cardinality(BulkBy(E, p, g)) <= Max({PipelineDepth, Cardinality(HeldBy(D, p))})
  BY Zenon DEF Budget
<1>1. BulkBy(E, p, g) \subseteq BulkBy(C, p, g)
  <2> SUFFICES ASSUME NEW k \in BulkBy(E, p, g) PROVE k \in BulkBy(C, p, g)
    BY Zenon
  <2>1. PICK f : f = k[1]
    BY Zenon
  <2>2. k \in Files \X Chunks /\ k[2] \in Flight(E, f, p) /\ k[2] \notin Urgent(E[f], g = f)
    BY <2>1, Zenon DEF BulkBy, HeldBy
  <2>3. k[2] \in Flight(C, f, p)
    BY <2>2, Zenon DEF Fewer
  <2>4. f \in DOMAIN E /\ f \in DOMAIN C
    BY <2>2, <2>3, Zenon DEF Flight
  <2>5. f \notin S \/ g # f
    BY Zenon
  <2>6. Urgent(E[f], g = f) = Urgent(C[f], g = f)
    BY <2>4, <2>5, Zenon DEF Alike
  <2> QED
    BY <2>1, <2>2, <2>3, <2>6, Zenon DEF BulkBy, HeldBy
<1>2. Cardinality(BulkBy(C, p, g)) <= Max({PipelineDepth, Cardinality(HeldBy(D, p))})
  BY Zenon DEF Budget
<1> QED
  BY <1>1, <1>2, BudgetSub, Zenon

(* What plan_requests takes beyond the urgent chunks fits into what the    *)
(* pipeline leaves.                                                        *)
LEMMA TakeFits ==
    ASSUME NEW dls, AllSound(dls), NEW f \in DOMAIN dls, NEW p, NEW pl
    PROVE  \E F : /\ F \subseteq Chunks /\ Cardinality(F) <= Max({PipelineDepth - Load(dls, p), 0})
                  /\ \A c \in Take(dls, f, p, pl) : c \in Urgent(dls[f], pl) \/ c \in F
<1> DEFINE d == dls[f]
           urgent == Urgent(d, pl)
           bulk == IF Cardinality({q \in Sources(d) : q < p}) >= MaxSources THEN {}
                   ELSE ((Needed(d) \cap d.src[p].has) \ urgent) \ Flying(d)
           n == Max({PipelineDepth - Load(dls, p), 0})
           first == Foremost(d, bulk, n)
<1>1. Take(dls, f, p, pl) = IF d.src[p].wait > 0 THEN {}
                            ELSE ((urgent \cap d.src[p].has) \ d.src[p].inFlight) \cup first
  BY Zenon DEF Take
<1>2. bulk \subseteq Chunks
  BY Zenon DEF Needed
<1>3. Sources(d) \subseteq Peers
  BY Zenon DEF AllSound, Sound, SourcesOK, Sources
<1>4. n \in Nat
  <2>1. Load(dls, p) \in Nat
    <3>1. HeldBy(dls, p) \subseteq Files \X Chunks
      BY Zenon DEF HeldBy
    <3> QED
      BY <3>1, FewPairs, HeldCounts, Zenon
  <2>2. PipelineDepth - Load(dls, p) \in Int /\ 0 \in Int
    BY <2>1, DownloadAssumption
  <2>3. n = IF PipelineDepth - Load(dls, p) >= 0 THEN PipelineDepth - Load(dls, p) ELSE 0
    BY <2>2, MaxOfTwo, Zenon
  <2> HIDE DEF n
  <2> QED
    BY <2>2, <2>3
<1>5. first \subseteq bulk
  <2> HIDE DEF bulk, n
  <2> QED
    BY Zenon DEF Foremost
<1> HIDE DEF bulk, n, d
<1>6. Cardinality(first) <= n
  BY <1>2, <1>3, <1>4, ForemostFew, Zenon
<1>7. first \subseteq Chunks
  BY <1>2, <1>5, Zenon
<1>8. \A c \in Take(dls, f, p, pl) : c \in urgent \/ c \in first
  BY <1>1, Zenon
<1> HIDE DEF first
<1> WITNESS first
<1> QED
  BY <1>6, <1>7, <1>8, Zenon DEF n, d

(* One source of plan_requests keeps to the budget. *)
LEMMA PlanSourceBudget ==
    ASSUME NEW r, Good(r, {}), NEW f, NEW p, NEW D, NEW g, Budget(r.dl, D, g)
    PROVE  Budget(PlanSource(r, f, p, g = f).dl, D, g)
<1> DEFINE e == PlanSource(r, f, p, g = f)
           take == Take(r.dl, f, p, g = f)
           new == Asking(r.dl[f], p, take)
<1>1. /\ f \in DOMAIN r.dl => e.dl = [r.dl EXCEPT ![f] = new]
      /\ f \notin DOMAIN r.dl => e.dl = r.dl
  <2>1. PlansSource(e, r, f, p, take)
    BY PlanSourcePuts, Zenon
  <2> QED
    BY <2>1, Zenon DEF PlansSource
<1> HIDE DEF e
<1>2. CASE f \in DOMAIN r.dl
  <2> DEFINE d == r.dl[f]
             E == e.dl
             C == r.dl
  <2>1. /\ Unhurried(new, d)
        /\ \A a : a # p => Asked(new.src, a) = Asked(d.src, a)
        /\ Asked(new.src, p) \subseteq Asked(d.src, p) \cup take
    <3>1. Sound(d)
      BY <1>2, Zenon DEF Good
    <3> HIDE DEF take
    <3> QED
      BY <3>1, AskingUrgent, Zenon
  <2>2. DOMAIN E = DOMAIN C /\ E[f] = new /\ \A h \in DOMAIN C : h # f => E[h] = C[h]
    BY <1>1, <1>2, Zenon
  <2>3. AllSound(C)
    BY Zenon DEF Good, AllSound
  <2>4. PICK F : /\ F \subseteq Chunks /\ Cardinality(F) <= Max({PipelineDepth - Load(C, p), 0})
                 /\ \A c \in take : c \in Urgent(d, g = f) \/ c \in F
    <3> HIDE DEF C
    <3> QED
      BY <1>2, <2>3, TakeFits, Zenon DEF C
  <2>5. C[f] = d /\ f \in DOMAIN C /\ f \in Files
    BY <1>2, Zenon DEF Good
  <2> HIDE DEF d, E, C, new, take
  <2>6. ASSUME NEW q, NEW k \in BulkBy(E, q, g)
        PROVE  k \in BulkBy(C, q, g) \/ (q = p /\ k \in {f} \X F)
    <3>1. PICK h : h = k[1]
      BY Zenon
    <3>2. PICK c : c = k[2]
      BY Zenon
    <3>3. k \in Files \X Chunks /\ c \in Flight(E, h, q) /\ c \notin Urgent(E[h], g = h)
      BY <2>6, <3>1, <3>2, Zenon DEF BulkBy, HeldBy
    <3>4. h \in DOMAIN C
      BY <2>2, <3>3, Zenon DEF Flight
    <3>5. CASE h # f
      <4>1. E[h] = C[h]
        BY <2>2, <3>4, <3>5, Zenon
      <4>2. c \in Flight(C, h, q)
        BY <2>2, <3>3, <3>4, <4>1, Zenon DEF Flight
      <4> QED
        BY <3>1, <3>2, <3>3, <4>1, <4>2, Zenon DEF BulkBy, HeldBy
    <3>6. CASE h = f
      <4>1. c \in Asked(new.src, q) /\ c \notin Urgent(d, g = f)
        <5>1. Urgent(new, g = f) = Urgent(d, g = f)
          BY <2>1, Zenon DEF Unhurried
        <5> QED
          BY <2>2, <2>5, <3>3, <3>6, <5>1, Zenon DEF Flight
      <4>2. CASE c \in Asked(d.src, q)
        <5>1. c \in Flight(C, h, q)
          BY <2>5, <3>6, <4>2, Zenon DEF Flight
        <5>2. c \notin Urgent(C[h], g = h)
          BY <2>5, <3>6, <4>1, Zenon
        <5> QED
          BY <3>1, <3>2, <3>3, <5>1, <5>2, Zenon DEF BulkBy, HeldBy
      <4>3. CASE c \notin Asked(d.src, q)
        <5>1. q = p /\ c \in F
          BY <2>1, <2>4, <4>1, <4>3, Zenon
        <5>2. k = <<f, c>>
          <6>1. PICK a \in Files, b \in Chunks : k = <<a, b>>
            BY <3>3
          <6>2. a = k[1] /\ b = k[2]
            BY <6>1
          <6> QED
            BY <3>1, <3>2, <3>6, <6>1, <6>2, Zenon
        <5> QED
          BY <5>1, <5>2
      <4> QED
        BY <4>2, <4>3
    <3> QED
      BY <3>5, <3>6
  <2> SUFFICES ASSUME NEW q \in Peers
               PROVE  Cardinality(BulkBy(E, q, g)) <= Max({PipelineDepth, Cardinality(HeldBy(D, q))})
    BY Zenon DEF Budget, E, e
  <2>7. Cardinality(BulkBy(C, q, g)) <= Max({PipelineDepth, Cardinality(HeldBy(D, q))})
    BY Zenon DEF Budget, C
  <2>8. CASE q # p \/ F = {}
    <3>1. BulkBy(E, q, g) \subseteq BulkBy(C, q, g)
      <4>1. q # p \/ {f} \X F = {}
        BY <2>8
      <4> QED
        BY <2>6, <4>1, Zenon
    <3> QED
      BY <2>7, <3>1, BudgetSub, Zenon
  <2>9. CASE q = p /\ F # {}
    <3> DEFINE held == Cardinality(HeldBy(C, p))
               old == BulkBy(C, p, g)
               own == {f} \X F
    <3>1. old \subseteq HeldBy(C, p) /\ HeldBy(C, p) \subseteq Files \X Chunks /\ HeldBy(D, p) \subseteq Files \X Chunks
      BY Zenon DEF BulkBy, HeldBy
    <3>2. /\ Cardinality(old) \in Nat /\ held \in Nat /\ Cardinality(old) <= held
          /\ Cardinality(HeldBy(D, p)) \in Nat
      BY <3>1, FewerPairs, FewPairs, Zenon
    <3>3. IsFiniteSet(old) /\ IsFiniteSet(F) /\ Cardinality(F) \in Nat
      <4>1. old \subseteq Files \X Chunks
        BY <3>1, Zenon
      <4> QED
        BY <2>4, <4>1, FewPairs, FewChunks, Zenon
    <3>4. IsFiniteSet(own) /\ Cardinality(own) = 1 * Cardinality(F)
      <4>1. IsFiniteSet({f}) /\ Cardinality({f}) = 1
        BY FS_Singleton, Zenon
      <4>2. IsFiniteSet({f} \X F) /\ Cardinality({f} \X F) = Cardinality({f}) * Cardinality(F)
        BY <3>3, <4>1, FS_Product, Zenon
      <4> QED
        BY <4>1, <4>2, Zenon
    <3>5. BulkBy(E, p, g) \subseteq old \cup own
      BY <2>6, Zenon
    <3>6. Cardinality(F) # 0
      BY <2>9, <3>3, FS_EmptySet, Zenon
    <3>7. Cardinality(F) <= Max({PipelineDepth - held, 0})
      BY <2>3, <2>4, HeldCounts, Zenon
    <3> HIDE DEF held, old, own
    <3>8. /\ IsFiniteSet(old \cup own)
          /\ Cardinality(old \cup own) = Cardinality(old) + Cardinality(own) - Cardinality(old \cap own)
      BY <3>3, <3>4, FS_Union, Zenon
    <3>9. Cardinality(old \cap own) \in Nat
      <4>1. IsFiniteSet(old \cap own)
        BY <3>3, FS_Intersection, Zenon
      <4> QED
        BY <4>1, FS_CardinalityType, Zenon
    <3>10. IsFiniteSet(BulkBy(E, p, g)) /\ Cardinality(BulkBy(E, p, g)) <= Cardinality(old \cup own)
      BY <3>5, <3>8, FS_Subset, Zenon
    <3>11. Cardinality(BulkBy(E, p, g)) \in Nat
      BY <3>10, FS_CardinalityType, Zenon
    <3>12. PipelineDepth \in Int /\ PipelineDepth - held \in Int /\ 0 \in Int /\ Cardinality(HeldBy(D, p)) \in Int
      BY <3>2, DownloadAssumption
    <3>13. Max({PipelineDepth - held, 0}) = IF PipelineDepth - held >= 0 THEN PipelineDepth - held ELSE 0
      BY <3>12, MaxOfTwo, Zenon
    <3>14. Max({PipelineDepth, Cardinality(HeldBy(D, p))})
             = IF PipelineDepth >= Cardinality(HeldBy(D, p)) THEN PipelineDepth ELSE Cardinality(HeldBy(D, p))
      BY <3>12, MaxOfTwo, Zenon
    <3>15. Cardinality(F) <= PipelineDepth - held
      BY <3>3, <3>6, <3>7, <3>12, <3>13
    <3>16. Cardinality(BulkBy(E, p, g)) <= PipelineDepth
      BY <3>2, <3>3, <3>4, <3>8, <3>9, <3>10, <3>11, <3>12, <3>15
    <3>17. Cardinality(BulkBy(E, p, g)) <= Max({PipelineDepth, Cardinality(HeldBy(D, p))})
      BY <3>11, <3>12, <3>14, <3>16
    <3> QED
      BY <2>9, <3>17, Zenon
  <2> QED
    BY <2>8, <2>9, Zenon
<1>3. CASE f \notin DOMAIN r.dl
  BY <1>1, <1>3, Zenon DEF e
<1> QED
  BY <1>2, <1>3

-----------------------------------------------------------------------------
(* Both, over whole calls. *)

Assigned(E, D, g) == Once(E, D, g) /\ Budget(E, D, g)

(* Retracting requests assigns nothing, ... *)
LEMMA FewerAssigns == ASSUME NEW E, NEW D, Fewer(E, D), NEW g PROVE Assigned(E, D, g)
BY FewerOnce, FewerBudget, Zenon DEF Assigned

(* ... also after some were assigned, as long as what is urgent stays so. *)
LEMMA AssignedFewer ==
    ASSUME NEW C, NEW D, NEW E, NEW S, NEW g, Assigned(C, D, g), Fewer(E, C), Alike(E, C, S), g \notin S
    PROVE  Assigned(E, D, g)
BY OnceFewer, BudgetFewer, Zenon DEF Assigned

(* One source of plan_requests. *)
LEMMA PlanSourceAssigns ==
    ASSUME NEW r, Good(r, {}), NEW f, NEW p, NEW D, NEW g, Assigned(r.dl, D, g)
    PROVE  Assigned(PlanSource(r, f, p, g = f).dl, D, g)
BY PlanSourceOnce, PlanSourceBudget, Zenon DEF Assigned

(* A loop of which every step assigns so does. *)
LEMMA FoldAssigns ==
    ASSUME NEW loop, NEW a, NEW b, NEW r, NEW n \in Nat, NEW q, DOMAIN q = 1 .. n, NEW D, NEW g,
           Good(r, {}), Assigned(r.dl, D, g),
           \A acc : \A i \in 1 .. n : Good(acc, {}) /\ Assigned(acc.dl, D, g)
              => Good(Step(loop, a, b, acc, q[i]), {}) /\ Assigned(Step(loop, a, b, acc, q[i]).dl, D, g)
    PROVE  Assigned(Folded(loop, a, b, r, q).dl, D, g)
<1>1. PICK t : Unfolds(t, loop, a, b, r, n, q)
  BY FoldTable, Zenon
<1> DEFINE T == {k \in 0 .. n : Good(t[k], {}) /\ Assigned(t[k].dl, D, g)}
<1>2. 0 \in 0 .. n /\ n \in 0 .. n /\ \A k \in 0 .. n : k + 1 \in 0 .. n => k \in 0 .. n - 1 /\ k + 1 \in 1 .. n
  OBVIOUS
<1>3. 0 \in T
  BY <1>1, <1>2, Zenon DEF Unfolds
<1>4. \A k \in 0 .. n : k \in T /\ k + 1 \in 0 .. n => k + 1 \in T
  BY <1>1, <1>2, Zenon DEF Unfolds
<1>5. n \in T
  <2> HIDE DEF T
  <2> QED
    BY <1>2, <1>3, <1>4, Climbs, Zenon
<1> QED
  BY <1>1, <1>5, Zenon DEF Unfolds

(* plan_requests over the sources of one file, *)
LEMMA PlanFileAssigns ==
    ASSUME NEW r, Good(r, {}), NEW f, NEW D, NEW g, Assigned(r.dl, D, g), NEW sweep
    PROVE  Assigned(PlanFile(r, f, g, sweep).dl, D, g)
<1>1. CASE f \in DOMAIN r.dl
  <2> DEFINE q == InOrder(Sources(r.dl[f]), <)
             loop == FoldLeft(LAMBDA acc, p : PlanSource(acc, f, p, g = f), r, q)
  <2>1. PlanFile(r, f, g, sweep) = r \/ PlanFile(r, f, g, sweep) = loop
    BY Zenon DEF PlanFile
  <2>2. DOMAIN q = 1 .. Cardinality(Sources(r.dl[f])) /\ Cardinality(Sources(r.dl[f])) \in Nat
    <3>1. Sources(r.dl[f]) \subseteq Peers
      BY <1>1, Zenon DEF Good, Sound, SourcesOK, Sources
    <3> QED
      BY <3>1, OrderDomain, Zenon DEF InOrder
  <2>3. loop = Folded("sources", f, g = f, r, q)
    BY SourcesLookup, Zenon
  <2> HIDE DEF q, loop
  <2>4. PICK n \in Nat : n = Cardinality(Sources(r.dl[f]))
    BY <2>2, Zenon
  <2>5. ASSUME NEW acc, NEW i \in 1 .. n, Good(acc, {}), Assigned(acc.dl, D, g)
        PROVE  /\ Good(Step("sources", f, g = f, acc, q[i]), {})
               /\ Assigned(Step("sources", f, g = f, acc, q[i]).dl, D, g)
    BY <2>5, PlanSourceKeeps, PlanSourceAssigns, Zenon DEF Step
  <2>6. Assigned(Folded("sources", f, g = f, r, q).dl, D, g)
    BY <2>2, <2>4, <2>5, FoldAssigns, Zenon
  <2> QED
    BY <2>1, <2>3, <2>6, Zenon
<1>2. CASE f \notin DOMAIN r.dl
  BY <1>2, Zenon DEF PlanFile
<1> QED
  BY <1>1, <1>2

(* and plan_all, whose urgent chunks are those of the view. *)
LEMMA PlanAllAssigns ==
    ASSUME NEW r, Good(r, {}), NEW v, NEW D, Assigned(r.dl, D, v.playing), NEW sweep
    PROVE  Assigned(PlanAll(r, v, sweep).dl, D, v.playing)
<1> DEFINE q == Ordered(r.dl, v)
           g == v.playing
<1>1. PICK n \in Nat : DOMAIN q = 1 .. n
  BY OrderedDomain, Zenon
<1>2. PlanAll(r, v, sweep) = Folded("files", g, sweep, r, q)
  BY FilesLookup, Zenon DEF PlanAll
<1> HIDE DEF q, g
<1>3. ASSUME NEW acc, NEW i \in 1 .. n, Good(acc, {}), Assigned(acc.dl, D, g)
      PROVE  /\ Good(Step("files", g, sweep, acc, q[i]), {})
             /\ Assigned(Step("files", g, sweep, acc, q[i]).dl, D, g)
  BY <1>3, PlanFileKeeps, PlanFileAssigns, Zenon DEF Step
<1>4. Assigned(r.dl, D, g)
  BY Zenon DEF g
<1>5. Assigned(Folded("files", g, sweep, r, q).dl, D, g)
  BY <1>1, <1>3, <1>4, FoldAssigns, Zenon
<1> QED
  BY <1>2, <1>5, Zenon DEF g

(* A call that retracts and then plans. *)
LEMMA RefillsAssigns ==
    ASSUME NEW x, NEW r, NEW v, Refills(x, r, v)
    PROVE  Assigned(x.dl, r.dl, v.playing)
<1>1. PICK e, sweep : Good(e, {}) /\ Fewer(e.dl, r.dl) /\ (x = e \/ x = PlanAll(e, v, sweep))
  BY Zenon DEF Refills
<1>2. Assigned(e.dl, r.dl, v.playing)
  BY <1>1, FewerAssigns, Zenon
<1> QED
  BY <1>1, <1>2, PlanAllAssigns, Zenon

(* New sources for a file keep what was assigned so, unless the file plays; *)
(* then nothing may have been assigned yet.                                 *)
LEMMA ResuppliesAssigns ==
    ASSUME NEW x, NEW r, NEW f, NEW v, Resupplies(x, r, f, v), NEW D,
           Assigned(r.dl, D, v.playing), v.playing = f => Fewer(r.dl, D)
    PROVE  Good(x, {}) /\ Assigned(x.dl, D, v.playing)
<1>1. PICK e : /\ Good(e, {}) /\ Fewer(e.dl, r.dl) /\ Alike(e.dl, r.dl, {f})
               /\ x = PlanAll(e, v, FALSE)
  BY Zenon DEF Resupplies
<1>2. Assigned(e.dl, D, v.playing)
  <2>1. CASE v.playing = f
    BY <1>1, <2>1, FewerOrder, FewerAssigns, Zenon
  <2>2. CASE v.playing # f
    <3>1. v.playing \notin {f}
      BY <2>2, Zenon
    <3> QED
      BY <1>1, <3>1, AssignedFewer, Zenon
  <2> QED
    BY <2>1, <2>2, Zenon
<1> QED
  BY <1>1, <1>2, PlanAllKeeps, PlanAllAssigns, Zenon

(* The result a call starts from. *)
LEMMA ResultGood ==
    ASSUME NEW d, d = [f \in DOMAIN d |-> d[f]], DOMAIN d \subseteq Files,
           \A f \in DOMAIN d : Sound(d[f]) /\ Settled(d[f])
    PROVE  Good(Result(d), {})
<1>1. Result(d).dl = d /\ Result(d).ask = {} /\ Result(d).done = {}
  BY Zenon DEF Result
<1>2. IsResult(Result(d))
  <2>0. PICK none : Result(d) = [dl |-> d, cancel |-> none, request |-> none, ask |-> {}, done |-> {}]
    BY Zenon DEF Result
  <2>1. DOMAIN Result(d) = ResultFields
    BY <2>0 DEF ResultFields
  <2>2. Result(d) = [x \in DOMAIN Result(d) |-> Result(d)[x]]
    BY <2>0
  <2> QED
    BY <2>1, <2>2, Zenon DEF IsResult, Record
<1> QED
  BY <1>1, <1>2, Zenon DEF Good

(* set_downloads' loop over the plan keeps the downloads good, and assigns  *)
(* chunks so: the file that plays, if any, is the loop's first.             *)
LEMMA PlannedGood ==
    ASSUME dl = [f \in DOMAIN dl |-> dl[f]], DOMAIN dl \subseteq Files,
           \A f \in DOMAIN dl : Sound(dl[f]) /\ Settled(dl[f]),
           \A f \in Files : DiskOK(disk[f]), NEW o, PlanOK(o)
    PROVE  Good(Planned(o), {}) /\ Assigned(Planned(o).dl, dl, o.playing)
<1> DEFINE kept == Without(dl, DOMAIN dl \ Range(o.order))
<1>1. Good(Result(kept), {}) /\ Fewer(Result(kept).dl, dl)
  <2>1. DOMAIN kept \subseteq DOMAIN dl /\ \A f \in DOMAIN kept : kept[f] = dl[f]
    BY Zenon DEF Without
  <2>2. kept = [f \in DOMAIN kept |-> kept[f]]
    BY DEF Without
  <2>3. Fewer(kept, dl)
    BY WithoutFewer, Zenon
  <2>4. Result(kept).dl = kept
    BY Zenon DEF Result
  <2> HIDE DEF kept
  <2>5. DOMAIN kept \subseteq Files /\ \A f \in DOMAIN kept : Sound(kept[f]) /\ Settled(kept[f])
    BY <2>1, Zenon
  <2> QED
    BY <2>2, <2>3, <2>4, <2>5, ResultGood, Zenon
<1>2. Planned(o) = Folded("plan", o, 0, Result(kept), o.order)
  BY PlanLookup, Zenon
<1> HIDE DEF kept
<1>3. PICK n \in Nat : DOMAIN o.order = 1 .. n
  <2>1. o.order \in Seq(Files)
    BY Zenon DEF PlanOK
  <2> QED
    BY <2>1
<1>4. \A i \in 1 .. n : o.order[i] \in Files
  <2>1. o.order \in Seq(Files)
    BY Zenon DEF PlanOK
  <2> QED
    BY <1>3, <2>1
<1>5. ASSUME NEW acc, NEW i \in 1 .. n, Good(acc, {}), Assigned(acc.dl, dl, o.playing),
             i = 1 => Fewer(acc.dl, dl)
      PROVE  /\ Good(Step("plan", o, 0, acc, o.order[i]), {})
             /\ Assigned(Step("plan", o, 0, acc, o.order[i]).dl, dl, o.playing)
  <2> DEFINE f == o.order[i]
             fresh == NewDownload(disk[f] # {None}, disk[f], o.play)
             x == SetSources(acc, f, fresh, o.present, o.play, Ranking(o))
  <2>1. f \in Files /\ DiskOK(disk[f])
    BY <1>4, Zenon
  <2>2. Sound(fresh) /\ fresh.src = <<>>
    <3>1. disk[f] # {None} => disk[f] \subseteq Chunks
      BY <2>1, Zenon DEF DiskOK
    <3> QED
      BY <3>1, NewSound, Zenon
  <2>3. o.present \subseteq Peers /\ (o.playing = f => i = 1)
    BY <1>3, Zenon DEF PlanOK
  <2>4. Step("plan", o, 0, acc, f) = acc \/ Step("plan", o, 0, acc, f) = x
    BY Zenon DEF Step
  <2> HIDE DEF f, fresh
  <2>5. Good(x, {}) /\ Assigned(x.dl, dl, o.playing)
    <3>1. Resupplies(x, acc, f, Ranking(o))
      BY <1>5, <2>1, <2>2, <2>3, SetSourcesKeeps, Zenon
    <3>2. Ranking(o).playing = o.playing
      BY Zenon DEF Ranking
    <3> HIDE DEF x
    <3> QED
      BY <1>5, <2>3, <3>1, <3>2, ResuppliesAssigns, Zenon
  <2> HIDE DEF x
  <2>6. Good(Step("plan", o, 0, acc, f), {}) /\ Assigned(Step("plan", o, 0, acc, f).dl, dl, o.playing)
    BY <1>5, <2>4, <2>5, Zenon
  <2> QED
    BY <2>6 DEF f
<1>6. PICK t : Unfolds(t, "plan", o, 0, Result(kept), n, o.order)
  BY <1>3, FoldTable, Zenon
<1> DEFINE T == {k \in 0 .. n : /\ Good(t[k], {}) /\ Assigned(t[k].dl, dl, o.playing)
                                /\ k = 0 => Fewer(t[k].dl, dl)}
<1>7. 0 \in 0 .. n /\ \A k \in 0 .. n : k + 1 \in 0 .. n =>
         k \in 0 .. n - 1 /\ k + 1 \in 1 .. n /\ k + 1 # 0 /\ (k + 1 = 1 => k = 0)
  OBVIOUS
<1>8. 0 \in T
  BY <1>1, <1>6, <1>7, FewerAssigns, Zenon DEF Unfolds
<1>9. ASSUME NEW k \in 0 .. n, k \in T, k + 1 \in 0 .. n PROVE k + 1 \in T
  <2>1. k \in 0 .. n - 1 /\ k + 1 \in 1 .. n /\ k + 1 # 0 /\ (k + 1 = 1 => k = 0)
    BY <1>7, <1>9, Zenon
  <2>2. t[k + 1] = Step("plan", o, 0, t[k], o.order[k + 1])
    BY <1>6, <2>1, Zenon DEF Unfolds
  <2>3. Good(t[k], {}) /\ Assigned(t[k].dl, dl, o.playing) /\ (k + 1 = 1 => Fewer(t[k].dl, dl))
    BY <1>9, <2>1, Zenon
  <2>4. Good(t[k + 1], {}) /\ Assigned(t[k + 1].dl, dl, o.playing)
    BY <1>5, <2>1, <2>2, <2>3, Zenon
  <2> QED
    BY <1>9, <2>1, <2>4, Zenon
<1>10. n \in T
  <2> HIDE DEF T
  <2> QED
    BY <1>7, <1>8, <1>9, Climbs, Zenon
<1> QED
  BY <1>2, <1>6, <1>10, Zenon DEF Unfolds

-----------------------------------------------------------------------------
(* The channels. *)

Op == [kind : {"ask", "open"}, key : Key]
Answer == [kind : {"opened", "failed"}, key : Key, cut : BOOLEAN] \cup {Reset}

\* The stream events on their way: the chunks they carry are chunks.
EventsOK(q) ==
    \E S : q \in Seq(S) /\ \A e \in S : e.kind = "data" => e.chunk \in Chunks

OpsOK(q) == q \in Seq(Op) /\ Len(q) <= OpsDepth
OpensOK(S) == S \subseteq Key /\ Cardinality(S) <= OpenBuffer

(* A finite set is listed by a sequence of its elements. *)
LEMMA Listed ==
    ASSUME NEW S, IsFiniteSet(S)
    PROVE  SetToSeq(S) \in Seq(S)
<1> DEFINE n == Cardinality(S)
<1>1. n \in Nat /\ ExistsBijection(1 .. n, S)
  BY FS_CardinalityType, Zenon
<1>2. \E f \in [1 .. n -> S] : IsInjective(f)
  BY <1>1, Zenon DEF ExistsBijection, Bijection, Injection
<1>3. SetToSeq(S) \in [1 .. n -> S]
  BY <1>2, Zenon DEF SetToSeq
<1> HIDE DEF n
<1> QED
  BY <1>1, <1>3

(* The smaller and the larger of two numbers. *)
LEMMA MinMax ==
    ASSUME NEW a \in Int, NEW b \in Int
    PROVE  /\ Min({a, b}) = IF a <= b THEN a ELSE b
           /\ Max({a, b}) = IF a >= b THEN a ELSE b
<1>1. Min({a, b}) \in {a, b} /\ \A y \in {a, b} : Min({a, b}) <= y
  <2>1. \E x \in {a, b} : \A y \in {a, b} : x <= y
    OBVIOUS
  <2> QED
    BY <2>1, Zenon DEF Min
<1>2. Max({a, b}) \in {a, b} /\ \A y \in {a, b} : Max({a, b}) >= y
  <2>1. \E x \in {a, b} : \A y \in {a, b} : x >= y
    OBVIOUS
  <2> QED
    BY <2>1, Zenon DEF Max
<1> QED
  BY <1>1, <1>2

(* A sequence of elements of one set is one of a larger set. *)
LEMMA Wider ==
    ASSUME NEW S, NEW T, S \subseteq T, NEW q \in Seq(S)
    PROVE  q \in Seq(T)
OBVIOUS

(* Two sequences joined. *)
LEMMA Joined ==
    ASSUME NEW S, NEW a \in Seq(S), NEW b \in Seq(S)
    PROVE  a \o b \in Seq(S) /\ Len(a \o b) = Len(a) + Len(b)
OBVIOUS

(* The keys are finitely many, and so are the sets of messages about some. *)
LEMMA KeysFinite == IsFiniteSet(Key) /\ \A S : S \subseteq Key => IsFiniteSet(S)
<1>1. IsFiniteSet(Key)
  BY DownloadAssumption, FS_Product, Zenon DEF Key
<1> QED
  BY <1>1, FS_Subset, Zenon

(* The image of a finite set under a function is finite. *)
LEMMA ImageFinite ==
    ASSUME NEW S, IsFiniteSet(S), NEW g, DOMAIN g = S
    PROVE  IsFiniteSet({g[x] : x \in S})
<1> DEFINE T == {g[x] : x \in S}
           h == [x \in S |-> g[x]]
<1>1. h \in Surjection(S, T)
  BY DEF Surjection
<1> QED
  BY <1>1, FS_Surjection, Zenon

(* The failures reported of some opens. *)
LEMMA FailedAnswers ==
    ASSUME NEW S, S \subseteq Key
    PROVE  FailedAll(S) \in Seq(Answer)
<1> DEFINE g == [k \in S |-> Failed(k)]
           T == {Failed(k) : k \in S}
<1>1. IsFiniteSet(S)
  BY KeysFinite, Zenon
<1>2. T = {g[k] : k \in S}
  OBVIOUS
<1>3. IsFiniteSet(T)
  <2> HIDE DEF T
  <2>1. DOMAIN g = S
    OBVIOUS
  <2> HIDE DEF g
  <2> QED
    BY <1>1, <1>2, <2>1, ImageFinite, Zenon
<1>4. T \subseteq Answer
  <2>1. \A k \in Key : Failed(k) \in [kind : {"opened", "failed"}, key : Key, cut : BOOLEAN]
    BY DEF Failed
  <2> QED
    BY <2>1, Zenon DEF Answer
<1>5. FailedAll(S) = SetToSeq(T)
  BY Zenon DEF FailedAll
<1> HIDE DEF T
<1> QED
  BY <1>3, <1>4, <1>5, Listed, Wider, Zenon

(* The ops of one kind for some keys. *)
LEMMA OpsListed ==
    ASSUME NEW x \in {"ask", "open"}, NEW S, S \subseteq Key
    PROVE  SetToSeq({[kind |-> x, key |-> k] : k \in S}) \in Seq(Op)
<1> DEFINE g == [k \in S |-> [kind |-> x, key |-> k]]
           T == {[kind |-> x, key |-> k] : k \in S}
<1>1. IsFiniteSet(S)
  BY KeysFinite, Zenon
<1>2. T = {g[k] : k \in S}
  OBVIOUS
<1>3. IsFiniteSet(T)
  <2> HIDE DEF T
  <2>1. DOMAIN g = S
    OBVIOUS
  <2> HIDE DEF g
  <2> QED
    BY <1>1, <1>2, <2>1, ImageFinite, Zenon
<1>4. T \subseteq Op
  BY DEF Op
<1> HIDE DEF T
<1>5. SetToSeq(T) \in Seq(Op)
  BY <1>3, <1>4, Listed, Wider, Zenon
<1> QED
  BY <1>5 DEF T

(* A finite set has a subset of every smaller size. *)
LEMMA SubsetOfSize ==
    ASSUME NEW S, IsFiniteSet(S), NEW n \in Nat, n <= Cardinality(S)
    PROVE  \E T \in SUBSET S : Cardinality(T) = n
<1> DEFINE m == Cardinality(S)
<1>1. m \in Nat
  BY FS_CardinalityType, Zenon
<1>2. PICK f : f \in Bijection(1 .. m, S)
  BY FS_CardinalityType, Zenon DEF ExistsBijection
<1> HIDE DEF m
<1>3. f \in [1 .. m -> S] /\ IsInjective(f)
  BY <1>2, Zenon DEF Bijection, Injection
<1>4. 1 .. n \subseteq 1 .. m
  BY <1>1 DEF m
<1> DEFINE T == {f[i] : i \in 1 .. n}
           g == [i \in 1 .. n |-> f[i]]
<1>5. T \subseteq S
  BY <1>3, <1>4, Zenon
<1>6. g \in Bijection(1 .. n, T)
  <2>1. g \in [1 .. n -> T] /\ DOMAIN g = 1 .. n
    BY Zenon
  <2>2. \A a, b \in 1 .. n : g[a] = g[b] => a = b
    <3>1. \A a \in 1 .. n : g[a] = f[a] /\ a \in DOMAIN f
      BY <1>3, <1>4, Zenon
    <3> QED
      BY <1>3, <3>1, Zenon DEF IsInjective
  <2>3. \A t \in T : \E i \in 1 .. n : g[i] = t
    BY Zenon
  <2> HIDE DEF g, T
  <2>4. g \in Injection(1 .. n, T)
    BY <2>1, <2>2, Zenon DEF Injection, IsInjective
  <2>5. g \in Surjection(1 .. n, T)
    BY <2>1, <2>3, Zenon DEF Surjection
  <2> QED
    BY <2>4, <2>5, Zenon DEF Bijection
<1> HIDE DEF g, T
<1>7. IsFiniteSet(1 .. n) /\ Cardinality(1 .. n) = n
  BY FS_Interval
<1>8. Cardinality(T) = n
  BY <1>6, <1>7, FS_Bijection, Zenon DEF ExistsBijection
<1> QED
  BY <1>5, <1>8, Zenon

(* stash_open_or_discard keeps within the buffer and answers what it drops. *)
LEMMA StashKeeps ==
    ASSUME OpensOK(opens), NEW fresh, fresh \subseteq Key, NEW extra \in Seq(Answer),
           Stash(fresh, extra)
    PROVE  OpensOK(opens') /\ ops' = ops /\ answers' \in Seq(Answer)
<1> DEFINE new == fresh \ opens
           n == Max({Cardinality(opens \cup new) - OpenBuffer, 0})
           over == CHOOSE S \in SUBSET new : Cardinality(S) = n
<1>1. opens' = opens \cup (new \ over) /\ answers' = extra \o FailedAll(over) /\ ops' = ops
  BY Zenon DEF Stash
<1>2. opens \subseteq Key /\ new \subseteq Key /\ Cardinality(opens) <= OpenBuffer
  BY Zenon DEF OpensOK
<1>3. /\ IsFiniteSet(opens) /\ IsFiniteSet(new)
      /\ Cardinality(opens) \in Nat /\ Cardinality(new) \in Nat
  BY <1>2, KeysFinite, FS_CardinalityType, Zenon
<1>4. opens \cap new = {}
  OBVIOUS
<1> HIDE DEF new
<1>5. Cardinality(opens \cup new) = Cardinality(opens) + Cardinality(new)
  <2>1. Cardinality(opens \cup new) = Cardinality(opens) + Cardinality(new) - Cardinality(opens \cap new)
    BY <1>3, FS_Union, Zenon
  <2>2. Cardinality(opens \cap new) = 0
    BY <1>4, FS_EmptySet, Zenon
  <2> QED
    BY <1>3, <2>1, <2>2
<1>6. OpenBuffer \in Nat
  BY TransfersAssumption
<1>7. n \in Nat /\ n <= Cardinality(new) /\ n >= Cardinality(opens \cup new) - OpenBuffer
  <2>1. n = IF Cardinality(opens \cup new) - OpenBuffer >= 0
            THEN Cardinality(opens \cup new) - OpenBuffer ELSE 0
    <3>1. Cardinality(opens \cup new) - OpenBuffer \in Int /\ 0 \in Int
      BY <1>3, <1>5, <1>6
    <3> QED
      BY <3>1, MinMax, Zenon
  <2> HIDE DEF n
  <2> QED
    BY <1>2, <1>3, <1>5, <1>6, <2>1
<1> HIDE DEF n
<1>8. over \subseteq new /\ Cardinality(over) = n
  <2>1. \E S \in SUBSET new : Cardinality(S) = n
    BY <1>3, <1>7, SubsetOfSize, Zenon
  <2> QED
    BY <2>1, Zenon
<1> HIDE DEF over
<1>9. Cardinality(opens \cup (new \ over)) <= OpenBuffer
  <2>1. IsFiniteSet(opens \cup new)
    BY <1>3, FS_Union, Zenon
  <2>2. opens \cup (new \ over) = (opens \cup new) \ over
    BY <1>4, <1>8
  <2>3. (opens \cup new) \cap over = over
    BY <1>8
  <2>4. Cardinality((opens \cup new) \ over)
           = Cardinality(opens \cup new) - Cardinality((opens \cup new) \cap over)
    BY <2>1, FS_Difference, Zenon
  <2>5. Cardinality((opens \cup new) \ over) = Cardinality(opens \cup new) - n
    BY <1>8, <2>3, <2>4, Zenon
  <2>6. Cardinality(opens \cup new) - n <= OpenBuffer
    BY <1>3, <1>5, <1>6, <1>7
  <2> QED
    BY <2>2, <2>5, <2>6, Zenon
<1>10. opens \cup (new \ over) \subseteq Key
  BY <1>2, Zenon
<1>11. OpensOK(opens')
  BY <1>1, <1>9, <1>10, Zenon DEF OpensOK
<1>12. FailedAll(over) \in Seq(Answer)
  BY <1>2, <1>8, FailedAnswers, Zenon
<1>13. answers' \in Seq(Answer)
  BY <1>1, <1>12
<1> QED
  BY <1>1, <1>11, <1>13

(* What is sent to a transfer link fits its channel, or is answered. *)
LEMMA ForwardKeeps ==
    ASSUME OpsOK(ops), NEW asks, asks \subseteq Key, NEW fresh, fresh \subseteq Key,
           NEW extra \in Seq(Answer), Forward(asks, fresh, extra)
    PROVE  OpsOK(ops') /\ opens' = opens /\ answers' \in Seq(Answer)
<1> DEFINE sends == SetToSeq({[kind |-> "ask", key |-> k] : k \in asks})
                       \o SetToSeq({[kind |-> "open", key |-> k] : k \in fresh})
           room == OpsDepth - Len(ops)
           over == {k \in fresh : \E i \in room + 1 .. Len(sends) :
                                     sends[i] = [kind |-> "open", key |-> k]}
           n == Min({room, Len(sends)})
<1>1. ops' = ops \o SubSeq(sends, 1, n) /\ answers' = extra \o FailedAll(over) /\ opens' = opens
  BY Zenon DEF Forward
<1>2. sends \in Seq(Op)
  <2>1. /\ SetToSeq({[kind |-> "ask", key |-> k] : k \in asks}) \in Seq(Op)
        /\ SetToSeq({[kind |-> "open", key |-> k] : k \in fresh}) \in Seq(Op)
    <3>1. "ask" \in {"ask", "open"} /\ "open" \in {"ask", "open"}
      OBVIOUS
    <3> QED
      BY <3>1, OpsListed, Zenon
  <2> QED
    BY <2>1
<1>3. over \subseteq Key
  BY Zenon
<1> HIDE DEF sends, over
<1>4. room \in Nat /\ Len(sends) \in Nat
  BY <1>2, TransfersAssumption DEF OpsOK
<1>5. n \in Nat /\ n <= room /\ n <= Len(sends)
  <2>1. n = IF room <= Len(sends) THEN room ELSE Len(sends)
    BY <1>4, MinMax
  <2> HIDE DEF n, room
  <2> QED
    BY <1>4, <2>1
<1> HIDE DEF n
<1>6. SubSeq(sends, 1, n) \in Seq(Op) /\ Len(SubSeq(sends, 1, n)) = n
  <2> HIDE DEF room
  <2> QED
    BY <1>2, <1>4, <1>5
<1>7. OpsOK(ops')
  <2> DEFINE t == SubSeq(sends, 1, n)
  <2>1. t \in Seq(Op) /\ Len(t) = n /\ ops' = ops \o t
    BY <1>1, <1>6
  <2> HIDE DEF t
  <2>0. ops \in Seq(Op)
    BY Zenon DEF OpsOK
  <2>2. ops \o t \in Seq(Op) /\ Len(ops \o t) = Len(ops) + n
    BY <2>0, <2>1, Joined, Zenon
  <2>3. Len(ops) \in Nat /\ OpsDepth \in Nat
    BY TransfersAssumption DEF OpsOK
  <2>4. Len(ops \o t) <= OpsDepth
    BY <1>4, <1>5, <2>2, <2>3
  <2> QED
    BY <2>1, <2>2, <2>4, Zenon DEF OpsOK
<1>8. FailedAll(over) \in Seq(Answer)
  BY <1>3, FailedAnswers, Zenon
<1>9. answers' \in Seq(Answer)
  BY <1>1, <1>8
<1> QED
  BY <1>1, <1>7, <1>9

-----------------------------------------------------------------------------
(* The inductive invariant. *)

\* The downloads are sound and their playability is current.
DownloadsOK(d) ==
    /\ d = [f \in DOMAIN d |-> d[f]] /\ DOMAIN d \subseteq Files
    /\ \A f \in DOMAIN d : Sound(d[f]) /\ Settled(d[f])

\* The group was told of every download what it computed last, and nothing
\* of other files.
Told(d, s) ==
    /\ s \in [Files -> {None, 0, 1}]
    /\ \A f \in Files : f \notin DOMAIN d => s[f] = None
    /\ \A f \in DOMAIN d : (s[f] = 1) <=> d[f].playable

FileInv ==
    /\ DownloadsOK(dl) /\ Told(dl, shown) /\ local \subseteq Files
    /\ DOMAIN streams \subseteq Key /\ DOMAIN pending \subseteq Key
DiskInv == DOMAIN disk = Files /\ \A f \in Files : DiskOK(disk[f])
NetInv ==
    /\ link \in {"down", "auth", "dial", "up"} /\ OpensOK(opens) /\ OpsOK(ops)
    /\ tasks \in [Key -> Nat] /\ orphans \in [Key -> Nat]
ChannelInv == answers \in Seq(Answer) /\ EventsOK(arrivals) /\ mail \subseteq Reply
EnvInv == mood \in [Peers -> Moods] /\ PlanOK(offer) /\ left \in [Fault -> Nat]

IInv == FileInv /\ DiskInv /\ NetInv /\ ChannelInv /\ EnvInv

(* The invariant gives the result a call starts from. *)
LEMMA StartsGood == ASSUME DownloadsOK(dl) PROVE Good(Result(dl), {})
BY ResultGood, Zenon DEF DownloadsOK

(* ... and a call's result gives the invariant's part on the downloads. *)
LEMMA GoodDownloads == ASSUME NEW r, Good(r, {}) PROVE DownloadsOK(r.dl)
BY Zenon DEF Good, DownloadsOK

(* What carrying out a call's result reports is what the group is told. *)
LEMMA ReportsTold ==
    ASSUME DownloadsOK(dl), Told(dl, shown), NEW d, DownloadsOK(d), NEW s,
           s = [f \in Files |->
                 IF f \notin DOMAIN d THEN None
                 ELSE LET old == IF f \in DOMAIN dl THEN dl[f] ELSE NewDownload(FALSE, {}, 0)
                      IN  IF Reports(old, d[f])
                          THEN IF d[f].playable THEN 1 ELSE 0
                          ELSE shown[f]]
    PROVE  Told(d, s)
<1> DEFINE old(f) == IF f \in DOMAIN dl THEN dl[f] ELSE NewDownload(FALSE, {}, 0)
<1>1. DOMAIN d \subseteq Files
  BY Zenon DEF DownloadsOK
<1>2. \A f \in Files : s[f] = IF f \notin DOMAIN d THEN None
                              ELSE IF Reports(old(f), d[f])
                                   THEN IF d[f].playable THEN 1 ELSE 0 ELSE shown[f]
  BY Zenon
<1>3. shown \in [Files -> {None, 0, 1}]
  BY Zenon DEF Told
<1>4. 1 # None /\ 1 # 0
  BY DEF None
<1>5. \A f \in Files : (shown[f] = 1) <=> old(f).playable
  <2>1. ~NewDownload(FALSE, {}, 0).playable
    BY Zenon DEF NewDownload
  <2> QED
    BY <1>4, <2>1, Zenon DEF Told
<1> HIDE DEF old
<1>6. \A f \in Files : f \in DOMAIN d /\ ~Reports(old(f), d[f]) => d[f].playable = old(f).playable
  BY DEF Reports
<1>7. \A f \in DOMAIN d : (s[f] = 1) <=> d[f].playable
  <2> TAKE f \in DOMAIN d
  <2>1. f \in Files
    BY <1>1, Zenon
  <2>2. CASE Reports(old(f), d[f])
    <3>1. s[f] = IF d[f].playable THEN 1 ELSE 0
      BY <1>2, <2>1, <2>2, Zenon
    <3> QED
      BY <1>4, <3>1, Zenon
  <2>3. CASE ~Reports(old(f), d[f])
    <3>1. s[f] = shown[f] /\ d[f].playable = old(f).playable
      BY <1>2, <1>6, <2>1, <2>3, Zenon
    <3>2. (shown[f] = 1) <=> old(f).playable
      BY <1>5, <2>1, Zenon
    <3> QED
      BY <3>1, <3>2, Zenon
  <2> QED
    BY <2>2, <2>3, Zenon
<1>8. s \in [Files -> {None, 0, 1}]
  <2>1. \A f \in Files : s[f] \in {None, 0, 1}
    BY <1>2, <1>3, Zenon
  <2>2. s = [f \in Files |-> s[f]]
    BY Zenon
  <2> QED
    BY <2>1, <2>2, Zenon
<1>9. \A f \in Files : f \notin DOMAIN d => s[f] = None
  BY <1>2, Zenon
<1> QED
  BY <1>7, <1>8, <1>9, Zenon DEF Told

\* What a step of the file actor's keeps of the invariant.
Carried ==
    /\ FileInv' /\ OpensOK(opens') /\ OpsOK(ops') /\ answers' \in Seq(Answer)
    /\ link' = link /\ tasks' = tasks /\ orphans' = orphans

(* run_download_actions carries out a good result. *)
LEMMA RunKeeps ==
    ASSUME FileInv, OpensOK(opens), OpsOK(ops), NEW r, Good(r, {}), NEW base,
           DOMAIN base.streams \subseteq Key, DOMAIN base.pending \subseteq Key,
           NEW extra \in Seq(Answer), RunActions(r, base, extra)
    PROVE  Carried
<1>1. PICK broken : 
        LET used == {k \in Key : r.cancel[k] # {} \/ r.request[k] # {}}
            live == Without(base.streams, broken \cap used)
            queued == {k \in Key : r.request[k] # {} /\ k \notin DOMAIN live}
            carried == [k \in DOMAIN live |->
                          IF live[k].ended THEN live[k]
                          ELSE [live[k] EXCEPT !.owes = (@ \ r.cancel[k]) \cup r.request[k]]]
            waiting == [k \in DOMAIN base.pending \cup queued |->
                          IF k \in DOMAIN live THEN base.pending[k]
                          ELSE (IF k \in DOMAIN base.pending
                                THEN base.pending[k] \ r.cancel[k] ELSE {})
                               \cup r.request[k]]
        IN  /\ broken \subseteq used
            /\ dl' = r.dl
            /\ local' = local \cup r.done
            /\ streams' = Without(carried, OfFiles(r.done))
            /\ pending' = Without(waiting, OfFiles(r.done))
            /\ shown' = [f \in Files |->
                 IF f \notin DOMAIN r.dl THEN None
                 ELSE LET old == IF f \in DOMAIN dl THEN dl[f] ELSE NewDownload(FALSE, {}, 0)
                      IN  IF Reports(old, r.dl[f])
                          THEN IF r.dl[f].playable THEN 1 ELSE 0
                          ELSE shown[f]]
            /\ ToNetwork(r.ask, queued \ DOMAIN base.pending, extra)
  BY Zenon DEF RunActions
<1> DEFINE used == {k \in Key : r.cancel[k] # {} \/ r.request[k] # {}}
           live == Without(base.streams, broken \cap used)
           queued == {k \in Key : r.request[k] # {} /\ k \notin DOMAIN live}
           fresh == queued \ DOMAIN base.pending
<1>2. DOMAIN live \subseteq Key /\ queued \subseteq Key /\ fresh \subseteq Key
  BY Zenon DEF Without
<1>3. PICK carried, waiting :
        /\ DOMAIN carried = DOMAIN live /\ DOMAIN waiting = DOMAIN base.pending \cup queued
        /\ streams' = Without(carried, OfFiles(r.done))
        /\ pending' = Without(waiting, OfFiles(r.done))
  BY <1>1, Zenon
<1>4. DOMAIN streams' \subseteq Key /\ DOMAIN pending' \subseteq Key
  <2> HIDE DEF live, queued
  <2>1. DOMAIN streams' \subseteq DOMAIN carried /\ DOMAIN pending' \subseteq DOMAIN waiting
    BY <1>3, Zenon DEF Without
  <2> QED
    BY <1>2, <1>3, <2>1, Zenon
<1>5. dl' = r.dl /\ local' = local \cup r.done /\ ToNetwork(r.ask, fresh, extra)
  BY <1>1, Zenon
<1>6. DownloadsOK(dl') /\ Told(dl', shown')
  <2>1. DownloadsOK(r.dl)
    BY GoodDownloads, Zenon
  <2>2. shown' = [f \in Files |->
                 IF f \notin DOMAIN r.dl THEN None
                 ELSE LET old == IF f \in DOMAIN dl THEN dl[f] ELSE NewDownload(FALSE, {}, 0)
                      IN  IF Reports(old, r.dl[f])
                          THEN IF r.dl[f].playable THEN 1 ELSE 0
                          ELSE shown[f]]
    BY <1>1, Zenon
  <2>3. Told(r.dl, shown')
    BY <2>1, <2>2, ReportsTold, Zenon DEF FileInv
  <2> QED
    BY <1>5, <2>1, <2>3, Zenon
<1>7. local' \subseteq Files /\ r.ask \subseteq Key
  BY <1>5, Zenon DEF Good, FileInv
<1> HIDE DEF fresh
<1>8. /\ OpensOK(opens') /\ OpsOK(ops') /\ answers' \in Seq(Answer)
      /\ link' = link /\ tasks' = tasks /\ orphans' = orphans
  <2>1. /\ IF Linked THEN Forward(r.ask, fresh, extra) ELSE Stash(fresh, extra)
        /\ link' = link /\ tasks' = tasks /\ orphans' = orphans
    BY <1>5, Zenon DEF ToNetwork
  <2>2. CASE Forward(r.ask, fresh, extra)
    BY <1>2, <1>7, <2>1, <2>2, ForwardKeeps, Zenon
  <2>3. CASE Stash(fresh, extra)
    BY <1>2, <2>1, <2>3, StashKeeps, Zenon
  <2> QED
    BY <2>1, <2>2, <2>3
<1>9. FileInv'
  BY <1>4, <1>6, <1>7, Zenon DEF FileInv
<1> QED
  BY <1>8, <1>9, Zenon DEF Carried

-----------------------------------------------------------------------------
(* One lemma per action. *)

(* A budget that is spent stays a budget. *)
LEMMA SpendKeeps ==
    ASSUME left \in [Fault -> Nat], NEW b \in Fault, Spend(b)
    PROVE  left' \in [Fault -> Nat]
BY DEF Spend

(* The parts of the invariant an action leaves alone. *)
LEMMA Unchanged ==
    /\ FileInv /\ UNCHANGED fileVars => FileInv' /\ DiskInv = DiskInv'
    /\ NetInv /\ UNCHANGED netVars => NetInv'
    /\ EnvInv /\ UNCHANGED envVars => EnvInv'
<1>1. FileInv /\ UNCHANGED fileVars => FileInv' /\ DiskInv = DiskInv'
  BY Zenon DEF FileInv, DiskInv, fileVars
<1>2. NetInv /\ UNCHANGED netVars => NetInv'
  BY Zenon DEF NetInv, netVars
<1>3. EnvInv /\ UNCHANGED envVars => EnvInv'
  BY Zenon DEF EnvInv, envVars
<1> QED
  BY <1>1, <1>2, <1>3, Zenon

(* A handler that carries out a good result and touches nothing else. *)
LEMMA CarriedKeeps ==
    ASSUME IInv, Carried, DiskInv', EventsOK(arrivals'), mail' \subseteq Reply, EnvInv'
    PROVE  IInv'
BY Zenon DEF IInv, Carried, NetInv, ChannelInv

(* What run_download_actions needs of the state it runs in. *)
LEMMA OwnKeys ==
    ASSUME IInv
    PROVE  /\ FileInv /\ OpensOK(opens) /\ OpsOK(ops) /\ DownloadsOK(dl)
           /\ DOMAIN Own.streams \subseteq Key /\ DOMAIN Own.pending \subseteq Key
           /\ answers \in Seq(Answer)
<1>1. Own.streams = streams /\ Own.pending = pending
  BY Zenon DEF Own
<1> QED
  BY <1>1, Zenon DEF IInv, FileInv, NetInv, ChannelInv

(* on_tick *)
LEMMA TickStep == ASSUME IInv, NEW elapsed \in BOOLEAN, Tick(elapsed) PROVE IInv'
<1>1. Good(TickAll(Result(dl), view, elapsed), {})
  BY OwnKeys, StartsGood, TickKeeps, RefillsGood, Zenon
<1>2. RunActions(TickAll(Result(dl), view, elapsed), Own, answers)
  BY Zenon DEF Tick
<1>3. Carried
  BY <1>1, <1>2, OwnKeys, RunKeeps, Zenon
<1>4. DiskInv' /\ arrivals' = arrivals /\ mail' = mail /\ mood' = mood /\ offer' = offer
  BY Zenon DEF IInv, DiskInv, Tick
<1>5. left' \in [Fault -> Nat]
  <2>1. left' = left \/ Spend("late")
    BY Zenon DEF Tick
  <2>2. "late" \in Fault
    BY DEF Fault
  <2> QED
    BY <2>1, <2>2, SpendKeeps, Zenon DEF IInv, EnvInv
<1>6. EnvInv' /\ EventsOK(arrivals') /\ mail' \subseteq Reply
  BY <1>4, <1>5, Zenon DEF IInv, EnvInv, ChannelInv
<1> QED
  BY <1>3, <1>4, <1>6, CarriedKeeps, Zenon

(* set_downloads *)
LEMMA SetDownloadsStep ==
    ASSUME IInv, NEW o, PlanOK(o), SetDownloads(o), EnvInv' PROVE IInv'
<1> DEFINE dropped == DOMAIN dl \ Range(o.order)
           base == [streams |-> Without(streams, OfFiles(dropped)),
                    pending |-> Without(pending, OfFiles(dropped))]
<1>1. /\ RunActions(Planned(o), base, answers) /\ arrivals' = arrivals /\ mail' = mail
      /\ disk' = [f \in Files |-> IF f \in dropped THEN {None} ELSE disk[f]]
  BY Zenon DEF SetDownloads
<1>2. Good(Planned(o), {})
  BY PlannedGood, Zenon DEF IInv, FileInv, DiskInv, DownloadsOK
<1>3. DOMAIN base.streams \subseteq Key /\ DOMAIN base.pending \subseteq Key
  BY Zenon DEF IInv, FileInv, Without
<1>4. DiskInv'
  <2>1. DOMAIN disk' = Files /\ \A f \in Files : disk'[f] = {None} \/ disk'[f] = disk[f]
    BY <1>1, Zenon
  <2> QED
    BY <2>1, Zenon DEF IInv, DiskInv, DiskOK
<1> HIDE DEF base
<1>5. Carried
  BY <1>1, <1>2, <1>3, OwnKeys, RunKeeps, Zenon
<1>6. EventsOK(arrivals') /\ mail' \subseteq Reply
  BY <1>1, Zenon DEF IInv, ChannelInv
<1> QED
  BY <1>4, <1>5, <1>6, CarriedKeeps, Zenon

(* The session repeats its plan, *)
LEMMA RefreshStep == ASSUME IInv, Refresh PROVE IInv'
<1>1. SetDownloads(offer) /\ EnvInv' /\ PlanOK(offer)
  BY Unchanged, Zenon DEF Refresh, IInv, EnvInv
<1> QED
  BY <1>1, SetDownloadsStep, Zenon

(* ... or changes it. *)
LEMMA ReplanStep == ASSUME IInv, NEW o \in Plans, Replan(o) PROVE IInv'
<1>1. PlanOK(o)
  BY ScenariosAssumption, Zenon
<1>2. SetDownloads(o) /\ Spend("plan") /\ offer' = o /\ mood' = mood
  BY Zenon DEF Replan
<1>3. "plan" \in Fault
  BY DEF Fault
<1>4. EnvInv'
  BY <1>1, <1>2, <1>3, SpendKeeps, Zenon DEF IInv, EnvInv
<1> QED
  BY <1>1, <1>2, <1>4, SetDownloadsStep, Zenon

(* adopt_local_copy *)
LEMMA AdoptStep == ASSUME IInv, NEW f \in Files, AdoptLocalCopy(f) PROVE IInv'
<1>1. /\ local' = local \cup {f} /\ dl' = Without(dl, {f})
      /\ streams' = Without(streams, OfFiles({f})) /\ pending' = Without(pending, OfFiles({f}))
      /\ shown' = [shown EXCEPT ![f] = None]
      /\ disk' = [disk EXCEPT ![f] = IF f \in DOMAIN dl THEN {None} ELSE @]
      /\ UNCHANGED netVars /\ answers' = answers /\ arrivals' = arrivals /\ mail' = mail
      /\ mood' = mood /\ offer' = offer /\ Spend("found")
  BY Zenon DEF AdoptLocalCopy, netVars
<1>2. DownloadsOK(dl')
  <2>1. DOMAIN dl' = DOMAIN dl \ {f} /\ \A g \in DOMAIN dl' : dl'[g] = dl[g]
    BY <1>1, Zenon DEF Without
  <2>2. dl' = [g \in DOMAIN dl' |-> dl'[g]]
    BY <1>1, Zenon DEF Without
  <2> QED
    BY <2>1, <2>2, Zenon DEF IInv, FileInv, DownloadsOK
<1>3. Told(dl', shown')
  <2>1. shown \in [Files -> {None, 0, 1}]
    BY Zenon DEF IInv, FileInv, Told
  <2>2. /\ shown' \in [Files -> {None, 0, 1}] /\ shown'[f] = None
        /\ \A g \in Files : g # f => shown'[g] = shown[g]
    BY <1>1, <2>1, Zenon
  <2>3. DOMAIN dl' = DOMAIN dl \ {f} /\ \A g \in DOMAIN dl' : dl'[g] = dl[g]
    BY <1>1, Zenon DEF Without
  <2>4. DOMAIN dl \subseteq Files
    BY Zenon DEF IInv, FileInv, DownloadsOK
  <2> QED
    BY <2>2, <2>3, <2>4, Zenon DEF IInv, FileInv, Told
<1>4. FileInv'
  <2>1. DOMAIN streams' \subseteq DOMAIN streams /\ DOMAIN pending' \subseteq DOMAIN pending
    BY <1>1, Zenon DEF Without
  <2> QED
    BY <1>1, <1>2, <1>3, <2>1, Zenon DEF IInv, FileInv
<1>5. DiskInv'
  <2>1. DOMAIN disk' = Files /\ \A g \in Files : disk'[g] = {None} \/ disk'[g] = disk[g]
    BY <1>1, Zenon DEF IInv, DiskInv
  <2> QED
    BY <2>1, Zenon DEF IInv, DiskInv, DiskOK
<1>6. left' \in [Fault -> Nat]
  <2>1. "found" \in Fault
    BY DEF Fault
  <2> QED
    BY <1>1, <2>1, SpendKeeps, Zenon DEF IInv, EnvInv
<1>7. NetInv' /\ ChannelInv' /\ EnvInv'
  BY <1>1, <1>6, Unchanged, Zenon DEF IInv, ChannelInv, EnvInv
<1> QED
  BY <1>4, <1>5, <1>7, Zenon DEF IInv

(* on_peer_message *)
LEMMA ReplyStep == ASSUME IInv, NEW m \in mail, OnReply(m) PROVE IInv'
<1> DEFINE p == m.key[1]
           f == m.key[2]
           r == CASE m.kind = "avail" -> OnAvailability(Result(dl), f, p, Chunks, view)
                  [] m.kind = "never" -> OnCannotServe(Result(dl), f, p, view)
                  [] OTHER -> OnBlockHashes(Result(dl), f, p, m.kind = "hashes", view)
<1>1. p \in Peers
  <2>1. m \in Reply
    BY Zenon DEF IInv, ChannelInv
  <2> QED
    BY <2>1 DEF Reply, Key
<1>2. Good(r, {})
  <2>1. Good(Result(dl), {})
    BY OwnKeys, StartsGood, Zenon
  <2>2. /\ Good(OnAvailability(Result(dl), f, p, Chunks, view), {})
        /\ Good(OnCannotServe(Result(dl), f, p, view), {})
        /\ Good(OnBlockHashes(Result(dl), f, p, m.kind = "hashes", view), {})
    BY <1>1, <2>1, AvailabilityKeeps, CannotServeKeeps, BlockHashesKeep, RefillsGood, Zenon
  <2> QED
    BY <2>2, Zenon
<1>3. RunActions(r, Own, answers) /\ mail' = mail \ {m} /\ disk' = disk /\ arrivals' = arrivals
      /\ UNCHANGED envVars
  BY Zenon DEF OnReply, envVars
<1> HIDE DEF r
<1>4. Carried
  BY <1>2, <1>3, OwnKeys, RunKeeps, Zenon
<1>5. DiskInv' /\ EventsOK(arrivals') /\ EnvInv'
  BY <1>3, Unchanged, Zenon DEF IInv, ChannelInv, DiskInv
<1>6. mail' \subseteq Reply
  BY <1>3, Zenon DEF IInv, ChannelInv
<1> QED
  BY <1>4, <1>5, <1>6, CarriedKeeps, Zenon

(* on_stream_event *)
LEMMA ArrivalStep == ASSUME IInv, OnArrival PROVE IInv'
<1> DEFINE e == Head(arrivals)
           p == e.key[1]
           f == e.key[2]
<1>1. arrivals # <<>> /\ arrivals' = Tail(arrivals) /\ disk' = disk /\ mail' = mail /\ UNCHANGED envVars
  BY Zenon DEF OnArrival, envVars
<1>2. EventsOK(arrivals') /\ (e.kind = "data" => e.chunk \in Chunks)
  <2>1. PICK S : arrivals \in Seq(S) /\ \A x \in S : x.kind = "data" => x.chunk \in Chunks
    BY Zenon DEF IInv, ChannelInv, EventsOK
  <2>2. Tail(arrivals) \in Seq(S) /\ e \in S
    BY <1>1, <2>1
  <2> HIDE DEF e
  <2> QED
    BY <1>1, <2>1, <2>2, Zenon DEF EventsOK
<1>3. DiskInv' /\ EnvInv' /\ mail' \subseteq Reply
  BY <1>1, Unchanged, Zenon DEF IInv, ChannelInv, DiskInv
<1>4. Good(Result(dl), {})
  BY OwnKeys, StartsGood, Zenon
<1>5. \/ e.kind = "data" /\ RunActions(OnChunkData(Result(dl), f, p, e.chunk, e.good, view), Own, answers)
      \/ RunActions(OnSourceStreamLost(Result(dl), f, p, view),
                    [Own EXCEPT !.streams = Without(@, {e.key})], answers)
      \/ UNCHANGED <<dl, local, shown, streams, pending, netVars, answers>>
  BY Zenon DEF OnArrival
<1>6. ASSUME e.kind = "data", RunActions(OnChunkData(Result(dl), f, p, e.chunk, e.good, view), Own, answers)
      PROVE  Carried
  <2>1. Good(OnChunkData(Result(dl), f, p, e.chunk, e.good, view), {})
    BY <1>2, <1>4, <1>6, ChunkDataKeeps, RefillsGood, Zenon
  <2> QED
    BY <1>6, <2>1, OwnKeys, RunKeeps, Zenon
<1>7. ASSUME RunActions(OnSourceStreamLost(Result(dl), f, p, view),
                        [Own EXCEPT !.streams = Without(@, {e.key})], answers)
      PROVE  Carried
  <2> DEFINE base == [Own EXCEPT !.streams = Without(@, {e.key})]
  <2>1. Good(OnSourceStreamLost(Result(dl), f, p, view), {})
    BY <1>4, StreamLostKeeps, RefillsGood, Zenon
  <2>2. base = [streams |-> Without(streams, {e.key}), pending |-> pending]
    <3> HIDE DEF e
    <3> QED
      BY DEF Own
  <2>3. base.streams = Without(streams, {e.key}) /\ base.pending = pending
    BY <2>2, Zenon
  <2> HIDE DEF base
  <2>4. DOMAIN base.streams \subseteq Key /\ DOMAIN base.pending \subseteq Key
    BY <2>3, Zenon DEF IInv, FileInv, Without
  <2>5. RunActions(OnSourceStreamLost(Result(dl), f, p, view), base, answers)
    BY <1>7 DEF base
  <2> QED
    BY <2>1, <2>4, <2>5, OwnKeys, RunKeeps, Zenon
<1>8. ASSUME UNCHANGED <<dl, local, shown, streams, pending, netVars, answers>>
      PROVE  Carried
  BY <1>8, Zenon DEF IInv, FileInv, NetInv, ChannelInv, netVars, Carried
<1>9. Carried
  BY <1>5, <1>6, <1>7, <1>8, Zenon
<1> QED
  BY <1>2, <1>3, <1>9, CarriedKeeps, Zenon

(* The sources of failed streams are requeued: on_transfer_stream_failed. *)
LEMMA FailPendingKeeps ==
    ASSUME DownloadsOK(dl), Told(dl, shown), NEW S, FailPending(S)
    PROVE  DownloadsOK(dl') /\ Told(dl', shown) /\ DOMAIN pending' \subseteq DOMAIN pending
<1> DEFINE hit == S \ DOMAIN streams
           src(f) == [p \in DOMAIN dl[f].src |->
                        IF <<p, f>> \in hit THEN Requeued(dl[f].src[p]) ELSE dl[f].src[p]]
<1>1. dl' = [f \in DOMAIN dl |-> [dl[f] EXCEPT !.src = src(f)]]
  BY Zenon DEF FailPending
<1>2. DOMAIN pending' \subseteq DOMAIN pending
  BY Zenon DEF FailPending, Without
<1>3. \A f \in DOMAIN dl : SourcesOK(src(f), Needed(dl[f]))
  <2> TAKE f \in DOMAIN dl
  <2>1. SourcesOK(dl[f].src, Needed(dl[f]))
    BY Zenon DEF DownloadsOK, Sound
  <2>2. DOMAIN src(f) = DOMAIN dl[f].src /\ src(f) = [p \in DOMAIN src(f) |-> src(f)[p]]
    BY Zenon
  <2>3. \A p \in DOMAIN dl[f].src : src(f)[p] = Requeued(dl[f].src[p]) \/ src(f)[p] = dl[f].src[p]
    BY Zenon
  <2> HIDE DEF src
  <2>4. \A p \in DOMAIN dl[f].src :
          SourceOK(src(f)[p]) /\ src(f)[p].inFlight \subseteq Needed(dl[f])
    <3> TAKE p \in DOMAIN dl[f].src
    <3>1. SourceOK(dl[f].src[p]) /\ dl[f].src[p].inFlight \subseteq Needed(dl[f])
      BY <2>1, Zenon DEF SourcesOK
    <3>2. SourceOK(Requeued(dl[f].src[p])) /\ Requeued(dl[f].src[p]).inFlight = {}
      BY <3>1, RequeuedOK, Zenon
    <3>3. Requeued(dl[f].src[p]).inFlight \subseteq Needed(dl[f])
      BY <3>2, Zenon
    <3> QED
      BY <2>3, <3>1, <3>2, <3>3, Zenon
  <2> QED
    BY <2>1, <2>2, <2>4, Zenon DEF SourcesOK
<1>4. DOMAIN dl' = DOMAIN dl /\ \A f \in DOMAIN dl : dl'[f] = [dl[f] EXCEPT !.src = src(f)]
  BY <1>1, Zenon
<1> HIDE DEF src
<1>5. dl' = [f \in DOMAIN dl' |-> dl'[f]]
  BY <1>1, Zenon
<1>6. ASSUME NEW f \in DOMAIN dl
      PROVE  Sound(dl'[f]) /\ Settled(dl'[f]) /\ dl'[f].playable = dl[f].playable
  <2> DEFINE d == dl[f]
             n == dl'[f]
  <2>1. Sound(d) /\ Settled(d) /\ Record(d, FileFields) /\ d.denied \subseteq Peers
    BY Zenon DEF DownloadsOK, Sound
  <2>2. n = [d EXCEPT !.src = src(f)]
    BY <1>4, Zenon
  <2>3. SourcesOK(src(f), Needed(d))
    BY <1>3, Zenon
  <2> HIDE DEF d, n
  <2>4. /\ Record(n, FileFields) /\ n.written = d.written /\ n.bad = d.bad
        /\ n.verified = d.verified /\ n.hashes = d.hashes /\ n.src = src(f)
        /\ n.play = d.play /\ n.playable = d.playable /\ n.denied = d.denied
    BY <2>1, <2>2, Zenon DEF Record, FileFields
  <2>5. Sound(n) /\ (Settled(d) => Settled(n))
    BY <2>1, <2>3, <2>4, SameStore, Zenon
  <2>6. Sound(n) /\ Settled(n) /\ n.playable = d.playable
    BY <2>1, <2>4, <2>5, Zenon
  <2> QED
    BY <2>6, Zenon DEF d, n
<1>7. DownloadsOK(dl')
  BY <1>4, <1>5, <1>6, Zenon DEF DownloadsOK
<1>8. Told(dl', shown)
  BY <1>4, <1>6, Zenon DEF Told
<1> QED
  BY <1>2, <1>7, <1>8

(* on_download_stream, on_transfer_stream_failed, on_transfer_link_reset *)
LEMMA AnswerStep == ASSUME IInv, OnAnswer PROVE IInv'
<1> DEFINE e == Head(answers)
           k == e.key
           queue == IF k \in DOMAIN pending THEN pending[k] ELSE {}
           stream == [gen |-> gen + 1, owes |-> {}, ended |-> e.cut]
           base == [streams |-> [x \in DOMAIN streams \cup {k} |->
                                            IF x = k THEN stream ELSE streams[x]],
                    pending |-> Without(pending, {k})]
           r == [Result(dl) EXCEPT !.request[k] = queue]
<1>1. answers # <<>> /\ disk' = disk /\ mail' = mail /\ UNCHANGED envVars
  BY Zenon DEF OnAnswer, envVars
<1>2. Tail(answers) \in Seq(Answer) /\ e \in Answer
  <2>1. answers \in Seq(Answer)
    BY OwnKeys, Zenon
  <2> QED
    BY <1>1, <2>1
<1>3. e.kind = "opened" => k \in Key
  <2>1. Reset.kind # "opened"
    BY DEF Reset
  <2> QED
    BY <1>2, <2>1 DEF Answer
<1>4. DiskInv' /\ EnvInv' /\ mail' \subseteq Reply
  BY <1>1, Unchanged, Zenon DEF IInv, ChannelInv, DiskInv
<1>5. CASE /\ e.kind = "opened" /\ k[2] \in DOMAIN dl
           /\ RunActions(r, base, Tail(answers))
           /\ arrivals' = arrivals \o IF e.cut THEN <<Closed(k, gen + 1)>> ELSE <<>>
  <2>1. Good(r, {})
    <3>1. Good(Result(dl), {})
      BY OwnKeys, StartsGood, Zenon
    <3>2. PICK q : r = [Result(dl) EXCEPT !.request = q]
      BY Zenon
    <3> HIDE DEF r
    <3>3. /\ IsResult(r) /\ r.dl = Result(dl).dl /\ r.ask = Result(dl).ask /\ r.done = Result(dl).done
      BY <3>1, <3>2, Zenon DEF Good, IsResult, Record, ResultFields
    <3> QED
      BY <3>1, <3>3, Zenon DEF Good
  <2>2. DOMAIN base.streams \subseteq Key /\ DOMAIN base.pending \subseteq Key
    <3> HIDE DEF e, k, stream
    <3>1. DOMAIN base.streams = DOMAIN streams \cup {k} /\ DOMAIN base.pending \subseteq DOMAIN pending
      BY Zenon DEF Without
    <3>2. k \in Key
      BY <1>3, <1>5, Zenon
    <3> QED
      BY <3>1, <3>2, Zenon DEF IInv, FileInv
  <2>3. EventsOK(arrivals')
    <3>1. PICK S : arrivals \in Seq(S) /\ \A x \in S : x.kind = "data" => x.chunk \in Chunks
      BY Zenon DEF IInv, ChannelInv, EventsOK
    <3> DEFINE c == Closed(k, gen + 1)
               T == S \cup {c}
               t == IF e.cut THEN <<c>> ELSE <<>>
    <3>2. c.kind # "data"
      BY DEF Closed
    <3>3. \A x \in T : x.kind = "data" => x.chunk \in Chunks
      <4> HIDE DEF c
      <4> QED
        BY <3>1, <3>2, Zenon
    <3>4. arrivals' = arrivals \o t
      BY <1>5, Zenon
    <3>5. t \in Seq(T)
      <4> HIDE DEF c
      <4> QED
        OBVIOUS
    <3> HIDE DEF t
    <3>6. S \subseteq T
      BY Zenon
    <3> HIDE DEF T
    <3>7. arrivals \in Seq(T)
      BY <3>1, <3>6, Wider, Zenon
    <3>8. arrivals \o t \in Seq(T)
      BY <3>5, <3>7, Joined, Zenon
    <3> QED
      BY <3>3, <3>4, <3>8, Zenon DEF EventsOK
  <2> HIDE DEF base, r
  <2>4. Carried
    BY <1>2, <1>5, <2>1, <2>2, OwnKeys, RunKeeps, Zenon
  <2> QED
    BY <1>4, <2>3, <2>4, CarriedKeeps, Zenon
<1>6. CASE /\ answers' = Tail(answers) /\ pending' = Without(pending, {k})
           /\ UNCHANGED <<dl, local, shown, streams, gen, arrivals, netVars>>
  <2>1. DOMAIN pending' \subseteq DOMAIN pending
    BY <1>6, Zenon DEF Without
  <2>2. FileInv'
    BY <1>6, <2>1, Zenon DEF IInv, FileInv
  <2>3. NetInv' /\ arrivals' = arrivals
    BY <1>6, Unchanged, Zenon DEF IInv
  <2> QED
    BY <1>2, <1>4, <1>6, <2>2, <2>3, Zenon DEF IInv, ChannelInv
<1>7. ASSUME NEW S, answers' = Tail(answers), FailPending(S),
             UNCHANGED <<local, shown, streams, gen, arrivals, netVars>>
      PROVE  IInv'
  <2>1. DownloadsOK(dl') /\ Told(dl', shown) /\ DOMAIN pending' \subseteq DOMAIN pending
    BY <1>7, FailPendingKeeps, Zenon DEF IInv, FileInv
  <2>2. FileInv'
    BY <1>7, <2>1, Zenon DEF IInv, FileInv
  <2>3. NetInv' /\ arrivals' = arrivals
    BY <1>7, Unchanged, Zenon DEF IInv
  <2> QED
    BY <1>2, <1>4, <1>7, <2>2, <2>3, Zenon DEF IInv, ChannelInv
<1> QED
  BY <1>5, <1>6, <1>7, Zenon DEF OnAnswer

(* The process dies and starts again. *)
LEMMA RestartStep == ASSUME IInv, Restart PROVE IInv'
<1>1. /\ disk' = [f \in Files |-> IF f \in DOMAIN dl
                                THEN Chunks \ (dl[f].written \ dl[f].bad) ELSE disk[f]]
      /\ dl' = <<>> /\ streams' = <<>> /\ pending' = <<>>
      /\ shown' = [f \in Files |-> None]
      /\ link' = "down" /\ opens' = {} /\ ops' = <<>>
      /\ tasks' = [k \in Key |-> 0] /\ orphans' = [k \in Key |-> 0]
      /\ answers' = <<>> /\ arrivals' = <<>> /\ mail' = {}
      /\ local' = local /\ mood' = mood /\ offer' = offer /\ Spend("restart")
  BY Zenon DEF Restart
<1>2. DOMAIN <<>> = {} /\ <<>> \in Seq({}) /\ <<>> \in Seq(Op)
      /\ <<>> \in Seq(Answer) /\ Len(<<>>) <= OpsDepth
  BY TransfersAssumption
<1>3. DownloadsOK(<<>>)
  BY DEF DownloadsOK
<1>4. Told(<<>>, shown')
  <2>1. shown' \in [Files -> {None, 0, 1}] /\ \A f \in Files : shown'[f] = None
    BY <1>1, Zenon
  <2> QED
    BY <1>2, <2>1, Zenon DEF Told
<1>5. FileInv'
  BY <1>1, <1>2, <1>3, <1>4, Zenon DEF IInv, FileInv
<1>6. DiskInv'
  <2>1. DOMAIN disk' = Files /\ \A f \in Files : disk'[f] \subseteq Chunks \/ disk'[f] = disk[f]
    BY <1>1, Zenon
  <2> QED
    BY <2>1, Zenon DEF IInv, DiskInv, DiskOK
<1>7. NetInv'
  <2>1. OpensOK({})
    <3>1. Cardinality({}) <= OpenBuffer
      BY TransfersAssumption, FS_EmptySet
    <3> QED
      BY <3>1, Zenon DEF OpensOK
  <2>2. OpsOK(<<>>)
    BY <1>2, Zenon DEF OpsOK
  <2>3. tasks' \in [Key -> Nat] /\ orphans' \in [Key -> Nat] /\ link' \in {"down", "auth", "dial", "up"}
    BY <1>1
  <2> QED
    BY <1>1, <2>1, <2>2, <2>3, Zenon DEF NetInv
<1>8. ChannelInv'
  <2>1. EventsOK(<<>>)
    BY <1>2, Zenon DEF EventsOK
  <2> QED
    BY <1>1, <1>2, <2>1, Zenon DEF ChannelInv
<1>9. EnvInv'
  <2>1. "restart" \in Fault
    BY DEF Fault
  <2> QED
    BY <1>1, <2>1, SpendKeeps, Zenon DEF IInv, EnvInv
<1> QED
  BY <1>5, <1>6, <1>7, <1>8, <1>9, Zenon DEF IInv

(* An answer more. *)
LEMMA Answered1 ==
    ASSUME answers \in Seq(Answer), NEW a \in Answer
    PROVE  Append(answers, a) \in Seq(Answer)
OBVIOUS

(* An answer whose cut is set. *)
LEMMA CutSet ==
    ASSUME NEW a, NEW b, NEW c, NEW x
    PROVE  [[kind |-> a, key |-> b, cut |-> c] EXCEPT !.cut = x] = [kind |-> a, key |-> b, cut |-> x]
OBVIOUS

(* The answers there are, with the streams in them cut. *)
LEMMA DeadKeeps ==
    ASSUME answers \in Seq(Answer)
    PROVE  DeadAnswers \in Seq(Answer)
<1>1. \A e \in Answer : Dead(e) \in Answer
  <2> TAKE e \in Answer
  <2>1. CASE e.kind = "opened"
    <3>1. Reset.kind # "opened"
      BY DEF Reset
    <3>2. e \in [kind : {"opened", "failed"}, key : Key, cut : BOOLEAN]
      BY <2>1, <3>1, Zenon DEF Answer
    <3>3. [e EXCEPT !.cut = TRUE] \in [kind : {"opened", "failed"}, key : Key, cut : BOOLEAN]
      <4>1. PICK a \in {"opened", "failed"}, b \in Key, c \in BOOLEAN :
                e = [kind |-> a, key |-> b, cut |-> c]
        BY <3>2
      <4>2. [e EXCEPT !.cut = TRUE] = [kind |-> a, key |-> b, cut |-> TRUE]
        <5>1. [[kind |-> a, key |-> b, cut |-> c] EXCEPT !.cut = TRUE] = [kind |-> a, key |-> b, cut |-> TRUE]
          BY CutSet, Zenon
        <5> QED
          BY <4>1, <5>1, Zenon
      <4>3. [kind |-> a, key |-> b, cut |-> TRUE]
                \in [kind : {"opened", "failed"}, key : Key, cut : BOOLEAN]
        OBVIOUS
      <4> QED
        BY <4>2, <4>3, Zenon
    <3> QED
      BY <2>1, <3>3, Zenon DEF Dead, Answer
  <2>2. CASE e.kind # "opened"
    BY <2>2, Zenon DEF Dead
  <2> QED
    BY <2>1, <2>2
<1>2. \A i \in DOMAIN answers : answers[i] \in Answer
  OBVIOUS
<1>3. \A i \in DOMAIN answers : Dead(answers[i]) \in Answer
  BY <1>1, <1>2, Zenon
<1>4. PICK n \in Nat : DOMAIN answers = 1 .. n
  OBVIOUS
<1>5. DeadAnswers \in [1 .. n -> Answer]
  BY <1>3, <1>4, Zenon DEF DeadAnswers
<1> QED
  BY <1>5

(* The steps of the network actor that touch neither files nor budgets. *)
LEMMA ConnectStep == ASSUME IInv, Connect PROVE IInv'
<1>1. link' = "auth" /\ UNCHANGED <<fileVars, opens, ops, tasks, orphans, answers, arrivals, mail, envVars>>
  BY Zenon DEF Connect
<1>2. FileInv' /\ DiskInv' /\ EnvInv' /\ ChannelInv'
  BY <1>1, Unchanged, Zenon DEF IInv, ChannelInv
<1>3. NetInv'
  BY <1>1, Zenon DEF IInv, NetInv
<1> QED
  BY <1>2, <1>3, Zenon DEF IInv

(* run_transfer_link's connection comes up. *)
LEMMA LinkUpStep == ASSUME IInv, LinkUp PROVE IInv'
<1>1. link' = "up" /\ UNCHANGED <<fileVars, opens, ops, tasks, orphans, answers, arrivals, mail, envVars>>
  BY Zenon DEF LinkUp
<1>2. FileInv' /\ DiskInv' /\ EnvInv' /\ ChannelInv'
  BY <1>1, Unchanged, Zenon DEF IInv, ChannelInv
<1>3. NetInv'
  BY <1>1, Zenon DEF IInv, NetInv
<1> QED
  BY <1>2, <1>3, Zenon DEF IInv

(* A connection attempt fails. *)
LEMMA ConnectFailsStep == ASSUME IInv, ConnectFails PROVE IInv'
<1>1. /\ Spend("drop") /\ answers' = Append(answers, Reset)
      /\ UNCHANGED <<fileVars, netVars, arrivals, mail, mood, offer>>
  BY Zenon DEF ConnectFails
<1>2. answers' \in Seq(Answer)
  <2>1. Reset \in Answer
    BY Zenon DEF Answer
  <2> QED
    BY <1>1, <2>1, OwnKeys, Answered1, Zenon
<1>3. EnvInv'
  <2>1. "drop" \in Fault
    BY DEF Fault
  <2> QED
    BY <1>1, <2>1, SpendKeeps, Zenon DEF IInv, EnvInv
<1>4. FileInv' /\ DiskInv' /\ NetInv'
  BY <1>1, Unchanged, Zenon DEF IInv
<1> QED
  BY <1>1, <1>2, <1>3, <1>4, Zenon DEF IInv, ChannelInv

(* AuthOk: the buffered opens go to the new link. *)
LEMMA AuthOkStep == ASSUME IInv, AuthOk PROVE IInv'
<1> DEFINE sends == SetToSeq({[kind |-> "open", key |-> k] : k \in opens})
           fit == Min({OpsDepth, Len(sends)})
           over == {sends[i].key : i \in fit + 1 .. Len(sends)}
<1>1. /\ link' = "dial" /\ ops' = SubSeq(sends, 1, fit) /\ answers' = answers \o FailedAll(over)
      /\ opens' = {} /\ UNCHANGED <<fileVars, tasks, orphans, arrivals, mail, envVars>>
  BY Zenon DEF AuthOk
<1>2. sends \in Seq(Op)
  <2>1. opens \subseteq Key
    BY OwnKeys, Zenon DEF OpensOK
  <2>2. "open" \in {"ask", "open"}
    OBVIOUS
  <2> QED
    BY <2>1, <2>2, OpsListed, Zenon
<1> HIDE DEF sends
<1>3. fit \in Nat /\ fit <= OpsDepth /\ fit <= Len(sends) /\ Len(sends) \in Nat
  <2>1. OpsDepth \in Nat /\ Len(sends) \in Nat
    BY <1>2, TransfersAssumption
  <2>2. fit = IF OpsDepth <= Len(sends) THEN OpsDepth ELSE Len(sends)
    BY <2>1, MinMax
  <2> HIDE DEF fit
  <2> QED
    BY <2>1, <2>2
<1> HIDE DEF fit
<1>4. OpsOK(SubSeq(sends, 1, fit))
  <2>1. SubSeq(sends, 1, fit) \in Seq(Op) /\ Len(SubSeq(sends, 1, fit)) = fit
    BY <1>2, <1>3
  <2> QED
    BY <1>3, <2>1, Zenon DEF OpsOK
<1>5. over \subseteq Key
  <2>1. \A i \in fit + 1 .. Len(sends) : sends[i] \in Op
    BY <1>2, <1>3
  <2>2. \A x \in Op : x.key \in Key
    BY DEF Op
  <2> QED
    BY <2>1, <2>2, Zenon
<1> HIDE DEF over
<1>6. answers' \in Seq(Answer)
  BY <1>1, <1>5, OwnKeys, FailedAnswers, Joined, Zenon
<1>7. OpensOK({})
  <2>1. Cardinality({}) <= OpenBuffer
    BY TransfersAssumption, FS_EmptySet
  <2> QED
    BY <2>1, Zenon DEF OpensOK
<1>8. NetInv'
  BY <1>1, <1>4, <1>7, Zenon DEF IInv, NetInv
<1>9. FileInv' /\ DiskInv' /\ EnvInv'
  BY <1>1, Unchanged, Zenon DEF IInv
<1> QED
  BY <1>1, <1>6, <1>8, <1>9, Zenon DEF IInv, ChannelInv

(* The link loop takes an op. *)
LEMMA PumpStep == ASSUME IInv, Pump PROVE IInv'
<1> DEFINE op == Head(ops)
           p == op.key[1]
           Says(kinds) == {[kind |-> x, key |-> op.key] : x \in kinds}
<1>1. /\ ops # <<>> /\ ops' = Tail(ops)
      /\ UNCHANGED <<fileVars, link, opens, orphans, answers, arrivals, envVars>>
      /\ \/ /\ mail' = mail \cup
                   CASE mood[p] = "never" -> Says({"never"})
                     [] mood[p] = "silent" -> {}
                     [] mood[p] = "wrong" -> Says({"lies", "avail"})
                     [] OTHER -> Says({"hashes", "avail"})
            /\ tasks' = tasks
         \/ tasks' = [tasks EXCEPT ![op.key] = @ + 1] /\ mail' = mail
  BY Zenon DEF Pump
<1>2. OpsOK(ops') /\ op.key \in Key
  <2>1. ops \in Seq(Op) /\ Len(ops) <= OpsDepth /\ OpsDepth \in Nat
    BY TransfersAssumption DEF IInv, NetInv, OpsOK
  <2>2. Tail(ops) \in Seq(Op) /\ Len(Tail(ops)) <= OpsDepth /\ op \in Op
    BY <1>1, <2>1
  <2> HIDE DEF op
  <2>3. op.key \in Key
    BY <2>2 DEF Op
  <2> QED
    BY <1>1, <2>2, <2>3, Zenon DEF OpsOK
<1> HIDE DEF op
<1>3. mail' \subseteq Reply
  <2>1. mail \subseteq Reply
    BY Zenon DEF IInv, ChannelInv
  <2>2. \A x \in {"hashes", "lies", "never", "avail"} : [kind |-> x, key |-> op.key] \in Reply
    BY <1>2 DEF Reply
  <2>3. /\ Says({"never"}) \subseteq Reply /\ Says({"lies", "avail"}) \subseteq Reply
        /\ Says({"hashes", "avail"}) \subseteq Reply
    BY <2>2, Zenon
  <2> HIDE DEF Says
  <2> QED
    BY <1>1, <2>1, <2>3, Zenon
<1>4. tasks' \in [Key -> Nat]
  <2>1. tasks \in [Key -> Nat]
    BY Zenon DEF IInv, NetInv
  <2>2. [tasks EXCEPT ![op.key] = @ + 1] \in [Key -> Nat]
    <3>1. PICK k \in Key : k = op.key
      BY <1>2, Zenon
    <3>2. [tasks EXCEPT ![k] = @ + 1] \in [Key -> Nat]
      BY <2>1
    <3> QED
      BY <3>1, <3>2, Zenon
  <2> QED
    BY <1>1, <2>1, <2>2, Zenon
<1>5. NetInv'
  BY <1>1, <1>2, <1>4, Zenon DEF IInv, NetInv
<1>6. FileInv' /\ DiskInv' /\ EnvInv'
  BY <1>1, Unchanged, Zenon DEF IInv
<1> QED
  BY <1>1, <1>3, <1>5, <1>6, Zenon DEF IInv, ChannelInv

(* open_data_stream hands over the stream, *)
LEMMA OpensStep == ASSUME IInv, NEW k \in Key, Opens(k) PROVE IInv'
<1>1. /\ tasks[k] > 0 /\ tasks' = [tasks EXCEPT ![k] = @ - 1]
      /\ answers' = Append(answers, [kind |-> "opened", key |-> k, cut |-> FALSE])
      /\ UNCHANGED <<fileVars, link, opens, ops, orphans, arrivals, mail, envVars>>
  BY Zenon DEF Opens
<1>2. answers' \in Seq(Answer)
  <2> DEFINE a == [kind |-> "opened", key |-> k, cut |-> FALSE]
  <2>1. a \in [kind : {"opened", "failed"}, key : Key, cut : BOOLEAN]
    OBVIOUS
  <2> HIDE DEF a
  <2>2. a \in Answer
    BY <2>1, Zenon DEF Answer
  <2>3. Append(answers, a) \in Seq(Answer)
    BY <2>2, OwnKeys, Answered1, Zenon
  <2> QED
    BY <1>1, <2>3 DEF a
<1>3. tasks' \in [Key -> Nat]
  <2>1. tasks \in [Key -> Nat]
    BY Zenon DEF IInv, NetInv
  <2> QED
    BY <1>1, <2>1
<1>4. NetInv'
  BY <1>1, <1>3, Zenon DEF IInv, NetInv
<1>5. FileInv' /\ DiskInv' /\ EnvInv'
  BY <1>1, Unchanged, Zenon DEF IInv
<1> QED
  BY <1>1, <1>2, <1>4, <1>5, Zenon DEF IInv, ChannelInv

(* ... or reports failure. *)
LEMMA OpenFailsStep == ASSUME IInv, NEW k \in Key, OpenFails(k) PROVE IInv'
<1>1. /\ answers' = Append(answers, Failed(k))
      /\ UNCHANGED <<fileVars, link, opens, ops, arrivals, mail, mood, offer>>
      /\ \/ /\ orphans[k] > 0 /\ orphans' = [orphans EXCEPT ![k] = @ - 1]
            /\ tasks' = tasks /\ left' = left
         \/ /\ tasks[k] > 0 /\ tasks' = [tasks EXCEPT ![k] = @ - 1]
            /\ Spend("open") /\ orphans' = orphans
  BY Zenon DEF OpenFails
<1>2. answers' \in Seq(Answer)
  <2>1. Failed(k) \in [kind : {"opened", "failed"}, key : Key, cut : BOOLEAN]
    BY DEF Failed
  <2>2. Failed(k) \in Answer
    BY <2>1, Zenon DEF Answer
  <2> QED
    BY <1>1, <2>2, OwnKeys, Answered1, Zenon
<1>3. tasks' \in [Key -> Nat] /\ orphans' \in [Key -> Nat]
  <2>1. tasks \in [Key -> Nat] /\ orphans \in [Key -> Nat]
    BY Zenon DEF IInv, NetInv
  <2>2. tasks[k] > 0 => [tasks EXCEPT ![k] = @ - 1] \in [Key -> Nat]
    BY <2>1
  <2>3. orphans[k] > 0 => [orphans EXCEPT ![k] = @ - 1] \in [Key -> Nat]
    BY <2>1
  <2> QED
    BY <1>1, <2>1, <2>2, <2>3, Zenon
<1>4. NetInv'
  BY <1>1, <1>3, Zenon DEF IInv, NetInv
<1>5. left' \in [Fault -> Nat]
  <2>1. "open" \in Fault
    BY DEF Fault
  <2> QED
    BY <1>1, <2>1, SpendKeeps, Zenon DEF IInv, EnvInv
<1>6. FileInv' /\ DiskInv' /\ EnvInv'
  BY <1>1, <1>5, Unchanged, Zenon DEF IInv, EnvInv
<1> QED
  BY <1>1, <1>2, <1>4, <1>6, Zenon DEF IInv, ChannelInv

(* The ends of some streams' readers, listed. *)
LEMMA ClosedListed ==
    ASSUME NEW S, S \subseteq Key, EventsOK(arrivals)
    PROVE  EventsOK(arrivals \o SetToSeq({Closed(k, streams[k].gen) : k \in S}))
<1> DEFINE g == [k \in S |-> Closed(k, streams[k].gen)]
           T == {Closed(k, streams[k].gen) : k \in S}
<1>1. IsFiniteSet(S)
  BY KeysFinite, Zenon
<1>2. T = {g[k] : k \in S}
  BY Zenon
<1>3. IsFiniteSet(T)
  <2> HIDE DEF T
  <2>1. DOMAIN g = S
    BY Zenon
  <2> HIDE DEF g
  <2> QED
    BY <1>1, <1>2, <2>1, ImageFinite, Zenon
<1>4. \A x \in T : x.kind # "data"
  <2>1. \A k, n : Closed(k, n).kind # "data"
    BY DEF Closed
  <2> QED
    BY <2>1, Zenon
<1>5. PICK U : arrivals \in Seq(U) /\ \A x \in U : x.kind = "data" => x.chunk \in Chunks
  BY Zenon DEF EventsOK
<1> HIDE DEF T
<1>6. SetToSeq(T) \in Seq(U \cup T) /\ arrivals \in Seq(U \cup T)
  <2>1. U \subseteq U \cup T /\ T \subseteq U \cup T
    BY Zenon
  <2> QED
    BY <1>3, <1>5, <2>1, Listed, Wider, Zenon
<1>7. arrivals \o SetToSeq(T) \in Seq(U \cup T)
  BY <1>6, Joined, Zenon
<1>8. \A x \in U \cup T : x.kind = "data" => x.chunk \in Chunks
  BY <1>4, <1>5, Zenon
<1>9. EventsOK(arrivals \o SetToSeq(T))
  BY <1>7, <1>8, Zenon DEF EventsOK
<1> QED
  BY <1>9, Zenon DEF T

(* A transfer connection dies. *)
LEMMA CutKeeps ==
    ASSUME IInv, Cut
    PROVE  /\ FileInv' /\ DiskInv' /\ OpensOK(opens') /\ EventsOK(arrivals') /\ mail' \subseteq Reply
           /\ tasks' \in [Key -> Nat] /\ orphans' \in [Key -> Nat]
<1> DEFINE live == {k \in DOMAIN streams : ~streams[k].ended}
<1>1. /\ streams' = [k \in DOMAIN streams |-> [streams[k] EXCEPT !.ended = TRUE, !.owes = {}]]
      /\ arrivals' = arrivals \o SetToSeq({Closed(k, streams[k].gen) : k \in live})
      /\ tasks' = [k \in Key |-> 0] /\ orphans' = [k \in Key |-> orphans[k] + tasks[k]]
      /\ mail' = {} /\ UNCHANGED <<dl, view, local, shown, pending, gen, disk, opens>>
  BY Zenon DEF Cut
<1>2. DOMAIN streams' = DOMAIN streams /\ DOMAIN streams \subseteq Key
  BY <1>1, Zenon DEF IInv, FileInv
<1>3. live \subseteq Key
  BY <1>2, Zenon
<1> HIDE DEF live
<1>4. EventsOK(arrivals')
  BY <1>1, <1>3, ClosedListed, Zenon DEF IInv, ChannelInv
<1>5. FileInv' /\ DiskInv' /\ OpensOK(opens') /\ mail' \subseteq Reply
  BY <1>1, <1>2, Zenon DEF IInv, FileInv, DiskInv, NetInv
<1>6. tasks' \in [Key -> Nat] /\ orphans' \in [Key -> Nat]
  <2>1. tasks \in [Key -> Nat] /\ orphans \in [Key -> Nat]
    BY Zenon DEF IInv, NetInv
  <2>2. 0 \in Nat /\ \A k \in Key : orphans[k] + tasks[k] \in Nat
    BY <2>1
  <2> QED
    BY <1>1, <2>2, Zenon
<1> QED
  BY <1>4, <1>5, <1>6

(* The transfer connection is lost, *)
LEMMA LinkLostStep == ASSUME IInv, LinkLost PROVE IInv'
<1>1. /\ Spend("link") /\ link' = "dial" /\ Cut /\ answers' = DeadAnswers
      /\ ops' = ops /\ mood' = mood /\ offer' = offer
  BY Zenon DEF LinkLost
<1>2. answers' \in Seq(Answer)
  BY <1>1, OwnKeys, DeadKeeps, Zenon
<1>3. EnvInv'
  <2>1. "link" \in Fault
    BY DEF Fault
  <2> QED
    BY <1>1, <2>1, SpendKeeps, Zenon DEF IInv, EnvInv
<1>4. NetInv'
  BY <1>1, CutKeeps, Zenon DEF IInv, NetInv
<1> QED
  BY <1>1, <1>2, <1>3, <1>4, CutKeeps, Zenon DEF IInv, ChannelInv

(* ... or the control connection with it. *)
LEMMA ConnectionLostStep == ASSUME IInv, ConnectionLost PROVE IInv'
<1>1. /\ Spend("drop") /\ link' = "down" /\ Cut /\ answers' = Append(DeadAnswers, Reset)
      /\ ops' = <<>> /\ mood' = mood /\ offer' = offer
  BY Zenon DEF ConnectionLost
<1>2. answers' \in Seq(Answer)
  <2>1. DeadAnswers \in Seq(Answer) /\ Reset \in Answer
    BY OwnKeys, DeadKeeps, Zenon DEF Answer
  <2>2. PICK q \in Seq(Answer), a \in Answer : q = DeadAnswers /\ a = Reset
    BY <2>1, Zenon
  <2>3. Append(q, a) \in Seq(Answer)
    OBVIOUS
  <2> QED
    BY <1>1, <2>2, <2>3, Zenon
<1>3. EnvInv'
  <2>1. "drop" \in Fault
    BY DEF Fault
  <2> QED
    BY <1>1, <2>1, SpendKeeps, Zenon DEF IInv, EnvInv
<1>4. NetInv'
  <2>1. OpsOK(<<>>)
    BY TransfersAssumption DEF OpsOK
  <2> QED
    BY <1>1, <2>1, CutKeeps, Zenon DEF IInv, NetInv
<1> QED
  BY <1>1, <1>2, <1>3, <1>4, CutKeeps, Zenon DEF IInv, ChannelInv

(* An event more on the streams' channel. *)
LEMMA EventMore ==
    ASSUME EventsOK(arrivals), NEW e, e.kind = "data" => e.chunk \in Chunks
    PROVE  EventsOK(Append(arrivals, e))
<1>1. PICK S : arrivals \in Seq(S) /\ \A x \in S : x.kind = "data" => x.chunk \in Chunks
  BY Zenon DEF EventsOK
<1> DEFINE T == S \cup {e}
<1>2. arrivals \in Seq(T) /\ e \in T
  BY <1>1, Wider, Zenon
<1>3. \A x \in T : x.kind = "data" => x.chunk \in Chunks
  BY <1>1, Zenon
<1> HIDE DEF T
<1>4. Append(arrivals, e) \in Seq(T)
  BY <1>2
<1> QED
  BY <1>3, <1>4, Zenon DEF EventsOK

(* serve_transfer sends a chunk, *)
LEMMA ServeStep == ASSUME IInv, NEW k \in Key, NEW c \in Chunks, Serve(k, c) PROVE IInv'
<1> DEFINE e == [kind |-> "data", key |-> k, gen |-> 0, chunk |-> c, good |-> mood[k[1]] = "honest"]
<1>1. /\ streams' = [streams EXCEPT ![k].owes = @ \ {c}] /\ arrivals' = Append(arrivals, e)
      /\ UNCHANGED <<dl, view, local, shown, pending, gen, disk, netVars, answers, mail, envVars>>
  BY Zenon DEF Serve
<1>2. DOMAIN streams' = DOMAIN streams
  BY <1>1, Zenon
<1>3. e.chunk = c
  BY Zenon
<1> HIDE DEF e
<1>4. EventsOK(arrivals')
  BY <1>1, <1>3, EventMore, Zenon DEF IInv, ChannelInv
<1>5. FileInv' /\ DiskInv'
  BY <1>1, <1>2, Zenon DEF IInv, FileInv, DiskInv
<1>6. NetInv' /\ EnvInv'
  BY <1>1, Unchanged, Zenon DEF IInv
<1> QED
  BY <1>1, <1>4, <1>5, <1>6, Zenon DEF IInv, ChannelInv

(* ... or its end of a stream ends. *)
LEMMA ServeEndsStep == ASSUME IInv, NEW k \in Key, ServeEnds(k) PROVE IInv'
<1> DEFINE e == Closed(k, streams[k].gen)
<1>1. /\ streams' = [streams EXCEPT ![k].ended = TRUE, ![k].owes = {}] /\ arrivals' = Append(arrivals, e)
      /\ UNCHANGED <<dl, view, local, shown, pending, gen, disk, netVars, answers, mail, mood, offer>>
      /\ Spend("close")
  BY Zenon DEF ServeEnds
<1>2. DOMAIN streams' = DOMAIN streams
  BY <1>1, Zenon
<1>3. e.kind # "data"
  BY DEF Closed
<1> HIDE DEF e
<1>4. EventsOK(arrivals')
  BY <1>1, <1>3, EventMore, Zenon DEF IInv, ChannelInv
<1>5. FileInv' /\ DiskInv'
  BY <1>1, <1>2, Zenon DEF IInv, FileInv, DiskInv
<1>6. EnvInv'
  <2>1. "close" \in Fault
    BY DEF Fault
  <2> QED
    BY <1>1, <2>1, SpendKeeps, Zenon DEF IInv, EnvInv
<1>7. NetInv'
  BY <1>1, Unchanged, Zenon DEF IInv
<1> QED
  BY <1>1, <1>4, <1>5, <1>6, <1>7, Zenon DEF IInv, ChannelInv

(* The peers and the relay: a lost reply, a sulking peer, one that heals. *)
LEMMA PeersStep ==
    ASSUME IInv, \/ \E m \in mail : LoseReply(m)
                 \/ \E p \in Peers : Sulk(p) \/ Heal(p)
    PROVE  IInv'
<1>1. "lose" \in Fault /\ "sulk" \in Fault /\ "honest" \in Moods /\ "silent" \in Moods
  BY DEF Fault, Moods
<1>2. left \in [Fault -> Nat] /\ mood \in [Peers -> Moods] /\ mail \subseteq Reply
  BY Zenon DEF IInv, EnvInv, ChannelInv
<1>3. CASE \E m \in mail : LoseReply(m)
  <2>1. /\ Spend("lose") /\ mail' \subseteq mail
        /\ UNCHANGED <<fileVars, netVars, answers, arrivals, mood, offer>>
    BY <1>3, Zenon DEF LoseReply
  <2>2. EnvInv'
    BY <1>1, <2>1, SpendKeeps, Zenon DEF IInv, EnvInv
  <2>3. FileInv' /\ DiskInv' /\ NetInv'
    BY <2>1, Unchanged, Zenon DEF IInv
  <2> QED
    BY <2>1, <2>2, <2>3, Zenon DEF IInv, ChannelInv
<1>4. ASSUME NEW p \in Peers, Sulk(p) PROVE IInv'
  <2>1. /\ Spend("sulk") /\ mood' = [mood EXCEPT ![p] = "silent"]
        /\ UNCHANGED <<fileVars, netVars, answers, arrivals, mail, offer>>
    BY <1>4, Zenon DEF Sulk
  <2>2. mood' \in [Peers -> Moods]
    BY <1>1, <1>2, <2>1, Zenon
  <2>3. EnvInv'
    BY <1>1, <2>1, <2>2, SpendKeeps, Zenon DEF IInv, EnvInv
  <2>4. FileInv' /\ DiskInv' /\ NetInv'
    BY <2>1, Unchanged, Zenon DEF IInv
  <2> QED
    BY <2>1, <2>3, <2>4, Zenon DEF IInv, ChannelInv
<1>5. ASSUME NEW p \in Peers, Heal(p) PROVE IInv'
  <2>1. /\ left' = left /\ mood' = [mood EXCEPT ![p] = "honest"]
        /\ UNCHANGED <<fileVars, netVars, answers, arrivals, mail, offer>>
    BY <1>5, Zenon DEF Heal
  <2>2. mood' \in [Peers -> Moods]
    BY <1>1, <1>2, <2>1, Zenon
  <2>3. EnvInv'
    BY <2>1, <2>2, Zenon DEF IInv, EnvInv
  <2>4. FileInv' /\ DiskInv' /\ NetInv'
    BY <2>1, Unchanged, Zenon DEF IInv
  <2> QED
    BY <2>1, <2>3, <2>4, Zenon DEF IInv, ChannelInv
<1> QED
  BY <1>3, <1>4, <1>5, Zenon

-----------------------------------------------------------------------------
(* Every step assigns chunks once, and within the budget. *)

AssignedStep == Assigned(dl', dl, view'.playing)

(* A step that carries out a call's result, *)
LEMMA RefillStep ==
    ASSUME NEW x, NEW base, NEW extra, Refills(x, Result(dl), view), RunActions(x, base, extra), view' = view
    PROVE  AssignedStep
<1>1. dl' = x.dl
  BY Zenon DEF RunActions
<1>2. Result(dl).dl = dl
  BY Zenon DEF Result
<1> QED
  BY <1>1, <1>2, RefillsAssigns, Zenon DEF AssignedStep

(* or retracts requests only. *)
LEMMA FewerStep == ASSUME Fewer(dl', dl) PROVE AssignedStep
BY FewerAssigns, Zenon DEF AssignedStep

(* on_tick *)
LEMMA TickAssigns == ASSUME IInv, NEW elapsed \in BOOLEAN, Tick(elapsed) PROVE AssignedStep
<1>1. Refills(TickAll(Result(dl), view, elapsed), Result(dl), view)
  BY OwnKeys, StartsGood, TickKeeps, Zenon
<1>2. RunActions(TickAll(Result(dl), view, elapsed), Own, answers) /\ view' = view
  BY Zenon DEF Tick
<1> QED
  BY <1>1, <1>2, RefillStep, Zenon

(* on_peer_message *)
LEMMA ReplyAssigns == ASSUME IInv, NEW m \in mail, OnReply(m) PROVE AssignedStep
<1> DEFINE p == m.key[1]
           f == m.key[2]
           r == CASE m.kind = "avail" -> OnAvailability(Result(dl), f, p, Chunks, view)
                  [] m.kind = "never" -> OnCannotServe(Result(dl), f, p, view)
                  [] OTHER -> OnBlockHashes(Result(dl), f, p, m.kind = "hashes", view)
<1>1. p \in Peers
  <2>1. m \in Reply
    BY Zenon DEF IInv, ChannelInv
  <2> QED
    BY <2>1 DEF Reply, Key
<1>2. Refills(r, Result(dl), view)
  <2>1. Good(Result(dl), {})
    BY OwnKeys, StartsGood, Zenon
  <2>2. /\ Refills(OnAvailability(Result(dl), f, p, Chunks, view), Result(dl), view)
        /\ Refills(OnCannotServe(Result(dl), f, p, view), Result(dl), view)
        /\ Refills(OnBlockHashes(Result(dl), f, p, m.kind = "hashes", view), Result(dl), view)
    BY <1>1, <2>1, AvailabilityKeeps, CannotServeKeeps, BlockHashesKeep, Zenon
  <2> QED
    BY <2>2, Zenon
<1>3. RunActions(r, Own, answers) /\ view' = view
  BY Zenon DEF OnReply
<1> HIDE DEF r
<1> QED
  BY <1>2, <1>3, RefillStep, Zenon

(* on_stream_event *)
LEMMA ArrivalAssigns == ASSUME IInv, OnArrival PROVE AssignedStep
<1> DEFINE e == Head(arrivals)
           p == e.key[1]
           f == e.key[2]
<1>1. arrivals # <<>> /\ view' = view
  BY Zenon DEF OnArrival
<1>2. e.kind = "data" => e.chunk \in Chunks
  <2>1. PICK S : arrivals \in Seq(S) /\ \A x \in S : x.kind = "data" => x.chunk \in Chunks
    BY Zenon DEF IInv, ChannelInv, EventsOK
  <2>2. e \in S
    BY <1>1, <2>1
  <2> HIDE DEF e
  <2> QED
    BY <2>1, <2>2, Zenon
<1>3. Good(Result(dl), {})
  BY OwnKeys, StartsGood, Zenon
<1>4. \/ e.kind = "data" /\ RunActions(OnChunkData(Result(dl), f, p, e.chunk, e.good, view), Own, answers)
      \/ RunActions(OnSourceStreamLost(Result(dl), f, p, view),
                    [Own EXCEPT !.streams = Without(@, {e.key})], answers)
      \/ dl' = dl
  BY Zenon DEF OnArrival
<1> HIDE DEF e
<1>5. CASE e.kind = "data" /\ RunActions(OnChunkData(Result(dl), f, p, e.chunk, e.good, view), Own, answers)
  <2>1. Refills(OnChunkData(Result(dl), f, p, e.chunk, e.good, view), Result(dl), view)
    BY <1>2, <1>3, <1>5, ChunkDataKeeps, Zenon
  <2> QED
    BY <1>1, <1>5, <2>1, RefillStep, Zenon
<1>6. ASSUME NEW base, RunActions(OnSourceStreamLost(Result(dl), f, p, view), base, answers)
      PROVE  AssignedStep
  <2>1. Refills(OnSourceStreamLost(Result(dl), f, p, view), Result(dl), view)
    BY <1>3, StreamLostKeeps, Zenon
  <2> QED
    BY <1>1, <1>6, <2>1, RefillStep, Zenon
<1>7. CASE dl' = dl
  BY <1>7, FewerOrder, FewerStep, Zenon
<1> QED
  BY <1>4, <1>5, <1>6, <1>7, Zenon

(* on_download_stream, on_transfer_stream_failed, on_transfer_link_reset *)
LEMMA AnswerAssigns == ASSUME IInv, OnAnswer PROVE AssignedStep
<1>1. \/ \E q, base, extra : RunActions([Result(dl) EXCEPT !.request = q], base, extra)
      \/ dl' = dl
      \/ \E S : FailPending(S)
  BY Zenon DEF OnAnswer
<1>2. ASSUME NEW q, NEW base, NEW extra, RunActions([Result(dl) EXCEPT !.request = q], base, extra)
      PROVE  dl' = dl
  <2>1. dl' = [Result(dl) EXCEPT !.request = q].dl
    BY <1>2, Zenon DEF RunActions
  <2> QED
    BY <2>1, Zenon DEF Result
<1>3. ASSUME NEW S, FailPending(S) PROVE Fewer(dl', dl)
  <2> DEFINE hit == S \ DOMAIN streams
             src(f) == [p \in DOMAIN dl[f].src |->
                          IF <<p, f>> \in hit THEN Requeued(dl[f].src[p]) ELSE dl[f].src[p]]
  <2>1. DOMAIN dl' = DOMAIN dl /\ \A f \in DOMAIN dl : dl'[f] = [dl[f] EXCEPT !.src = src(f)]
    BY <1>3, Zenon DEF FailPending
  <2>2. ASSUME NEW f \in DOMAIN dl, NEW p PROVE Asked(src(f), p) \subseteq Asked(dl[f].src, p)
    <3>1. p \in DOMAIN dl[f].src => SourceOK(dl[f].src[p])
      BY Zenon DEF IInv, FileInv, DownloadsOK, Sound, SourcesOK
    <3>2. p \in DOMAIN dl[f].src => Requeued(dl[f].src[p]).inFlight = {}
      BY <3>1, RequeuedOK, Zenon
    <3>3. /\ DOMAIN src(f) = DOMAIN dl[f].src
          /\ p \in DOMAIN dl[f].src => src(f)[p] = Requeued(dl[f].src[p]) \/ src(f)[p] = dl[f].src[p]
      BY Zenon
    <3> HIDE DEF src
    <3> QED
      BY <3>2, <3>3, Zenon DEF Asked
  <2> HIDE DEF src
  <2>3. \A f \in DOMAIN dl : dl'[f].src = src(f)
    <3>1. \A f \in DOMAIN dl : Record(dl[f], FileFields)
      BY Zenon DEF IInv, FileInv, DownloadsOK, Sound
    <3> QED
      BY <2>1, <3>1, Zenon DEF Record, FileFields
  <2> QED
    BY <2>1, <2>2, <2>3, Zenon DEF Fewer, Flight
<1>4. Fewer(dl', dl)
  BY <1>1, <1>2, <1>3, FewerOrder, Zenon
<1> QED
  BY <1>4, FewerStep, Zenon

(* set_downloads *)
LEMMA SetDownloadsAssigns == ASSUME IInv, NEW o, PlanOK(o), SetDownloads(o) PROVE AssignedStep
<1>1. dl' = Planned(o).dl /\ view' = Ranking(o)
  BY Zenon DEF SetDownloads, RunActions
<1>2. Assigned(Planned(o).dl, dl, o.playing)
  BY PlannedGood, Zenon DEF IInv, FileInv, DiskInv, DownloadsOK
<1>3. Ranking(o).playing = o.playing
  BY Zenon DEF Ranking
<1> QED
  BY <1>1, <1>2, <1>3, Zenon DEF AssignedStep

(* Every step. *)
LEMMA NextAssigns == ASSUME IInv, [Next]_vars PROVE AssignedStep
<1>1. ASSUME dl' = dl PROVE AssignedStep
  BY <1>1, FewerOrder, FewerStep, Zenon
<1>2. CASE FileStep
  BY <1>2, TickAssigns, ArrivalAssigns, AnswerAssigns, ReplyAssigns, Zenon DEF FileStep
<1>3. CASE NetStep
  <2>1. dl' = dl
    BY <1>3, Zenon DEF NetStep, Connect, AuthOk, LinkUp, Pump, Opens, OpenFails, fileVars
  <2> QED
    BY <1>1, <2>1
<1>4. CASE EnvStep
  <2>1. CASE Refresh
    <3>1. SetDownloads(offer) /\ PlanOK(offer)
      BY <2>1, Zenon DEF Refresh, IInv, EnvInv
    <3> QED
      BY <3>1, SetDownloadsAssigns, Zenon
  <2>2. CASE ~Refresh
    <3>1. dl' = dl
      BY <1>4, <2>2, Zenon DEF EnvStep, Serve, Heal, fileVars
    <3> QED
      BY <1>1, <3>1
  <2> QED
    BY <2>1, <2>2
<1>5. CASE FaultStep
  <2>1. ASSUME NEW o \in Plans, Replan(o) PROVE AssignedStep
    <3>1. SetDownloads(o) /\ PlanOK(o)
      BY <2>1, ScenariosAssumption, Zenon DEF Replan
    <3> QED
      BY <3>1, SetDownloadsAssigns, Zenon
  <2>2. ASSUME NEW f \in Files, AdoptLocalCopy(f) PROVE AssignedStep
    <3>1. dl' = Without(dl, {f})
      BY <2>2, Zenon DEF AdoptLocalCopy
    <3> QED
      BY <3>1, WithoutFewer, FewerStep, Zenon
  <2>3. ASSUME Restart PROVE AssignedStep
    <3>1. dl' = <<>>
      BY <2>3, Zenon DEF Restart
    <3>2. DOMAIN dl' = {}
      BY <3>1
    <3>3. Fewer(dl', dl)
      BY <3>2, Zenon DEF Fewer, Flight
    <3> QED
      BY <3>3, FewerStep, Zenon
  <2>4. CASE ConnectFails \/ LinkLost \/ ConnectionLost
    BY <1>1, <2>4, Zenon DEF ConnectFails, LinkLost, ConnectionLost, Cut, fileVars
  <2>5. CASE \E k \in Key : ServeEnds(k)
    BY <1>1, <2>5, Zenon DEF ServeEnds
  <2>6. CASE \E m \in mail : LoseReply(m)
    BY <1>1, <2>6, Zenon DEF LoseReply, fileVars
  <2>7. CASE \E p \in Peers : Sulk(p)
    BY <1>1, <2>7, Zenon DEF Sulk, fileVars
  <2>8. CASE \E o \in Plans : Replan(o)
    BY <2>1, <2>8, Zenon
  <2>9. CASE \E f \in Files : AdoptLocalCopy(f)
    BY <2>2, <2>9, Zenon
  <2> QED
    BY <1>5, <2>3, <2>4, <2>5, <2>6, <2>7, <2>8, <2>9, Zenon DEF FaultStep
<1>6. CASE UNCHANGED vars
  <2>1. dl' = dl
    BY <1>6, Zenon DEF vars, fileVars
  <2> QED
    BY <1>1, <2>1
<1> QED
  BY <1>2, <1>3, <1>4, <1>5, <1>6, Zenon DEF Next

-----------------------------------------------------------------------------
(* The theorems. *)

(* The first state. *)
LEMMA InitInv == Init => IInv
<1> SUFFICES ASSUME Init PROVE IInv
  OBVIOUS
<1>1. DOMAIN <<>> = {} /\ <<>> \in Seq({}) /\ <<>> \in Seq(Op) /\ <<>> \in Seq(Answer) /\ OpsOK(<<>>)
  BY TransfersAssumption DEF OpsOK
<1>2. DownloadsOK(<<>>)
  BY DEF DownloadsOK
<1>3. Told(<<>>, shown)
  <2>1. shown \in [Files -> {None, 0, 1}] /\ \A f \in Files : shown[f] = None
    BY Zenon DEF Init
  <2> QED
    BY <1>1, <2>1, Zenon DEF Told
<1>4. FileInv
  BY <1>1, <1>2, <1>3, Zenon DEF FileInv, Init
<1>5. PICK s \in Scenarios : mood = s.mood /\ offer = s.offer /\ disk = s.disk /\ left = s.left
  BY Zenon DEF Init
<1>6. DiskInv /\ EnvInv
  BY <1>5, ScenariosAssumption, Zenon DEF DiskInv, EnvInv
<1>7. NetInv
  <2>1. OpensOK({})
    <3>1. Cardinality({}) <= OpenBuffer
      BY TransfersAssumption, FS_EmptySet
    <3> QED
      BY <3>1, Zenon DEF OpensOK
  <2>2. tasks \in [Key -> Nat] /\ orphans \in [Key -> Nat] /\ link \in {"down", "auth", "dial", "up"}
    BY DEF Init
  <2> QED
    BY <1>1, <2>1, <2>2, Zenon DEF NetInv, Init
<1>8. ChannelInv
  <2>1. EventsOK(<<>>)
    BY <1>1, Zenon DEF EventsOK
  <2> QED
    BY <1>1, <2>1, Zenon DEF ChannelInv, Init
<1> QED
  BY <1>4, <1>6, <1>7, <1>8, Zenon DEF IInv

(* Every step keeps the invariant. *)
LEMMA NextInv == IInv /\ [Next]_vars => IInv'
<1> SUFFICES ASSUME IInv, [Next]_vars PROVE IInv'
  OBVIOUS
<1>1. CASE FileStep
  BY <1>1, TickStep, ArrivalStep, AnswerStep, ReplyStep, Zenon DEF FileStep
<1>2. CASE NetStep
  BY <1>2, ConnectStep, AuthOkStep, LinkUpStep, PumpStep, OpensStep, OpenFailsStep, Zenon DEF NetStep
<1>3. CASE EnvStep
  BY <1>3, ServeStep, PeersStep, RefreshStep, Zenon DEF EnvStep
<1>4. CASE FaultStep
  BY <1>4, ConnectFailsStep, LinkLostStep, ConnectionLostStep, RestartStep, ServeEndsStep,
     PeersStep, ReplanStep, AdoptStep, Zenon DEF FaultStep
<1>5. CASE UNCHANGED vars
  BY <1>5, Unchanged, Zenon DEF vars, IInv, ChannelInv
<1> QED
  BY <1>1, <1>2, <1>3, <1>4, <1>5, Zenon DEF Next

(* The invariant gives the properties. *)
LEMMA IInvGives == IInv => TypeOK /\ InFlightNeeded /\ VerifiedGood /\ ToldPlayable
<1> SUFFICES ASSUME IInv PROVE TypeOK /\ InFlightNeeded /\ VerifiedGood /\ ToldPlayable
  OBVIOUS
<1>1. \A f \in DOMAIN dl :
        /\ Record(dl[f], FileFields) /\ StoreOK(dl[f]) /\ SourcesOK(dl[f].src, Needed(dl[f]))
        /\ dl[f].denied \subseteq Peers /\ Settled(dl[f])
  BY Zenon DEF IInv, FileInv, DownloadsOK, Sound
<1>2. \A f \in DOMAIN dl : \A p \in Sources(dl[f]) :
        SourceOK(dl[f].src[p]) /\ dl[f].src[p].inFlight \subseteq Needed(dl[f])
  BY <1>1, Zenon DEF SourcesOK, Sources
<1>3. InFlightNeeded
  BY <1>2, Zenon DEF InFlightNeeded, Flying
<1>4. VerifiedGood
  BY <1>1, Zenon DEF VerifiedGood, StoreOK
<1>5. ToldPlayable
  <2>1. \A f \in DOMAIN dl : (shown[f] = 1) <=> dl[f].playable
    BY Zenon DEF IInv, FileInv, Told
  <2>2. \A f \in DOMAIN dl : dl[f].hashes => dl[f].playable = Playable(dl[f])
    BY <1>1, Zenon DEF Settled
  <2>3. \A f \in DOMAIN dl : Playable(dl[f]) \in BOOLEAN
    BY Zenon DEF Playable
  <2> QED
    BY <2>1, <2>2, <2>3, Zenon DEF ToldPlayable
<1>6. TypeOK
  <2>1. \A f \in DOMAIN dl :
         /\ dl[f].written \subseteq Chunks /\ dl[f].bad \subseteq dl[f].written
         /\ dl[f].verified \subseteq Blocks
         /\ Sources(dl[f]) \subseteq Peers /\ dl[f].denied \subseteq Peers
    BY <1>1, Zenon DEF StoreOK, SourcesOK, Sources
  <2>2. \A d : Needed(d) \subseteq Chunks
    BY Zenon DEF Needed
  <2>3. \A f \in DOMAIN dl : \A p \in Sources(dl[f]) :
              /\ dl[f].src[p].inFlight \subseteq Chunks
              /\ dl[f].src[p].attempts \in 0 .. MaxSolicitAttempts
    BY <1>2, <2>2, Zenon DEF SourceOK
  <2> QED
    BY <2>1, <2>3, Zenon DEF IInv, FileInv, DownloadsOK, Told, NetInv, OpensOK, OpsOK, ChannelInv, EnvInv,
                             TypeOK
<1> QED
  BY <1>3, <1>4, <1>5, <1>6

(* Every behaviour keeps the invariant. *)
LEMMA Invariance == Spec => []IInv
<1> QED
  BY InitInv, NextInv, PTL DEF Spec

(* For any number of peers, files and chunks, any plans and any budget of  *)
(* faults, the pulling side keeps its types, and to its bounds: a source   *)
(* is asked at most MAX_SOLICIT_ATTEMPTS times in a row, the op channel    *)
(* and the stash of opens never overflow.                                  *)
THEOREM TransfersTyped == Spec => []TypeOK
<1> QED
  BY Invariance, IInvGives, PTL

(* A chunk on its way from a source is still needed, whatever arrives from *)
(* other sources meanwhile, fails to verify or is given up                 *)
(* (cancel_elsewhere, verify_and_collect, requeue_source, snub).           *)
THEOREM InFlightIsNeeded == Spec => []InFlightNeeded
<1> QED
  BY Invariance, IInvGives, PTL

(* A verified block holds no wrong byte, whatever peers send and in        *)
(* whatever order (ChunkStore::verify, on_chunk_data).                     *)
THEOREM VerifiedIsGood == Spec => []VerifiedGood
<1> QED
  BY Invariance, IInvGives, PTL

(* The playability the group was told last is the current one, through     *)
(* changes of plan and of the playback anchor (progress_and_solicit,       *)
(* last_playable_written).                                                 *)
THEOREM ToldIsPlayable == Spec => []ToldPlayable
<1> QED
  BY Invariance, IInvGives, PTL

(* No step puts a chunk on its way from a second source unless it is        *)
(* urgent, over whole plans, ticks and handlers (plan_requests, plan_all).  *)
THEOREM BulkIsAssignedOnce == Spec => BulkOnce
<1> DEFINE A == \A f \in DOMAIN dl' : \A p, q \in Sources(dl'[f]) :
         p # q => \A c \in dl'[f].src[p].inFlight \cap dl'[f].src[q].inFlight :
            \/ c \in Urgent(dl'[f], view'.playing = f)
            \/ f \in DOMAIN dl /\ {p, q} \subseteq Sources(dl[f])
                 /\ c \in dl[f].src[p].inFlight \cap dl[f].src[q].inFlight
<1>1. IInv /\ [Next]_vars => [A]_vars
  <2>1. SUFFICES ASSUME IInv, [Next]_vars, NEW f \in DOMAIN dl', NEW p \in Sources(dl'[f]), NEW q \in Sources(dl'[f]),
                        p # q, NEW c \in dl'[f].src[p].inFlight \cap dl'[f].src[q].inFlight,
                        c \notin Urgent(dl'[f], view'.playing = f)
                 PROVE  /\ f \in DOMAIN dl /\ {p, q} \subseteq Sources(dl[f])
                        /\ c \in dl[f].src[p].inFlight \cap dl[f].src[q].inFlight
    BY Zenon
  <2>2. Once(dl', dl, view'.playing)
    BY <2>1, NextAssigns, Zenon DEF AssignedStep, Assigned
  <2>3. c \in Flight(dl', f, p) /\ c \in Flight(dl', f, q)
    BY <2>1, Zenon DEF Flight, Asked, Sources
  <2>4. c \in Flight(dl, f, p) /\ c \in Flight(dl, f, q)
    BY <2>1, <2>2, <2>3, Zenon DEF Once
  <2> QED
    BY <2>4, Zenon DEF Flight, Asked, Sources
<1> QED
  BY <1>1, Invariance, PTL DEF Spec, BulkOnce

(* No step has more bulk chunks of all files together on their way from a   *)
(* peer than its pipeline takes, unless as many were on their way before,   *)
(* for any number of files, peers and chunks (plan_requests' shared load).  *)
THEOREM BudgetIsShared == Spec => SharedBudget
<1> DEFINE A == \A p \in Peers :
         MapThenSumSet(LAMBDA f : Cardinality(BulkHeld(dl'[f], p, view'.playing = f)),
                       DOMAIN dl')
            <= Max({PipelineDepth, Load(dl, p)})
<1>1. IInv /\ IInv' /\ [Next]_vars => [A]_vars
  <2> SUFFICES ASSUME IInv, IInv', [Next]_vars, NEW p \in Peers
               PROVE  BulkSum(dl', p, view'.playing) <= Max({PipelineDepth, Load(dl, p)})
    BY Zenon DEF BulkSum
  <2>1. AllSound(dl) /\ AllSound(dl')
    BY Zenon DEF IInv, FileInv, DownloadsOK, AllSound
  <2>2. Cardinality(BulkBy(dl', p, view'.playing)) <= Max({PipelineDepth, Cardinality(HeldBy(dl, p))})
    BY NextAssigns, Zenon DEF AssignedStep, Assigned, Budget
  <2> QED
    BY <2>1, <2>2, BulkCounts, HeldCounts, Zenon
<1> QED
  BY <1>1, Invariance, PTL DEF Spec, SharedBudget
=============================================================================
