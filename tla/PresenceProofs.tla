---------------------------- MODULE PresenceProofs ----------------------------
(***************************************************************************)
(* Proofs about Presence, for any users, playlist, timers, connections and *)
(* number of busy tasks: type correctness, that windows, presence stages   *)
(* and pending sections stay in step with each other, and that nobody who  *)
(* timed out keeps seek authority.                                         *)
(***************************************************************************)
EXTENDS Presence, SequenceTheorems, TLAPS

\* Time, and a second attempt, for the SMT solver on a slow machine.
USE SMTT(60), Z3T(60)

-----------------------------------------------------------------------------
(* Programs. *)

(* The steps of a program built of two parts are those of the parts. *)
LEMMA JoinedSteps ==
    ASSUME NEW S, NEW p \in Seq(S), NEW q \in Seq(S)
    PROVE  p \o q \in Seq(S) /\ Range(p \o q) = Range(p) \cup Range(q)
BY ConcatProperties, RangeConcatenation

(* The steps of short programs. *)
LEMMA ShortPrograms ==
    ASSUME NEW S
    PROVE  /\ <<>> \in Seq(S) /\ Range(<<>>) = {}
           /\ \A a \in S : <<a>> \in Seq(S) /\ Range(<<a>>) = {a}
           /\ \A a, b \in S : <<a, b>> \in Seq(S) /\ Range(<<a, b>>) = {a, b}
BY DEF Range

(* Running the head of a program leaves the tail's steps. *)
LEMMA HeadAndTail ==
    ASSUME NEW S, NEW q \in Seq(S), q # <<>>
    PROVE  /\ Head(q) \in S /\ Tail(q) \in Seq(S)
           /\ Range(q) = {Head(q)} \cup Range(Tail(q))
<1> DEFINE h == <<Head(q)>>
<1>1. Head(q) \in S /\ Tail(q) \in Seq(S) /\ q = h \o Tail(q)
  BY HeadTailProperties
<1>2. h \in Seq(S) /\ Range(h) = {Head(q)}
  BY <1>1, ShortPrograms
<1> HIDE DEF h
<1>t. h \in Seq(S) /\ Tail(q) \in Seq(S)
  BY <1>1, <1>2
<1>3. Range(h \o Tail(q)) = Range(h) \cup Range(Tail(q))
  BY <1>t, JoinedSteps, ZenonT(60)
<1> QED
  BY <1>1, <1>2, <1>3, Zenon

(* A task belongs to a user, or is the sweeper. *)
LEMMA TaskUser ==
    /\ \A t \in Tasks : t[1] \in Users \cup {NoUser}
    /\ \A u \in Users, n \in Conns : <<u, n>> \in Tasks
    /\ Sweeper \in Tasks
BY DEF Tasks, Sweeper

(* Authority values are of their type. *)
LEMMA AuthorityType ==
    /\ ByServer \in Authority
    /\ \A u \in Viewers : ByUser(u) \in Authority
    /\ \A f \in Files : ByLaggard(f) \in Authority
    /\ \A u \in Viewers, f \in Files : ByAnchor(u, f) \in Authority
BY DEF Authority

(* The peer list is one. *)
LEMMA PeerInfosType ==
    ASSUME peers \in [Users -> Entry]
    PROVE  PeerInfos \in PeerLists
<1>1. \A u \in Users : (peers[u].grace # NoWindow) \in BOOLEAN
  OBVIOUS
<1>2. \A u \in Users : peers[u].presence \in Stages
  BY DEF Entry
<1>3. \A u \in Users : [presence |-> peers[u].presence, window |-> peers[u].grace # NoWindow] \in Info
  BY <1>1, <1>2 DEF Info
<1> QED
  BY <1>3 DEF PeerInfos, PeerLists

(* Steps are of their type. *)
LEMMA StepType ==
    ASSUME NEW s \in Sections, NEW u \in Users \cup {NoUser}, NEW f \in Files \cup {NoFile},
           NEW a \in Authority, NEW gone \in SUBSET Users, NEW infos \in PeerLists
    PROVE  /\ DoWith(s, u, f, a, infos, gone) \in Step
           /\ DoWith(s, u, f, a, infos, gone).do = s
           /\ DoWith(s, u, f, a, infos, gone).user = u
           /\ DoWith(s, u, f, a, infos, gone).file = f
           /\ DoWith(s, u, f, a, infos, gone).to = a
           /\ DoWith(s, u, f, a, infos, gone).infos = infos
           /\ DoWith(s, u, f, a, infos, gone).gone = gone
BY DEF DoWith, Step

-----------------------------------------------------------------------------
(* The steps the sections build, and the fields their readers look at. *)
LEMMA StepForms ==
    ASSUME peers \in [Users -> Entry]
    PROVE  /\ \A s \in Sections : Do(s) \in Step /\ Do(s).do = s
           /\ \A s \in Sections, u \in Users \cup {NoUser} :
                DoFor(s, u) \in Step /\ DoFor(s, u).do = s /\ DoFor(s, u).user = u
           /\ \A s \in Sections, f \in Files \cup {NoFile} :
                DoOn(s, f) \in Step /\ DoOn(s, f).do = s /\ DoOn(s, f).file = f
           /\ \A a \in Authority :
                SetAuthority(a) \in Step /\ SetAuthority(a).do = "authority" /\ SetAuthority(a).to = a
           /\ \A gone \in SUBSET Users :
                RescueAll(gone) \in Step /\ RescueAll(gone).do = "rescues" /\ RescueAll(gone).gone = gone
<1>1. NoPeers \in PeerLists
  <2>1. FALSE \in BOOLEAN /\ "none" \in Stages
    BY DEF Stages
  <2>2. [presence |-> "none", window |-> FALSE] \in Info
    BY <2>1 DEF Info
  <2> QED
    BY <2>2 DEF NoPeers, PeerLists
<1>2. PeerInfos \in PeerLists /\ ByServer \in Authority
  BY PeerInfosType, AuthorityType
<1>3. "authority" \in Sections /\ "rescues" \in Sections
  BY DEF Sections
<1>4. \A s \in Sections : Do(s) \in Step /\ Do(s).do = s
  BY <1>1, <1>2, StepType DEF Do
<1>5. \A s \in Sections, u \in Users \cup {NoUser} :
         DoFor(s, u) \in Step /\ DoFor(s, u).do = s /\ DoFor(s, u).user = u
  BY <1>1, <1>2, StepType DEF DoFor
<1>6. \A s \in Sections, f \in Files \cup {NoFile} :
         DoOn(s, f) \in Step /\ DoOn(s, f).do = s /\ DoOn(s, f).file = f
  BY <1>1, <1>2, StepType DEF DoOn
<1>7. \A a \in Authority :
         SetAuthority(a) \in Step /\ SetAuthority(a).do = "authority" /\ SetAuthority(a).to = a
  BY <1>1, <1>3, StepType DEF SetAuthority
<1>8. \A gone \in SUBSET Users :
         RescueAll(gone) \in Step /\ RescueAll(gone).do = "rescues" /\ RescueAll(gone).gone = gone
  BY <1>1, <1>2, <1>3, StepType DEF RescueAll
<1> QED
  BY <1>4, <1>5, <1>6, <1>7, <1>8

(* A section that reads the registry for a rejoin pins what it saw. *)
LEMMA SeeingForm ==
    ASSUME peers \in [Users -> Entry], NEW s \in Sections,
           NEW u \in Users \cup {NoUser}, NEW f \in Files \cup {NoFile}
    PROVE  /\ DoSeeing(s, u, f) \in Step /\ DoSeeing(s, u, f).do = s
           /\ DoSeeing(s, u, f).infos = PeerInfos /\ DoSeeing(s, u, f).file = f
BY PeerInfosType, AuthorityType, StepType DEF DoSeeing

(* A task that runs its head section goes on with `p' and then its tail. *)
LEMMA ContinueJob ==
    ASSUME job \in [Tasks -> Seq(Step)], NEW t \in Tasks, job[t] # <<>>,
           NEW p \in Seq(Step), Continue(t, p)
    PROVE  /\ job' \in [Tasks -> Seq(Step)]
           /\ Head(job[t]) \in Step
           /\ Range(job[t]) = {Head(job[t])} \cup Range(Tail(job[t]))
           /\ Range(job'[t]) = Range(p) \cup Range(Tail(job[t]))
           /\ \A s \in Tasks \ {t} : job'[s] = job[s]
<1>1. job[t] \in Seq(Step)
  OBVIOUS
<1>2. /\ Head(job[t]) \in Step /\ Tail(job[t]) \in Seq(Step)
      /\ Range(job[t]) = {Head(job[t])} \cup Range(Tail(job[t]))
  BY <1>1, HeadAndTail
<1>3. /\ p \o Tail(job[t]) \in Seq(Step)
      /\ Range(p \o Tail(job[t])) = Range(p) \cup Range(Tail(job[t]))
  <2>1. Tail(job[t]) \in Seq(Step)
    BY <1>2
  <2> QED
    BY <2>1, JoinedSteps, ZenonT(60)
<1>4. job' = [job EXCEPT ![t] = p \o Tail(job[t])]
  BY DEF Continue
<1>5. job'[t] = p \o Tail(job[t])
  BY <1>4
<1> QED
  BY <1>2, <1>3, <1>4, <1>5

-----------------------------------------------------------------------------
(* What a section leaves to do. *)

(* Windows are judged and opened by a viewer's own task; they are opened, a
   laggard followed and an end reported on a file. *)
StepOK(t, s) ==
    /\ s.do \in {"judge", "open"} => t[1] \in Viewers
    /\ s.do \in {"open", "follow", "eof"} => s.file # NoFile

(* Task t runs its head section and goes on with `p': every obligation of    *)
(* the section is either met or handed on, and anchors go to who was Present *)
(* in the list the section was given.                                        *)
Follows(t, p) ==
    LET h == Head(job[t])
        steps == Range(p)
        doing(D) == \E s \in steps : s.do \in D
    IN
    /\ job[t] # <<>> /\ p \in Seq(Step) /\ Continue(t, p)
    /\ \A s \in steps : StepOK(t, s)
    /\ h.do = "judge" => doing({"open", "pause"})
    /\ h.do = "open" => t[1] \notin unanswered' \/ doing({"pause"})
    /\ h.do = "expire" /\ (\E u \in Users : peers[u].grace = 0) => doing({"closing"})
    /\ h.do = "closing" => doing({"close"})
    /\ \A s \in steps : s.do = "pin" => s.infos = PeerInfos
    /\ \A s \in steps : s.do = "authority" /\ s.to.by \in {"User", "Anchor"} =>
          h.do = "pin" /\ h.infos[s.to.user].presence = "Present"
    /\ h.do = "rescues" => \A u \in h.gone : \E s \in steps :
          (s.do = "rescue" /\ s.user = u) \/ (s.do = "rescues" /\ u \in s.gone)
    /\ h.do = "rescue" /\ authority.by \in {"User", "Anchor"} /\ authority.user = h.user =>
          \E s \in steps : s.do = "authority" /\ s.to = ByServer

(* The pending steps of every task are as StepOK says. *)
StepsOK == \A t \in Tasks : \A s \in Range(job[t]) : StepOK(t, s)

(* force_pause and the end of a Lost teardown, as programs. *)
LEMMA ProgramForms ==
    ASSUME peers \in [Users -> Entry], NEW u \in Users \cup {NoUser}
    PROVE  /\ ForcePause \in Seq(Step) /\ Range(ForcePause) = {Do("pause"), Do("closing")}
           /\ Hooks \in Seq(Step) /\ Range(Hooks) = {Do("reconcile"), Do("rejoin")}
           /\ AfterDrop(u, TRUE) \in Seq(Step)
           /\ Range(AfterDrop(u, TRUE)) = {Do("list"), DoFor("rescue", u)}
           /\ AfterDrop(u, FALSE) \in Seq(Step)
           /\ Range(AfterDrop(u, FALSE)) =
                {Do("list"), Do("pause"), Do("closing"), DoFor("rescue", u)}
<1> DEFINE l == <<Do("list")>>
           r == <<DoFor("rescue", u)>>
           e == <<>>
<1>1. /\ Do("list") \in Step /\ Do("pause") \in Step /\ Do("closing") \in Step
      /\ Do("reconcile") \in Step /\ Do("rejoin") \in Step /\ DoFor("rescue", u) \in Step
  BY StepForms DEF Sections
<1>2. /\ ForcePause \in Seq(Step) /\ Range(ForcePause) = {Do("pause"), Do("closing")}
      /\ Hooks \in Seq(Step) /\ Range(Hooks) = {Do("reconcile"), Do("rejoin")}
  BY <1>1, ShortPrograms DEF ForcePause, Hooks
<1>3. /\ l \in Seq(Step) /\ Range(l) = {Do("list")}
      /\ r \in Seq(Step) /\ Range(r) = {DoFor("rescue", u)}
      /\ e \in Seq(Step) /\ Range(e) = {}
  BY <1>1, ShortPrograms
<1>4. AfterDrop(u, TRUE) = (l \o e) \o r /\ AfterDrop(u, FALSE) = (l \o ForcePause) \o r
  BY DEF AfterDrop
<1> HIDE DEF l, r, e
<1> DEFINE le == l \o e
           lp == l \o ForcePause
<1>5. /\ le \in Seq(Step) /\ Range(le) = {Do("list")}
      /\ lp \in Seq(Step) /\ Range(lp) = {Do("list"), Do("pause"), Do("closing")}
  BY <1>2, <1>3, JoinedSteps
<1>6. AfterDrop(u, TRUE) = le \o r /\ AfterDrop(u, FALSE) = lp \o r
  BY <1>4, Zenon
<1> HIDE DEF le, lp
<1>7. /\ le \o r \in Seq(Step) /\ Range(le \o r) = Range(le) \cup Range(r)
      /\ lp \o r \in Seq(Step) /\ Range(lp \o r) = Range(lp) \cup Range(r)
  BY <1>3, <1>5, JoinedSteps
<1> QED
  BY <1>2, <1>3, <1>5, <1>6, <1>7, Zenon

(* Sections that hand no obligation on, and what they may go on with. *)
Obliged == {"judge", "open", "expire", "closing", "rescues", "rescue"}
Plain(s) ==
    /\ s.do \notin {"judge", "open", "pin"}
    /\ s.do \in {"follow", "eof"} => s.file # NoFile
    /\ s.do = "authority" => s.to.by \notin {"User", "Anchor"}

(* A program without obligations may follow any section that hands none on. *)
LEMMA PlainFollows ==
    ASSUME NEW t \in Tasks, NEW p \in Seq(Step), job[t] # <<>>, Continue(t, p),
           Head(job[t]).do \notin Obliged, \A s \in Range(p) : Plain(s)
    PROVE  Follows(t, p)
BY DEF Follows, Obliged, Plain, StepOK

(* The sections without an obligation. *)
LEMMA PlainSections ==
    ASSUME TypeOK, StepsOK, NEW t \in Tasks,
           \/ RunSelect(t) \/ RunEof(t) \/ RunSave(t) \/ RunPause(t) \/ RunAuthority(t)
           \/ RunFollow(t) \/ RunStopped(t) \/ RunRejoin(t) \/ RunClose(t) \/ RunReconcile(t)
           \/ RunList(t) \/ RunSend(t) \/ RunDepart(t)
    PROVE  \E p : Follows(t, p)
<1> USE DEF Runs, Reads
<1> DEFINE none == <<>>
<1>0. none \in Seq(Step) /\ Range(none) = {}
  BY ShortPrograms
<1>1. /\ peers \in [Users -> Entry] /\ graceFile \in Files \cup {NoFile}
      /\ nowPlaying \in Files \cup {NoFile} /\ authority \in Authority
      /\ job \in [Tasks -> Seq(Step)]
  BY DEF TypeOK
<1>2. ASSUME NEW s \in Step, job[t] # <<>>, Continue(t, <<s>>),
             Head(job[t]).do \notin Obliged, Plain(s)
      PROVE  \E p : Follows(t, p)
  <2> DEFINE p == <<s>>
  <2>1. p \in Seq(Step) /\ Range(p) = {s} /\ Continue(t, p)
    BY <1>2, ShortPrograms
  <2> HIDE DEF p
  <2>2. Follows(t, p)
    BY <1>2, <2>1, PlainFollows
  <2> QED
    BY <2>2
<1>3. ASSUME job[t] # <<>>, Continue(t, none), Head(job[t]).do \notin Obliged
      PROVE  \E p : Follows(t, p)
  <2> HIDE DEF none
  <2> QED
    BY <1>0, <1>3, PlainFollows
<1>4. Head(job[t]) \in Step
  BY <1>1, HeadAndTail DEF RunSelect, RunEof, RunSave, RunPause, RunAuthority, RunFollow,
       RunStopped, RunRejoin, RunClose, RunReconcile, RunList, RunSend, RunDepart
<1>5. /\ SetAuthority(ByServer) \in Step /\ Plain(SetAuthority(ByServer))
      /\ \A f \in Files :
           SetAuthority(ByLaggard(f)) \in Step /\ Plain(SetAuthority(ByLaggard(f)))
  BY <1>1, StepForms, AuthorityType DEF Plain, ByServer, ByLaggard
<1>6. CASE RunSelect(t)
  BY <1>2, <1>5, <1>6 DEF RunSelect, Obliged
<1>7. CASE RunEof(t)
  <2>1. Do("reconcile") \in Step /\ Plain(Do("reconcile"))
    BY <1>1, StepForms DEF Plain, Sections
  <2> QED
    BY <1>2, <1>3, <1>7, <2>1 DEF RunEof, Obliged
<1>8. CASE RunSave(t) \/ RunPause(t) \/ RunAuthority(t) \/ RunSend(t)
  BY <1>3, <1>8 DEF RunSave, RunPause, RunAuthority, RunSend, Obliged
<1>9. CASE RunFollow(t)
  <2>1. Head(job[t]) \in Range(job[t])
    BY <1>1, <1>9, HeadAndTail DEF RunFollow
  <2>2. Head(job[t]).file # NoFile
    BY <1>9, <2>1 DEF RunFollow, StepsOK, StepOK
  <2>3. nowPlaying = Head(job[t]).file => Head(job[t]).file \in Files
    BY <1>1, <2>2
  <2> QED
    BY <1>2, <1>3, <1>5, <1>9, <2>3 DEF RunFollow, Obliged
<1>10. CASE RunStopped(t)
  <2>1. Head(job[t]).file \in Files \cup {NoFile}
    BY <1>4 DEF Step
  <2>2. \A f \in Files \cup {NoFile} : DoOn("close", f) \in Step /\ Plain(DoOn("close", f))
    BY <1>1, StepForms DEF Plain, Sections
  <2> QED
    BY <1>2, <1>3, <1>10, <2>1, <2>2 DEF RunStopped, Obliged
<1>11. CASE RunRejoin(t)
  <2>1. authority.file \in Files \cup {NoFile}
    BY <1>1 DEF Authority, ByServer, ByUser, ByLaggard, ByAnchor
  <2>2. DoOn("rejoinPeers", authority.file) \in Step /\ Plain(DoOn("rejoinPeers", authority.file))
    BY <1>1, <2>1, StepForms DEF Plain, Sections
  <2> QED
    BY <1>2, <1>3, <1>11, <2>2 DEF RunRejoin, Obliged
<1>12. CASE RunReconcile(t)
  <2>1. DoOn("stopped", graceFile) \in Step /\ Plain(DoOn("stopped", graceFile))
    BY <1>1, StepForms DEF Plain, Sections
  <2> QED
    BY <1>2, <1>3, <1>12, <2>1 DEF RunReconcile, Obliged
<1>13. CASE RunList(t)
  <2>1. /\ DoSeeing("send", NoUser, NoFile) \in Step
        /\ Plain(DoSeeing("send", NoUser, NoFile))
    <3>1. "send" \in Sections
      BY DEF Sections
    <3> QED
      BY <1>1, <3>1, SeeingForm, ZenonT(60) DEF Plain
  <2> QED
    BY <1>2, <1>13, <2>1 DEF RunList, Obliged
<1>14. CASE RunClose(t)
  <2> DEFINE f == Head(job[t]).file
             any == graceFile # NoFile \/ \E u \in Users : peers[u].grace # NoWindow
             follow == <<DoOn("follow", f)>>
             list == <<Do("list")>>
             p == IF any THEN (IF f # NoFile THEN follow ELSE none) \o list ELSE none
  <2>1. f \in Files \cup {NoFile}
    BY <1>4 DEF Step
  <2>2. /\ Do("list") \in Step /\ Plain(Do("list"))
        /\ DoOn("follow", f) \in Step /\ (f # NoFile => Plain(DoOn("follow", f)))
    BY <1>1, <2>1, StepForms DEF Plain, Sections
  <2>3. /\ follow \in Seq(Step) /\ Range(follow) = {DoOn("follow", f)}
        /\ list \in Seq(Step) /\ Range(list) = {Do("list")}
    BY <2>2, ShortPrograms
  <2>4. job[t] # <<>> /\ Head(job[t]).do = "close" /\ Continue(t, p)
    BY <1>14 DEF RunClose
  <2> HIDE DEF f, any, follow, list, none
  <2>5. /\ follow \o list \in Seq(Step) /\ Range(follow \o list) = {DoOn("follow", f), Do("list")}
        /\ none \o list \in Seq(Step) /\ Range(none \o list) = {Do("list")}
    BY <1>0, <2>3, JoinedSteps
  <2>6. p \in Seq(Step) /\ \A s \in Range(p) : Plain(s)
    BY <1>0, <2>2, <2>5
  <2> HIDE DEF p
  <2>7. Follows(t, p)
    BY <2>4, <2>6, PlainFollows DEF Obliged
  <2> QED
    BY <2>7
<1>15. CASE RunDepart(t)
  <2> DEFINE promoted == {u \in Users : peers[u].presence = "Lost" /\ peers[u].lost >= DepartAfter}
             go == <<Do("list"), RescueAll(promoted \cap Viewers)>>
  <2>1. /\ Do("list") \in Step /\ Plain(Do("list"))
        /\ RescueAll(promoted \cap Viewers) \in Step /\ Plain(RescueAll(promoted \cap Viewers))
    BY <1>1, StepForms DEF Plain, Sections
  <2>2. go \in Seq(Step) /\ \A s \in Range(go) : Plain(s)
    <3>1. Range(go) = {Do("list"), RescueAll(promoted \cap Viewers)} /\ go \in Seq(Step)
      <4>1. Do("list") \in Step /\ RescueAll(promoted \cap Viewers) \in Step
        BY <2>1
      <4>2. \A a, b \in Step : Range(<<a, b>>) = {a, b} /\ <<a, b>> \in Seq(Step)
        BY ShortPrograms
      <4> QED
        BY <4>1, <4>2, ZenonT(60)
    <3> QED
      BY <2>1, <3>1
  <2>3. /\ job[t] # <<>> /\ Head(job[t]).do = "depart"
        /\ Continue(t, none) \/ Continue(t, go)
    BY <1>15 DEF RunDepart
  <2> HIDE DEF go
  <2>4. Continue(t, go) => Follows(t, go)
    BY <2>2, <2>3, PlainFollows DEF Obliged
  <2> QED
    BY <1>3, <2>3, <2>4 DEF Obliged
<1> QED
  BY <1>6, <1>7, <1>8, <1>9, <1>10, <1>11, <1>12, <1>13, <1>14, <1>15

(* The sections with an obligation. *)
LEMMA ObligedSections ==
    ASSUME TypeOK, StepsOK, NEW t \in Tasks,
           \/ RunRescue(t) \/ RunPin(t) \/ RunJudge(t) \/ RunOpen(t) \/ RunClosing(t)
           \/ RunRejoinPeers(t) \/ RunRescues(t) \/ RunExpire(t)
    PROVE  \E p : Follows(t, p)
<1> USE DEF Runs, Reads
<1> DEFINE none == <<>>
           h == Head(job[t])
<1>0. none \in Seq(Step) /\ Range(none) = {}
  BY ShortPrograms
<1>1. /\ peers \in [Users -> Entry] /\ graceFile \in Files \cup {NoFile}
      /\ nowPlaying \in Files \cup {NoFile} /\ authority \in Authority
      /\ job \in [Tasks -> Seq(Step)]
  BY DEF TypeOK
<1>2. h \in Step /\ h \in Range(job[t]) /\ job[t] # <<>>
  BY <1>1, HeadAndTail, ZenonT(60) DEF RunRescue, RunPin, RunJudge, RunOpen, RunClosing, RunRejoinPeers,
       RunRescues, RunExpire
<1>3. StepOK(t, h)
  BY <1>2 DEF StepsOK
<1>4. t[1] \in Users \cup {NoUser}
  BY TaskUser
<1>5. CASE RunRescue(t)
  <2> DEFINE p == <<SetAuthority(ByServer)>>
  <2>1. /\ SetAuthority(ByServer) \in Step /\ SetAuthority(ByServer).do = "authority"
        /\ SetAuthority(ByServer).to = ByServer /\ ByServer.by = "Server"
    BY <1>1, StepForms, AuthorityType DEF ByServer
  <2>2. p \in Seq(Step) /\ Range(p) = {SetAuthority(ByServer)}
    BY <2>1, ShortPrograms, ZenonT(60)
  <2>3. /\ h.do = "rescue"
        /\ \/ authority.by \in {"User", "Anchor"} /\ authority.user = h.user /\ Continue(t, p)
           \/ ~(authority.by \in {"User", "Anchor"} /\ authority.user = h.user) /\ Continue(t, none)
    BY <1>5 DEF RunRescue
  <2> HIDE DEF p, h, none
  <2>4. Continue(t, p) => Follows(t, p)
    BY <1>2, <2>1, <2>2, <2>3, ZenonT(60) DEF Follows, StepOK, h
  <2>5. ~(authority.by \in {"User", "Anchor"} /\ authority.user = h.user) /\ Continue(t, none)
            => Follows(t, none)
    BY <1>0, <1>2, <2>3, ZenonT(60) DEF Follows, StepOK, h
  <2> QED
    BY <2>3, <2>4, <2>5
<1>6. CASE RunPin(t)
  <2>1. h.do = "pin"
    BY <1>6, Zenon DEF RunPin
  <2>2. CASE Continue(t, none)
    <3> HIDE DEF h, none
    <3>1. Follows(t, none)
      BY <1>0, <1>2, <2>1, <2>2 DEF Follows, StepOK, h
    <3> QED
      BY <3>1
  <2>3. ASSUME NEW a \in Authority, Continue(t, <<SetAuthority(a)>>),
               a.by \in {"User", "Anchor"} => h.infos[a.user].presence = "Present"
        PROVE  \E p : Follows(t, p)
    <3> DEFINE p == <<SetAuthority(a)>>
    <3>1. /\ SetAuthority(a) \in Step /\ SetAuthority(a).do = "authority"
          /\ SetAuthority(a).to = a
      BY <1>1, StepForms
    <3>2. p \in Seq(Step) /\ Range(p) = {SetAuthority(a)} /\ Continue(t, p)
      BY <2>3, <3>1, ShortPrograms, Zenon
    <3> HIDE DEF p, h
    <3>3. Follows(t, p)
      BY <1>2, <2>1, <2>3, <3>1, <3>2, Zenon DEF Follows, StepOK, h
    <3> QED
      BY <3>3
  <2>4. CASE Continue(t, <<SetAuthority(ByServer)>>)
    BY <2>3, <2>4, AuthorityType, Zenon DEF ByServer
  <2>5. ASSUME NEW u \in Loaded(h.infos, h.file), nowPlaying = h.file, PlaybackActive(h.infos),
               Continue(t, <<SetAuthority(ByAnchor(u, h.file))>>)
        PROVE  \E p : Follows(t, p)
    <3>1. u \in Viewers /\ h.infos[u].presence = "Present"
      BY <2>5, Zenon DEF Loaded, Interactive
    <3>2. h.file \in Files
      BY <1>1, <2>5, ZenonT(60) DEF PlaybackActive
    <3>3. ByAnchor(u, h.file) \in Authority
      BY <3>1, <3>2, AuthorityType
    <3>4. ByAnchor(u, h.file).user = u
      BY DEF ByAnchor
    <3> QED
      BY <2>3, <2>5, <3>1, <3>3, <3>4, Zenon
  <2> QED
    BY <1>6, <2>2, <2>4, <2>5, Zenon DEF RunPin
<1>7. CASE RunJudge(t)
  <2> DEFINE p == <<DoOn("open", nowPlaying)>>
             q == AfterDrop(t[1], FALSE)
  <2>1. /\ h.do = "judge" /\ t[1] \in Viewers
        /\ (PlaybackActive(h.infos) /\ Continue(t, p)) \/ Continue(t, q)
    BY <1>3, <1>7, ZenonT(60) DEF RunJudge, StepOK
  <2>2. /\ DoOn("open", nowPlaying) \in Step /\ DoOn("open", nowPlaying).do = "open"
        /\ DoOn("open", nowPlaying).file = nowPlaying
        /\ Do("list").do = "list" /\ Do("pause").do = "pause" /\ Do("closing").do = "closing"
        /\ DoFor("rescue", t[1]).do = "rescue"
    BY <1>1, <1>4, StepForms DEF Sections
  <2>3. p \in Seq(Step) /\ Range(p) = {DoOn("open", nowPlaying)}
    BY <2>2, ShortPrograms
  <2>4. /\ q \in Seq(Step)
        /\ Range(q) = {Do("list"), Do("pause"), Do("closing"), DoFor("rescue", t[1])}
    BY <1>1, <1>4, ProgramForms, ZenonT(60)
  <2> HIDE DEF p, q, h
  <2>5. PlaybackActive(h.infos) /\ Continue(t, p) => Follows(t, p)
    BY <1>2, <2>1, <2>2, <2>3 DEF Follows, StepOK, h, PlaybackActive
  <2>6. Continue(t, q) => Follows(t, q)
    BY <1>2, <2>1, <2>2, <2>4, ZenonT(60) DEF Follows, StepOK, h
  <2> QED
    BY <2>1, <2>5, <2>6
<1>8. CASE RunOpen(t)
  <2> DEFINE p == AfterDrop(t[1], TRUE)
             q == AfterDrop(t[1], FALSE)
             ours == peers[t[1]].conn = t[2] /\ peers[t[1]].presence = "Lost"
  <2>1. /\ h.do = "open"
        /\ (ours /\ Continue(t, p) /\ unanswered' = unanswered \ {t[1]}) \/ (~ours /\ Continue(t, q))
    BY <1>8, Zenon DEF RunOpen
  <2>2. /\ Do("list").do = "list" /\ Do("pause").do = "pause" /\ Do("closing").do = "closing"
        /\ DoFor("rescue", t[1]).do = "rescue"
    BY DEF Do, DoFor, DoWith
  <2>3. /\ p \in Seq(Step) /\ Range(p) = {Do("list"), DoFor("rescue", t[1])}
        /\ q \in Seq(Step)
        /\ Range(q) = {Do("list"), Do("pause"), Do("closing"), DoFor("rescue", t[1])}
    BY <1>1, <1>4, ProgramForms, ZenonT(60)
  <2> HIDE DEF p, q, h, ours
  <2>4. Continue(t, p) /\ unanswered' = unanswered \ {t[1]} => Follows(t, p)
    BY <1>2, <2>1, <2>2, <2>3, ZenonT(60) DEF Follows, StepOK, h
  <2>5. Continue(t, q) => Follows(t, q)
    BY <1>2, <2>1, <2>2, <2>3, ZenonT(60) DEF Follows, StepOK, h
  <2> QED
    BY <2>1, <2>4, <2>5
<1>9. CASE RunClosing(t)
  <2> DEFINE p == <<DoOn("close", graceFile)>>
  <2>1. DoOn("close", graceFile) \in Step /\ DoOn("close", graceFile).do = "close"
    BY <1>1, StepForms DEF Sections
  <2>2. p \in Seq(Step) /\ Range(p) = {DoOn("close", graceFile)} /\ Continue(t, p)
        /\ h.do = "closing"
    BY <1>9, <2>1, ShortPrograms, ZenonT(60) DEF RunClosing
  <2> HIDE DEF p, h
  <2>3. Follows(t, p)
    BY <1>2, <2>1, <2>2 DEF Follows, StepOK, h
  <2> QED
    BY <2>3
<1>10. CASE RunRejoinPeers(t)
  <2> DEFINE s == DoSeeing("pin", NoUser, h.file)
             p == <<s>>
  <2>1. s \in Step /\ s.do = "pin" /\ s.infos = PeerInfos
    <3>1. h.file \in Files \cup {NoFile}
      BY <1>2 DEF Step
    <3>2. "pin" \in Sections
      BY DEF Sections
    <3>3. ASSUME NEW f \in Files \cup {NoFile}
          PROVE  /\ DoSeeing("pin", NoUser, f) \in Step
                 /\ DoSeeing("pin", NoUser, f).do = "pin"
                 /\ DoSeeing("pin", NoUser, f).infos = PeerInfos
      <4>1. NoUser \in Users \cup {NoUser} /\ peers \in [Users -> Entry]
        BY <1>1
      <4> QED
        BY <3>2, <3>3, <4>1, SeeingForm, ZenonT(60)
    <3> QED
      BY <3>1, <3>3
  <2>2. p \in Seq(Step) /\ Range(p) = {s} /\ Continue(t, p) /\ h.do = "rejoinPeers"
    BY <1>10, <2>1, ShortPrograms, ZenonT(60) DEF RunRejoinPeers
  <2> HIDE DEF p, h, s
  <2>3. Follows(t, p)
    BY <1>2, <2>1, <2>2, Zenon DEF Follows, StepOK, h
  <2> QED
    BY <2>3
<1>11. CASE RunRescues(t)
  <2>1. h.do = "rescues" /\ h.gone \in SUBSET Users
    BY <1>2, <1>11, ZenonT(60) DEF RunRescues, Step
  <2>2. ASSUME h.gone = {}, Continue(t, none)
        PROVE  \E p : Follows(t, p)
    <3> HIDE DEF h, none
    <3>1. Follows(t, none)
      BY <1>0, <1>2, <2>1, <2>2, ZenonT(60) DEF Follows, StepOK, h
    <3> QED
      BY <3>1
  <2>3. ASSUME NEW u \in h.gone, Continue(t, <<DoFor("rescue", u), RescueAll(h.gone \ {u})>>)
        PROVE  \E p : Follows(t, p)
    <3> DEFINE a == DoFor("rescue", u)
               b == RescueAll(h.gone \ {u})
               p == <<a, b>>
    <3>1. /\ a \in Step /\ a.do = "rescue" /\ a.user = u
          /\ b \in Step /\ b.do = "rescues" /\ b.gone = h.gone \ {u}
      <4>1. u \in Users /\ h.gone \ {u} \in SUBSET Users
        BY <2>1
      <4> QED
        BY <1>1, <4>1, StepForms DEF Sections
    <3>2. Continue(t, p)
      BY <2>3
    <3> HIDE DEF h, a, b
    <3>3. p \in Seq(Step) /\ Range(p) = {a, b}
      BY <3>1, ShortPrograms
    <3> HIDE DEF p
    <3>4. Follows(t, p)
      BY <1>2, <2>1, <3>1, <3>2, <3>3, ZenonT(60) DEF Follows, StepOK, h
    <3> QED
      BY <3>4
  <2> QED
    BY <1>11, <2>2, <2>3, ZenonT(60) DEF RunRescues
<1>12. CASE RunExpire(t)
  <2> DEFINE p == ForcePause
             over == \E u \in Users : peers[u].grace = 0
  <2>1. h.do = "expire" /\ ((over /\ Continue(t, p)) \/ (~over /\ Continue(t, none)))
    BY <1>12 DEF RunExpire
  <2>2. Do("pause").do = "pause" /\ Do("closing").do = "closing"
    BY <1>1, StepForms DEF Sections
  <2>3. p \in Seq(Step) /\ Range(p) = {Do("pause"), Do("closing")}
    BY <1>1, <1>4, ProgramForms, Zenon
  <2> HIDE DEF p, h, none
  <2>4. Continue(t, p) => Follows(t, p)
    BY <1>2, <2>1, <2>2, <2>3, ZenonT(60) DEF Follows, StepOK, h
  <2>5. ~over /\ Continue(t, none) => Follows(t, none)
    BY <1>0, <1>2, <2>1 DEF Follows, StepOK, h
  <2> QED
    BY <2>1, <2>4, <2>5
<1> QED
  BY <1>5, <1>6, <1>7, <1>8, <1>9, <1>10, <1>11, <1>12

(* So whatever section a task runs, its obligations are met or handed on. *)
LEMMA SectionFollows ==
    ASSUME TypeOK, StepsOK, NEW t \in Tasks, Section(t)
    PROVE  \E p : Follows(t, p)
BY PlainSections, ObligedSections DEF Section

-----------------------------------------------------------------------------
(* What the environment makes a task start with. *)

(* Connections that are still to come have no task and are not served. *)
Fresh ==
    \A u \in Users, n \in Conns :
        n > peers[u].conn => job[<<u, n>>] = <<>> /\ n \notin serving[u]

(* Idle task t takes up program `p', which answers for whoever just left. *)
Starts(t, p) ==
    /\ job[t] = <<>> /\ p \in Seq(Step) /\ job' = [job EXCEPT ![t] = p]
    /\ \A s \in Range(p) : StepOK(t, s) /\ s.do \notin {"pin", "authority"}
    /\ \A v \in unanswered' \ unanswered :
          t[1] = v /\ \E s \in Range(p) : s.do \in {"judge", "pause"}

(* The last viewer's save, as a program. *)
LEMMA SaveFirstForm ==
    ASSUME peers \in [Users -> Entry], NEW u \in Users
    PROVE  SaveFirst(u) \in Seq(Step) /\ \A s \in Range(SaveFirst(u)) : s.do = "save"
<1> DEFINE none == <<>>
           save == <<DoSeeing("save", NoUser, NoFile)>>
<1>1. none \in Seq(Step) /\ Range(none) = {}
  BY ShortPrograms
<1>2. DoSeeing("save", NoUser, NoFile) \in Step /\ DoSeeing("save", NoUser, NoFile).do = "save"
  <2>1. "save" \in Sections
    BY DEF Sections
  <2> QED
    BY <2>1, SeeingForm
<1>3. save \in Seq(Step) /\ Range(save) = {DoSeeing("save", NoUser, NoFile)}
  BY <1>2, ShortPrograms
<1>4. SaveFirst(u) = save \/ SaveFirst(u) = none
  BY DEF SaveFirst
<1> HIDE DEF none, save
<1> QED
  BY <1>1, <1>2, <1>3, <1>4

(* A message from a served connection starts its task on a program that pins *)
(* nothing yet and owes nothing.                                             *)
LEMMA MessageStarts ==
    ASSUME TypeOK, NEW u \in Users, NEW n \in Conns, Message(u, n)
    PROVE  \E p : Starts(<<u, n>>, p)
<1>1. peers \in [Users -> Entry] /\ loaded \in [Users -> Files \cup {NoFile}]
  BY Zenon DEF TypeOK
<1>2. Do("reconcile").do = "reconcile" /\ Do("rejoin").do = "rejoin"
  BY <1>1, StepForms, ZenonT(60) DEF Sections
<1>3. Hooks \in Seq(Step) /\ Range(Hooks) = {Do("reconcile"), Do("rejoin")}
  BY <1>1, ProgramForms, Zenon
<1>4. ASSUME Takes(u, n, Hooks), unanswered' \subseteq unanswered
      PROVE  Starts(<<u, n>>, Hooks)
  BY <1>2, <1>3, <1>4 DEF Takes, Starts, StepOK
<1>5. CASE \E i \in {"Playing", "Paused"} : Press(u, n, i)
  BY <1>4, <1>5 DEF Press
<1>6. CASE \E f \in Selectable : Select(u, n, f)
  <2>1. PICK f \in Selectable : Select(u, n, f)
    BY <1>6
  <2> DEFINE s == DoSeeing("select", NoUser, f)
             p == <<s>>
  <2>2. s \in Step /\ s.do = "select"
    <3>1. "select" \in Sections /\ f \in Files \cup {NoFile}
      BY FilesAssumption DEF Sections
    <3> QED
      BY <1>1, <3>1, SeeingForm, ZenonT(60)
  <2>3. p \in Seq(Step) /\ Range(p) = {s}
    BY <2>2, ShortPrograms
  <2>4. Takes(u, n, p \o Hooks) /\ unanswered' = unanswered
    BY <2>1 DEF Select
  <2> HIDE DEF s, p
  <2>5. p \o Hooks \in Seq(Step) /\ Range(p \o Hooks) = {s, Do("reconcile"), Do("rejoin")}
    BY <1>3, <2>3, JoinedSteps
  <2>6. Starts(<<u, n>>, p \o Hooks)
    BY <1>2, <2>2, <2>4, <2>5 DEF Takes, Starts, StepOK
  <2> QED
    BY <2>6
<1>7. CASE Seek(u, n)
  BY <1>4, <1>7 DEF Seek
<1>8. CASE \E v \in Users, h \in {"none", "Paused", "Away"} : Override(u, n, v, h)
  BY <1>4, <1>8 DEF Override
<1>9. CASE \E v \in Users : Acknowledge(u, n, v)
  BY <1>4, <1>9 DEF Acknowledge
<1>10. CASE \E a \in {"Ready", "Missing"} : Available(u, n, a)
  BY <1>4, <1>10 DEF Available
<1>11. CASE \E f \in {loaded[u], nowPlaying} \ {NoFile} : Report(u, n, f)
  BY <1>4, <1>11 DEF Report
<1>12. CASE EofReached(u, n, loaded[u])
  <2> DEFINE s == DoSeeing("eof", u, loaded[u])
             p == <<s>>
  <2>1. s \in Step /\ s.do = "eof" /\ s.file = loaded[u]
    <3>1. "eof" \in Sections /\ loaded[u] \in Files \cup {NoFile}
      BY <1>1 DEF Sections
    <3> QED
      BY <1>1, <3>1, SeeingForm
  <2>2. p \in Seq(Step) /\ Range(p) = {s}
    BY <2>1, ShortPrograms
  <2>3. Takes(u, n, p) /\ unanswered' = unanswered /\ loaded[u] # NoFile
    BY <1>12 DEF EofReached
  <2> HIDE DEF s, p
  <2>4. Starts(<<u, n>>, p)
    BY <2>1, <2>2, <2>3 DEF Takes, Starts, StepOK
  <2> QED
    BY <2>4
<1> QED
  BY <1>5, <1>6, <1>7, <1>8, <1>9, <1>10, <1>11, <1>12 DEF Message

(* A lost or closed connection starts the teardown, which judges the drop or *)
(* pauses at once.                                                           *)
LEMMA ConnectionStarts ==
    ASSUME TypeOK, NEW u \in Users, NEW n \in Conns, Lost(u, n) \/ Goodbye(u, n)
    PROVE  \E p : Starts(<<u, n>>, p)
<1> DEFINE save == SaveFirst(u)
           none == <<>>
           list == <<Do("list")>>
           judge == <<DoSeeing("judge", NoUser, NoFile)>>
           rescue == <<DoFor("rescue", u)>>
<1>1. peers \in [Users -> Entry]
  BY DEF TypeOK
<1>2. save \in Seq(Step) /\ \A s \in Range(save) : s.do = "save"
  BY <1>1, SaveFirstForm, ZenonT(60)
<1>3. /\ Do("list") \in Step /\ Do("list").do = "list"
      /\ DoSeeing("judge", NoUser, NoFile) \in Step
      /\ DoSeeing("judge", NoUser, NoFile).do = "judge"
      /\ DoFor("rescue", u) \in Step /\ DoFor("rescue", u).do = "rescue"
      /\ Do("pause").do = "pause" /\ Do("closing").do = "closing"
  <2>1. {"list", "judge", "rescue", "pause", "closing"} \subseteq Sections
    BY DEF Sections
  <2>2. /\ DoSeeing("judge", NoUser, NoFile) \in Step
        /\ DoSeeing("judge", NoUser, NoFile).do = "judge"
    BY <1>1, <2>1, SeeingForm
  <2> QED
    BY <1>1, <2>1, <2>2, StepForms
<1>4. /\ none \in Seq(Step) /\ Range(none) = {}
      /\ list \in Seq(Step) /\ Range(list) = {Do("list")}
      /\ judge \in Seq(Step) /\ Range(judge) = {DoSeeing("judge", NoUser, NoFile)}
      /\ rescue \in Seq(Step) /\ Range(rescue) = {DoFor("rescue", u)}
  BY <1>3, ShortPrograms
<1>5. ForcePause \in Seq(Step) /\ Range(ForcePause) = {Do("pause"), Do("closing")}
  BY <1>1, ProgramForms, Zenon
<1>6. CASE Lost(u, n)
  <2> DEFINE rest == IF Interactive(u) THEN judge ELSE list
             p == save \o rest
  <2>1. /\ job[<<u, n>>] = <<>> /\ job' = [job EXCEPT ![<<u, n>>] = p]
        /\ unanswered' = IF Interactive(u) THEN unanswered \cup {u} ELSE unanswered
    BY <1>6 DEF Lost, Leave
  <2> HIDE DEF save, list, judge
  <2>2. rest \in Seq(Step)
    BY <1>4
  <2>3. p \in Seq(Step) /\ Range(p) = Range(save) \cup Range(rest)
    BY <1>2, <2>2, JoinedSteps
  <2> HIDE DEF p
  <2>4. Starts(<<u, n>>, p)
    BY <1>2, <1>3, <1>4, <2>1, <2>3 DEF Starts, StepOK, Interactive
  <2> QED
    BY <2>4
<1>7. CASE Goodbye(u, n)
  <2> DEFINE quit == ForcePause \o rescue
             first == save \o list
             rest == IF Interactive(u) THEN quit ELSE none
             p == first \o rest
  <2>1. /\ job[<<u, n>>] = <<>> /\ job' = [job EXCEPT ![<<u, n>>] = p]
        /\ unanswered' = IF Interactive(u) THEN unanswered \cup {u} ELSE unanswered
    BY <1>7 DEF Goodbye, Leave
  <2> HIDE DEF save, list, rescue, none
  <2>2. /\ quit \in Seq(Step) /\ Range(quit) = Range(ForcePause) \cup Range(rescue)
        /\ first \in Seq(Step) /\ Range(first) = Range(save) \cup Range(list)
    <3>1. quit \in Seq(Step) /\ Range(quit) = Range(ForcePause) \cup Range(rescue)
      BY <1>4, <1>5, JoinedSteps
    <3>2. first \in Seq(Step) /\ Range(first) = Range(save) \cup Range(list)
      BY <1>2, <1>4, JoinedSteps
    <3> QED
      BY <3>1, <3>2
  <2> HIDE DEF quit, first
  <2>3. rest \in Seq(Step)
    BY <1>4, <2>2
  <2> HIDE DEF rest
  <2>4. p \in Seq(Step) /\ Range(p) = Range(first) \cup Range(rest)
    BY <2>2, <2>3, JoinedSteps
  <2> HIDE DEF p
  <2>5. Starts(<<u, n>>, p)
    BY <1>2, <1>3, <1>4, <1>5, <2>1, <2>2, <2>4, ZenonT(60) DEF rest, Starts, StepOK, Interactive
  <2> QED
    BY <2>5
<1> QED
  BY <1>6, <1>7

(* A registration starts the greeting, whose user has just been marked       *)
(* Present.                                                                  *)
LEMMA RegisterStarts ==
    ASSUME TypeOK, Fresh, NEW u \in Users, Register(u)
    PROVE  /\ peers[u].conn + 1 \in Conns
           /\ \E p : Starts(<<u, peers[u].conn + 1>>, p)
<1> DEFINE n == peers[u].conn + 1
           p == <<Do("list")>>
<1>1. peers \in [Users -> Entry] /\ peers[u].conn \in Nat
  BY DEF TypeOK, Entry, Conns
<1>2. Do("list") \in Step /\ Do("list").do = "list"
  BY <1>1, StepForms, ZenonT(60) DEF Sections
<1>3. p \in Seq(Step) /\ Range(p) = {Do("list")}
  BY <1>2, ShortPrograms
<1>4. n \in Conns /\ job' = [job EXCEPT ![<<u, n>>] = p] /\ unanswered' = unanswered \ {u}
  BY DEF Register
<1>5. n > peers[u].conn
  BY <1>1
<1> HIDE DEF n, p
<1>6. job[<<u, n>>] = <<>>
  BY <1>4, <1>5 DEF Fresh
<1>7. Starts(<<u, n>>, p)
  BY <1>2, <1>3, <1>4, <1>6 DEF Starts, StepOK
<1> QED
  BY <1>4, <1>7 DEF n

(* A tick starts the sweeper, whose program holds the expiry of the windows. *)
LEMMA TickStarts ==
    ASSUME TypeOK, Tick
    PROVE  \E p : Starts(Sweeper, p) /\ \E s \in Range(p) : s.do = "expire"
<1> DEFINE p == <<Do("depart"), Do("expire")>>
<1>1. peers \in [Users -> Entry]
  BY DEF TypeOK
<1>2. /\ Do("depart") \in Step /\ Do("depart").do = "depart"
      /\ Do("expire") \in Step /\ Do("expire").do = "expire"
  BY <1>1, StepForms DEF Sections
<1>3. p \in Seq(Step) /\ Range(p) = {Do("depart"), Do("expire")}
  BY <1>2, ShortPrograms
<1>4. job[Sweeper] = <<>> /\ job' = [job EXCEPT ![Sweeper] = p] /\ unanswered' = unanswered
  BY TaskUser, Zenon DEF Tick, Idle
<1> HIDE DEF p
<1> QED
  BY <1>2, <1>3, <1>4, ZenonT(60) DEF Starts, StepOK

-----------------------------------------------------------------------------
(* Type correctness. *)

(* TypeOK without the programs of the tasks. *)
DataOK ==
    /\ peers \in [Users -> Entry] /\ graceFile \in Files \cup {NoFile}
    /\ known \subseteq Users
    /\ intent \in {"Playing", "Paused"} /\ nowPlaying \in Files \cup {NoFile}
    /\ authority \in Authority
    /\ hold \in [Users -> {"none", "Paused", "Away"}]
    /\ acked \subseteq Files \X Users /\ avail \in [Files \X Users -> Availabilities]
    /\ loaded \in [Users -> Files \cup {NoFile}]
    /\ saved \in [Files -> SUBSET Users] /\ watched \subseteq Files
    /\ serving \in [Users -> SUBSET Conns]
    /\ unanswered \subseteq Users
    /\ left \in Nat

(* The sections that only read. *)
ReadSection(t) ==
    \/ RunFollow(t) \/ RunRescue(t) \/ RunStopped(t) \/ RunRejoin(t) \/ RunPin(t)
    \/ RunJudge(t) \/ RunClosing(t) \/ RunReconcile(t) \/ RunRejoinPeers(t) \/ RunList(t)
    \/ RunSend(t) \/ RunRescues(t) \/ RunExpire(t)

(* A section that only reads changes no shared state. *)
LEMMA ReadSectionFrame ==
    ASSUME NEW t, ReadSection(t)
    PROVE  UNCHANGED <<regVars, playVars, userVars, fileVars, serving, unanswered, left>>
BY Zenon DEF ReadSection, RunFollow, RunRescue, RunStopped, RunRejoin, RunPin, RunJudge, RunClosing,
       RunReconcile, RunRejoinPeers, RunList, RunSend, RunRescues, RunExpire, Reads

(* What the saved-position write stores is of its type. *)
LEMMA SavedType ==
    ASSUME saved \in [Files -> SUBSET Users], NEW infos, NEW f
    PROVE  SavedPosition(infos, f) \in [Files -> SUBSET Users]
<1>1. Loaded(infos, f) \in SUBSET Users
  BY ZenonT(60) DEF Loaded
<1> QED
  BY <1>1, Zenon DEF SavedPosition

(* A section keeps every variable but the programs typed. *)
LEMMA SectionTypes ==
    ASSUME TypeOK, StepsOK, NEW t \in Tasks, Section(t)
    PROVE  DataOK'
<1> USE DEF DataOK, regVars, playVars, userVars, fileVars, Runs
<1>1. /\ DataOK /\ job \in [Tasks -> Seq(Step)]
  BY DEF TypeOK
<1>2. job[t] # <<>> /\ Head(job[t]) \in Step /\ Head(job[t]) \in Range(job[t])
  <2>1. job[t] # <<>>
    BY ZenonT(60) DEF Section, RunSelect, RunEof, RunSave, RunPause, RunAuthority, RunFollow, RunRescue,
           RunStopped, RunRejoin, RunPin, RunJudge, RunOpen, RunClose, RunClosing, RunReconcile,
           RunRejoinPeers, RunList, RunSend, RunDepart, RunRescues, RunExpire, Reads
  <2> QED
    BY <1>1, <2>1, HeadAndTail, ZenonT(60)
<1>3. Head(job[t]).file \in Files \cup {NoFile} /\ Head(job[t]).to \in Authority
  BY <1>2 DEF Step
<1>4. CASE ReadSection(t)
  BY <1>1, <1>4, ReadSectionFrame, Zenon
<1>5. CASE RunSelect(t)
  BY <1>1, <1>3, <1>5, SavedType, ZenonT(60) DEF RunSelect
<1>6. CASE RunEof(t)
  <2>1. Following(Head(job[t]).file) \in Files \cup {NoFile}
    <3>1. \A i \in 2..Len(Playlist) : Playlist[i] \in Files
      BY FilesAssumption, LenProperties, ElementOfSeq
    <3> QED
      BY <3>1, Zenon DEF Following
  <2>2. Head(job[t]).file \in Files
    BY <1>2, <1>3, <1>6, ZenonT(60) DEF RunEof, StepsOK, StepOK
  <2>3. /\ saved' \in [Files -> SUBSET Users]
        /\ nowPlaying' \in Files \cup {NoFile} /\ intent' \in {"Playing", "Paused"}
        /\ authority' \in Authority /\ watched' \subseteq Files /\ unanswered' \subseteq Users
    <3>1. SavedPosition(Head(job[t]).infos, Head(job[t]).file) \in [Files -> SUBSET Users]
      BY <1>1, SavedType
    <3>2. CASE UNCHANGED <<playVars, fileVars, unanswered>>
      BY <1>1, <3>2, ZenonT(60)
    <3>3. CASE /\ watched' = watched \cup {Head(job[t]).file}
               /\ saved' = SavedPosition(Head(job[t]).infos, Head(job[t]).file)
               /\ nowPlaying' = Following(Head(job[t]).file)
               /\ intent' = "Paused" /\ authority' = ByServer /\ unanswered' = {}
      BY <1>1, <2>1, <2>2, <3>1, <3>3, AuthorityType, ZenonT(60)
    <3> QED
      BY <1>6, <3>2, <3>3, ZenonT(60) DEF RunEof
  <2> QED
    BY <1>1, <1>6, <2>3, ZenonT(60) DEF RunEof
<1>7. CASE RunSave(t)
  BY <1>1, <1>7, SavedType DEF RunSave
<1>8. CASE RunPause(t)
  BY <1>1, <1>8, ZenonT(60) DEF RunPause
<1>9. CASE RunAuthority(t)
  BY <1>1, <1>3, <1>9 DEF RunAuthority
<1>10. CASE RunOpen(t)
  <2>1. t[1] \in Users /\ Head(job[t]).file \in Files
    BY <1>2, <1>3, <1>10 DEF RunOpen, StepsOK, StepOK, Viewers
  <2>2. [peers[t[1]] EXCEPT !.grace = Grace] \in Entry
    <3>1. \A e \in Entry : [e EXCEPT !.grace = Grace] \in Entry
      BY TimersAssumption DEF Entry
    <3>2. peers[t[1]] \in Entry
      BY <1>1, <2>1
    <3> QED
      BY <3>1, <3>2
  <2>3. peers' \in [Users -> Entry]
    BY <1>1, <1>10, <2>1, <2>2 DEF RunOpen
  <2> QED
    BY <1>1, <1>10, <2>1, <2>3 DEF RunOpen
<1>11. CASE RunClose(t)
  <2>1. \A u \in Users : [peers[u] EXCEPT !.grace = NoWindow] \in Entry
    BY <1>1, ZenonT(60) DEF Entry
  <2> QED
    BY <1>1, <1>11, <2>1 DEF RunClose
<1>12. CASE RunDepart(t)
  <2>1. \A u \in Users : [peers[u] EXCEPT !.presence = "Departed"] \in Entry
    <3>1. \A e \in Entry : [e EXCEPT !.presence = "Departed"] \in Entry
      BY DEF Entry, Stages
    <3>2. \A u \in Users : peers[u] \in Entry
      BY <1>1
    <3> QED
      BY <3>1, <3>2
  <2> QED
    BY <1>1, <1>12, <2>1 DEF RunDepart
<1> QED
  BY <1>4, <1>5, <1>6, <1>7, <1>8, <1>9, <1>10, <1>11, <1>12 DEF Section, ReadSection

(* A message keeps every variable but the programs typed. *)
LEMMA MessageTypes ==
    ASSUME TypeOK, NEW u \in Users, NEW n \in Conns, Message(u, n)
    PROVE  DataOK'
<1> USE DEF DataOK, regVars, playVars, userVars, fileVars, Act
<1>1. DataOK
  BY DEF TypeOK
<1>2. left' = left - 1 /\ left > 0
  BY Zenon DEF Message, Press, Select, Seek, Override, Acknowledge, Available, Report, EofReached
<1>3. left' \in Nat
  BY <1>1, <1>2
<1>4. CASE \E i \in {"Playing", "Paused"} : Press(u, n, i)
  BY <1>1, <1>3, <1>4 DEF Press
<1>5. CASE \E f \in Selectable : Select(u, n, f)
  BY <1>1, <1>3, <1>5 DEF Select
<1>6. CASE Seek(u, n)
  BY <1>1, <1>3, <1>6, AuthorityType DEF Seek, Interactive
<1>7. CASE \E v \in Users, h \in {"none", "Paused", "Away"} : Override(u, n, v, h)
  BY <1>1, <1>3, <1>7 DEF Override
<1>8. CASE \E v \in Users : Acknowledge(u, n, v)
  BY <1>1, <1>3, <1>8 DEF Acknowledge
<1>9. CASE \E a \in {"Ready", "Missing"} : Available(u, n, a)
  BY <1>1, <1>3, <1>9 DEF Available, Availabilities
<1>10. CASE \E f \in {loaded[u], nowPlaying} \ {NoFile} : Report(u, n, f)
  BY <1>1, <1>3, <1>10 DEF Report
<1>11. CASE EofReached(u, n, loaded[u])
  BY <1>1, <1>3, <1>11 DEF EofReached
<1> QED
  BY <1>4, <1>5, <1>6, <1>7, <1>8, <1>9, <1>10, <1>11, Zenon DEF Message

(* A lost or closed connection keeps every variable but the programs typed. *)
LEMMA ConnectionTypes ==
    ASSUME TypeOK, NEW u \in Users, NEW n \in Conns,
           Lost(u, n) \/ Goodbye(u, n) \/ Superseded(u, n)
    PROVE  DataOK'
<1> USE DEF DataOK, regVars, playVars, userVars, fileVars
<1>1. DataOK
  BY DEF TypeOK
<1>2. CASE Superseded(u, n)
  BY <1>1, <1>2, Zenon DEF Superseded
<1>3. ASSUME NEW stage \in {"Lost", "Departed"}, Leave(u, n, stage)
      PROVE  DataOK'
  <2>1. [peers[u] EXCEPT !.presence = stage, !.lost = 0] \in Entry
    <3>1. 0 \in 0..DepartAfter /\ stage \in Stages
      BY TimersAssumption DEF Stages
    <3>2. \A e \in Entry : [e EXCEPT !.presence = stage, !.lost = 0] \in Entry
      BY <3>1, ZenonT(60) DEF Entry
    <3>3. peers[u] \in Entry
      BY <1>1
    <3> QED
      BY <3>2, <3>3, ZenonT(60)
  <2>2. peers' \in [Users -> Entry]
    BY <1>1, <1>3, <2>1, Zenon DEF Leave
  <2> QED
    BY <1>1, <1>3, <2>2, Zenon DEF Leave
<1> QED
  BY <1>2, <1>3, ZenonT(60) DEF Lost, Goodbye

(* A registration keeps every variable but the programs typed. *)
LEMMA RegisterTypes ==
    ASSUME TypeOK, NEW u \in Users, Register(u)
    PROVE  DataOK'
<1> USE DEF DataOK, regVars, playVars, userVars, fileVars
<1>1. DataOK
  BY DEF TypeOK
<1>2. peers[u].conn + 1 \in Conns
  BY DEF Register
<1>3. [conn |-> peers[u].conn + 1, presence |-> "Present", lost |-> 0, grace |-> NoWindow] \in Entry
  BY <1>2, TimersAssumption DEF Entry, Stages
<1>4. peers' \in [Users -> Entry]
  BY <1>1, <1>3, Zenon DEF Register
<1> QED
  BY <1>1, <1>2, <1>4, ZenonT(60) DEF Register

(* A tick keeps every variable but the programs typed. *)
LEMMA TickTypes ==
    ASSUME TypeOK, Tick
    PROVE  DataOK'
<1> USE DEF DataOK, regVars, playVars, userVars, fileVars
<1>1. DataOK
  BY DEF TypeOK
<1>2. ASSUME NEW u \in Users
      PROVE  peers'[u] \in Entry
  <2>1. /\ peers[u].conn \in Conns \cup {0} /\ peers[u].presence \in Stages
        /\ peers[u].lost \in 0..DepartAfter /\ peers[u].grace \in {NoWindow} \cup 0..Grace
    BY <1>1 DEF Entry
  <2> DEFINE l == IF peers[u].presence = "Lost" /\ peers[u].lost < DepartAfter
                    THEN peers[u].lost + 1 ELSE peers[u].lost
             g == IF peers[u].grace > 0 THEN peers[u].grace - 1 ELSE peers[u].grace
  <2>2. l \in 0..DepartAfter /\ g \in {NoWindow} \cup 0..Grace
    BY <2>1, TimersAssumption DEF NoWindow
  <2>3. peers'[u] = [peers[u] EXCEPT !.lost = l, !.grace = g]
    BY Zenon DEF Tick
  <2> HIDE DEF l, g
  <2> QED
    BY <1>1, <2>2, <2>3, ZenonT(60) DEF Entry
<1>3. peers' \in [Users -> Entry]
  BY <1>2, ZenonT(60) DEF Tick
<1> QED
  BY <1>1, <1>3, ZenonT(60) DEF Tick

-----------------------------------------------------------------------------
(* What steps may change. *)

(* A section changes no connection, answers drops but makes none, and leaves *)
(* a window at zero only where there was one.                                *)
LEMMA SectionFacts ==
    ASSUME TypeOK, StepsOK, NEW t \in Tasks, Section(t)
    PROVE  /\ serving' = serving /\ unanswered' \subseteq unanswered
           /\ Head(job[t]).do = "pause" => unanswered' = {}
           /\ \A u \in Users : peers'[u].conn = peers[u].conn
           /\ \A u \in Users : peers'[u].grace = 0 => peers[u].grace = 0
           /\ Head(job[t]).do = "close" => \A u \in Users : peers'[u].grace = NoWindow
<1> USE DEF regVars, playVars, userVars, fileVars, Runs
<1>1. peers \in [Users -> Entry]
  BY DEF TypeOK
<1>2. CASE ReadSection(t)
  <2>1. Head(job[t]).do # "pause" /\ Head(job[t]).do # "close"
    BY <1>2, ZenonT(60) DEF ReadSection, RunFollow, RunRescue, RunStopped, RunRejoin, RunPin, RunJudge,
         RunClosing, RunReconcile, RunRejoinPeers, RunList, RunSend, RunRescues, RunExpire, Reads
  <2> QED
    BY <1>2, <2>1, ReadSectionFrame, Zenon
<1>3. CASE RunSelect(t) \/ RunSave(t) \/ RunPause(t) \/ RunAuthority(t)
  BY <1>3, ZenonT(60) DEF RunSelect, RunSave, RunPause, RunAuthority
<1>4. CASE RunEof(t)
  BY <1>4, ZenonT(60) DEF RunEof
<1>5. CASE RunOpen(t)
  <2>1. Head(job[t]).do = "open"
    BY <1>5 DEF RunOpen
  <2>2. \A u \in Users : peers'[u].conn = peers[u].conn
                         /\ (peers'[u].grace = peers[u].grace \/ peers'[u].grace = Grace)
    BY <1>1, <1>5 DEF RunOpen, Entry
  <2>3. serving' = serving /\ unanswered' \subseteq unanswered
    BY <1>5 DEF RunOpen
  <2> QED
    BY <2>1, <2>2, <2>3, TimersAssumption
<1>6. CASE RunClose(t)
  <2>1. \A u \in Users : peers'[u].conn = peers[u].conn /\ peers'[u].grace = NoWindow
    BY <1>1, <1>6 DEF RunClose, Entry
  <2>2. serving' = serving /\ unanswered' = unanswered /\ Head(job[t]).do = "close"
    BY <1>6 DEF RunClose
  <2> QED
    BY <2>1, <2>2 DEF NoWindow
<1>7. CASE RunDepart(t)
  <2>1. \A u \in Users : peers'[u].conn = peers[u].conn /\ peers'[u].grace = peers[u].grace
    BY <1>1, <1>7 DEF RunDepart, Entry
  <2>2. serving' = serving /\ unanswered' = unanswered /\ Head(job[t]).do = "depart"
    BY <1>7 DEF RunDepart
  <2> QED
    BY <2>1, <2>2
<1> QED
  BY <1>2, <1>3, <1>4, <1>5, <1>6, <1>7, ZenonT(60) DEF Section, ReadSection

(* An idle task that starts has exactly the steps of its program. *)
LEMMA StartsJob ==
    ASSUME job \in [Tasks -> Seq(Step)], NEW t \in Tasks, NEW p, Starts(t, p)
    PROVE  /\ job' \in [Tasks -> Seq(Step)]
           /\ Range(job[t]) = {} /\ Range(job'[t]) = Range(p)
           /\ \A s \in Tasks \ {t} : job'[s] = job[s]
<1> DEFINE none == <<>>
<1>1. Range(none) = {}
  BY ShortPrograms
<1>2. job[t] = none /\ p \in Seq(Step) /\ job' = [job EXCEPT ![t] = p]
  BY DEF Starts
<1> HIDE DEF none
<1>3. job'[t] = p /\ job' \in [Tasks -> Seq(Step)]
  BY <1>2
<1> QED
  BY <1>1, <1>2, <1>3

(* Every step starts a task, continues one, or ends a superseded connection. *)
LEMMA StepKinds ==
    ASSUME TypeOK, StepsOK, Fresh, Next
    PROVE  /\ DataOK'
           /\ \/ \E t \in Tasks : \E p : Starts(t, p)
              \/ \E t \in Tasks : \E p : Section(t) /\ Follows(t, p)
              \/ job' = job /\ unanswered' = unanswered
<1>1. ASSUME NEW u \in Users, Register(u)
      PROVE  DataOK' /\ \E t \in Tasks : \E p : Starts(t, p)
  BY <1>1, RegisterTypes, RegisterStarts, TaskUser, Zenon
<1>2. ASSUME NEW u \in Users, NEW n \in Conns, Lost(u, n) \/ Goodbye(u, n)
      PROVE  DataOK' /\ \E t \in Tasks : \E p : Starts(t, p)
  BY <1>2, ConnectionTypes, ConnectionStarts, TaskUser, Zenon
<1>3. ASSUME NEW u \in Users, NEW n \in Conns, Superseded(u, n)
      PROVE  DataOK' /\ job' = job /\ unanswered' = unanswered
  BY <1>3, ConnectionTypes, Zenon DEF Superseded
<1>4. ASSUME NEW u \in Users, NEW n \in Conns, Message(u, n)
      PROVE  DataOK' /\ \E t \in Tasks : \E p : Starts(t, p)
  BY <1>4, MessageTypes, MessageStarts, TaskUser, ZenonT(60)
<1>5. ASSUME NEW t \in Tasks, Section(t)
      PROVE  DataOK' /\ \E p : Follows(t, p)
  BY <1>5, SectionTypes, SectionFollows
<1>6. ASSUME Tick
      PROVE  DataOK' /\ \E t \in Tasks : \E p : Starts(t, p)
  BY <1>6, TickTypes, TickStarts, TaskUser
<1> QED
  BY <1>1, <1>2, <1>3, <1>4, <1>5, <1>6 DEF Next

(* Types and step shapes are preserved. *)
LEMMA ShapesStep ==
    ASSUME TypeOK, StepsOK, Fresh, Next
    PROVE  TypeOK' /\ StepsOK'
<1>1. job \in [Tasks -> Seq(Step)]
  BY DEF TypeOK
<1>2. DataOK'
  BY StepKinds
<1>3. job' \in [Tasks -> Seq(Step)] /\ StepsOK'
  <2>1. ASSUME NEW t \in Tasks, NEW p, Starts(t, p)
        PROVE  job' \in [Tasks -> Seq(Step)] /\ StepsOK'
    <3>1. /\ job' \in [Tasks -> Seq(Step)] /\ Range(job'[t]) = Range(p)
          /\ \A s \in Tasks \ {t} : job'[s] = job[s]
      BY <1>1, <2>1, StartsJob
    <3>2. \A s \in Range(p) : StepOK(t, s)
      BY <2>1 DEF Starts
    <3> QED
      BY <3>1, <3>2 DEF StepsOK, StepOK
  <2>2. ASSUME NEW t \in Tasks, NEW p, Follows(t, p)
        PROVE  job' \in [Tasks -> Seq(Step)] /\ StepsOK'
    <3>1. /\ job[t] # <<>> /\ p \in Seq(Step) /\ Continue(t, p)
          /\ \A s \in Range(p) : StepOK(t, s)
      BY <2>2 DEF Follows
    <3>2. /\ job' \in [Tasks -> Seq(Step)]
          /\ Range(job[t]) = {Head(job[t])} \cup Range(Tail(job[t]))
          /\ Range(job'[t]) = Range(p) \cup Range(Tail(job[t]))
          /\ \A s \in Tasks \ {t} : job'[s] = job[s]
      BY <1>1, <3>1, ContinueJob
    <3> QED
      BY <3>1, <3>2, ZenonT(60) DEF StepsOK, StepOK
  <2>3. CASE job' = job
    BY <1>1, <2>3, ZenonT(60) DEF StepsOK, StepOK
  <2> QED
    BY <2>1, <2>2, <2>3, StepKinds
<1> QED
  BY <1>2, <1>3 DEF TypeOK, DataOK

(* Connections to come stay untouched. *)
LEMMA FreshStep ==
    ASSUME TypeOK, StepsOK, Fresh, Next
    PROVE  Fresh'
<1> USE DEF regVars, playVars, userVars, fileVars
<1>1. /\ peers \in [Users -> Entry] /\ job \in [Tasks -> Seq(Step)]
      /\ serving \in [Users -> SUBSET Conns]
      /\ \A u \in Users : peers[u].conn \in Nat
  BY DEF TypeOK, Entry, Conns
<1>2. SUFFICES ASSUME NEW u \in Users, NEW n \in Conns, n > peers'[u].conn
               PROVE  job'[<<u, n>>] = <<>> /\ n \notin serving'[u]
  BY DEF Fresh
<1>3. <<u, n>> \in Tasks /\ n \in Nat
  BY TaskUser DEF Conns
<1>4. ASSUME NEW v \in Users, Register(v)
      PROVE  job'[<<u, n>>] = <<>> /\ n \notin serving'[u]
  <2>1. CASE u = v
    <3>1. peers'[u].conn = peers[u].conn + 1
      BY <1>1, <1>4, <2>1 DEF Register
    <3>2. n > peers[u].conn /\ n # peers[u].conn + 1
      BY <1>1, <1>2, <1>3, <3>1
    <3> QED
      BY <1>1, <1>3, <1>4, <2>1, <3>2 DEF Fresh, Register
  <2>2. CASE u # v
    <3>1. peers'[u] = peers[u]
      BY <1>1, <1>4, <2>2, ZenonT(60) DEF Register
    <3> QED
      BY <1>1, <1>2, <1>3, <1>4, <2>2, <3>1 DEF Fresh, Register
  <2> QED
    BY <2>1, <2>2
<1>5. ASSUME peers'[u].conn = peers[u].conn, serving'[u] \subseteq serving[u],
             NEW t \in Tasks, t # <<u, n>> \/ job[t] # <<>>,
             \A s \in Tasks \ {t} : job'[s] = job[s]
      PROVE  job'[<<u, n>>] = <<>> /\ n \notin serving'[u]
  BY <1>2, <1>3, <1>5 DEF Fresh
<1>6. ASSUME NEW v \in Users, NEW m \in Conns,
             Lost(v, m) \/ Goodbye(v, m) \/ Message(v, m)
      PROVE  job'[<<u, n>>] = <<>> /\ n \notin serving'[u]
  <2>1. m \in serving[v] /\ peers'[u].conn = peers[u].conn /\ serving'[u] \subseteq serving[u]
    <3>1. CASE Lost(v, m) \/ Goodbye(v, m)
      <4>1. PICK stage : Leave(v, m, stage)
        BY <3>1, Zenon DEF Lost, Goodbye
      <4>2. \A e \in Entry : [e EXCEPT !.presence = stage, !.lost = 0].conn = e.conn
        BY DEF Entry
      <4>3. peers'[u] = IF u = v THEN [peers[u] EXCEPT !.presence = stage, !.lost = 0] ELSE peers[u]
        BY <1>1, <4>1, ZenonT(60) DEF Leave
      <4> QED
        BY <1>1, <4>1, <4>2, <4>3 DEF Leave
    <3>2. CASE Message(v, m)
      BY <3>2, ZenonT(60) DEF Message, Press, Select, Seek, Override, Acknowledge, Available, Report,
           EofReached, Takes
    <3> QED
      BY <1>6, <3>1, <3>2
  <2>2. \A s \in Tasks \ {<<v, m>>} : job'[s] = job[s]
    <3>1. \E p : Starts(<<v, m>>, p)
      BY <1>6, ConnectionStarts, MessageStarts
    <3> QED
      BY <1>1, <3>1, StartsJob, TaskUser
  <2>3. <<v, m>> # <<u, n>>
    BY <1>2, <2>1, ZenonT(60) DEF Fresh
  <2> QED
    BY <1>5, <2>1, <2>2, <2>3, TaskUser, ZenonT(60)
<1>7. ASSUME NEW v \in Users, NEW m \in Conns, Superseded(v, m)
      PROVE  job'[<<u, n>>] = <<>> /\ n \notin serving'[u]
  BY <1>1, <1>2, <1>3, <1>7 DEF Superseded, Fresh
<1>8. ASSUME NEW t \in Tasks, Section(t)
      PROVE  job'[<<u, n>>] = <<>> /\ n \notin serving'[u]
  <2>1. peers'[u].conn = peers[u].conn /\ serving'[u] \subseteq serving[u]
    BY <1>8, SectionFacts
  <2>2. PICK p : Follows(t, p)
    BY <1>8, SectionFollows, Zenon
  <2>3. job[t] # <<>> /\ \A s \in Tasks \ {t} : job'[s] = job[s]
    BY <1>1, <2>2, ContinueJob, ZenonT(60) DEF Follows
  <2> QED
    BY <1>5, <2>1, <2>3
<1>9. ASSUME Tick
      PROVE  job'[<<u, n>>] = <<>> /\ n \notin serving'[u]
  <2>1. peers'[u].conn = peers[u].conn /\ serving'[u] \subseteq serving[u]
    BY <1>1, <1>9, ZenonT(60) DEF Tick, Entry
  <2>2. \A s \in Tasks \ {Sweeper} : job'[s] = job[s]
    BY <1>1, <1>9, TickStarts, StartsJob, TaskUser
  <2>3. Sweeper # <<u, n>>
    BY UsersAssumption, Zenon DEF Sweeper
  <2> QED
    BY <1>5, <2>1, <2>2, <2>3, TaskUser, ZenonT(60)
<1> QED
  BY <1>4, <1>6, <1>7, <1>8, <1>9 DEF Next

-----------------------------------------------------------------------------
(* Windows and stages. *)

(* The invariants of the registry. *)
RegistryOK == GraceFileMatches /\ WindowsOfTheAbsent /\ PresentIffServed

(* Every step keeps grace_file, the windows and the presence of the registry *)
(* consistent.                                                               *)
LEMMA RegistryStep ==
    ASSUME TypeOK, StepsOK, RegistryOK, Next
    PROVE  RegistryOK'
<1> USE DEF regVars, playVars, userVars, fileVars, RegistryOK, GraceFileMatches,
            WindowsOfTheAbsent, PresentIffServed, Windowed, Interactive
<1>1. /\ peers \in [Users -> Entry] /\ job \in [Tasks -> Seq(Step)]
      /\ serving \in [Users -> SUBSET Conns]
  BY DEF TypeOK
<1>2. CASE UNCHANGED <<regVars, serving>>
  BY <1>2
<1>3. ASSUME NEW u \in Users, Register(u)
      PROVE  RegistryOK'
  <2>1. /\ peers'[u].grace = NoWindow /\ peers'[u].presence = "Present"
        /\ peers'[u].conn = peers[u].conn + 1
        /\ \A v \in Users \ {u} : peers'[v] = peers[v]
        /\ graceFile' = IF \E v \in Users : peers'[v].grace # NoWindow THEN graceFile ELSE NoFile
        /\ serving' = [serving EXCEPT ![u] = @ \cup {peers[u].conn + 1}]
    BY <1>1, <1>3 DEF Register
  <2>2. GraceFileMatches' /\ WindowsOfTheAbsent'
    BY <2>1, ZenonT(60)
  <2>3. PresentIffServed'
    BY <1>1, <2>1
  <2> QED
    BY <2>2, <2>3, ZenonT(60)
<1>4. ASSUME NEW u \in Users, NEW n \in Conns, NEW stage \in {"Lost", "Departed"},
             Leave(u, n, stage)
      PROVE  RegistryOK'
  <2>1. /\ peers'[u].grace = peers[u].grace /\ peers'[u].presence = stage
        /\ peers'[u].conn = peers[u].conn /\ n = peers[u].conn /\ n \in serving[u]
        /\ \A v \in Users \ {u} : peers'[v] = peers[v]
        /\ graceFile' = graceFile /\ serving' = [serving EXCEPT ![u] = @ \ {n}]
    BY <1>1, <1>4 DEF Leave, Entry
  <2>2. peers[u].presence = "Present"
    BY <2>1
  <2>3. peers[u].grace = NoWindow
    BY <2>2
  <2> QED
    BY <1>1, <2>1, <2>3
<1>5. ASSUME NEW u \in Users, NEW n \in Conns, Superseded(u, n)
      PROVE  RegistryOK'
  BY <1>1, <1>5 DEF Superseded
<1>6. ASSUME NEW t \in Tasks, RunOpen(t)
      PROVE  RegistryOK'
  <2>1. t[1] \in Viewers /\ Head(job[t]).file # NoFile
    <3>1. Head(job[t]) \in Range(job[t]) /\ Head(job[t]).do = "open"
      BY <1>1, <1>6, HeadAndTail DEF RunOpen, Runs
    <3> QED
      BY <3>1 DEF StepsOK, StepOK
  <2>2. CASE peers[t[1]].conn = t[2] /\ peers[t[1]].presence = "Lost"
    <3>1. /\ peers'[t[1]].grace = Grace /\ peers'[t[1]].presence = "Lost"
          /\ peers'[t[1]].conn = peers[t[1]].conn
          /\ \A v \in Users \ {t[1]} : peers'[v] = peers[v]
          /\ graceFile' = Head(job[t]).file /\ serving' = serving
      BY <1>1, <1>6, <2>1, <2>2 DEF RunOpen, Entry, Viewers
    <3>2. Grace # NoWindow
      BY TimersAssumption DEF NoWindow
    <3> QED
      BY <2>1, <2>2, <3>1, <3>2 DEF Viewers
  <2> QED
    BY <1>2, <1>6, <2>2 DEF RunOpen
<1>7. ASSUME NEW t \in Tasks, RunClose(t)
      PROVE  RegistryOK'
  <2>1. /\ \A v \in Users : /\ peers'[v].grace = NoWindow /\ peers'[v].presence = peers[v].presence
                            /\ peers'[v].conn = peers[v].conn
        /\ graceFile' = NoFile /\ serving' = serving
    BY <1>1, <1>7 DEF RunClose, Entry
  <2> QED
    BY <2>1
<1>8. ASSUME NEW t \in Tasks, RunDepart(t)
      PROVE  RegistryOK'
  <2>1. /\ \A v \in Users :
             /\ peers'[v].grace = peers[v].grace /\ peers'[v].conn = peers[v].conn
             /\ \/ peers'[v].presence = peers[v].presence
                \/ peers[v].presence = "Lost" /\ peers'[v].presence = "Departed"
        /\ graceFile' = graceFile /\ serving' = serving
    BY <1>1, <1>8 DEF RunDepart, Entry
  <2> QED
    BY <2>1
<1>9. ASSUME Tick
      PROVE  RegistryOK'
  <2>1. /\ \A v \in Users :
             /\ peers'[v].presence = peers[v].presence /\ peers'[v].conn = peers[v].conn
             /\ peers'[v].grace = IF peers[v].grace > 0 THEN peers[v].grace - 1 ELSE peers[v].grace
        /\ graceFile' = graceFile /\ serving' = serving
    BY <1>1, <1>9, ZenonT(60) DEF Tick, Entry
  <2>2. \A v \in Users : peers'[v].grace # NoWindow <=> peers[v].grace # NoWindow
    BY <1>1, <2>1, TimersAssumption DEF Entry, NoWindow
  <2> QED
    BY <2>1, <2>2, ZenonT(60)
<1>10. ASSUME NEW u \in Users, NEW n \in Conns, Message(u, n)
       PROVE  RegistryOK'
  <2>1. UNCHANGED <<regVars, serving>>
    BY <1>10, ZenonT(60) DEF Message, Press, Select, Seek, Override, Acknowledge, Available, Report,
         EofReached
  <2> QED
    BY <1>2, <2>1, Zenon
<1>11. ASSUME NEW t \in Tasks, Section(t)
       PROVE  RegistryOK'
  <2>1. CASE ReadSection(t)
    BY <1>2, <2>1, ReadSectionFrame, ZenonT(60)
  <2>2. CASE RunSelect(t) \/ RunEof(t) \/ RunSave(t) \/ RunPause(t) \/ RunAuthority(t)
    <3>1. UNCHANGED <<regVars, serving>>
      BY <2>2, ZenonT(60) DEF RunSelect, RunEof, RunSave, RunPause, RunAuthority
    <3> QED
      BY <1>2, <3>1, Zenon
  <2> QED
    BY <1>6, <1>7, <1>8, <1>11, <2>1, <2>2, ZenonT(60) DEF Section, ReadSection
<1> QED
  BY <1>3, <1>4, <1>5, <1>9, <1>10, <1>11, ZenonT(60) DEF Next, Lost, Goodbye

-----------------------------------------------------------------------------
(* Pending answers. *)

(* Whoever dropped unanswered has a pause coming, from any task, or a        *)
(* judgement or window in a task of their own.                               *)
Answered ==
    \A u \in unanswered : \E t \in Tasks : \E s \in Range(job[t]) :
        s.do = "pause" \/ (s.do \in {"judge", "open"} /\ t[1] = u)

(* While a window is at zero, the sweep that will see it, or a task about to *)
(* close the windows, is under way.                                          *)
Expiring ==
    (\E u \in Users : peers[u].grace = 0) =>
        \E t \in Tasks : \E s \in Range(job[t]) : s.do \in {"expire", "closing", "close"}

(* A starting task adds pending steps and takes none away. *)
LEMMA StartsPending ==
    ASSUME TypeOK, Answered, Expiring, NEW t \in Tasks, NEW p, Starts(t, p)
    PROVE  /\ Answered'
           /\ (\A u \in Users : peers'[u].grace = 0 => peers[u].grace = 0) => Expiring'
           /\ (\E s \in Range(p) : s.do = "expire") => Expiring'
<1>1. /\ Range(job[t]) = {} /\ Range(job'[t]) = Range(p)
      /\ \A s \in Tasks \ {t} : job'[s] = job[s]
  BY StartsJob DEF TypeOK
<1>2. \A v \in unanswered' \ unanswered :
         t[1] = v /\ \E s \in Range(p) : s.do \in {"judge", "pause"}
  BY DEF Starts
<1>3. \A r \in Tasks : Range(job[r]) \subseteq Range(job'[r])
  BY <1>1, Zenon
<1>4. Answered'
  <2>1. SUFFICES ASSUME NEW u \in unanswered'
                 PROVE  \E r \in Tasks : \E s \in Range(job'[r]) :
                            s.do = "pause" \/ (s.do \in {"judge", "open"} /\ r[1] = u)
    BY DEF Answered
  <2>2. CASE u \in unanswered
    BY <1>3, <2>2 DEF Answered
  <2>3. CASE u \notin unanswered
    BY <1>1, <1>2, <2>3
  <2> QED
    BY <2>2, <2>3, ZenonT(60)
<1>5. (\A u \in Users : peers'[u].grace = 0 => peers[u].grace = 0) => Expiring'
  BY <1>3 DEF Expiring
<1>6. (\E s \in Range(p) : s.do = "expire") => Expiring'
  BY <1>1 DEF Expiring
<1> QED
  BY <1>4, <1>5, <1>6

(* A section that runs meets what it was pending for, or hands it on. *)
LEMMA FollowsPending ==
    ASSUME TypeOK, StepsOK, Answered, Expiring, NEW t \in Tasks, Section(t), NEW p, Follows(t, p)
    PROVE  Answered' /\ Expiring'
<1> DEFINE h == Head(job[t])
<1>1. /\ Range(job[t]) = {h} \cup Range(Tail(job[t]))
      /\ Range(job'[t]) = Range(p) \cup Range(Tail(job[t]))
      /\ \A s \in Tasks \ {t} : job'[s] = job[s]
  BY ContinueJob, ZenonT(60) DEF TypeOK, Follows
<1>2. /\ unanswered' \subseteq unanswered
      /\ h.do = "pause" => unanswered' = {}
      /\ \A u \in Users : peers'[u].grace = 0 => peers[u].grace = 0
      /\ h.do = "close" => \A u \in Users : peers'[u].grace = NoWindow
  BY SectionFacts, ZenonT(60)
<1>3. /\ h.do = "judge" => \E s \in Range(p) : s.do \in {"open", "pause"}
      /\ h.do = "open" => t[1] \notin unanswered' \/ \E s \in Range(p) : s.do = "pause"
      /\ h.do = "expire" /\ (\E u \in Users : peers[u].grace = 0) =>
            \E s \in Range(p) : s.do = "closing"
      /\ h.do = "closing" => \E s \in Range(p) : s.do = "close"
  BY ZenonT(60) DEF Follows
<1> HIDE DEF h
<1>4. ASSUME NEW r \in Tasks, NEW s \in Range(job[r]), r # t \/ s # h
      PROVE  s \in Range(job'[r])
  BY <1>1, <1>4, ZenonT(60)
<1>5. Answered'
  <2>1. SUFFICES ASSUME NEW u \in unanswered'
                 PROVE  \E r \in Tasks : \E s \in Range(job'[r]) :
                            s.do = "pause" \/ (s.do \in {"judge", "open"} /\ r[1] = u)
    BY DEF Answered
  <2>2. PICK r \in Tasks : \E s \in Range(job[r]) :
            s.do = "pause" \/ (s.do \in {"judge", "open"} /\ r[1] = u)
    BY <1>2 DEF Answered
  <2>3. PICK s \in Range(job[r]) : s.do = "pause" \/ (s.do \in {"judge", "open"} /\ r[1] = u)
    BY <2>2, Zenon
  <2>4. CASE r # t \/ s # h
    BY <1>4, <2>3, <2>4, Zenon
  <2>5. CASE r = t /\ s = h
    <3>1. h.do \in {"judge", "open"} /\ t[1] = u
      BY <1>2, <2>3, <2>5, ZenonT(60)
    <3>2. \E q \in Range(p) : q.do = "pause" \/ q.do = "open"
      BY <1>3, <3>1
    <3> QED
      BY <1>1, <3>1, <3>2, Zenon
  <2> QED
    BY <2>4, <2>5
<1>6. Expiring'
  <2>1. SUFFICES ASSUME NEW u \in Users, peers'[u].grace = 0
                 PROVE  \E r \in Tasks : \E s \in Range(job'[r]) :
                            s.do \in {"expire", "closing", "close"}
    BY DEF Expiring
  <2>2. peers[u].grace = 0 /\ h.do # "close"
    BY <1>2, <2>1 DEF NoWindow
  <2>3. PICK r \in Tasks : \E s \in Range(job[r]) : s.do \in {"expire", "closing", "close"}
    BY <2>2 DEF Expiring
  <2>4. PICK s \in Range(job[r]) : s.do \in {"expire", "closing", "close"}
    BY <2>3
  <2>5. CASE r # t \/ s # h
    BY <1>4, <2>4, <2>5
  <2>6. CASE r = t /\ s = h
    <3>1. \E q \in Range(p) : q.do \in {"closing", "close"}
      BY <1>3, <2>2, <2>4, <2>6
    <3> QED
      BY <1>1, <3>1
  <2> QED
    BY <2>5, <2>6
<1> QED
  BY <1>5, <1>6, Zenon

(* Every step keeps what a drop or an expired window is owed pending until   *)
(* it is done.                                                               *)
LEMMA PendingStep ==
    ASSUME TypeOK, StepsOK, Fresh, Answered, Expiring, Next
    PROVE  Answered' /\ Expiring'
<1> USE DEF regVars, playVars, userVars, fileVars
<1>1. peers \in [Users -> Entry]
  BY Zenon DEF TypeOK
<1>2. ASSUME NEW u \in Users, Register(u)
      PROVE  Answered' /\ Expiring'
  <2>1. \A v \in Users : peers'[v].grace = 0 => peers[v].grace = 0
    BY <1>1, <1>2 DEF Register, NoWindow
  <2> QED
    BY <1>2, <2>1, RegisterStarts, StartsPending, TaskUser, ZenonT(60)
<1>3. ASSUME NEW u \in Users, NEW n \in Conns, Lost(u, n) \/ Goodbye(u, n)
      PROVE  Answered' /\ Expiring'
  <2>1. \A v \in Users : peers'[v].grace = peers[v].grace
    <3>1. PICK stage : Leave(u, n, stage)
      BY <1>3, Zenon DEF Lost, Goodbye
    <3>2. \A e \in Entry : [e EXCEPT !.presence = stage, !.lost = 0].grace = e.grace
      BY DEF Entry
    <3>3. \A v \in Users : peers'[v] =
              IF v = u THEN [peers[v] EXCEPT !.presence = stage, !.lost = 0] ELSE peers[v]
      BY <1>1, <3>1, ZenonT(60) DEF Leave
    <3> QED
      BY <1>1, <3>2, <3>3, Zenon
  <2> QED
    BY <1>3, <2>1, ConnectionStarts, StartsPending, TaskUser, ZenonT(60)
<1>4. ASSUME NEW u \in Users, NEW n \in Conns, Superseded(u, n)
      PROVE  Answered' /\ Expiring'
  BY <1>4 DEF Superseded, Answered, Expiring
<1>5. ASSUME NEW u \in Users, NEW n \in Conns, Message(u, n)
      PROVE  Answered' /\ Expiring'
  <2>1. peers' = peers
    BY <1>5, ZenonT(60) DEF Message, Press, Select, Seek, Override, Acknowledge, Available, Report, EofReached
  <2> QED
    BY <1>5, <2>1, MessageStarts, StartsPending, TaskUser, ZenonT(60)
<1>6. ASSUME NEW t \in Tasks, Section(t)
      PROVE  Answered' /\ Expiring'
  BY <1>6, SectionFollows, FollowsPending
<1>7. ASSUME Tick
      PROVE  Answered' /\ Expiring'
  BY <1>7, TickStarts, StartsPending, TaskUser
<1> QED
  BY <1>2, <1>3, <1>4, <1>5, <1>6, <1>7 DEF Next

(* No program is pending when the server is idle. *)
LEMMA IdleSteps ==
    ASSUME Idle, NEW t \in Tasks
    PROVE  Range(job[t]) = {}
<1> DEFINE none == <<>>
<1>1. Range(none) = {}
  BY ShortPrograms
<1>2. job[t] = none
  BY DEF Idle
<1> HIDE DEF none
<1> QED
  BY <1>1, <1>2

-----------------------------------------------------------------------------
(* Seek authority and those who timed out. *)

(* Authority a names user u. *)
Names(a, u) == a.by \in {"User", "Anchor"} /\ a.user = u

(* No pending step gives u authority or may yet pin an anchor on them. *)
Quiet(u) ==
    \A t \in Tasks : \A s \in Range(job[t]) :
        /\ s.do = "authority" => ~Names(s.to, u)
        /\ s.do = "pin" => s.infos[u].presence # "Present"

(* Whoever a sweep has counted as lost is no longer served, and nothing that *)
(* was under way when they dropped can still give them authority.            *)
Silent == \A u \in Users : peers[u].lost > 0 => serving[u] = {} /\ Quiet(u)

(* Authority is on its way from u to somebody else. *)
Taken(u) ==
    \E t \in Tasks : \E s \in Range(job[t]) :
        \/ s.do = "authority"
        \/ s.do = "rescue" /\ s.user = u
        \/ s.do = "rescues" /\ u \in s.gone

(* While somebody who timed out holds authority, it is being taken. *)
Rescuing ==
    \A u \in Users :
        peers[u].lost > 0 /\ peers[u].presence = "Departed" /\ Names(authority, u) => Taken(u)

(* A starting task gives nobody authority and takes no pending step away. *)
LEMMA StartsQuiet ==
    ASSUME TypeOK, NEW t \in Tasks, NEW p, Starts(t, p), NEW u \in Users
    PROVE  (Quiet(u) => Quiet(u)') /\ (Taken(u) => Taken(u)')
<1>1. /\ Range(job[t]) = {} /\ Range(job'[t]) = Range(p)
      /\ \A s \in Tasks \ {t} : job'[s] = job[s]
  BY StartsJob DEF TypeOK
<1>2. \A s \in Range(p) : s.do \notin {"pin", "authority"}
  BY DEF Starts
<1>3. Quiet(u) => Quiet(u)'
  BY <1>1, <1>2, ZenonT(60) DEF Quiet, Names
<1>4. \A r \in Tasks : Range(job[r]) \subseteq Range(job'[r])
  BY <1>1, Zenon
<1>5. Taken(u) => Taken(u)'
  BY <1>4, ZenonT(60) DEF Taken
<1> QED
  BY <1>3, <1>5

(* A user who leaves or comes starts counting again; the entries of the      *)
(* others stay as they are.                                                  *)
LEMMA ConnectionCounts ==
    ASSUME TypeOK, NEW v \in Users, NEW n \in Conns,
           Register(v) \/ Lost(v, n) \/ Goodbye(v, n)
    PROVE  /\ peers'[v].lost = 0 /\ authority' = authority
           /\ \A u \in Users \ {v} : peers'[u] = peers[u] /\ serving'[u] = serving[u]
<1> USE DEF regVars, playVars, userVars, fileVars
<1>1. peers \in [Users -> Entry] /\ serving \in [Users -> SUBSET Conns]
  BY DEF TypeOK
<1>2. CASE Register(v)
  <2>1. /\ peers' = [peers EXCEPT ![v] = [conn |-> peers[v].conn + 1, presence |-> "Present",
                                          lost |-> 0, grace |-> NoWindow]]
        /\ serving' = [serving EXCEPT ![v] = @ \cup {peers[v].conn + 1}]
        /\ authority' = authority
    BY <1>2, Zenon DEF Register
  <2> QED
    BY <1>1, <2>1
<1>3. CASE Lost(v, n) \/ Goodbye(v, n)
  <2>1. PICK stage : Leave(v, n, stage)
    BY <1>3, Zenon DEF Lost, Goodbye
  <2>2. \A e \in Entry : [e EXCEPT !.presence = stage, !.lost = 0].lost = 0
    BY DEF Entry
  <2>3. \A u \in Users : peers'[u] =
            IF u = v THEN [peers[u] EXCEPT !.presence = stage, !.lost = 0] ELSE peers[u]
    BY <1>1, <2>1, ZenonT(60) DEF Leave
  <2>4. serving' = [serving EXCEPT ![v] = @ \ {n}] /\ authority' = authority
    BY <2>1, Zenon DEF Leave
  <2>5. \A u \in Users \ {v} : peers'[u] = peers[u] /\ serving'[u] = serving[u]
    BY <1>1, <2>3, <2>4, Zenon
  <2>6. peers'[v].lost = 0
    BY <1>1, <2>2, <2>3, Zenon
  <2> QED
    BY <2>4, <2>5, <2>6
<1> QED
  BY <1>2, <1>3

(* A message changes no entry, and gives authority only to its sender. *)
LEMMA MessageCounts ==
    ASSUME NEW v \in Users, NEW n \in Conns, Message(v, n)
    PROVE  /\ peers' = peers /\ serving' = serving /\ n \in serving[v]
           /\ authority' = authority \/ authority' = ByUser(v)
BY ZenonT(60) DEF Message, Press, Select, Seek, Override, Acknowledge, Available, Report,
     EofReached, Takes, regVars, playVars

(* A tick marks nobody, and counts only for those who are lost. *)
LEMMA TickCounts ==
    ASSUME TypeOK, Tick, NEW u \in Users
    PROVE  /\ peers'[u].presence = peers[u].presence
           /\ peers'[u].lost = peers[u].lost \/ peers[u].presence = "Lost"
<1> DEFINE more == IF peers[u].presence = "Lost" /\ peers[u].lost < DepartAfter
                     THEN peers[u].lost + 1 ELSE peers[u].lost
           less == IF peers[u].grace > 0 THEN peers[u].grace - 1 ELSE peers[u].grace
<1>1. peers[u] \in Entry
  BY DEF TypeOK
<1>2. peers'[u] = [peers[u] EXCEPT !.lost = more, !.grace = less]
  BY Zenon DEF Tick
<1>3. more = peers[u].lost \/ peers[u].presence = "Lost"
  OBVIOUS
<1> HIDE DEF more, less
<1>4. peers'[u].lost = more /\ peers'[u].presence = peers[u].presence
  BY <1>1, <1>2 DEF Entry
<1> QED
  BY <1>3, <1>4

(* A section counts nobody's ticks, marks nobody but those the sweep makes   *)
(* Departed, and moves authority only to the server or as the step it runs   *)
(* says.                                                                     *)
LEMMA SectionCounts ==
    ASSUME TypeOK, NEW t \in Tasks, Section(t)
    PROVE  /\ \A u \in Users : peers'[u].lost = peers[u].lost
           /\ \A u \in Users :
                 \/ peers'[u].presence = peers[u].presence
                 \/ RunDepart(t) /\ peers[u].presence = "Lost" /\ peers[u].lost >= DepartAfter
           /\ authority' = authority \/ authority' = ByServer \/ Head(job[t]).do = "authority"
           /\ Head(job[t]).do = "authority" => authority' = Head(job[t]).to
<1> USE DEF regVars, playVars, userVars, fileVars, Runs
<1>1. peers \in [Users -> Entry]
  BY DEF TypeOK
<1>2. CASE ReadSection(t)
  <2>1. Head(job[t]).do # "authority"
    BY <1>2, ZenonT(60) DEF ReadSection, RunFollow, RunRescue, RunStopped, RunRejoin, RunPin, RunJudge,
         RunClosing, RunReconcile, RunRejoinPeers, RunList, RunSend, RunRescues, RunExpire, Reads
  <2> QED
    BY <1>2, <2>1, ReadSectionFrame, Zenon
<1>3. CASE RunSelect(t) \/ RunSave(t) \/ RunPause(t)
  BY <1>3, ZenonT(60) DEF RunSelect, RunSave, RunPause
<1>4. CASE RunAuthority(t)
  BY <1>4, ZenonT(60) DEF RunAuthority
<1>5. CASE RunEof(t)
  BY <1>5, ZenonT(60) DEF RunEof
<1>6. CASE RunOpen(t)
  <2>1. \A u \in Users : peers'[u].lost = peers[u].lost /\ peers'[u].presence = peers[u].presence
    BY <1>1, <1>6 DEF RunOpen, Entry
  <2> QED
    BY <1>6, <2>1, Zenon DEF RunOpen
<1>7. CASE RunClose(t)
  <2>1. \A u \in Users : peers'[u].lost = peers[u].lost /\ peers'[u].presence = peers[u].presence
    BY <1>1, <1>7 DEF RunClose, Entry
  <2> QED
    BY <1>7, <2>1, Zenon DEF RunClose
<1>8. CASE RunDepart(t)
  <2>1. \A u \in Users : /\ peers'[u].lost = peers[u].lost
                         /\ \/ peers'[u].presence = peers[u].presence
                            \/ peers[u].presence = "Lost" /\ peers[u].lost >= DepartAfter
    BY <1>1, <1>8 DEF RunDepart, Entry
  <2> QED
    BY <1>8, <2>1, Zenon DEF RunDepart
<1> QED
  BY <1>2, <1>3, <1>4, <1>5, <1>6, <1>7, <1>8, ZenonT(60) DEF Section, ReadSection

(* The sweep that makes a viewer Departed goes on to take their authority. *)
LEMMA DepartRescues ==
    ASSUME TypeOK, NEW t \in Tasks, RunDepart(t), NEW u \in Viewers,
           peers[u].presence = "Lost", peers[u].lost >= DepartAfter
    PROVE  Taken(u)'
<1> DEFINE promoted == {v \in Users : peers[v].presence = "Lost" /\ peers[v].lost >= DepartAfter}
           s == RescueAll(promoted \cap Viewers)
           go == <<Do("list"), s>>
<1>1. peers \in [Users -> Entry] /\ job \in [Tasks -> Seq(Step)]
  BY DEF TypeOK
<1>2. u \in promoted \cap Viewers
  BY DEF Viewers
<1>3. Do("list") \in Step /\ s \in Step /\ s.do = "rescues" /\ s.gone = promoted \cap Viewers
  BY <1>1, StepForms DEF Sections
<1>4. job[t] # <<>> /\ Continue(t, IF promoted = {} THEN <<>> ELSE go)
  BY Zenon DEF RunDepart, Runs
<1>5. job[t] # <<>> /\ Continue(t, go)
  BY <1>2, <1>4
<1>6. go \in Seq(Step) /\ Range(go) = {Do("list"), s}
  <2>1. \A a, b \in Step : Range(<<a, b>>) = {a, b} /\ <<a, b>> \in Seq(Step)
    BY ShortPrograms
  <2> QED
    BY <1>3, <2>1, ZenonT(60)
<1> HIDE DEF go, s, promoted
<1>7. Range(job'[t]) = Range(go) \cup Range(Tail(job[t]))
  BY <1>1, <1>5, <1>6, ContinueJob, Zenon
<1>8. s \in Range(job'[t])
  BY <1>6, <1>7
<1> QED
  BY <1>2, <1>3, <1>8, Zenon DEF Taken

(* Every step leaves those counted as lost unserved and out of what pending  *)
(* steps may still do.                                                       *)
LEMMA SilentStep ==
    ASSUME TypeOK, StepsOK, Fresh, PresentIffServed, Silent, Next
    PROVE  Silent'
<1> USE DEF regVars, playVars, userVars, fileVars
<1>1. /\ peers \in [Users -> Entry] /\ job \in [Tasks -> Seq(Step)]
      /\ serving \in [Users -> SUBSET Conns] /\ \A u \in Users : peers[u].lost \in Nat
  BY DEF TypeOK, Entry
<1>2. SUFFICES ASSUME NEW u \in Users, peers'[u].lost > 0
               PROVE  serving'[u] = {} /\ Quiet(u)'
  BY DEF Silent
<1>3. ASSUME NEW v \in Users, NEW n \in Conns, Register(v) \/ Lost(v, n) \/ Goodbye(v, n),
             NEW t \in Tasks, NEW p, Starts(t, p)
      PROVE  serving'[u] = {} /\ Quiet(u)'
  <2>1. u # v
    BY <1>2, <1>3, ConnectionCounts
  <2>2. peers'[u] = peers[u] /\ serving'[u] = serving[u]
    BY <1>3, <2>1, ConnectionCounts
  <2>3. serving[u] = {} /\ Quiet(u)
    BY <1>2, <2>2 DEF Silent
  <2> QED
    BY <1>3, <2>2, <2>3, StartsQuiet, Zenon
<1>4. ASSUME NEW v \in Users, Register(v)
      PROVE  serving'[u] = {} /\ Quiet(u)'
  BY <1>3, <1>4, RegisterStarts, TaskUser, ZenonT(60)
<1>5. ASSUME NEW v \in Users, NEW n \in Conns, Lost(v, n) \/ Goodbye(v, n)
      PROVE  serving'[u] = {} /\ Quiet(u)'
  BY <1>3, <1>5, ConnectionStarts, TaskUser, ZenonT(60)
<1>6. ASSUME NEW v \in Users, NEW n \in Conns, Superseded(v, n)
      PROVE  serving'[u] = {} /\ Quiet(u)'
  <2>1. /\ peers' = peers /\ job' = job
        /\ serving' = [serving EXCEPT ![v] = @ \ {n}]
    BY <1>6, Zenon DEF Superseded
  <2>2. serving[u] = {} /\ Quiet(u)
    BY <1>2, <2>1 DEF Silent
  <2>3. serving'[u] = {}
    BY <1>1, <2>1, <2>2
  <2>4. Quiet(u)'
    BY <2>1, <2>2, ZenonT(60) DEF Quiet, Names
  <2> QED
    BY <2>3, <2>4
<1>7. ASSUME NEW v \in Users, NEW n \in Conns, Message(v, n)
      PROVE  serving'[u] = {} /\ Quiet(u)'
  <2>1. peers' = peers /\ serving' = serving
    BY <1>7, MessageCounts, Zenon
  <2>2. serving[u] = {} /\ Quiet(u)
    BY <1>2, <2>1 DEF Silent
  <2> QED
    BY <1>7, <2>1, <2>2, MessageStarts, StartsQuiet, TaskUser, ZenonT(60)
<1>8. ASSUME NEW t \in Tasks, Section(t)
      PROVE  serving'[u] = {} /\ Quiet(u)'
  <2>1. serving' = serving /\ peers'[u].lost = peers[u].lost
    BY <1>8, SectionFacts, SectionCounts, Zenon
  <2>2. serving[u] = {} /\ Quiet(u)
    BY <1>2, <2>1 DEF Silent
  <2>3. PICK p : Follows(t, p)
    BY <1>8, SectionFollows, Zenon
  <2> DEFINE h == Head(job[t])
  <2>4. /\ Range(job[t]) = {h} \cup Range(Tail(job[t]))
        /\ Range(job'[t]) = Range(p) \cup Range(Tail(job[t]))
        /\ \A s \in Tasks \ {t} : job'[s] = job[s]
    BY <1>1, <2>3, ContinueJob, ZenonT(60) DEF Follows
  <2>5. /\ \A s \in Range(p) : s.do = "pin" => s.infos = PeerInfos
        /\ \A s \in Range(p) : s.do = "authority" /\ s.to.by \in {"User", "Anchor"} =>
              h.do = "pin" /\ h.infos[s.to.user].presence = "Present"
    BY <2>3, ZenonT(60) DEF Follows
  <2> HIDE DEF h
  <2>6. PeerInfos[u].presence # "Present"
    <3>1. PeerInfos[u].presence = peers[u].presence
      BY DEF PeerInfos
    <3> QED
      BY <2>2, <3>1 DEF PresentIffServed
  <2>7. h.do = "pin" => h.infos[u].presence # "Present"
    BY <2>2, <2>4 DEF Quiet
  <2>8. \A s \in Range(p) : /\ s.do = "authority" => ~Names(s.to, u)
                            /\ s.do = "pin" => s.infos[u].presence # "Present"
    BY <2>5, <2>6, <2>7, ZenonT(60) DEF Names
  <2>9. Quiet(u)'
    BY <2>2, <2>4, <2>8, ZenonT(60) DEF Quiet, Names
  <2> QED
    BY <2>1, <2>2, <2>9
<1>9. ASSUME Tick
      PROVE  serving'[u] = {} /\ Quiet(u)'
  <2>1. serving' = serving /\ Idle
    BY <1>9, Zenon DEF Tick
  <2>2. peers[u].lost > 0 \/ peers[u].presence = "Lost"
    BY <1>2, <1>9, TickCounts
  <2>3. serving[u] = {}
    <3>1. CASE peers[u].lost > 0
      BY <3>1 DEF Silent
    <3>2. CASE peers[u].presence = "Lost"
      BY <2>1, <3>2 DEF Idle, PresentIffServed
    <3> QED
      BY <2>2, <3>1, <3>2
  <2>4. Quiet(u)
    BY <2>1, IdleSteps DEF Quiet
  <2> QED
    BY <1>9, <2>1, <2>3, <2>4, TickStarts, StartsQuiet, TaskUser, ZenonT(60)
<1> QED
  BY <1>4, <1>5, <1>6, <1>7, <1>8, <1>9 DEF Next

(* Every step leaves authority either with somebody who has not timed out or *)
(* on its way back.                                                          *)
LEMMA RescuingStep ==
    ASSUME TypeOK, StepsOK, Fresh, Silent, Rescuing, Next
    PROVE  Rescuing'
<1> USE DEF regVars, playVars, userVars, fileVars
<1>1. /\ peers \in [Users -> Entry] /\ job \in [Tasks -> Seq(Step)]
      /\ serving \in [Users -> SUBSET Conns] /\ \A u \in Users : peers[u].lost \in Nat
  BY DEF TypeOK, Entry
<1>2. SUFFICES ASSUME NEW u \in Users, peers'[u].lost > 0, peers'[u].presence = "Departed",
                      Names(authority', u)
               PROVE  Taken(u)'
  BY DEF Rescuing, Names
<1>3. ASSUME NEW v \in Users, NEW n \in Conns, Register(v) \/ Lost(v, n) \/ Goodbye(v, n),
             NEW t \in Tasks, NEW p, Starts(t, p)
      PROVE  Taken(u)'
  <2>1. u # v
    BY <1>2, <1>3, ConnectionCounts
  <2>2. peers'[u] = peers[u] /\ authority' = authority
    BY <1>3, <2>1, ConnectionCounts
  <2>3. Taken(u)
    BY <1>2, <2>2 DEF Rescuing
  <2> QED
    BY <1>3, <2>3, StartsQuiet, Zenon
<1>4. ASSUME NEW v \in Users, Register(v)
      PROVE  Taken(u)'
  BY <1>3, <1>4, RegisterStarts, TaskUser, ZenonT(60)
<1>5. ASSUME NEW v \in Users, NEW n \in Conns, Lost(v, n) \/ Goodbye(v, n)
      PROVE  Taken(u)'
  BY <1>3, <1>5, ConnectionStarts, TaskUser, ZenonT(60)
<1>6. ASSUME NEW v \in Users, NEW n \in Conns, Superseded(v, n)
      PROVE  Taken(u)'
  <2>1. peers' = peers /\ job' = job /\ authority' = authority
    BY <1>6, Zenon DEF Superseded
  <2>2. Taken(u)
    BY <1>2, <2>1 DEF Rescuing
  <2> QED
    BY <2>1, <2>2, Zenon DEF Taken
<1>7. ASSUME NEW v \in Users, NEW n \in Conns, Message(v, n)
      PROVE  Taken(u)'
  <2>1. /\ peers' = peers /\ n \in serving[v]
        /\ authority' = authority \/ authority' = ByUser(v)
    BY <1>7, MessageCounts, Zenon
  <2>2. authority' # ByUser(v)
    <3>1. serving[u] = {}
      BY <1>2, <2>1 DEF Silent
    <3>2. ByUser(v).user = v
      BY DEF ByUser
    <3> QED
      BY <1>2, <2>1, <3>1, <3>2 DEF Names
  <2>3. Taken(u)
    BY <1>2, <2>1, <2>2 DEF Rescuing
  <2> QED
    BY <1>7, <2>3, MessageStarts, StartsQuiet, TaskUser, ZenonT(60)
<1>8. ASSUME NEW t \in Tasks, Section(t)
      PROVE  Taken(u)'
  <2> DEFINE h == Head(job[t])
  <2>1. /\ peers'[u].lost = peers[u].lost
        /\ \/ peers'[u].presence = peers[u].presence
           \/ RunDepart(t) /\ peers[u].presence = "Lost" /\ peers[u].lost >= DepartAfter
        /\ authority' = authority \/ authority' = ByServer \/ h.do = "authority"
        /\ h.do = "authority" => authority' = h.to
    BY <1>8, SectionCounts, ZenonT(60)
  <2>2. PICK p : Follows(t, p)
    BY <1>8, SectionFollows, Zenon
  <2>3. /\ Range(job[t]) = {h} \cup Range(Tail(job[t]))
        /\ Range(job'[t]) = Range(p) \cup Range(Tail(job[t]))
        /\ \A s \in Tasks \ {t} : job'[s] = job[s]
    BY <1>1, <2>2, ContinueJob, ZenonT(60) DEF Follows
  <2>4. /\ h.do = "rescues" => \A v \in h.gone : \E s \in Range(p) :
              (s.do = "rescue" /\ s.user = v) \/ (s.do = "rescues" /\ v \in s.gone)
        /\ h.do = "rescue" /\ authority.by \in {"User", "Anchor"} /\ authority.user = h.user =>
              \E s \in Range(p) : s.do = "authority" /\ s.to = ByServer
    BY <2>2, ZenonT(60) DEF Follows
  <2> HIDE DEF h
  <2>5. h.do # "authority"
    <3>1. Quiet(u)
      BY <1>2, <2>1 DEF Silent
    <3>2. h.do = "authority" => ~Names(h.to, u)
      BY <2>3, <3>1, Zenon DEF Quiet
    <3> QED
      BY <1>2, <2>1, <3>2, Zenon
  <2>6. authority' = authority
    <3>1. ~Names(ByServer, u)
      BY DEF Names, ByServer
    <3> QED
      BY <1>2, <2>1, <2>5, <3>1, Zenon
  <2>7. CASE peers[u].presence = "Departed"
    <3>0. PICK r \in Tasks : \E s \in Range(job[r]) :
              \/ s.do = "authority"
              \/ s.do = "rescue" /\ s.user = u
              \/ s.do = "rescues" /\ u \in s.gone
      BY <1>2, <2>1, <2>6, <2>7, Zenon DEF Rescuing, Taken
    <3>1. PICK s \in Range(job[r]) :
              \/ s.do = "authority"
              \/ s.do = "rescue" /\ s.user = u
              \/ s.do = "rescues" /\ u \in s.gone
      BY <3>0, Zenon
    <3>2. CASE r # t \/ s # h
      <4>1. s \in Range(job'[r])
        BY <2>3, <3>2, ZenonT(60)
      <4> QED
        BY <3>1, <4>1, ZenonT(60) DEF Taken
    <3>3. CASE r = t /\ s = h
      <4>1. \E q \in Range(p) : \/ q.do = "authority"
                                \/ q.do = "rescue" /\ q.user = u
                                \/ q.do = "rescues" /\ u \in q.gone
        BY <1>2, <2>4, <2>5, <2>6, <3>1, <3>3, ZenonT(60) DEF Names
      <4> QED
        BY <2>3, <4>1, ZenonT(60) DEF Taken
    <3> QED
      BY <3>2, <3>3, Zenon
  <2>8. CASE peers[u].presence # "Departed"
    <3>1. u \in Viewers
      BY <1>2, <2>6 DEF TypeOK, Authority, Names, ByServer, ByUser, ByLaggard, ByAnchor
    <3> QED
      BY <1>2, <2>1, <2>8, <3>1, DepartRescues, Zenon
  <2> QED
    BY <2>7, <2>8
<1>9. ASSUME Tick
      PROVE  Taken(u)'
  <2>1. authority' = authority
    BY <1>9, Zenon DEF Tick
  <2>2. peers[u].presence = "Departed" /\ peers[u].lost > 0
    BY <1>2, <1>9, TickCounts
  <2>3. Taken(u)
    BY <1>2, <2>1, <2>2 DEF Rescuing
  <2> QED
    BY <1>9, <2>3, TickStarts, StartsQuiet, TaskUser, ZenonT(60)
<1> QED
  BY <1>4, <1>5, <1>6, <1>7, <1>8, <1>9 DEF Next

-----------------------------------------------------------------------------
(* The theorems. *)

(* The inductive invariant: GraceFileMatches and its companions need the     *)
(* shape of the pending steps, and that of a connection still to come has no *)
(* task; DropsAnswered and WindowsRunOut speak only of idle moments and need *)
(* what is pending in between, as NoGhostAuthority does with the seeks and   *)
(* anchors still under way when somebody drops.                              *)
IInv ==
    /\ TypeOK /\ StepsOK /\ Fresh /\ RegistryOK
    /\ Answered /\ Expiring /\ Silent /\ Rescuing

(* The invariant holds of the room a server starts with. *)
LEMMA InitIInv == Init => IInv
<1> SUFFICES ASSUME Init PROVE IInv
  OBVIOUS
<1> DEFINE none == <<>>
<1>1. none \in Seq(Step) /\ Range(none) = {}
  BY ShortPrograms
<1>2. /\ peers = [u \in Users |-> NoEntry] /\ job = [t \in Tasks |-> none]
      /\ graceFile = NoFile /\ unanswered = {} /\ serving = [u \in Users |-> {}]
  BY DEF Init
<1> HIDE DEF none
<1>3. NoEntry \in Entry
  BY TimersAssumption DEF NoEntry, Entry, Stages, NoWindow
<1>4. job \in [Tasks -> Seq(Step)] /\ \A t \in Tasks : Range(job[t]) = {}
  BY <1>1, <1>2
<1>5. TypeOK
  <2>1. left \in Nat /\ watched \subseteq Files /\ saved \in [Files -> SUBSET Users]
    BY BoundsAssumption DEF Init
  <2>2. known \subseteq Users
    BY DEF Init, Viewers
  <2>3. /\ intent \in {"Playing", "Paused"} /\ nowPlaying \in Files \cup {NoFile}
        /\ authority \in Authority
        /\ hold \in [Users -> {"none", "Paused", "Away"}]
        /\ acked \subseteq Files \X Users /\ avail \in [Files \X Users -> Availabilities]
        /\ loaded \in [Users -> Files \cup {NoFile}]
    BY DEF Init
  <2>4. /\ peers \in [Users -> Entry] /\ graceFile \in Files \cup {NoFile}
        /\ serving \in [Users -> SUBSET Conns] /\ unanswered \subseteq Users
    BY <1>2, <1>3
  <2> QED
    BY <1>4, <2>1, <2>2, <2>3, <2>4, ZenonT(60) DEF TypeOK
<1>6. StepsOK /\ Answered
  BY <1>2, <1>4 DEF StepsOK, Answered
<1>7. RegistryOK /\ Expiring
  BY <1>2 DEF RegistryOK, GraceFileMatches, WindowsOfTheAbsent, PresentIffServed, Windowed,
       Expiring, NoEntry, NoWindow
<1>8. Fresh
  <2>1. \A u \in Users, n \in Conns : job[<<u, n>>] = none /\ n \notin serving[u]
    BY <1>2, TaskUser, ZenonT(60)
  <2> QED
    BY <2>1 DEF Fresh, none
<1>9. Silent /\ Rescuing
  BY <1>2 DEF Silent, Rescuing, NoEntry
<1> QED
  BY <1>5, <1>6, <1>7, <1>8, <1>9 DEF IInv

(* The invariant is inductive. *)
LEMMA NextIInv == IInv /\ [Next]_vars => IInv'
<1> SUFFICES ASSUME IInv, [Next]_vars PROVE IInv'
  OBVIOUS
<1>1. CASE Next
  <2>1. TypeOK' /\ StepsOK' /\ Fresh' /\ RegistryOK' /\ Answered' /\ Expiring'
    BY <1>1, ShapesStep, FreshStep, RegistryStep, PendingStep DEF IInv
  <2>2. Silent' /\ Rescuing'
    BY <1>1, SilentStep, RescuingStep DEF IInv, RegistryOK
  <2> QED
    BY <2>1, <2>2 DEF IInv
<1>2. CASE UNCHANGED vars
  <2> USE <1>2 DEF IInv, vars, regVars, playVars, userVars, fileVars
  <2>1. TypeOK'
    BY Zenon DEF TypeOK
  <2>2. StepsOK'
    BY Zenon DEF StepsOK, StepOK
  <2>3. Fresh'
    BY Zenon DEF Fresh
  <2>4. RegistryOK'
    BY ZenonT(60) DEF RegistryOK, GraceFileMatches, WindowsOfTheAbsent, PresentIffServed, Windowed
  <2>5. Answered' /\ Expiring'
    BY ZenonT(60) DEF Answered, Expiring
  <2>6. Silent' /\ Rescuing'
    BY ZenonT(60) DEF Silent, Rescuing, Quiet, Taken, Names
  <2> QED
    BY <2>1, <2>2, <2>3, <2>4, <2>5, <2>6, ZenonT(60)
<1> QED
  BY <1>1, <1>2

(* The invariant holds throughout. *)
LEMMA IInvHolds == Spec => []IInv
BY InitIInv, NextIInv, PTL DEF Spec

(* Every variable keeps its type, whatever the handlers of the server        *)
(* interleave like.                                                          *)
THEOREM PresenceTypes == Spec => []TypeOK
<1>1. IInv => TypeOK
  BY DEF IInv
<1> QED
  BY <1>1, IInvHolds, PTL

(* grace_file is set exactly while a window is open, as Registry's comment   *)
(* says, for any number of users and tasks (open_grace_window,               *)
(* close_grace_windows, serve_connection).                                   *)
THEOREM GraceFileAlwaysMatches == Spec => []GraceFileMatches
<1>1. IInv => GraceFileMatches
  BY DEF IInv, RegistryOK
<1> QED
  BY <1>1, IInvHolds, PTL

(* A window is always that of an absent viewer (open_grace_window).          *)
THEOREM WindowsStayWithTheAbsent == Spec => []WindowsOfTheAbsent
<1>1. IInv => WindowsOfTheAbsent
  BY DEF IInv, RegistryOK
<1> QED
  BY <1>1, IInvHolds, PTL

(* A user is Present exactly while the connection their entry names is       *)
(* served, however often they reconnect (serve_connection).                  *)
THEOREM PresenceFollowsService == Spec => []PresentIffServed
<1>1. IInv => PresentIffServed
  BY DEF IInv, RegistryOK
<1> QED
  BY <1>1, IInvHolds, PTL

(* Every drop and quit has been answered by a window, a pause or a return    *)
(* whenever the server is idle (serve_connection's teardown).                *)
THEOREM DropsGetAnswered == Spec => []DropsAnswered
<1>1. IInv => DropsAnswered
  BY IdleSteps DEF IInv, Answered, DropsAnswered
<1> QED
  BY <1>1, IInvHolds, PTL

(* No window is left at zero by a finished sweep (sweep_grace, force_pause). *)
THEOREM WindowsEnd == Spec => []WindowsRunOut
<1>1. ASSUME IInv, Idle, NEW u \in Windowed
      PROVE  peers[u].grace > 0
  <2>1. peers[u].grace # 0
    BY <1>1, IdleSteps DEF IInv, Expiring, Windowed
  <2>2. peers[u].grace \in 0..Grace
    BY <1>1 DEF IInv, TypeOK, Entry, Windowed
  <2> QED
    BY <2>1, <2>2, TimersAssumption
<1>2. IInv => WindowsRunOut
  BY <1>1 DEF WindowsRunOut
<1> QED
  BY <1>2, IInvHolds, PTL

(* Whoever timed out and is Departed holds no seek authority once the server *)
(* is idle, whatever seeks, anchors and earlier connections were under way   *)
(* as they dropped (sweep_departed, take_authority_from).                    *)
THEOREM AuthorityGetsRescued == Spec => []NoGhostAuthority
<1>1. ASSUME IInv, Idle, authority.by \in {"User", "Anchor"},
             peers[authority.user].presence = "Departed"
      PROVE  peers[authority.user].lost = 0
  <2>1. authority.user \in Users
    BY <1>1 DEF IInv, TypeOK, Authority, ByServer, ByUser, ByLaggard, ByAnchor, Viewers
  <2>2. peers[authority.user].lost \in Nat
    BY <1>1, <2>1 DEF IInv, TypeOK, Entry
  <2>3. ~Taken(authority.user)
    BY <1>1, IdleSteps DEF Taken
  <2> QED
    BY <1>1, <2>1, <2>2, <2>3 DEF IInv, Rescuing, Names
<1>2. IInv => NoGhostAuthority
  BY <1>1 DEF NoGhostAuthority
<1> QED
  BY <1>2, IInvHolds, PTL
=============================================================================
