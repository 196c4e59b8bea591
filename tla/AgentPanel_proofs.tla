-------------------------- MODULE AgentPanel_proofs --------------------------
(* Proofs about AgentPanel, for every set of settings and addresses and every bound.  *)
(*                                                                                   *)
(* Both theorems rest on what is true of every request in flight, whatever the panel *)
(* shows by now: one that says "confirmed" names an address that was agreed to, and  *)
(* one that changes an agent carries the revision its sender was shown.              *)
EXTENDS AgentPanel, TLAPS

\* A record with the fields of a request: what EXCEPT does to it is known.
IsRequest(r) ==
  r = [by |-> r.by, what |-> r.what, body |-> r.body, rev |-> r.rev, seen |-> r.seen,
       session |-> r.session, home |-> r.home, reply |-> r.reply, got |-> r.got]

\* A request that may be in flight when the addresses in `as` have been agreed to.
Sound(r, as) ==
  /\ IsRequest(r)
  /\ r.by = "address" /\ r.what = "confirmed" => r.body \in as
  /\ r.by = "mutate" => r.seen = r.rev

NetSound == \A r \in net : Sound(r, agreed)

KeptIsFunction == kept = [k \in Kind |-> kept[k]]

\* The inductive invariant.
IndInv == NetSound /\ KeptIsFunction

-----------------------------------------------------------------------------
\* What makes a request sound is not its session, its form or its answer.
Like(r, session, home, reply, got) ==
  [by |-> r.by, what |-> r.what, body |-> r.body, rev |-> r.rev, seen |-> r.seen,
   session |-> session, home |-> home, reply |-> reply, got |-> got]

\* A request that differs in these four fields only is as sound.
LEMMA LikeIsSound ==
  ASSUME NEW r, NEW as, Sound(r, as), NEW session, NEW home, NEW reply, NEW got
  PROVE  Sound(Like(r, session, home, reply, got), as)
<1> DEFINE s == Like(r, session, home, reply, got)
<1>1. /\ s.by = r.by /\ s.what = r.what /\ s.body = r.body
      /\ s.rev = r.rev /\ s.seen = r.seen
  BY DEF Like
<1>2. IsRequest(s) BY DEF IsRequest, Like
<1> HIDE DEF s
<1>3. Sound(s, as) BY <1>1, <1>2 DEF Sound
<1> QED BY <1>3 DEF s

\* A request stays sound when more is agreed to, when it is answered, when its form is
\* replaced, and when the session is filled in.
LEMMA SoundStays ==
  ASSUME NEW r, NEW as, NEW bs, as \subseteq bs, Sound(r, as), NEW x, NEW y
  PROVE  /\ Sound(r, bs)
         /\ Sound([r EXCEPT !.reply = x], bs)
         /\ Sound([r EXCEPT !.reply = x, !.got = y], bs)
         /\ Sound([r EXCEPT !.home = x], bs)
         /\ Sound([r EXCEPT !.session = x], bs)
<1>1. Sound(r, bs) BY DEF Sound
<1>2. IsRequest(r) BY DEF Sound
<1>3. [r EXCEPT !.reply = x] = Like(r, r.session, r.home, x, r.got)
  BY <1>2 DEF IsRequest, Like
<1>4. [r EXCEPT !.home = x] = Like(r, r.session, x, r.reply, r.got)
  BY <1>2 DEF IsRequest, Like
<1>5. [r EXCEPT !.session = x] = Like(r, x, r.home, r.reply, r.got)
  BY <1>2 DEF IsRequest, Like
<1>6. [r EXCEPT !.reply = x, !.got = y] = [[r EXCEPT !.reply = x] EXCEPT !.got = y]
  BY <1>2 DEF IsRequest
<1>7. [Like(r, r.session, r.home, x, r.got) EXCEPT !.got = y] = Like(r, r.session, r.home, x, y)
  BY DEF Like
<1>8. [r EXCEPT !.reply = x, !.got = y] = Like(r, r.session, r.home, x, y)
  BY <1>3, <1>6, <1>7
<1> QED BY <1>1, <1>3, <1>4, <1>5, <1>8, LikeIsSound

\* A new request is sound unless it confirms an address or changes an agent.
LEMMA NewIsSound ==
  ASSUME NEW by, NEW what, NEW body, NEW rev, NEW as, by # "mutate",
         by = "address" /\ what = "confirmed" => body \in as
  PROVE  Sound(Request(by, what, body, rev), as)
BY DEF Sound, IsRequest, Request

\* The same of the request that loads a page.
LEMMA LoadIsSound ==
  ASSUME NEW p \in Page, NEW as
  PROVE  \A r \in Load(p) : Sound(r, as)
BY NewIsSound DEF Load, Page

\* What `seen` is replaced by in a request.
LEMMA SeenReplaced ==
  ASSUME NEW r, IsRequest(r), NEW x
  PROVE  [r EXCEPT !.seen = x] =
           [by |-> r.by, what |-> r.what, body |-> r.body, rev |-> r.rev, seen |-> x,
            session |-> r.session, home |-> r.home, reply |-> r.reply, got |-> r.got]
BY DEF IsRequest

\* A change of an agent carries the revision that was shown with it.
LEMMA MutateIsSound ==
  ASSUME NEW what, NEW body, NEW q, NEW as
  PROVE  Sound([Request("mutate", what, body, Revision(q)) EXCEPT !.seen = q.rev], as)
<1> DEFINE r == Request("mutate", what, body, Revision(q))
<1>1. /\ IsRequest(r) /\ r.by = "mutate" /\ r.rev = q.rev
  BY DEF IsRequest, Request, Revision
<1> DEFINE s == [by |-> r.by, what |-> r.what, body |-> r.body, rev |-> r.rev, seen |-> q.rev,
                 session |-> r.session, home |-> r.home, reply |-> r.reply, got |-> r.got]
<1>2. [r EXCEPT !.seen = q.rev] = s BY <1>1, SeenReplaced
<1>3. Sound(s, as) BY <1>1 DEF Sound, IsRequest
<1> QED BY <1>2, <1>3

-----------------------------------------------------------------------------
\* Answers of the server leave the requests sound and the files whole.
LEMMA ServerStep ==
  ASSUME IndInv, NEW r \in net, Serve(r) \/ Fail(r)
  PROVE  IndInv'
<1> USE DEF IndInv, NetSound
<1>1. CASE Serve(r)
  <2>1. KeptIsFunction' BY <1>1 DEF Serve, KeptIsFunction
  <2>2. agreed' = agreed BY <1>1 DEF Serve
  <2>3. net' \subseteq net \cup {[r EXCEPT !.reply = Refusal(r)]} \cup
                 {[r EXCEPT !.reply = "ok",
                            !.got = [k \in Kind |-> IF k \in Reads(r) THEN kept'[k] ELSE None]]}
    BY <1>1 DEF Serve
  <2>4. Sound(r, agreed) OBVIOUS
  <2>5. /\ Sound([r EXCEPT !.reply = Refusal(r)], agreed)
        /\ Sound([r EXCEPT !.reply = "ok",
                           !.got = [k \in Kind |-> IF k \in Reads(r) THEN kept'[k] ELSE None]],
                 agreed)
    BY <2>4, SoundStays
  <2>6. NetSound' BY <2>2, <2>3, <2>5
  <2> QED BY <2>1, <2>6
<1>2. CASE Fail(r)
  <2>1. KeptIsFunction' BY <1>2 DEF Fail, KeptIsFunction, server
  <2>2. Sound(r, agreed) OBVIOUS
  <2>3. Sound([r EXCEPT !.reply = "failed"], agreed) BY <2>2, SoundStays
  <2>4. NetSound' BY <1>2, <2>3 DEF Fail
  <2> QED BY <2>1, <2>4
<1> QED BY <1>1, <1>2

\* So do the answers as the panel reads them, and what it sends next.
LEMMA AnswerStep ==
  ASSUME IndInv, page \in Page, NEW r \in net, Answered(r)
  PROVE  IndInv'
<1> USE DEF IndInv, NetSound
<1>1. kept' = kept /\ agreed' = agreed
  BY DEF Answered, LoadAnswered, AddressAnswered, AddressRead, MutateAnswered, server
<1>2. KeptIsFunction' BY <1>1 DEF KeptIsFunction
<1>3. \/ net' \subseteq net
      \/ net' \subseteq net \cup Load("general")
      \/ net' \subseteq {[q EXCEPT !.home = FALSE] : q \in net}
  BY DEF Answered, LoadAnswered, AddressAnswered, AddressRead, MutateAnswered, LoggedOut,
         ShowLogin, Ignored, Current
<1>4. \A q \in Load("general") : Sound(q, agreed) BY LoadIsSound DEF Page
<1>5. \A q \in net : Sound([q EXCEPT !.home = FALSE], agreed)
  <2> SUFFICES ASSUME NEW q \in net PROVE Sound([q EXCEPT !.home = FALSE], agreed) OBVIOUS
  <2>1. Sound(q, agreed) OBVIOUS
  <2> QED BY <2>1, SoundStays
<1>6. NetSound' BY <1>1, <1>3, <1>4, <1>5
<1> QED BY <1>2, <1>6

\* So does whatever the administrator does, whoever else writes and whatever the stream
\* brings.
LEMMA PanelStep ==
  ASSUME IndInv, page \in Page,
         [Next]_vars, ~(\E r \in net : Serve(r) \/ Fail(r) \/ Answered(r))
  PROVE  IndInv'
<1> USE DEF IndInv, NetSound
<1>1. CASE \E k \in Kind : OtherWrites(k)
  BY <1>1 DEF OtherWrites, KeptIsFunction, Kind
<1>2. CASE SessionExpires \/ Publish \/ ReceiveFrame
  BY <1>2 DEF SessionExpires, Publish, ReceiveFrame, KeptIsFunction, server
<1>3. CASE Login
  <2>1. \A r \in Load(page) : Sound(r, agreed) BY LoadIsSound
  <2>2. kept' = kept /\ agreed' = agreed BY <1>3 DEF Login
  <2>3. net' = net \cup {[r EXCEPT !.session = sessions'] : r \in Load(page)} BY <1>3 DEF Login
  <2>4. \A r \in Load(page) : Sound([r EXCEPT !.session = sessions'], agreed)
    <3> SUFFICES ASSUME NEW r \in Load(page)
                 PROVE  Sound([r EXCEPT !.session = sessions'], agreed)
      OBVIOUS
    <3>1. Sound(r, agreed) BY <2>1
    <3> QED BY <3>1, SoundStays
  <2>5. NetSound' BY <2>2, <2>3, <2>4
  <2> QED BY <2>2, <2>5 DEF KeptIsFunction
<1>4. CASE AuthRequired
  BY <1>4 DEF AuthRequired, ShowLogin, KeptIsFunction, server
<1>5. CASE \E p \in Page : Navigate(p)
  BY <1>5, LoadIsSound DEF Navigate, KeptIsFunction, server
<1>6. CASE \E a \in Address : TypeAddress(a)
  BY <1>6 DEF TypeAddress, KeptIsFunction, server
<1>7. CASE \E what \in {"create", "update", "rotate"} : AgentAction(what)
  BY <1>7, NewIsSound DEF AgentAction, KeptIsFunction, server
<1>8. CASE \E v \in Value : SubmitForm(v)
  BY <1>8, MutateIsSound DEF SubmitForm, Mutate, KeptIsFunction, server
<1>9. CASE SubmitAddress
  <2>1. Sound(Request("address", None, Field, data["general"]), agreed)
    BY NewIsSound, AgentPanelAssumption
  <2> QED BY <1>9, <2>1 DEF SubmitAddress, KeptIsFunction, server
<1>10. CASE Agree
  <2>1. Sound(Confirmed(confirm), agreed') BY <1>10, NewIsSound DEF Agree, Confirmed
  <2>2. agreed \subseteq agreed' /\ net' = net \cup {Confirmed(confirm)} BY <1>10 DEF Agree
  <2>3. \A r \in net : Sound(r, agreed')
    <3> SUFFICES ASSUME NEW r \in net PROVE Sound(r, agreed') OBVIOUS
    <3>1. Sound(r, agreed) OBVIOUS
    <3> QED BY <2>2, <3>1, SoundStays
  <2>4. NetSound' BY <2>1, <2>2, <2>3
  <2> QED BY <1>10, <2>4 DEF Agree, KeptIsFunction, server
<1>11. CASE Decline \/ AskDelete \/ CloseModal
  BY <1>11 DEF Decline, AskDelete, CloseModal, KeptIsFunction, server
<1>12. CASE AgreeAgent
  BY <1>12, MutateIsSound DEF AgreeAgent, Mutate, KeptIsFunction, server
<1>13. CASE UNCHANGED vars
  BY <1>13 DEF vars, server, KeptIsFunction
<1> QED BY <1>1, <1>2, <1>3, <1>4, <1>5, <1>6, <1>7, <1>8, <1>9, <1>10, <1>11, <1>12, <1>13 DEF Next

\* The page is one of the two.
THEOREM PageAlways == Spec => [](page \in Page)
<1>1. Init => page \in Page BY DEF Init
<1>2. page \in Page /\ [Next]_vars => (page \in Page)'
  <2> SUFFICES ASSUME page \in Page, [Next]_vars PROVE page' \in Page OBVIOUS
  <2> USE DEF Page
  <2>1. CASE \E r \in net : Serve(r) \/ Fail(r) \/ Answered(r)
    BY <2>1 DEF Serve, Fail, Answered, LoadAnswered, AddressAnswered, AddressRead,
                MutateAnswered
  <2>2. CASE \E k \in Kind : OtherWrites(k)
    BY <2>2 DEF OtherWrites
  <2>3. CASE SessionExpires \/ Publish \/ ReceiveFrame \/ Login \/ AuthRequired
    BY <2>3 DEF SessionExpires, Publish, ReceiveFrame, Login, AuthRequired
  <2>4. CASE \E p \in Page : Navigate(p)
    BY <2>4 DEF Navigate
  <2>5. CASE (\E a \in Address : TypeAddress(a)) \/ (\E v \in Value : SubmitForm(v))
    BY <2>5 DEF TypeAddress, SubmitForm
  <2>6. CASE \E what \in {"create", "update", "rotate"} : AgentAction(what)
    BY <2>6 DEF AgentAction
  <2>7. CASE SubmitAddress \/ Agree \/ Decline \/ AskDelete \/ AgreeAgent \/ CloseModal
    BY <2>7 DEF SubmitAddress, Agree, Decline, AskDelete, AgreeAgent, CloseModal
  <2>8. CASE UNCHANGED vars BY <2>8 DEF vars
  <2> QED BY <2>1, <2>2, <2>3, <2>4, <2>5, <2>6, <2>7, <2>8 DEF Next
<1> QED BY <1>1, <1>2, PTL DEF Spec

\* The invariant: every request in flight is sound, and the files stay whole.
THEOREM Invariance == Spec => []IndInv
<1>1. Init => IndInv BY DEF Init, IndInv, NetSound, KeptIsFunction, Kind
<1>2. IndInv /\ page \in Page /\ [Next]_vars => IndInv'
  BY ServerStep, AnswerStep, PanelStep
<1> QED BY <1>1, <1>2, PageAlways, PTL DEF Spec

-----------------------------------------------------------------------------
\* agents.js:55-57, 151-157: what is accepted of an agent was decided by somebody who was
\* shown the agents as they are.
THEOREM ShownAlways == Spec => AgentsChangedAsShown
<1>1. ASSUME IndInv, NEW r \in Pending("mutate"), Serve(r), kept' # kept
      PROVE  r.seen = kept["agents"]
  <2>1. r \in net /\ r.by = "mutate" BY <1>1 DEF Pending
  <2>2. Sound(r, agreed) BY <1>1, <2>1 DEF IndInv, NetSound
  <2>3. Writes(r) = {"agents"} BY <2>1 DEF Writes
  <2>4. CASE Refusal(r) # None
    <3>1. kept' = [k \in Kind |-> kept[k]] BY <1>1, <2>4 DEF Serve
    <3> QED BY <1>1, <3>1 DEF IndInv, KeptIsFunction
  <2>5. CASE Refusal(r) = None
    BY <2>1, <2>2, <2>3, <2>5, AgentPanelAssumption DEF Refusal, Sound
  <2> QED BY <2>4, <2>5
<1>2. IndInv /\ [Next]_vars
        => [\A r \in Pending("mutate") : Serve(r) /\ kept' # kept => r.seen = kept["agents"]]_vars
  BY <1>1
<1> QED BY <1>2, Invariance, PTL DEF Spec, AgentsChangedAsShown

\* general.js:42-46: HTTP is allowed for no address but one that the administrator was
\* asked about.
THEOREM AgreedAlways == Spec => HttpWasAgreed
<1>1. ASSUME IndInv, NEW r \in Pending("address"), Serve(r), kept' # kept,
             r.body \in Http \/ r.what = "confirmed"
      PROVE  r.body \in agreed
  <2>1. r \in net /\ r.by = "address" BY <1>1 DEF Pending
  <2>2. Sound(r, agreed) BY <1>1, <2>1 DEF IndInv, NetSound
  <2>3. SUFFICES ASSUME r.what # "confirmed" PROVE FALSE BY <2>1, <2>2 DEF Sound
  <2>4. Writes(r) = {"general"} BY <2>1 DEF Writes
  <2>5. CASE Refusal(r) # None
    <3>1. kept' = [k \in Kind |-> kept[k]] BY <1>1, <2>5 DEF Serve
    <3> QED BY <1>1, <3>1 DEF IndInv, KeptIsFunction
  <2>6. CASE Refusal(r) = None
    <3>1. ~NeedsConsent(r) BY <2>6, AgentPanelAssumption DEF Refusal
    <3>2. r.body = kept["general"] BY <1>1, <2>1, <2>3, <3>1 DEF NeedsConsent
    <3>3. kept' = [k \in Kind |-> kept[k]] BY <1>1, <2>4, <2>6, <3>2 DEF Serve, Kind
    <3> QED BY <1>1, <3>3 DEF IndInv, KeptIsFunction
  <2> QED BY <2>5, <2>6
<1>2. IndInv /\ [Next]_vars
        => [\A r \in Pending("address") :
              Serve(r) /\ kept' # kept /\ (r.body \in Http \/ r.what = "confirmed")
                => r.body \in agreed]_vars
  BY <1>1
<1> QED BY <1>2, Invariance, PTL DEF Spec, HttpWasAgreed
=============================================================================
