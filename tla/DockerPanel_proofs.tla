------------------------- MODULE DockerPanel_proofs -------------------------
(* The proofs about the Docker page and the container picker, for every set of        *)
(* endpoints, lists and routes and every bound that DockerAssumption admits.          *)
(*                                                                                    *)
(* Both theorems rest on dockerPickerToken (docker.js:163): of the requests that lead *)
(* from an opening of the picker to its rows at most one is fresh, no rows are shown  *)
(* meanwhile, and the selection waits in it.  An answer for an agent's ports can land *)
(* only while the picker has been open since, and an open picker keeps the editor     *)
(* below it as it was, or the editor is another.                                      *)
EXTENDS DockerPanel, WellFoundedInduction, TLAPS

\* A record with the fields of a request: what EXCEPT does to it is known.
IsRequest(r) ==
  r = [by |-> r.by, what |-> r.what, rev |-> r.rev, session |-> r.session,
       fresh |-> r.fresh, home |-> r.home, reply |-> r.reply, got |-> r.got]

\* The rows that the answer brings are a list.
Sound(r) == IsRequest(r) /\ (r.by \in Source /\ r.reply = "ok" => Len(r.got.ends) \in Nat)

RequestsSound == \A r \in net : Sound(r)

OffersSound ==
  /\ offers = [s \in Source |-> offers[s]]
  /\ \A s \in Source : offers[s] \in Lists[s] \/ (s = "agent" /\ offers[s] = None)

PickerSound ==
  /\ source \in Source
  /\ Picking => picker = [body |-> picker.body, source |-> picker.source,
                          entry |-> picker.entry, ends |-> picker.ends,
                          chosen |-> picker.chosen, asked |-> picker.asked]

\* The targets of the open editor are of the route it edits.
EditorSound ==
  modal # None => /\ modal = [route |-> modal.route, targets |-> modal.targets]
                  /\ Usable
                  /\ \A t \in modal.targets : t.route = modal.route

\* The requests that lead from an opening of the picker to its rows.
Chain(r) == r.by \in Source \cup {"agents"}

\* Ports are asked for from the rows of the picker: there is no request for rows then.
Alone ==
  \A q, r \in net : q.fresh /\ r.fresh /\ Chain(q) /\ (Chain(r) \/ r.by = "targets") => q = r

Keeps(selection) == selection.place # 0 => selection.ends[selection.place] = meant

\* While rows are on their way none are shown, and the selection waits with the request.
ChainMeant == \A r \in net : r.fresh /\ Chain(r) => ~Rows /\ Keeps(r.what)

\* An answer that can still land has the targets of the open editor in it.
Landing(r) == r.by = "targets" /\ r.fresh /\ r.home /\ Picking

TargetsSound ==
  \A r \in net : Landing(r) => /\ modal # None
                               /\ \A t \in r.what.all : t.route = modal.route
                               /\ r.what.kept => modal.targets \subseteq r.what.all

\* What is known of the picker, with the assumption on the constants it rests on.
Panel == /\ DockerAssumption
         /\ PickerSound /\ EditorSound /\ Alone /\ ChainMeant /\ TargetsSound
         /\ RequestsSound /\ ChosenIsMeant

IInv == OffersSound /\ Panel

-----------------------------------------------------------------------------
\* A set of natural numbers has a least one: well-founded induction, for one relation.
LEMMA LeastBy ==
  ASSUME NEW R, IsWellFoundedOn(R, Nat), NEW S \in SUBSET Nat, S # {}
  PROVE  \E n \in S : \A m \in S : ~ (<<m, n>> \in R)
<1>1. S \subseteq Nat  OBVIOUS
<1> QED  BY <1>1, WFMin

\* The same for the order of numbers.
LEMMA Least ==
  ASSUME NEW S \in SUBSET Nat, S # {}
  PROVE  \E n \in S : \A m \in S : n <= m
<1>1. SUFFICES ASSUME NEW R, IsWellFoundedOn(R, Nat),
                      \A m, n \in Nat : m < n => <<m, n>> \in R
               PROVE  \E n \in S : \A m \in S : n <= m
  <2>1. IsWellFoundedOn(OpToRel(<, Nat), Nat)  BY NatLessThanWellFounded
  <2>2. \A m, n \in Nat : m < n => <<m, n>> \in OpToRel(<, Nat)  BY DEF OpToRel
  <2> QED  BY <1>1, <2>1, <2>2, Zenon
<1>2. PICK n \in S : \A m \in S : ~ (<<m, n>> \in R)  BY <1>1, LeastBy
<1>3. \A m \in S : ~ (m < n)  BY <1>1, <1>2
<1> QED  BY <1>3

\* Again finds the chosen endpoint or nothing (docker.js:201-206).
LEMMA AgainFinds ==
  ASSUME NEW selection, NEW ends, Len(ends) \in Nat, Again(selection, ends) # 0
  PROVE  /\ selection.place # 0
         /\ ends[Again(selection, ends)] = selection.ends[selection.place]
<1> DEFINE same == {n \in 1..Len(ends) : ends[n] = selection.ends[selection.place]}
<1>1. selection.place # 0 /\ same # {}
  BY DEF Again
<1>2. Again(selection, ends) = CHOOSE n \in same : \A m \in same : n <= m
  BY <1>1 DEF Again
<1>3. same \in SUBSET Nat
  OBVIOUS
<1>4. \E n \in same : \A m \in same : n <= m
  <2> HIDE DEF same
  <2> QED BY <1>1, <1>3, Least
<1>5. Again(selection, ends) \in same
  <2> HIDE DEF same
  <2> QED BY <1>2, <1>4
<1> QED BY <1>1, <1>5

-----------------------------------------------------------------------------
\* A new request is fresh and sound.
LEMMA NewIsSound ==
  ASSUME DockerAssumption, NEW by, NEW what, NEW rev
  PROVE  LET r == Request(by, what, rev) IN
         /\ Sound(r) /\ r.by = by /\ r.what = what /\ r.fresh /\ r.home /\ r.session = csrf
BY DEF DockerAssumption, Request, Sound, IsRequest

\* A request stays sound when its session is filled in.
LEMMA SessionIsSound ==
  ASSUME NEW r, Sound(r), NEW x
  PROVE  LET q == [r EXCEPT !.session = x] IN Sound(q) /\ q.by = r.by
BY DEF Sound, IsRequest

\* The same request with an answer.
Reply(q, r) ==
  Sound(q) /\ q.by = r.by /\ q.what = r.what /\ q.fresh = r.fresh /\ q.home = r.home

LEMMA AnsweredIsSound ==
  ASSUME NEW r, Sound(r), NEW reply, NEW got,
         r.by \in Source /\ reply = "ok" => Len(got.ends) \in Nat
  PROVE  Reply([r EXCEPT !.reply = reply, !.got = got], r)
<1> DEFINE q == [r EXCEPT !.reply = reply, !.got = got]
<1>1. q = [by |-> r.by, what |-> r.what, rev |-> r.rev, session |-> r.session,
           fresh |-> r.fresh, home |-> r.home, reply |-> reply, got |-> got]
  <2> DEFINE p == [r EXCEPT !.reply = reply]
  <2>1. p = [by |-> r.by, what |-> r.what, rev |-> r.rev, session |-> r.session,
             fresh |-> r.fresh, home |-> r.home, reply |-> reply, got |-> r.got]
    BY DEF Sound, IsRequest
  <2>2. q = [p EXCEPT !.got = got]
    BY DEF Sound, IsRequest
  <2> HIDE DEF p
  <2> QED BY <2>1, <2>2
<1>2. /\ q.by = r.by /\ q.what = r.what /\ q.rev = r.rev /\ q.session = r.session
      /\ q.fresh = r.fresh /\ q.home = r.home /\ q.reply = reply /\ q.got = got
  BY <1>1
<1> QED BY <1>1, <1>2 DEF Reply, Sound, IsRequest

LEMMA RefusedIsSound ==
  ASSUME NEW r, Sound(r), NEW reply, reply # "ok"
  PROVE  Reply([r EXCEPT !.reply = reply], r)
BY DEF Reply, Sound, IsRequest

\* Once the token is raised, no request is fresh.
LEMMA StaleIsSound ==
  ASSUME NEW rs, \A r \in rs : Sound(r), NEW q \in Stale(rs)
  PROVE  Sound(q) /\ ~q.fresh
<1>1. PICK r \in rs :
        q = [r EXCEPT !.fresh = FALSE,
                      !.what = IF r.by \in Source \cup {"agents"} THEN NoChoice ELSE @]
  BY DEF Stale
<1>2. Sound(r) /\ IsRequest(r)
  BY DEF Sound
<1> QED BY <1>1, <1>2 DEF Sound, IsRequest

-----------------------------------------------------------------------------
\* Steps that leave the editor, the picker and the selection alone, and send nothing that
\* belongs to the picker, but may close both.
Apart ==
  /\ \/ UNCHANGED <<picker, modal>> /\ (csrf' = csrf \/ csrf = None)
     \/ picker' = None /\ modal' = None
  /\ UNCHANGED <<source, meant>>
  /\ \A q \in net' : Sound(q) /\ (q \in net \/ (~Chain(q) /\ q.by # "targets"))

LEMMA ApartStep ==
  ASSUME Panel, Apart
  PROVE  Panel'
<1>1. PickerSound' /\ EditorSound'
  BY DEF Panel, Apart, PickerSound, EditorSound, Picking, Usable
<1>2. Alone' /\ RequestsSound'
  BY DEF Panel, Apart, Alone, RequestsSound, Chain
<1>3. ChainMeant' /\ ChosenIsMeant'
  BY DEF Panel, Apart, ChainMeant, ChosenIsMeant, Keeps, Rows, Picking, Chain
<1>4. TargetsSound'
  BY DEF Panel, Apart, TargetsSound, Landing, Picking, Chain
<1> QED BY <1>1, <1>2, <1>3, <1>4 DEF Panel

\* The server answers one request.
LEMMA ReplyStep ==
  ASSUME Panel, NEW r \in net, NEW q, Reply(q, r), net' = (net \ {r}) \cup {q},
         UNCHANGED <<picker, modal, csrf, source, meant>>
  PROVE  Panel'
<1>1. PickerSound' /\ EditorSound'
  BY DEF Panel, PickerSound, EditorSound, Picking, Usable
<1>2. RequestsSound'
  BY DEF Panel, RequestsSound, Reply
<1>3. Alone'
  BY DEF Panel, Reply, Alone, Chain
<1>4. ChainMeant' /\ ChosenIsMeant'
  BY DEF Panel, Reply, ChainMeant, ChosenIsMeant, Keeps, Rows, Picking, Chain
<1>5. TargetsSound'
  BY DEF Panel, Reply, TargetsSound, Landing, Picking
<1> QED BY <1>1, <1>2, <1>3, <1>4, <1>5 DEF Panel

\* The picker opens, or opens anew: the request it sends is the only one that is fresh.
LEMMA AskStep ==
  ASSUME Panel, NEW selection, NEW rest, rest \subseteq net, Ask(selection, rest),
         UNCHANGED <<modal, csrf>>, source' \in Source,
         selection.place # 0 => selection.ends[selection.place] = meant'
  PROVE  Panel'
<1> DEFINE new == Request("agents", selection, None)
<1>1. /\ Sound(new) /\ new.by = "agents" /\ new.what = selection
  BY NewIsSound DEF Panel
<1>2. \A q \in Stale(rest) : Sound(q) /\ ~q.fresh
  BY StaleIsSound DEF Panel, RequestsSound
<1>3. net' = Stale(rest) \cup {new} /\ picker' = Shows("loading")
  BY DEF Ask
<1> HIDE DEF new
<1>4. PickerSound' /\ ~Rows'
  BY <1>3 DEF PickerSound, Shows, Rows, Picking
<1>5. EditorSound'
  BY DEF Panel, EditorSound, Usable
<1>6. RequestsSound' /\ Alone'
  BY <1>1, <1>2, <1>3 DEF RequestsSound, Alone, Chain
<1>7. ChainMeant' /\ ChosenIsMeant'
  BY <1>1, <1>2, <1>3, <1>4 DEF ChainMeant, ChosenIsMeant, Keeps
<1>8. TargetsSound'
  BY <1>1, <1>2, <1>3 DEF TargetsSound, Landing
<1> QED BY <1>4, <1>5, <1>6, <1>7, <1>8 DEF Panel
-----------------------------------------------------------------------------
\* The containers keep their lists.
LEMMA OffersStep ==
  ASSUME OffersSound, [Next]_vars
  PROVE  OffersSound'
<1>1. CASE UNCHANGED offers
  BY <1>1 DEF OffersSound
<1>2. CASE OthersWrite
  <2>1. CASE \E s \in Source : \E l \in Lists[s] : offers' = [offers EXCEPT ![s] = l]
    BY <2>1 DEF OffersSound
  <2>2. CASE offers' = [offers EXCEPT !["agent"] = None]
    BY <2>2 DEF OffersSound, Source
  <2> QED BY <1>1, <1>2, <2>1, <2>2 DEF OthersWrite
<1>3. CASE \E r \in net : Serve(r) \/ Fail(r) \/ Answered(r)
  <2>1. PICK r \in net : Serve(r) \/ Fail(r) \/ Answered(r)
    BY <1>3
  <2>2. CASE Serve(r) \/ Fail(r)
    BY <1>1, <2>2 DEF Serve, Fail, server
  <2>3. CASE Answered(r)
    BY <1>1, <2>3 DEF Answered, PageAnswered, SaveAnswered, AgentsAnswered, RowsAnswered,
                      HostAnswered, TargetsAnswered, server
  <2> QED BY <2>1, <2>2, <2>3
<1>4. CASE \/ SessionExpires \/ Login \/ AuthRequired \/ ReceiveLabels
           \/ \E v \in Value : TypeDocker(v) \/ ChooseMode(v) \/ TypeHost(v)
           \/ \E on \in BOOLEAN : SaveDocker(on)
           \/ \E by \in {"mode", "labels"} : RunLabels(by)
  BY <1>1, <1>4 DEF SessionExpires, Login, AuthRequired, ReceiveLabels, TypeDocker, ChooseMode,
                    TypeHost, SaveDocker, RunLabels, server
<1>5. CASE \/ \E route \in Route : OpenRoute(route)
           \/ \E s \in Source : ChooseSource(s)
           \/ \E n \in 0..2 : Choose(n)
           \/ \E replace \in BOOLEAN : AddLocal(replace) \/ AddRemote(replace)
  BY <1>1, <1>5 DEF OpenRoute, ChooseSource, Choose, AddLocal, AddRemote, server
<1>6. CASE \/ Refresh \/ OtherForm \/ TypeTarget \/ CloseEditor \/ OpenPicker \/ RefreshPicker
           \/ ClosePicker \/ SaveHost
  BY <1>1, <1>6 DEF Refresh, OtherForm, TypeTarget, CloseEditor, OpenPicker, RefreshPicker,
                    ClosePicker, SaveHost, server
<1>7. CASE UNCHANGED vars
  BY <1>1, <1>7 DEF vars, server
<1> QED BY <1>2, <1>3, <1>4, <1>5, <1>6, <1>7 DEF Next

\* The answers of the server, and none: rows are lists.
LEMMA ServerStep ==
  ASSUME IInv, NEW r \in net, Serve(r) \/ Fail(r)
  PROVE  Panel'
<1>1. Panel /\ Sound(r)
  BY DEF IInv, Panel, RequestsSound
<1>2. CASE Fail(r)
  <2>1. Reply([r EXCEPT !.reply = "failed"], r)
    BY <1>1, RefusedIsSound
  <2> QED BY <1>1, <1>2, <2>1, ReplyStep DEF Fail, choice
<1>3. CASE Serve(r) /\ Refusal(r) # None
  <2>1. Refusal(r) # "ok"
    BY DEF IInv, Panel, DockerAssumption, Refusal
  <2>2. Reply([r EXCEPT !.reply = Refusal(r)], r)
    BY <1>1, <2>1, RefusedIsSound
  <2> QED BY <1>1, <1>3, <2>2, ReplyStep DEF Serve, choice
<1>4. CASE Serve(r) /\ Refusal(r) = None
  <2>1. ASSUME r.by = "local" PROVE Len(Got(r).ends) \in Nat
    <3>1. Got(r).ends = offers["local"]
      BY <2>1 DEF Got
    <3> QED BY <3>1 DEF IInv, Panel, DockerAssumption, OffersSound, Source
  <2>2. ASSUME r.by = "agent" PROVE Len(Got(r).ends) \in Nat
    <3>1. Got(r).ends = offers["agent"]
      BY <2>2 DEF Got
    <3>2. offers["agent"] # None
      BY <1>4, <2>2 DEF Refusal, IInv, Panel, DockerAssumption
    <3> QED BY <3>1, <3>2 DEF IInv, Panel, DockerAssumption, OffersSound, Source
  <2>3. Reply([r EXCEPT !.reply = "ok", !.got = Got(r)], r)
    BY <1>1, <2>1, <2>2, AnsweredIsSound DEF Source
  <2> QED BY <1>1, <1>4, <2>3, ReplyStep DEF Serve, choice
<1> QED BY <1>2, <1>3, <1>4

\* The end of a session closes the editor and the picker.
LEMMA LoginScreen ==
  ASSUME Panel, NEW rest, rest \subseteq net, ShowLogin(rest)
  PROVE  Panel'
<1>1. Apart
  BY DEF ShowLogin, Apart, Panel, RequestsSound
<1> QED BY <1>1, ApartStep

\* The settings and the labels have nothing to do with the picker.
LEMMA SettingsStep ==
  ASSUME Panel,
         \/ OthersWrite \/ SessionExpires \/ Login \/ AuthRequired \/ ReceiveLabels
         \/ \E v \in Value : TypeDocker(v) \/ ChooseMode(v) \/ TypeHost(v)
         \/ \E on \in BOOLEAN : SaveDocker(on)
         \/ \E by \in {"mode", "labels"} : RunLabels(by)
         \/ Refresh \/ SaveHost \/ UNCHANGED vars
  PROVE  Panel'
<1>1. \A q \in net : Sound(q)
  BY DEF Panel, RequestsSound
<1>2. CASE net' = net /\ UNCHANGED <<modal, choice, csrf>>
  BY <1>1, <1>2, ApartStep DEF Apart, choice
<1>3. ASSUME NEW by, NEW what, NEW rev, by \in {"page", "save", "host", "mode", "labels"},
             net' = net \cup {Request(by, what, rev)}, UNCHANGED <<modal, choice, csrf>>
      PROVE  Panel'
  <2>1. LET r == Request(by, what, rev) IN Sound(r) /\ ~Chain(r) /\ r.by # "targets"
    BY <1>3, NewIsSound DEF Panel, Chain, Source
  <2> QED BY <1>1, <1>3, <2>1, ApartStep DEF Apart, choice
<1>4. CASE OthersWrite \/ SessionExpires \/ ReceiveLabels \/ UNCHANGED vars
  BY <1>2, <1>4 DEF OthersWrite, SessionExpires, ReceiveLabels, vars
<1>5. CASE \E v \in Value : TypeDocker(v) \/ ChooseMode(v) \/ TypeHost(v)
  BY <1>2, <1>5 DEF TypeDocker, ChooseMode, TypeHost
<1>6. CASE \E on \in BOOLEAN : SaveDocker(on)
  BY <1>3, <1>6 DEF SaveDocker
<1>7. CASE \E by \in {"mode", "labels"} : RunLabels(by)
  BY <1>3, <1>7 DEF RunLabels
<1>8. CASE SaveHost
  BY <1>3, <1>8 DEF SaveHost
<1>9. CASE Refresh
  BY <1>2, <1>3, <1>9 DEF Refresh, LoadPage
<1>10. CASE AuthRequired
  BY <1>10, LoginScreen DEF AuthRequired
<1>11. CASE Login
  <2>1. ASSUME NEW r \in LoadPage
        PROVE  LET q == [r EXCEPT !.session = sessions'] IN Sound(q) /\ q.by = "page"
    <3>1. r = Request("page", None, None)
      BY <2>1 DEF LoadPage
    <3>2. Sound(r) /\ r.by = "page"
      BY <3>1, NewIsSound DEF Panel
    <3> QED BY <3>2, SessionIsSound
  <2>2. \A q \in net' : Sound(q) /\ (q \in net \/ q.by = "page")
    <3> DEFINE loads == {[r EXCEPT !.session = sessions'] : r \in LoadPage}
    <3>1. \A q \in loads : Sound(q) /\ q.by = "page"
      BY <2>1
    <3>2. net' = net \cup loads \/ net' = net
      BY <1>11 DEF Login
    <3> HIDE DEF loads
    <3> QED BY <1>1, <3>1, <3>2
  <2>3. Apart
    BY <1>11, <2>2 DEF Login, Apart, choice, Chain, Source
  <2> QED BY <2>3, ApartStep
<1> QED BY <1>4, <1>5, <1>6, <1>7, <1>8, <1>9, <1>10, <1>11

-----------------------------------------------------------------------------
\* Answers that the panel has no use for any more, or that concern the settings only.
LEMMA UnusedStep ==
  ASSUME Panel, NEW r \in net, net' = net \ {r}, UNCHANGED <<csrf, modal, choice>>
  PROVE  Panel'
<1>1. Apart
  BY DEF Apart, Panel, RequestsSound, choice
<1> QED BY <1>1, ApartStep

\* The picker says what failed: it shows no rows, and nothing can land that could not before.
LEMMA PickerFailsStep ==
  ASSUME Panel, NEW r \in net, PickerFails(r)
  PROVE  Panel'
<1>1. CASE picker' = picker
  BY <1>1, UnusedStep DEF PickerFails, Refused, choice
<1>2. CASE picker' = Shows("error") /\ Picking
  <2>1. net' = net \ {r} /\ UNCHANGED <<csrf, modal, source, meant>>
    BY DEF PickerFails, Refused
  <2>2. PickerSound' /\ ~Rows'
    BY <1>2, <2>1 DEF Panel, PickerSound, Shows, Rows, Picking
  <2>3. EditorSound' /\ RequestsSound' /\ Alone'
    BY <2>1 DEF Panel, EditorSound, Usable, RequestsSound, Alone, Chain
  <2>4. ChainMeant' /\ ChosenIsMeant'
    BY <2>1, <2>2 DEF Panel, ChainMeant, ChosenIsMeant, Keeps, Chain
  <2>5. TargetsSound'
    BY <1>2, <2>1 DEF Panel, TargetsSound, Landing
  <2> QED BY <2>2, <2>3, <2>4, <2>5 DEF Panel
<1> QED BY <1>1, <1>2 DEF PickerFails

\* The list of agents leads to the rows of one source.
LEMMA AgentsStep ==
  ASSUME Panel, NEW r \in net, AgentsAnswered(r)
  PROVE  Panel'
<1>1. CASE LoggedOut(r)
  BY <1>1, LoginScreen DEF LoggedOut
<1>2. CASE PickerFails(r)
  BY <1>2, PickerFailsStep
<1>3. CASE Taken(r) /\ UNCHANGED <<csrf, lists, modal, choice>>
  BY <1>3, UnusedStep DEF Taken
<1>4. CASE /\ r.reply = "ok" /\ Wanted(r)
           /\ source' = IF r.got THEN source ELSE "local"
           /\ LET selection == IF source' = source THEN r.what ELSE NoChoice
              IN  net' = (net \ {r}) \cup {Request(source', selection, None)}
           /\ UNCHANGED <<csrf, lists, modal, picker, meant>>
  <2> DEFINE selection == IF source' = source THEN r.what ELSE NoChoice
             new == Request(source', selection, None)
  <2>1. Sound(new) /\ new.by = source' /\ new.what = selection
    BY NewIsSound DEF Panel
  <2>2. net' = (net \ {r}) \cup {new} /\ UNCHANGED <<csrf, modal, picker, meant>>
    BY <1>4
  <2>3. r.fresh /\ Chain(r)
    BY <1>4 DEF Wanted, AgentsAnswered, Chain
  <2>4. ~Rows /\ Keeps(selection)
    BY <2>3 DEF Panel, ChainMeant, Keeps, NoChoice
  <2> HIDE DEF new, selection
  <2>5. \A q \in net \ {r} : ~(q.fresh /\ (Chain(q) \/ q.by = "targets"))
    BY <2>3 DEF Panel, Alone
  <2>6. \A q \in net' : q = new \/ (q \in net /\ q # r)
    BY <2>2
  <2>7. PickerSound' /\ EditorSound' /\ RequestsSound'
    BY <1>4, <2>1, <2>2 DEF Source, Panel, PickerSound, Picking, EditorSound, Usable, RequestsSound
  <2>8. Alone'
    BY <2>5, <2>6 DEF Alone, Chain
  <2>9. ChainMeant' /\ ChosenIsMeant'
    BY <2>1, <2>2, <2>4, <2>5, <2>6
       DEF Panel, ChainMeant, ChosenIsMeant, Keeps, Chain, Rows, Picking
  <2>10. TargetsSound'
    <3>1. \A q \in net' : ~Landing(q)' \/ q = new
      BY <2>5, <2>6 DEF Landing
    <3>2. source' # "targets"
      BY <1>4 DEF Panel, PickerSound, Source
    <3> QED BY <2>1, <3>1, <3>2 DEF TargetsSound, Landing
  <2> QED BY <2>7, <2>8, <2>9, <2>10 DEF Panel
<1> QED BY <1>1, <1>2, <1>3, <1>4 DEF AgentsAnswered

\* The rows: the chosen one is looked up by its endpoint.
LEMMA RowsStep ==
  ASSUME Panel, NEW r \in net, RowsAnswered(r)
  PROVE  Panel'
<1>1. CASE LoggedOut(r)
  BY <1>1, LoginScreen DEF LoggedOut
<1>2. CASE PickerFails(r)
  BY <1>2, PickerFailsStep
<1>3. CASE Taken(r) /\ ~Wanted(r) /\ RowsAnswered(r) /\ ~LoggedOut(r) /\ ~PickerFails(r)
  BY <1>3, UnusedStep DEF RowsAnswered, Taken, choice
<1>4. CASE Taken(r) /\ Wanted(r) /\ RowsAnswered(r) /\ ~LoggedOut(r) /\ ~PickerFails(r)
  <2> DEFINE n == Again(r.what, r.got.ends)
  <2>1. /\ net' = net \ {r} /\ UNCHANGED <<csrf, modal, source>>
        /\ picker' = [body |-> "rows", source |-> source, entry |-> r.got.entry,
                      ends |-> r.got.ends, chosen |-> n, asked |-> FALSE]
        /\ meant' = IF n = 0 THEN None ELSE meant
    BY <1>4 DEF RowsAnswered, Taken
  <2>2. r.fresh /\ Chain(r) /\ Len(r.got.ends) \in Nat /\ Picking
    BY <1>4 DEF Wanted, RowsAnswered, Chain, Taken, Panel, RequestsSound, Sound
  <2>3. Keeps(r.what)
    BY <2>2 DEF Panel, ChainMeant
  <2>4. n # 0 => r.got.ends[n] = meant
    BY <2>2, <2>3, AgainFinds DEF Keeps
  <2> HIDE DEF n
  <2>5. \A q \in net' : ~(q.fresh /\ (Chain(q) \/ q.by = "targets"))
    BY <2>1, <2>2 DEF Panel, Alone
  <2>6. PickerSound' /\ EditorSound' /\ RequestsSound'
    BY <2>1 DEF Panel, PickerSound, Picking, EditorSound, Usable, RequestsSound
  <2>7. Alone' /\ ChainMeant' /\ TargetsSound'
    BY <2>5 DEF Alone, Chain, ChainMeant, TargetsSound, Landing
  <2>8. ChosenIsMeant'
    BY <2>1, <2>4 DEF ChosenIsMeant
  <2> QED BY <2>6, <2>7, <2>8 DEF Panel
<1> QED BY <1>1, <1>2, <1>3, <1>4 DEF RowsAnswered

\* The selection with which the picker opens anew is what was meant, if anything is.
LEMMA SelectionIsMeant ==
  ASSUME Panel
  PROVE  Selection.place # 0 => Selection.ends[Selection.place] = meant
BY DEF Panel, ChosenIsMeant, Selection, NoChoice

\* The address of the host: the picker opens anew, if it has not since.
LEMMA HostStep ==
  ASSUME Panel, NEW r \in net, HostAnswered(r)
  PROVE  Panel'
<1>1. CASE LoggedOut(r)
  BY <1>1, LoginScreen DEF LoggedOut
<1>2. CASE net' = net \ {r} /\ UNCHANGED <<csrf, modal, choice>>
  BY <1>2, UnusedStep
<1>3. CASE Ask(Selection, net \ {r}) /\ UNCHANGED <<csrf, modal, source, meant>>
  <2> DEFINE selection == Selection
  <2>1. Keeps(selection)
    BY SelectionIsMeant DEF Keeps
  <2> HIDE DEF selection
  <2>2. net \ {r} \subseteq net
    OBVIOUS
  <2>3. Ask(selection, net \ {r})
    BY <1>3 DEF selection
  <2>4. (selection.place # 0 => selection.ends[selection.place] = meant')
    BY <1>3, <2>1 DEF Keeps
  <2> QED BY <1>3, <2>2, <2>3, <2>4, AskStep DEF Panel, PickerSound
<1> QED BY <1>1, <1>2, <1>3 DEF HostAnswered, Refused, Taken, choice

\* The ports of an agent: the targets land in the open editor and the picker closes, or
\* nothing changes but the button.
LEMMA TargetsStep ==
  ASSUME Panel, NEW r \in net, TargetsAnswered(r)
  PROVE  Panel'
<1>1. CASE LoggedOut(r)
  BY <1>1, LoginScreen DEF LoggedOut
<1>2. CASE net' = net \ {r} /\ picker' = Enabled(r) /\ UNCHANGED <<csrf, modal, source, meant>>
  <2>1. CASE picker' = picker
    BY <1>2, <2>1, UnusedStep DEF choice
  <2>2. CASE picker' = [picker EXCEPT !.asked = FALSE] /\ Picking
    <3>1. /\ picker' = [body |-> picker.body, source |-> picker.source,
                        entry |-> picker.entry, ends |-> picker.ends,
                        chosen |-> picker.chosen, asked |-> FALSE]
      BY <2>2 DEF Panel, PickerSound
    <3>2. PickerSound' /\ EditorSound' /\ RequestsSound' /\ Alone'
      BY <1>2, <3>1 DEF Panel, PickerSound, EditorSound, Usable, RequestsSound, Alone, Chain
    <3>3. (Rows' => Rows) /\ (Picking' => Picking)
      BY <2>2, <3>1 DEF Rows, Picking
    <3>4. picker'.chosen = picker.chosen /\ picker'.ends = picker.ends
      BY <3>1
    <3>5. ChainMeant' /\ ChosenIsMeant'
      BY <1>2, <3>3, <3>4 DEF Panel, ChainMeant, ChosenIsMeant, Keeps, Chain
    <3>6. TargetsSound'
      BY <1>2, <3>3 DEF Panel, TargetsSound, Landing
    <3> QED BY <3>2, <3>5, <3>6 DEF Panel
  <2> QED BY <1>2, <2>1, <2>2 DEF Enabled
<1>3. CASE /\ net' = net \ {r} /\ Lands(r)
           /\ modal' = [modal EXCEPT !.targets = r.what.all] /\ picker' = None /\ meant' = None
           /\ UNCHANGED <<csrf, source>>
  <2>1. Landing(r)
    BY <1>3 DEF TargetsAnswered, Lands, Wanted, Landing
  <2>2. modal # None /\ \A t \in r.what.all : t.route = modal.route
    BY <2>1 DEF Panel, TargetsSound
  <2>3. modal' = [route |-> modal.route, targets |-> r.what.all]
    BY <1>3, <2>2 DEF Panel, EditorSound
  <2>4. EditorSound'
    BY <1>3, <2>2, <2>3 DEF Panel, EditorSound, Usable
  <2>5. \A q \in net' : ~(q.fresh /\ Chain(q))
    BY <1>3, <2>1 DEF Panel, Alone, Landing, Chain, Source
  <2>6. PickerSound' /\ RequestsSound' /\ TargetsSound' /\ ChosenIsMeant'
    BY <1>3 DEF Panel, PickerSound, RequestsSound, TargetsSound, Landing, ChosenIsMeant, Rows,
                Picking
  <2>7. Alone' /\ ChainMeant'
    BY <2>5 DEF Alone, ChainMeant, Chain
  <2> QED BY <2>4, <2>6, <2>7 DEF Panel
<1> QED BY <1>1, <1>2, <1>3 DEF TargetsAnswered, Refused, Taken

\* A new editor is none of those that targets were asked for.
LEMMA NewEditorStep ==
  ASSUME Panel, NEW route, NewEditor(route), Usable, UNCHANGED <<csrf, choice>>
  PROVE  Panel'
<1> DEFINE homeless == {[r EXCEPT !.home = FALSE] : r \in Pending("targets")}
<1>1. net' = (net \ Pending("targets")) \cup homeless
  BY DEF NewEditor
<1>2. ASSUME NEW q \in homeless
      PROVE  \E r \in net : /\ Sound(q) /\ ~q.home /\ q.by = "targets"
                            /\ r.by = "targets" /\ r.fresh = q.fresh
  <2>1. PICK r \in Pending("targets") : q = [r EXCEPT !.home = FALSE]
    BY <1>2
  <2>2. r \in net /\ r.by = "targets" /\ Sound(r)
    BY DEF Panel, RequestsSound, Pending
  <2>3. Sound(q) /\ q.by = r.by /\ q.fresh = r.fresh /\ q.home = FALSE
    BY <2>1, <2>2 DEF Sound, IsRequest
  <2> QED BY <2>2, <2>3
<1> HIDE DEF homeless
<1>4. PickerSound' /\ RequestsSound'
  BY <1>1, <1>2 DEF Panel, PickerSound, Picking, RequestsSound, choice
<1>5. EditorSound'
  BY DEF NewEditor, EditorSound, Usable
<1>6. \A q \in net' : Chain(q) => q \in net
  BY <1>1, <1>2 DEF Chain, Source
<1>7. Alone'
  <2>1. SUFFICES ASSUME NEW q \in net', NEW r \in net', q.fresh, r.fresh, Chain(q),
                        Chain(r) \/ r.by = "targets"
                 PROVE  q = r
    BY DEF Alone, Chain
  <2>2. q \in net
    BY <1>6, <2>1
  <2>3. CASE r \in net
    BY <2>1, <2>2, <2>3 DEF Panel, Alone
  <2>4. CASE r \in homeless
    <3>1. PICK p \in net : p.fresh /\ p.by = "targets"
      BY <1>2, <2>1, <2>4
    <3>2. p = q
      BY <2>1, <2>2, <3>1 DEF Panel, Alone
    <3> QED BY <2>1, <3>1, <3>2 DEF Chain, Source
  <2> QED BY <1>1, <2>3, <2>4
<1>8. ChainMeant' /\ ChosenIsMeant'
  BY <1>6 DEF Panel, ChainMeant, ChosenIsMeant, Keeps, Rows, Picking, Chain, choice
<1>9. TargetsSound'
  BY <1>1, <1>2 DEF TargetsSound, Landing, Pending
<1> QED BY <1>4, <1>5, <1>7, <1>8, <1>9 DEF Panel

\* Below a closed picker, the editor is nobody's but the administrator's.
LEMMA EditorStep ==
  ASSUME Panel,
         OtherForm \/ TypeTarget \/ CloseEditor \/ \E route \in Route : OpenRoute(route)
  PROVE  Panel'
<1>1. CASE OtherForm \/ \E route \in Route : OpenRoute(route)
  BY <1>1, NewEditorStep DEF OtherForm, OpenRoute
<1>2. CASE TypeTarget \/ CloseEditor
  <2>1. ~Picking /\ UNCHANGED <<csrf, choice, net>>
    BY <1>2 DEF TypeTarget, CloseEditor
  <2>2. EditorSound'
    <3>1. CASE TypeTarget
      <4>1. /\ modal # None
            /\ modal' = [modal EXCEPT !.targets = @ \cup {Target("typed", modal.route)}]
        BY <3>1 DEF TypeTarget, Editing
      <4>2. modal' = [route |-> modal.route,
                      targets |-> modal.targets \cup {Target("typed", modal.route)}]
        BY <4>1 DEF Panel, EditorSound
      <4>3. Target("typed", modal.route).route = modal.route
        BY DEF Target
      <4> QED BY <2>1, <4>1, <4>2, <4>3 DEF Panel, EditorSound, Usable
    <3>2. CASE CloseEditor
      BY <3>2 DEF CloseEditor, EditorSound
    <3> QED BY <1>2, <3>1, <3>2
  <2>3. TargetsSound'
    BY <2>1 DEF TargetsSound, Landing, Picking, choice
  <2>4. PickerSound' /\ RequestsSound' /\ Alone' /\ ChainMeant' /\ ChosenIsMeant'
    BY <2>1 DEF Panel, PickerSound, RequestsSound, Alone, ChainMeant, ChosenIsMeant, Keeps, Rows,
                Picking, Chain, choice
  <2> QED BY <2>2, <2>3, <2>4 DEF Panel
<1> QED BY <1>1, <1>2

\* Opening, refreshing and closing the picker raise the token.
LEMMA OpeningStep ==
  ASSUME Panel,
         OpenPicker \/ RefreshPicker \/ ClosePicker \/ \E s \in Source : ChooseSource(s)
  PROVE  Panel'
<1>1. CASE OpenPicker
  BY <1>1, AskStep DEF OpenPicker, NoChoice, Panel, PickerSound
<1>2. CASE RefreshPicker
  <2> DEFINE selection == Selection
  <2>1. Ask(selection, net) /\ UNCHANGED <<csrf, modal, source, meant>>
    BY <1>2 DEF RefreshPicker
  <2>2. selection.place # 0 => selection.ends[selection.place] = meant
    BY SelectionIsMeant
  <2> HIDE DEF selection
  <2> QED BY <2>1, <2>2, AskStep DEF Panel, PickerSound
<1>3. CASE \E s \in Source : ChooseSource(s)
  BY <1>3, AskStep DEF ChooseSource, NoChoice
<1>4. CASE ClosePicker
  <2>1. \A q \in net' : Sound(q) /\ ~q.fresh
    BY <1>4, StaleIsSound DEF ClosePicker, Panel, RequestsSound
  <2>2. picker' = None /\ UNCHANGED <<csrf, modal, source>>
    BY <1>4 DEF ClosePicker
  <2>3. PickerSound' /\ EditorSound' /\ ChosenIsMeant'
    BY <2>2 DEF Panel, PickerSound, EditorSound, Usable, ChosenIsMeant, Rows, Picking
  <2>4. RequestsSound' /\ Alone' /\ ChainMeant' /\ TargetsSound'
    BY <2>1 DEF RequestsSound, Alone, ChainMeant, TargetsSound, Landing
  <2> QED BY <2>3, <2>4 DEF Panel
<1> QED BY <1>1, <1>2, <1>3, <1>4

\* While rows are shown, none are on their way.
LEMMA RowsStand ==
  ASSUME Panel, Rows, NEW r \in net
  PROVE  ~(r.fresh /\ Chain(r))
BY DEF Panel, ChainMeant

\* What the administrator does with the rows.
LEMMA RowsUseStep ==
  ASSUME Panel,
         \/ \E n \in 0..2 : Choose(n)
         \/ \E replace \in BOOLEAN : AddLocal(replace) \/ AddRemote(replace)
  PROVE  Panel'
<1>1. Rows
  BY DEF Choose, AddLocal, AddRemote
<1>2. /\ Picking
      /\ picker = [body |-> picker.body, source |-> picker.source, entry |-> picker.entry,
                   ends |-> picker.ends, chosen |-> picker.chosen, asked |-> picker.asked]
  BY <1>1 DEF Panel, PickerSound, Rows
<1>3. CASE \E n \in 0..2 : Choose(n)
  <2>1. PICK n \in 0..2 : Choose(n)
    BY <1>3
  <2>2. /\ picker' = [body |-> picker.body, source |-> picker.source, entry |-> picker.entry,
                      ends |-> picker.ends, chosen |-> n, asked |-> FALSE]
        /\ meant' = IF n = 0 THEN None ELSE picker.ends[n]
        /\ UNCHANGED <<csrf, modal, source, net>>
    BY <1>2, <2>1 DEF Choose
  <2>3. PickerSound' /\ EditorSound' /\ RequestsSound' /\ Alone' /\ ChosenIsMeant'
    BY <2>2 DEF Panel, PickerSound, EditorSound, Usable, RequestsSound, Alone, Chain,
                ChosenIsMeant
  <2>4. ChainMeant'
    BY <1>1, <2>2, RowsStand DEF ChainMeant, Chain
  <2>5. TargetsSound'
    BY <1>2, <2>2 DEF Panel, TargetsSound, Landing
  <2> QED BY <2>3, <2>4, <2>5 DEF Panel
<1>4. ASSUME NEW replace \in BOOLEAN, Editing
      PROVE  /\ \A t \in Result(replace) : t.route = modal.route
             /\ ~replace => modal.targets \subseteq Result(replace)
  BY <1>4 DEF Panel, EditorSound, Editing, Result, Target
<1>5. CASE \E replace \in BOOLEAN : AddLocal(replace)
  <2>1. PICK replace \in BOOLEAN : AddLocal(replace)
    BY <1>5
  <2>2. /\ modal' = [modal EXCEPT !.targets = Result(replace)] /\ picker' = None
        /\ UNCHANGED <<csrf, source, net>> /\ Editing /\ modal # None
    BY <2>1 DEF AddLocal, Editing
  <2>3. modal' = [route |-> modal.route, targets |-> Result(replace)]
    BY <2>2 DEF Panel, EditorSound
  <2>4. EditorSound'
    BY <1>4, <2>2, <2>3 DEF Panel, EditorSound, Usable
  <2>5. PickerSound' /\ RequestsSound' /\ Alone' /\ TargetsSound' /\ ChosenIsMeant'
    BY <2>2 DEF Panel, PickerSound, RequestsSound, Alone, Chain, TargetsSound, Landing,
                ChosenIsMeant, Rows, Picking
  <2>6. ChainMeant'
    BY <1>1, <2>2, RowsStand DEF ChainMeant, Chain
  <2> QED BY <2>4, <2>5, <2>6 DEF Panel
<1>6. CASE \E replace \in BOOLEAN : AddRemote(replace)
  <2>1. PICK replace \in BOOLEAN : AddRemote(replace)
    BY <1>6
  <2> DEFINE new == Request("targets", [all |-> Result(replace), kept |-> ~replace], None)
  <2>2. /\ Sound(new) /\ new.by = "targets"
        /\ new.what.all = Result(replace) /\ new.what.kept = ~replace
    BY NewIsSound DEF Panel
  <2>3. /\ picker' = [body |-> picker.body, source |-> picker.source, entry |-> picker.entry,
                      ends |-> picker.ends, chosen |-> picker.chosen, asked |-> TRUE]
        /\ net' = net \cup {new} /\ Editing /\ UNCHANGED <<csrf, modal, source, meant>>
    BY <1>2, <2>1 DEF AddRemote
  <2> HIDE DEF new
  <2>4. PickerSound' /\ EditorSound' /\ RequestsSound'
    BY <2>2, <2>3 DEF Panel, PickerSound, EditorSound, Usable, RequestsSound
  <2>5. \A q \in net' : ~(q.fresh /\ Chain(q))
    BY <1>1, <2>2, <2>3, RowsStand DEF Chain, Source
  <2>6. Alone' /\ ChainMeant'
    BY <2>5 DEF Alone, ChainMeant, Chain
  <2>7. ChosenIsMeant'
    BY <1>1, <2>3 DEF Panel, ChosenIsMeant
  <2>8. TargetsSound'
    BY <1>2, <1>4, <2>2, <2>3 DEF Panel, TargetsSound, Landing, Editing
  <2> QED BY <2>4, <2>6, <2>7, <2>8 DEF Panel
<1> QED BY <1>3, <1>5, <1>6

-----------------------------------------------------------------------------
\* The invariant is inductive.
LEMMA StepKeeps ==
  ASSUME IInv, [Next]_vars
  PROVE  IInv'
<1>1. OffersSound' /\ Panel
  BY OffersStep DEF IInv
<1>2. CASE \E r \in net : Serve(r) \/ Fail(r) \/ Answered(r)
  <2>1. PICK r \in net : Serve(r) \/ Fail(r) \/ Answered(r)
    BY <1>2
  <2>2. CASE Serve(r) \/ Fail(r)
    BY <1>1, <2>2, ServerStep DEF IInv
  <2>3. CASE PageAnswered(r) \/ SaveAnswered(r)
    <3>1. CASE LoggedOut(r)
      <4>1. ShowLogin(net \ {r}) /\ Panel
        BY <1>1, <3>1 DEF LoggedOut
      <4> QED BY <1>1, <4>1, LoginScreen DEF IInv
    <3>2. CASE ~LoggedOut(r)
      <4>1. net' = net \ {r} /\ UNCHANGED <<csrf, modal, choice>>
        BY <2>3, <3>2 DEF PageAnswered, SaveAnswered, Refused, Taken
      <4> QED BY <1>1, <4>1, UnusedStep DEF IInv
    <3> QED BY <1>1, <3>1, <3>2 DEF IInv
  <2>4. CASE AgentsAnswered(r) \/ RowsAnswered(r)
    BY <1>1, <2>4, AgentsStep, RowsStep DEF IInv
  <2>5. CASE HostAnswered(r) \/ TargetsAnswered(r)
    BY <1>1, <2>5, HostStep, TargetsStep DEF IInv
  <2> QED BY <2>1, <2>2, <2>3, <2>4, <2>5 DEF Answered
<1>3. CASE \/ OthersWrite \/ SessionExpires \/ Login \/ AuthRequired \/ ReceiveLabels
           \/ \E v \in Value : TypeDocker(v) \/ ChooseMode(v) \/ TypeHost(v)
           \/ \E on \in BOOLEAN : SaveDocker(on)
           \/ \E by \in {"mode", "labels"} : RunLabels(by)
           \/ Refresh \/ SaveHost \/ UNCHANGED vars
  BY <1>1, <1>3, SettingsStep DEF IInv
<1>4. CASE OtherForm \/ TypeTarget \/ CloseEditor \/ \E route \in Route : OpenRoute(route)
  BY <1>1, <1>4, EditorStep DEF IInv
<1>5. CASE OpenPicker \/ RefreshPicker \/ ClosePicker \/ \E s \in Source : ChooseSource(s)
  BY <1>1, <1>5, OpeningStep DEF IInv
<1>6. CASE \/ \E n \in 0..2 : Choose(n)
           \/ \E replace \in BOOLEAN : AddLocal(replace) \/ AddRemote(replace)
  BY <1>1, <1>6, RowsUseStep DEF IInv
<1> QED BY <1>2, <1>3, <1>4, <1>5, <1>6 DEF Next

\* The invariant: rows that are on their way carry what the administrator chose, and
\* an answer that can land fits the open editor.
THEOREM InvariantAlways ==
  ASSUME DockerAssumption
  PROVE  Spec => []IInv
<1>1. Init => IInv
  BY DEF DockerAssumption, Init, IInv, OffersSound, Panel, PickerSound, EditorSound, Alone, ChainMeant,
         TargetsSound, RequestsSound, ChosenIsMeant, Rows, Picking
<1>2. IInv /\ [Next]_vars => IInv'
  BY StepKeeps
<1> QED BY <1>1, <1>2, PTL DEF Spec

\* docker.js:166-211: the chosen endpoint is the one that the administrator chose.
THEOREM ChosenAlways ==
  ASSUME DockerAssumption
  PROVE  Spec => []ChosenIsMeant
<1>1. IInv => ChosenIsMeant
  BY DEF IInv, Panel
<1> QED BY <1>1, InvariantAlways, PTL

\* docker.js:260-266: what the answer for an agent's ports brings goes to the route it was
\* chosen for, and takes nothing away that was typed there.
THEOREM TargetsAlways ==
  ASSUME DockerAssumption
  PROVE  Spec => TargetsLandWhereMeant
<1>1. ASSUME IInv, NEW r \in Pending("targets"), TargetsAnswered(r), modal # None,
             modal' # modal, csrf' = csrf
      PROVE  /\ \A t \in modal'.targets : t.route = modal.route
             /\ modal.targets \subseteq modal'.targets \/ ~r.what.kept
  <2>1. r \in net /\ r.by = "targets" /\ Usable
    BY <1>1 DEF Pending, IInv, Panel, EditorSound
  <2>2. ~LoggedOut(r)
    BY <1>1, <2>1 DEF LoggedOut, ShowLogin, Usable
  <2>3. Lands(r) /\ modal' = [modal EXCEPT !.targets = r.what.all]
    BY <1>1, <2>2 DEF TargetsAnswered
  <2>4. Landing(r)
    BY <2>1, <2>3 DEF Lands, Wanted, Landing
  <2>5. /\ \A t \in r.what.all : t.route = modal.route
        /\ r.what.kept => modal.targets \subseteq r.what.all
    BY <1>1, <2>1, <2>4 DEF IInv, Panel, TargetsSound
  <2>6. modal'.targets = r.what.all
    BY <1>1, <2>3 DEF IInv, Panel, EditorSound
  <2> QED BY <2>5, <2>6
<1>2. IInv /\ [Next]_vars
        => [\A r \in Pending("targets") :
              TargetsAnswered(r) /\ modal # None /\ modal' # modal /\ csrf' = csrf
                => /\ \A t \in modal'.targets : t.route = modal.route
                   /\ modal.targets \subseteq modal'.targets \/ ~r.what.kept]_vars
  BY <1>1
<1> QED BY <1>2, InvariantAlways, PTL DEF Spec, TargetsLandWhereMeant
=============================================================================
