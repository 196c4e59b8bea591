---------------------------- MODULE DockerPanel ----------------------------
(* The Docker page and the container picker of the panel: static/docker.js.          *)
(*                                                                                   *)
(* An action is the code between two awaits; `net` holds the requests in flight,     *)
(* which the server answers at one moment (Serve) and the panel reads later.  The    *)
(* requests of one Promise.all are one request.  The settings of Docker are whether  *)
(* it is on and one value, which stands for the address of the Docker host.  Each    *)
(* source of containers has one container, with a list of endpoints; an agent's has  *)
(* one endpoint, or cannot be selected.  Search, ports, weights and the choice       *)
(* between access modes are left out, but for what they do to the selection.         *)
EXTENDS Naturals, Sequences, FiniteSets

CONSTANTS
  None,
  Value, Initial,    \* Docker settings and label modes; the first one
  Lists,             \* lists of endpoints that the container of a source may have
  Offered,           \* those that they have at first
  Published,         \* endpoints that are ports of the Docker host
  Route,             \* routes being edited
  Limit,             \* targets of a route: 32
  MaxSession,        \* bound: logins, counted from 1
  MaxOps,            \* bound: requests of the administrator
  MaxEvents          \* bound: changes by others, failures, sessions that expire

Source     == {"local", "agent"}

\* What is taken for granted of the constants: the containers of a source have lists of
\* endpoints, and None is no answer.
DockerAssumption ==
  /\ Offered \in [Source -> UNION {Lists[s] : s \in Source}]
  /\ \A s \in Source : Offered[s] \in Lists[s] /\ \A l \in Lists[s] : Len(l) \in Nat
  /\ None \notin {"ok", "unauthorized", "conflict", "failed"}

Entry(value, on) == [value |-> value, on |-> on]
Kind       == {"docker", "labels"}
Nothing    == [docker |-> None, labels |-> None]
NoDraft    == [docker |-> None, labels |-> None, host |-> None]
Page       == {"docker", "routes"}
Target(e, route) == [address |-> e, route |-> route]

VARIABLES
  \* Server.
  kept,       \* Docker settings and label mode
  offers,     \* endpoints of the container of each source; an agent may be gone (None)
  valid,      \* sessions it accepts
  \* Panel.
  csrf,       \* session of the panel, or None
  page,
  data,       \* dockerData and dockerLabelsData
  draft,      \* dockerDraft, dockerLabelMode and dockerHostDraft
  form,       \* what the Docker form and the label select show, or None
  modal,      \* the editor in the open #modal and its targets, or None
  picker,     \* what #docker-picker shows, or None while it is closed
  source,     \* dockerPickerSource
  net,        \* requests in flight
  ops, events, sessions,    \* counters of the bounds
  meant       \* used by a property only: the endpoint the administrator chose

server == <<kept, offers, valid>>
lists  == <<data, draft, form>>
choice == <<picker, source, meant>>
counts == <<ops, events, sessions>>
vars   == <<server, csrf, page, lists, modal, choice, net, counts>>

(* Requests.  `fresh`: dockerPickerToken has not been raised since.  `home`: the      *)
(* editor they were sent for is still in #modal.                                     *)
Request(by, what, rev) ==
  [by |-> by, what |-> what, rev |-> rev, session |-> csrf, fresh |-> TRUE, home |-> TRUE,
   reply |-> None, got |-> None]
Pending(by) == {r \in net : r.by = by}
NoChoice    == [ends |-> <<>>, place |-> 0]

\* dockerPickerToken is raised: nothing looks at the selection in an old request again.
Stale(rs) ==
  {[r EXCEPT !.fresh = FALSE,
             !.what = IF r.by \in Source \cup {"agents"} THEN NoChoice ELSE @] : r \in rs}

Usable        == csrf # None
Picking       == picker # None
Rows          == Picking /\ picker.body = "rows"
Dialog        == modal # None \/ Picking
DockerLoading == Pending("page") \cup Pending("save") # {}
LabelsBusy    == Pending("labels") \cup Pending("mode") # {}

Op    == ops < MaxOps /\ ops' = ops + 1 /\ UNCHANGED <<events, sessions>>
Event == events < MaxEvents /\ events' = events + 1 /\ UNCHANGED <<ops, sessions>>

Init ==
  /\ kept = [docker |-> Entry(Initial, FALSE), labels |-> Initial]
  /\ offers = Offered
  /\ valid = {} /\ csrf = None /\ page \in Page
  /\ data = Nothing /\ draft = NoDraft /\ form = None /\ modal = None
  /\ picker = None /\ source \in Source /\ meant = None /\ net = {}
  /\ ops = 0 /\ events = 0 /\ sessions = 0

(* Server.                                                                           *)
Writes(r) ==
  CASE r.by \in {"save", "host"} -> {"docker"}
    [] r.by = "mode"             -> {"labels"}
    [] OTHER                     -> {}

Refusal(r) ==
  IF r.session \notin valid                     THEN "unauthorized"
  ELSE IF \E k \in Writes(r) : r.rev # kept[k]  THEN "conflict"
  ELSE IF \/ r.by = "agent"   /\ offers["agent"] = None
          \/ r.by = "targets" /\ offers["agent"] \in {None, <<>>}
       THEN "failed"
  ELSE None

Got(r) ==
  CASE r.by = "agents" -> offers["agent"] # None
    [] r.by = "local"  -> [entry |-> kept["docker"], ends |-> offers["local"]]
    [] r.by = "agent"  -> [entry |-> None, ends |-> offers["agent"]]
    [] r.by = "targets" -> None
    [] OTHER           -> kept'

Serve(r) ==
  /\ r.reply = None
  /\ kept' = [k \in Kind |-> IF Refusal(r) = None /\ k \in Writes(r) THEN r.what ELSE kept[k]]
  /\ net' = (net \ {r}) \cup
       {IF Refusal(r) # None THEN [r EXCEPT !.reply = Refusal(r)]
        ELSE [r EXCEPT !.reply = "ok", !.got = Got(r)]}
  /\ UNCHANGED <<offers, valid, csrf, page, lists, modal, choice, counts>>

Fail(r) ==
  /\ r.reply = None /\ Event
  /\ net' = (net \ {r}) \cup {[r EXCEPT !.reply = "failed"]}
  /\ UNCHANGED <<server, csrf, page, lists, modal, choice>>

\* Another administrator, containers that come and go, a deleted agent.
OthersWrite ==
  /\ Event
  /\ \/ \E v \in Value : /\ kept' = [kept EXCEPT !["docker"] = Entry(v, TRUE)]
                         /\ UNCHANGED offers
     \/ \E v \in Value : kept' = [kept EXCEPT !["labels"] = v] /\ UNCHANGED offers
     \/ \E s \in Source : \E l \in Lists[s] : offers' = [offers EXCEPT ![s] = l] /\ UNCHANGED kept
     \/ offers' = [offers EXCEPT !["agent"] = None] /\ UNCHANGED kept
  /\ UNCHANGED <<valid, csrf, page, lists, modal, choice, net>>

SessionExpires ==
  /\ Event /\ valid # {} /\ valid' = {}
  /\ UNCHANGED <<kept, offers, csrf, page, lists, modal, choice, net>>

(* Session and pages.                                                                *)
ShowLogin(rest) ==
  /\ csrf' = None /\ data' = Nothing /\ draft' = NoDraft /\ form' = None
  /\ modal' = None /\ picker' = None /\ net' = rest /\ UNCHANGED <<source, meant>>

\* What a page shows when it is drawn.
Drawn(p, d, l) ==
  LET docker == IF l["docker"] = None THEN Initial ELSE l["docker"].value
      labels == IF l["labels"] = None THEN Initial ELSE l["labels"]
  IN  IF p # "docker" THEN None
      ELSE [docker |-> IF d["docker"] # None THEN d["docker"] ELSE docker,
            labels |-> IF d["labels"] # None THEN d["labels"] ELSE labels]

LoadPage == IF DockerLoading THEN {} ELSE {Request("page", None, None)}

\* The login, load() and the first drawing of the page.
Login ==
  /\ csrf = None /\ sessions < MaxSession
  /\ sessions' = sessions + 1 /\ csrf' = sessions' /\ valid' = valid \cup {sessions'}
  /\ form' = Drawn(page, draft, data)
  /\ net' = net \cup (IF page = "docker" THEN {[r EXCEPT !.session = sessions'] : r \in LoadPage}
                      ELSE {})
  /\ UNCHANGED <<kept, offers, page, data, draft, modal, choice, ops, events>>

AuthRequired ==
  /\ Usable /\ csrf \notin valid /\ ShowLogin(net)
  /\ UNCHANGED <<server, page, counts>>

Refresh ==
  /\ Usable /\ ~Dialog /\ page = "docker" /\ ~DockerLoading /\ Op
  /\ net' = net \cup LoadPage
  /\ UNCHANGED <<server, csrf, page, lists, modal, choice>>

\* receiveDockerLabels(): the live stream brings the labels; its delay is left out.
ReceiveLabels ==
  /\ Usable /\ csrf \in valid /\ ~LabelsBusy
  /\ data' = [data EXCEPT !["labels"] = kept["labels"]]
  /\ UNCHANGED <<server, csrf, page, draft, form, modal, choice, net, counts>>

LoggedOut(r) == r.reply = "unauthorized" /\ ShowLogin(net \ {r})
Refused(r)   == r.reply \in {"conflict", "failed"} /\ net' = net \ {r}
Taken(r)     == r.reply = "ok" /\ net' = net \ {r}

\* loadDockerPage() asks whether there is a session, not whether it is the same.
PageAnswered(r) ==
  /\ r.by = "page"
  /\ \/ LoggedOut(r)
     \/ Refused(r) /\ UNCHANGED <<csrf, lists, modal, choice>>
     \/ /\ Taken(r) /\ csrf = None
        /\ data' = [data EXCEPT !["labels"] = r.got["labels"]]
        /\ UNCHANGED <<csrf, draft, form, modal, choice>>
     \/ /\ Taken(r) /\ csrf # None
        /\ data' = r.got
        /\ draft' = IF draft["docker"] # None THEN draft
                    ELSE [draft EXCEPT !["docker"] = r.got["docker"].value]
        /\ form' = IF data["docker"] = None THEN Drawn(page, draft', data') ELSE form
        /\ UNCHANGED <<csrf, modal, choice>>
  /\ UNCHANGED <<server, page, counts>>

(* Docker settings and label mode.                                                   *)
TypeDocker(v) ==
  /\ form # None /\ ~Dialog /\ v # form.docker /\ Op
  /\ form' = [form EXCEPT !.docker = v] /\ draft' = [draft EXCEPT !["docker"] = v]
  /\ UNCHANGED <<server, csrf, page, data, modal, choice, net>>

ChooseMode(v) ==
  /\ form # None /\ ~Dialog /\ v # form.labels /\ Op
  /\ form' = [form EXCEPT !.labels = v] /\ draft' = [draft EXCEPT !["labels"] = v]
  /\ UNCHANGED <<server, csrf, page, data, modal, choice, net>>

\* Switching Docker off leaves the other settings as they are.
SaveDocker(on) ==
  /\ form # None /\ ~Dialog /\ data["docker"] # None /\ ~DockerLoading /\ Op
  /\ LET value == IF on THEN form.docker ELSE data["docker"].value
     IN  /\ draft' = [draft EXCEPT !["docker"] = value]
         /\ net' = net \cup {Request("save", Entry(value, on), data["docker"])}
  /\ UNCHANGED <<server, csrf, page, data, form, modal, choice>>

\* runDockerLabels(): "mode" saves the mode; "labels" is a scan or an apply, what it does
\* to the configuration is left out.
RunLabels(by) ==
  /\ form # None /\ ~Dialog /\ ~LabelsBusy /\ data["labels"] # None /\ Op
  /\ net' = net \cup {Request(by, IF by = "mode" THEN form.labels ELSE None, data["labels"])}
  /\ UNCHANGED <<server, csrf, page, lists, modal, choice>>

SaveAnswered(r) ==
  /\ r.by \in {"save", "mode", "labels"}
  /\ \/ LoggedOut(r)
     \/ Refused(r) /\ UNCHANGED <<csrf, lists, modal, choice>>
     \/ Taken(r) /\ r.session # csrf /\ UNCHANGED <<csrf, lists, modal, choice>>
     \/ /\ Taken(r) /\ r.session = csrf /\ r.by = "save"
        /\ data' = [data EXCEPT !["docker"] = r.got["docker"]]
        /\ draft' = [draft EXCEPT !["docker"] = data'["docker"].value,
                                  !["host"]   = data'["docker"].value]
        /\ form' = IF form = None THEN None ELSE [form EXCEPT !.docker = data'["docker"].value]
        /\ UNCHANGED <<csrf, modal, choice>>
     \/ /\ Taken(r) /\ r.session = csrf /\ r.by # "save"
        /\ data' = [data EXCEPT !["labels"] = r.got["labels"]]
        /\ draft' = IF r.by = "mode" THEN [draft EXCEPT !["labels"] = data'["labels"]] ELSE draft
        /\ UNCHANGED <<csrf, form, modal, choice>>
  /\ UNCHANGED <<server, page, counts>>

(* The route editor.  setModal() makes a new one, also below an open picker: the form *)
(* of an agent, asked for on another page, may open at any time.                     *)
NewEditor(route) ==
  /\ modal' = [route |-> route, targets |-> {}]
  /\ net' = (net \ Pending("targets")) \cup {[r EXCEPT !.home = FALSE] : r \in Pending("targets")}

OpenRoute(route) ==
  /\ Usable /\ page = "routes" /\ ~Dialog /\ NewEditor(route)
  /\ UNCHANGED <<server, csrf, page, lists, choice, counts>>

OtherForm ==
  /\ Usable /\ Event /\ NewEditor(None)
  /\ UNCHANGED <<server, csrf, page, lists, choice>>

Editing == modal # None /\ modal.route # None

TypeTarget ==
  /\ Editing /\ ~Picking /\ Cardinality(modal.targets) < Limit
  /\ modal' = [modal EXCEPT !.targets = @ \cup {Target("typed", modal.route)}]
  /\ UNCHANGED <<server, csrf, page, lists, choice, net, counts>>

CloseEditor ==
  /\ modal # None /\ ~Picking /\ modal' = None
  /\ UNCHANGED <<server, csrf, page, lists, choice, net, counts>>

(* The picker.  Every opening raises dockerPickerToken and begins with the list of   *)
(* agents; what was shown before is gone, but for the selection.                     *)
Selection == IF Rows /\ picker.source = source
             THEN [ends |-> picker.ends, place |-> picker.chosen] ELSE NoChoice

\* What the picker shows while it has no rows.
Shows(body) == [body |-> body, source |-> None, entry |-> None, ends |-> <<>>, chosen |-> 0,
                asked |-> FALSE]

Ask(selection, rest) ==
  picker' = Shows("loading") /\ net' = Stale(rest) \cup {Request("agents", selection, None)}

OpenPicker ==
  /\ Editing /\ ~Picking /\ Op /\ Ask(NoChoice, net)
  /\ UNCHANGED <<server, csrf, page, lists, modal, source, meant>>

RefreshPicker ==
  /\ Picking /\ picker.body # "loading" /\ Op /\ Ask(Selection, net)
  /\ UNCHANGED <<server, csrf, page, lists, modal, source, meant>>

ChooseSource(s) ==
  /\ Rows /\ s # source /\ Op
  /\ source' = s /\ meant' = None /\ Ask(NoChoice, net)
  /\ UNCHANGED <<server, csrf, page, lists, modal>>

\* The button raises the token.  Escape does not, but nothing compares it before the next
\* opening, which does.
ClosePicker ==
  /\ Picking /\ picker' = None /\ meant' = None /\ net' = Stale(net)
  /\ UNCHANGED <<server, csrf, page, lists, modal, source, counts>>

\* Another access mode draws the rows anew, with nothing checked.  Either way the button
\* that adds is enabled again.
Choose(n) ==
  /\ Rows /\ n \in 0..Len(picker.ends) /\ n # picker.chosen
  /\ picker' = [picker EXCEPT !.chosen = n, !.asked = FALSE]
  /\ meant' = IF n = 0 THEN None ELSE picker.ends[n]
  /\ UNCHANGED <<server, csrf, page, lists, modal, source, net, counts>>

\* The administrator has not gone on since the request was sent.
Wanted(r) == Picking /\ r.fresh /\ r.session = csrf

PickerFails(r) ==
  /\ Refused(r)
  /\ picker' = IF Picking /\ r.fresh /\ csrf # None THEN Shows("error") ELSE picker
  /\ UNCHANGED <<csrf, lists, modal, source, meant>>

\* The list of agents is stored as well (agentsData): a list of AgentPanel, where an answer
\* to Load("agents") replaces it in the same way.
AgentsAnswered(r) ==
  /\ r.by = "agents"
  /\ \/ LoggedOut(r)
     \/ PickerFails(r)
     \/ Taken(r) /\ ~Wanted(r) /\ UNCHANGED <<csrf, lists, modal, choice>>
     \/ /\ r.reply = "ok" /\ Wanted(r)
        /\ source' = IF r.got THEN source ELSE "local"
        /\ LET selection == IF source' = source THEN r.what ELSE NoChoice
           IN  net' = (net \ {r}) \cup {Request(source', selection, None)}
        /\ UNCHANGED <<csrf, lists, modal, picker, meant>>
  /\ UNCHANGED <<server, page, counts>>

\* Faulty variant of Again: the place in the list is kept, whatever is there now.
AgainByPlace(selection, ends) == IF selection.place <= Len(ends) THEN selection.place ELSE 0

\* A chosen endpoint stays chosen if the container still has it.
Again(selection, ends) ==
  IF selection.place = 0 THEN 0
  ELSE LET same == {n \in 1..Len(ends) : ends[n] = selection.ends[selection.place]}
       IN  IF same = {} THEN 0 ELSE CHOOSE n \in same : \A m \in same : n <= m

\* dockerData is set before it is asked whether the answer is still wanted.
RowsAnswered(r) ==
  /\ r.by \in Source
  /\ \/ LoggedOut(r)
     \/ PickerFails(r)
     \/ /\ Taken(r)
        /\ data' = IF r.by = "local" THEN [data EXCEPT !["docker"] = r.got.entry] ELSE data
        /\ picker' = IF ~Wanted(r) THEN picker
                     ELSE [body |-> "rows", source |-> source, entry |-> r.got.entry, ends |-> r.got.ends,
                           chosen |-> Again(r.what, r.got.ends), asked |-> FALSE]
        /\ meant' = IF Wanted(r) /\ picker'.chosen = 0 THEN None ELSE meant
        /\ UNCHANGED <<csrf, draft, form, modal, source>>
  /\ UNCHANGED <<server, page, counts>>

\* The address of the Docker host can be changed in the picker, which then opens anew.
TypeHost(v) ==
  /\ Rows /\ source = "local" /\ v # draft["host"] /\ Op
  /\ draft' = [draft EXCEPT !["host"] = v]
  /\ UNCHANGED <<server, csrf, page, data, form, modal, choice, net>>

Host == IF draft["host"] # None THEN draft["host"] ELSE picker.entry.value

SaveHost ==
  /\ Rows /\ source = "local" /\ (\A r \in Pending("host") : ~r.fresh) /\ Op
  /\ net' = net \cup {Request("host", Entry(Host, picker.entry.on), picker.entry)}
  /\ UNCHANGED <<server, csrf, page, lists, modal, choice>>

HostAnswered(r) ==
  /\ r.by = "host"
  /\ \/ LoggedOut(r)
     \/ Refused(r) /\ UNCHANGED <<csrf, lists, modal, choice>>
     \/ Taken(r) /\ r.session # csrf /\ UNCHANGED <<csrf, lists, modal, choice>>
     \/ /\ r.reply = "ok" /\ r.session = csrf
        /\ LET new == r.got["docker"] IN
           /\ data' = [data EXCEPT !["docker"] = new]
           /\ draft' = [draft EXCEPT !["host"] = new.value,
                          !["docker"] = IF data["docker"] # None /\ @ = data["docker"].value
                                        THEN new.value ELSE @]
        /\ IF Picking /\ r.fresh THEN Ask(Selection, net \ {r})
           ELSE net' = net \ {r} /\ UNCHANGED picker
        /\ UNCHANGED <<csrf, form, modal, source, meant>>
  /\ UNCHANGED <<server, page, counts>>

(* addDockerTargets().                                                               *)
HostUnsaved(e) == e \in Published /\ draft["host"] \notin {None, picker.entry.value}

Result(replace) ==
  (IF replace THEN {} ELSE modal.targets) \cup {Target(picker.ends[picker.chosen], modal.route)}

AddLocal(replace) ==
  /\ Rows /\ picker.chosen # 0 /\ Editing
  /\ picker.source = "local" /\ ~HostUnsaved(picker.ends[picker.chosen])
  /\ Cardinality(Result(replace)) <= Limit
  /\ modal' = [modal EXCEPT !.targets = Result(replace)] /\ picker' = None /\ meant' = None
  /\ UNCHANGED <<server, csrf, page, lists, source, net, counts>>

\* The result is put together before the request for the ports of an agent is sent.
AddRemote(replace) ==
  /\ Rows /\ picker.chosen # 0 /\ Editing /\ picker.source = "agent" /\ ~picker.asked /\ Op
  /\ picker' = [picker EXCEPT !.asked = TRUE]
  /\ net' = net \cup {Request("targets", [all |-> Result(replace), kept |-> ~replace], None)}
  /\ UNCHANGED <<server, csrf, page, lists, modal, source, meant>>

\* Faulty variant of Lands: what became of the picker meanwhile is not asked.
LandsAnyway(r) == r.session = csrf /\ Picking /\ Editing

Lands(r) == Wanted(r) /\ r.home

\* The button is enabled again, if it is still there.
Enabled(r) == IF Picking /\ r.fresh THEN [picker EXCEPT !.asked = FALSE] ELSE picker

TargetsAnswered(r) ==
  /\ r.by = "targets"
  /\ \/ LoggedOut(r)
     \/ /\ Refused(r) /\ picker' = Enabled(r)
        /\ UNCHANGED <<csrf, lists, modal, source, meant>>
     \/ /\ Taken(r)
        /\ IF Lands(r) /\ Cardinality(r.what.all) <= Limit
           THEN modal' = [modal EXCEPT !.targets = r.what.all] /\ picker' = None /\ meant' = None
           ELSE picker' = Enabled(r) /\ UNCHANGED <<modal, meant>>
        /\ UNCHANGED <<csrf, lists, source>>
  /\ UNCHANGED <<server, page, counts>>

Answered(r) ==
  \/ PageAnswered(r) \/ SaveAnswered(r) \/ AgentsAnswered(r) \/ RowsAnswered(r)
  \/ HostAnswered(r) \/ TargetsAnswered(r)

Next ==
  \/ \E r \in net : Serve(r) \/ Fail(r) \/ Answered(r)
  \/ OthersWrite \/ SessionExpires \/ Login \/ AuthRequired \/ ReceiveLabels
  \/ \E v \in Value : TypeDocker(v) \/ ChooseMode(v) \/ TypeHost(v)
  \/ \E on \in BOOLEAN : SaveDocker(on)
  \/ \E by \in {"mode", "labels"} : RunLabels(by)
  \/ \E route \in Route : OpenRoute(route)
  \/ \E s \in Source : ChooseSource(s)
  \/ \E n \in 0..2 : Choose(n)
  \/ \E replace \in BOOLEAN : AddLocal(replace) \/ AddRemote(replace)
  \/ Refresh \/ OtherForm \/ TypeTarget \/ CloseEditor \/ OpenPicker \/ RefreshPicker
  \/ ClosePicker \/ SaveHost

Spec == Init /\ [][Next]_vars

(* Properties.                                                                       *)

\* docker.js:260-266: the answer for an agent's ports is used in the editor of the route
\* they were chosen for, and takes nothing away that was typed there meanwhile.
TargetsLandWhereMeant ==
  [][\A r \in Pending("targets") :
       TargetsAnswered(r) /\ modal # None /\ modal' # modal /\ csrf' = csrf
         => /\ \A t \in modal'.targets : t.route = modal.route
            /\ modal.targets \subseteq modal'.targets \/ ~r.what.kept]_vars

\* docker.js:166-211: whatever a refresh brings, the chosen endpoint is the one that the
\* administrator chose.
ChosenIsMeant == Rows /\ picker.chosen # 0 => picker.ends[picker.chosen] = meant
=============================================================================
