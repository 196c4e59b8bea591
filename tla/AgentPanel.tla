----------------------------- MODULE AgentPanel -----------------------------
(* The pages "agents" and "general" of the panel: static/agents.js:27-58, 141-159    *)
(* and static/general.js.                                                            *)
(*                                                                                   *)
(* An action is the code between two awaits; `net` holds the requests in flight,     *)
(* which the server answers at one moment (Serve) and the panel reads later.  The    *)
(* requests of one Promise.all are one request.  A revision is the digest of the     *)
(* value, so here it is the value itself.  There is one agent, or none.              *)
EXTENDS Naturals

CONSTANTS
  None,
  Value, Initial,   \* settings of an agent; those it has at first
  Address, Unset,   \* public addresses of AmberGate; the empty one, which it has at first
  Http,             \* addresses that need the administrator's consent
  MaxSession,       \* bound: logins, counted from 1
  MaxOps,           \* bound: requests of the administrator
  MaxEvents         \* bound: changes by others, failures, sessions that expire

ASSUME AgentPanelAssumption ==
  /\ Initial \in Value /\ Http \subseteq Address \ {Unset} /\ Unset \in Address
  /\ None \notin Value \cup Address
  /\ None \notin {"unauthorized", "conflict", "consent", "failed", "confirmed"}
  /\ {MaxSession, MaxOps, MaxEvents} \subseteq Nat

Kind == {"agents", "general"}
Page == {"agents", "general"}

\* `key` tells an agent's tokens apart.
Agent(value, key) == [value |-> value, key |-> key]
NoAgent == Agent(None, 0)
Empty   == [k \in Kind |-> None]

VARIABLES
  \* Server.
  kept,       \* agents.json and settings.json
  valid,      \* sessions it accepts
  frame,      \* `kept` in the newest SSE frame
  \* Panel.
  csrf,       \* session of the panel, or None
  page,
  data,       \* agentsData and generalData
  typed,      \* generalDraft
  mutating,   \* agentsMutating
  modal,      \* the agent form in the open #modal, or None
  confirm,    \* what the open #confirm-modal asks, or None
  net,        \* requests in flight
  ops, events, sessions,   \* counters of the bounds
  agreed      \* used by a property only: HTTP addresses that were agreed to

server  == <<kept, valid, frame>>
lists   == <<data, typed>>
dialogs == <<modal, confirm>>
counts  == <<ops, events, sessions>>
vars    == <<server, csrf, page, lists, mutating, dialogs, net, counts, agreed>>

(* Requests.  `home` is FALSE once setModal() has replaced the form that sent it;    *)
(* `seen`, used by a property only, is the list that was shown with the question.    *)
Request(by, what, body, rev) ==
  [by |-> by, what |-> what, body |-> body, rev |-> rev, seen |-> None, session |-> csrf,
   home |-> TRUE, reply |-> None, got |-> Empty]
Pending(by) == {r \in net : r.by = by}

Usable       == csrf # None
Dialog       == modal # None \/ confirm # None
Asking(what) == confirm # None /\ confirm.what = what
GeneralBusy  == Pending("address") # {} \/ Asking("http")

Op    == ops < MaxOps /\ ops' = ops + 1 /\ UNCHANGED <<events, sessions>>
Event == events < MaxEvents /\ events' = events + 1 /\ UNCHANGED <<ops, sessions>>

Init ==
  /\ kept = [agents |-> Agent(Initial, 0), general |-> Unset] /\ valid = {} /\ frame = kept
  /\ csrf = None /\ page \in Page
  /\ data = Empty /\ typed = None /\ mutating = FALSE
  /\ modal = None /\ confirm = None /\ net = {}
  /\ ops = 0 /\ events = 0 /\ sessions = 0 /\ agreed = {}

(* Server.                                                                           *)
Writes(r) ==
  CASE r.by = "address" -> {"general"}
    [] r.by = "mutate"  -> {"agents"}
    [] OTHER            -> {}

Reads(r) ==
  CASE r.by = "agents" -> Kind
    [] r.by = "mutate" -> {"agents"}
    [] OTHER           -> {"general"}

\* GeneralSettings.save(): HTTP is allowed for an address that was confirmed.
NeedsConsent(r) ==
  r.by = "address" /\ r.what # "confirmed" /\ r.body \in Http /\ r.body # kept["general"]

Refusal(r) ==
  IF r.session \notin valid                              THEN "unauthorized"
  ELSE IF \E k \in Writes(r) : r.rev # kept[k]           THEN "conflict"
  ELSE IF NeedsConsent(r)                                THEN "consent"
  ELSE IF r.what = "create" /\ kept["agents"] # NoAgent  THEN "failed"
  ELSE None

Serve(r) ==
  /\ r.reply = None
  /\ kept' = [k \in Kind |-> IF Refusal(r) = None /\ k \in Writes(r) THEN r.body ELSE kept[k]]
  /\ net' = (net \ {r}) \cup
       {IF Refusal(r) # None THEN [r EXCEPT !.reply = Refusal(r)]
        ELSE [r EXCEPT !.reply = "ok",
                       !.got = [k \in Kind |-> IF k \in Reads(r) THEN kept'[k] ELSE None]]}
  /\ UNCHANGED <<valid, frame, csrf, page, lists, mutating, dialogs, counts, agreed>>

Fail(r) ==
  /\ r.reply = None /\ Event
  /\ net' = (net \ {r}) \cup {[r EXCEPT !.reply = "failed"]}
  /\ UNCHANGED <<server, csrf, page, lists, mutating, dialogs, agreed>>

OtherWrites(k) ==
  /\ Event
  /\ \E e \in IF k = "general" THEN Address
              ELSE {Agent(v, MaxOps + 1) : v \in Value} \cup {NoAgent} :
       e # kept[k] /\ kept' = [kept EXCEPT ![k] = e]
  /\ UNCHANGED <<valid, frame, csrf, page, lists, mutating, dialogs, net, agreed>>

SessionExpires ==
  /\ Event /\ valid # {} /\ valid' = {}
  /\ UNCHANGED <<kept, frame, csrf, page, lists, mutating, dialogs, net, agreed>>

Publish ==
  /\ frame # kept /\ frame' = kept
  /\ UNCHANGED <<kept, valid, csrf, page, lists, mutating, dialogs, net, counts, agreed>>

(* Session and pages.                                                                *)
Load(p) ==
  IF Pending(p) = {} THEN {Request(p, None, None, None)} ELSE {}

ShowLogin(rest) ==
  /\ csrf' = None /\ data' = Empty /\ typed' = None
  /\ modal' = None /\ confirm' = None /\ net' = rest

\* The login, load() and the first drawing of the page.
Login ==
  /\ csrf = None /\ sessions < MaxSession
  /\ sessions' = sessions + 1 /\ csrf' = sessions' /\ valid' = valid \cup {sessions'}
  /\ net' = net \cup {[r EXCEPT !.session = sessions'] : r \in Load(page)}
  /\ UNCHANGED <<kept, frame, page, lists, mutating, dialogs, ops, events, agreed>>

AuthRequired ==
  /\ Usable /\ csrf \notin valid /\ ShowLogin(net)
  /\ UNCHANGED <<server, page, mutating, counts, agreed>>

Navigate(p) ==
  /\ Usable /\ ~Dialog /\ p # page /\ Op
  /\ page' = p /\ net' = net \cup Load(p)
  /\ UNCHANGED <<server, csrf, lists, mutating, dialogs, agreed>>

(* receiveGeneral() and receiveAgents().                                             *)
WithGeneral(l, general) == IF GeneralBusy THEN l ELSE [l EXCEPT !["general"] = general]
WithAgents(l, agents)   == IF mutating THEN l ELSE [l EXCEPT !["agents"] = agents]

ReceiveFrame ==
  /\ Usable /\ csrf \in valid
  /\ data' = WithAgents(WithGeneral(data, frame["general"]), frame["agents"])
  /\ UNCHANGED <<server, csrf, page, typed, mutating, dialogs, net, counts, agreed>>

\* An answer of 401 logs out whichever session there is by now.
LoggedOut(r) == r.reply = "unauthorized" /\ ShowLogin(net \ {r})
Ignored(r)   == r.reply \notin {None, "unauthorized"} /\ (r.reply # "ok" \/ r.session # csrf)
Current(r)   == r.reply = "ok" /\ r.session = csrf

LoadAnswered(r) ==
  /\ r.by \in {"agents", "general"}
  /\ \/ LoggedOut(r)
     \/ Ignored(r) /\ net' = net \ {r} /\ UNCHANGED <<csrf, lists, dialogs>>
     \/ /\ Current(r) /\ net' = net \ {r}
        /\ data' = WithGeneral(IF r.by = "agents" THEN [data EXCEPT !["agents"] = r.got["agents"]]
                               ELSE data, r.got["general"])
        /\ UNCHANGED <<csrf, typed, dialogs>>
  /\ UNCHANGED <<server, page, mutating, counts, agreed>>

(* The public address.                                                               *)
Field == IF typed # None THEN typed ELSE data["general"]    \* what the input shows

TypeAddress(a) ==
  /\ Usable /\ page = "general" /\ ~Dialog /\ data["general"] # None /\ a # Field
  /\ typed' = a
  /\ UNCHANGED <<server, csrf, page, data, mutating, dialogs, net, counts, agreed>>

SubmitAddress ==
  /\ Usable /\ page = "general" /\ ~Dialog /\ data["general"] # None /\ ~GeneralBusy /\ Op
  /\ net' = net \cup {Request("address", None, Field, data["general"])}
  /\ UNCHANGED <<server, csrf, page, lists, mutating, dialogs, agreed>>

\* Another confirmAction() while one is open answers itself with "no".
Question(what, body, rev) ==
  IF confirm # None THEN confirm
  ELSE [what |-> what, body |-> body, rev |-> rev, under |-> FALSE]
OnTop(q) == IF q = None THEN None ELSE [q EXCEPT !.under = FALSE]

AddressAnswered(r) ==
  /\ r.by = "address"
  /\ \/ LoggedOut(r)
     \/ /\ Ignored(r) /\ (r.reply = "consent" => r.session # csrf)
        /\ net' = net \ {r} /\ UNCHANGED <<csrf, lists, dialogs>>
     \/ /\ r.reply = "consent" /\ r.session = csrf /\ net' = net \ {r}
        /\ confirm' = Question("http", r.body, r.rev)
        /\ UNCHANGED <<csrf, lists, modal>>
     \/ /\ Current(r) /\ net' = net \ {r}
        /\ data' = [data EXCEPT !["general"] = r.got["general"]] /\ typed' = None
        /\ UNCHANGED <<csrf, dialogs>>
  /\ UNCHANGED <<server, page, mutating, counts, agreed>>

Answerable == confirm # None /\ ~confirm.under

\* Faulty variant of Confirmed: what is sent is what the field shows by now.
ConfirmedAsShown(q) == Request("address", "confirmed", Field, q.rev)

Confirmed(q) == Request("address", "confirmed", q.body, q.rev)

Agree ==
  /\ Answerable /\ confirm.what = "http" /\ confirm' = None
  /\ agreed' = agreed \cup {confirm.body} /\ net' = net \cup {Confirmed(confirm)}
  /\ UNCHANGED <<server, csrf, page, lists, mutating, modal, counts>>

Decline ==
  /\ Answerable /\ confirm' = None
  /\ UNCHANGED <<server, csrf, page, lists, mutating, modal, net, counts, agreed>>

(* Agents.                                                                           *)
Shows(what) == data["agents"] # None /\ (what = "create" \/ data["agents"] # NoAgent)

\* Creating, editing and rotating read the public address first.
AgentAction(what) ==
  /\ Usable /\ page = "agents" /\ ~Dialog /\ ~mutating /\ Shows(what) /\ Op
  /\ net' = net \cup {Request(what, None, None, data["agents"])}
  /\ UNCHANGED <<server, csrf, page, lists, mutating, dialogs, agreed>>

AskDelete ==
  /\ Usable /\ page = "agents" /\ ~Dialog /\ ~mutating /\ Shows("delete") /\ Op
  /\ confirm' = Question("delete", NoAgent, data["agents"])
  /\ UNCHANGED <<server, csrf, page, lists, mutating, modal, net, agreed>>

\* setModal() with the revision of the list at this moment.  The form of an agent that
\* has gone meanwhile creates one.
OpenForm(what) ==
  /\ modal' = [what |-> IF data["agents"] = NoAgent THEN "create" ELSE what,
               rev |-> data["agents"], waits |-> FALSE]
  /\ confirm' = IF confirm = None \/ modal # None THEN confirm ELSE [confirm EXCEPT !.under = TRUE]

AddressRead(r) ==
  /\ r.by \in {"create", "update", "rotate"}
  /\ \/ LoggedOut(r) /\ UNCHANGED page
     \/ Ignored(r) /\ net' = net \ {r} /\ UNCHANGED <<csrf, page, lists, dialogs>>
     \/ /\ Current(r) /\ r.by # "update" /\ r.got["general"] = Unset
        /\ page' = "general" /\ data' = WithGeneral(data, Unset)
        /\ net' = (net \ {r}) \cup Load("general")
        /\ UNCHANGED <<csrf, typed, dialogs>>
     \/ /\ Current(r) /\ (r.by = "update" \/ r.got["general"] # Unset)
        /\ data' = WithGeneral(data, r.got["general"])
        /\ IF r.by = "rotate"
           THEN /\ confirm' = Question("rotate", Agent(r.rev.value, ops), r.rev)
                /\ net' = net \ {r} /\ UNCHANGED modal
           ELSE OpenForm(r.by) /\ net' = {[q EXCEPT !.home = FALSE] : q \in net \ {r}}
        /\ UNCHANGED <<csrf, page, typed>>
  /\ UNCHANGED <<server, mutating, counts, agreed>>

CloseModal ==
  /\ modal # None /\ ~Answerable
  /\ modal' = None /\ confirm' = OnTop(confirm)
  /\ UNCHANGED <<server, csrf, page, lists, mutating, net, counts, agreed>>

\* Faulty variant of Revision: the newest revision, whatever was shown.
RevisionByNow(q) == data["agents"]

Revision(q) == q.rev     \* {revision: agentsData.revision, ...value}: the value has one

Mutate(what, body, q) ==
  /\ mutating' = TRUE
  /\ net' = net \cup {[Request("mutate", what, body, Revision(q)) EXCEPT !.seen = q.rev]}

SubmitForm(v) ==
  /\ modal # None /\ ~modal.waits /\ ~Answerable /\ Op
  /\ Mutate(modal.what, Agent(v, IF modal.what = "create" THEN ops' ELSE modal.rev.key), modal)
  /\ modal' = [modal EXCEPT !.waits = TRUE]
  /\ UNCHANGED <<server, csrf, page, lists, confirm, agreed>>

AgreeAgent ==
  /\ Answerable /\ confirm.what \in {"delete", "rotate"} /\ confirm' = None
  /\ Mutate(confirm.what, confirm.body, confirm)
  /\ UNCHANGED <<server, csrf, page, lists, modal, counts, agreed>>

FromForm(r) == r.what \in {"create", "update"}

\* Faulty variant of MutateDone: the flag is reset after a success only.
MutateDoneOnSuccess(r) == mutating' = (r.reply # "ok")

MutateDone(r) == mutating' = FALSE     \* `finally`, also while another change is under way

\* The answer of a form closes #modal, whatever form it shows by then.
MutateAnswered(r) ==
  /\ r.by = "mutate" /\ MutateDone(r)
  /\ \/ LoggedOut(r)
     \/ /\ Ignored(r) /\ net' = net \ {r}
        /\ modal' = IF modal # None /\ r.home /\ FromForm(r)
                    THEN [modal EXCEPT !.waits = FALSE] ELSE modal
        /\ UNCHANGED <<csrf, lists, confirm>>
     \/ /\ Current(r) /\ net' = net \ {r}
        /\ data' = [data EXCEPT !["agents"] = r.got["agents"]]
        /\ IF FromForm(r) THEN modal' = None /\ confirm' = OnTop(confirm)
           ELSE UNCHANGED dialogs
        /\ UNCHANGED <<csrf, typed>>
  /\ UNCHANGED <<server, page, counts, agreed>>

Answered(r) ==
  LoadAnswered(r) \/ AddressAnswered(r) \/ AddressRead(r) \/ MutateAnswered(r)

Next ==
  \/ \E r \in net : Serve(r) \/ Fail(r) \/ Answered(r)
  \/ \E k \in Kind : OtherWrites(k)
  \/ SessionExpires \/ Publish \/ ReceiveFrame \/ Login \/ AuthRequired
  \/ \E p \in Page : Navigate(p)
  \/ \E a \in Address : TypeAddress(a)
  \/ \E what \in {"create", "update", "rotate"} : AgentAction(what)
  \/ \E v \in Value : SubmitForm(v)
  \/ SubmitAddress \/ Agree \/ Decline \/ AskDelete \/ AgreeAgent \/ CloseModal

\* The server answers, the stream publishes and the browser runs what is due; nobody has
\* to type, to answer a question or to write.
Fairness ==
  /\ WF_vars(\E r \in net : Serve(r)) /\ WF_vars(\E r \in net : Answered(r))
  /\ WF_vars(Publish) /\ WF_vars(ReceiveFrame) /\ WF_vars(AuthRequired)

Spec     == Init /\ [][Next]_vars
LiveSpec == Spec /\ Fairness

(* Properties.                                                                       *)

\* agents.js:55-57, 151-157: what is accepted of an agent was decided by somebody who was
\* shown the agents as they are, although the live stream renews the list meanwhile.
AgentsChangedAsShown ==
  [][\A r \in Pending("mutate") : Serve(r) /\ kept' # kept => r.seen = kept["agents"]]_vars

\* general.js:42-46 "Permission is saved for this address only": HTTP is allowed for no
\* address but one that the administrator was asked about.
HttpWasAgreed ==
  [][\A r \in Pending("address") :
       Serve(r) /\ kept' # kept /\ (r.body \in Http \/ r.what = "confirmed")
         => r.body \in agreed]_vars

\* agents.js:28-44, general.js:13 and 52: changes by others reach the panel although it
\* ignores the live stream while a change of its own is under way.
ListsCatchUp ==
  [](Usable /\ data # kept => <>(~Usable \/ data = kept \/ Asking("http")))
=============================================================================
