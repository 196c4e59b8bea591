---------------------------- MODULE PanelEditor ----------------------------
(* The configuration editor of the panel: static/app.js and receiveDockerLabels() of *)
(* static/docker.js, with the draft it edits.                                        *)
(*                                                                                   *)
(* JavaScript runs one task at a time, so an action is the code between two awaits.  *)
(* `net` holds the requests in flight; the server answers one at some moment (Serve) *)
(* and the panel reads the answer at a later one.  Meanwhile the administrator types,*)
(* opens and closes dialogs, logs in again, and other writers (another panel, the    *)
(* label thread) replace the draft.  The server's revision is the digest of the      *)
(* draft, so here a revision is the configuration itself.                            *)
EXTENDS Naturals, FiniteSets

CONSTANTS
  None,
  Value,       \* values of one part of a configuration
  Initial,     \* the value every part has at first
  Bad,         \* text in the settings form that does not validate
  Elsewhere,   \* configurations that others save, versions to restore, files to import
  MaxSession,  \* bound: logins, counted from 1
  MaxEdits,    \* bound: edits, requests and logouts of the administrator
  MaxWrites,   \* bound: replacements of the draft by others
  MaxFaults    \* bound: requests that fail, sessions that end by themselves

ASSUME ConstantsAssumption ==
  /\ Initial \in Value /\ Bad \notin Value /\ None \notin Value \cup {Bad}
  /\ Elsewhere \subseteq [{"hosts", "settings"} -> Value]
  /\ MaxSession \in Nat \ {0} /\ {MaxEdits, MaxWrites, MaxFaults} \subseteq Nat

Part   == {"hosts", "settings"}
Config == [Part -> Value]
Session == 1..MaxSession
Page   == {"routes", "shield", "other"}   \* routes, history or dashboard; the settings form; the rest
Snapshot == [config : Config, pending : BOOLEAN]
Refusal  == {"conflict", "unauthorized", "failed"}
By       == {"task", "submit", "sync", "load"}
Path     == {"config", "save", "apply", "test", "restore", "preview", "logout", "password"}
Tasks    == {"save", "apply", "test", "restore", "import", "logout"}
Modals   == {"hosts", "settings", "password"}
Questions == [what : {"host", "route", "restore", "import"}, live : BOOLEAN,
              body : Config \cup {None}]
Message  == [by : By, path : Path, body : Config \cup {None}, rev : Config \cup {None},
             session : Session \cup {None}, shown : BOOLEAN,
             reply : {"snapshot", "ok", None} \cup Refusal, snapshot : Snapshot \cup {None},
             from : Config \cup {None}]

ASSUME NoneAssumption ==    \* it is no answer, no session and nothing that can be open
  /\ None \notin Config \cup Snapshot \cup Questions \cup Session
  /\ None \notin Tasks \cup Modals \cup Refusal \cup {"snapshot", "ok"}

VARIABLES
  \* Server.
  draft, active,  \* draft.json and the configuration nginx runs
  valid,          \* sessions it accepts
  frame,          \* revision in the newest SSE frame
  \* Panel.
  csrf,           \* session of the panel, or None
  screen,         \* "login" or "panel"
  page,
  state,          \* the last accepted snapshot, or None
  config,         \* what is being edited, or None
  dirty,
  task,           \* what task() is doing, or None: `busy`
  form,           \* text of the settings form, None on the other pages
  modal,          \* part edited by the open #modal, or None
  confirm,        \* what the open #confirm-modal asks, or None
  net,            \* requests in flight
  edits, writes, faults, sessions,   \* counters of the bounds
  \* Used by properties only.
  base,           \* revision `config` was made from
  late            \* an answer was used after its dialog or its session had gone

server == <<draft, active, valid, frame>>
dialogs == <<modal, confirm>>
editor == <<state, config, dirty, base>>
vars == <<server, csrf, screen, page, editor, task, form, dialogs, net,
          edits, writes, faults, sessions, late>>

(* Requests.  `by` is the code that awaits the answer; `shown` is TRUE while the     *)
(* dialog that sent it has not been closed; `from`, used by properties only, is the  *)
(* revision the saved configuration was made from.                                   *)
Request(by, path, body, rev) ==
  [by |-> by, path |-> path, body |-> body, rev |-> rev, session |-> csrf,
   shown |-> TRUE, reply |-> None, snapshot |-> None,
   from |-> IF path = "save" THEN base ELSE None]
Pending(by) == {r \in net : r.by = by}
Closed(rs)  == {[r EXCEPT !.shown = FALSE] : r \in rs}
WithModalClosed(rs) == {r \in rs : r.by # "submit"} \cup Closed({r \in rs : r.by = "submit"})

Busy   == task # None
Dialog == modal # None \/ confirm # None
Usable == screen = "panel" /\ csrf # None /\ config # None

ServerTyped == {draft, active, frame} \subseteq Config /\ valid \subseteq Session
PageTyped ==
  /\ csrf \in Session \cup {None} /\ screen \in {"login", "panel"} /\ page \in Page
  /\ task \in Tasks \cup {None} /\ form \in Value \cup {Bad, None} /\ late \in BOOLEAN
EditorTyped ==
  state \in Snapshot \cup {None} /\ {config, base} \subseteq Config \cup {None} /\ dirty \in BOOLEAN
DialogsTyped == modal \in Modals \cup {None} /\ confirm \in Questions \cup {None}
NetTyped    == net \subseteq Message
OneAtATime == \A by \in {"task", "sync"} : Cardinality(Pending(by)) <= 1
Bounded ==
  /\ edits \in 0..MaxEdits /\ writes \in 0..MaxWrites /\ faults \in 0..MaxFaults
  /\ sessions \in 0..MaxSession

TypeOK ==
  /\ ServerTyped /\ PageTyped /\ EditorTyped /\ DialogsTyped /\ NetTyped /\ OneAtATime /\ Bounded

Plain == [p \in Part |-> Initial]

Init ==
  /\ draft = Plain /\ active = Plain /\ frame = Plain /\ valid = {}
  /\ csrf = None /\ screen = "login" /\ page = "routes"
  /\ state = None /\ config = None /\ base = None /\ dirty = FALSE
  /\ task = None /\ form = None /\ modal = None /\ confirm = None /\ net = {}
  /\ edits = 0 /\ writes = 0 /\ faults = 0 /\ sessions = 0 /\ late = FALSE

(* Server.  Requests of a session it no longer accepts get 401.                      *)
SnapshotOf(d, a) == [config |-> d, pending |-> d # a]

\* Faulty variants of Current: a save, or an apply, is not compared with the draft.
CurrentUnlessSave(r)  == r.path \in {"apply", "test", "restore"} => r.rev = draft
CurrentUnlessApply(r) == r.path \in {"save", "test", "restore"} => r.rev = draft

Current(r)       == r.path \in {"save", "apply", "test", "restore"} => r.rev = draft

Saves(r)         == r.path \in {"save", "restore"}
Reads(r)         == Saves(r) \/ r.path \in {"apply", "config"}
Reply(r) ==
  IF r.session = None               THEN "failed"          \* no CSRF token
  ELSE IF r.session \notin valid    THEN "unauthorized"
  ELSE IF ~Current(r)               THEN "conflict"
  ELSE IF Reads(r)                  THEN "snapshot"
  ELSE "ok"
Done(r) == r.session # None /\ r.session \in valid /\ Current(r)

Serve(r) ==
  /\ r.reply = None
  /\ draft'  = IF Done(r) /\ Saves(r) THEN r.body ELSE draft
  /\ active' = IF Done(r) /\ r.path = "apply" THEN draft ELSE active
  /\ valid'  = CASE Done(r) /\ r.path = "logout"   -> valid \ {r.session}
                 [] Done(r) /\ r.path = "password" -> {}
                 [] OTHER                          -> valid
  /\ net' = (net \ {r}) \cup
       {[r EXCEPT !.reply = Reply(r),
                  !.snapshot = IF Done(r) /\ Reads(r) THEN SnapshotOf(draft', active') ELSE None]}
  /\ UNCHANGED <<frame, csrf, screen, page, editor, task, form, dialogs,
                 edits, writes, faults, sessions, late>>

\* The request is lost, it is refused (the candidate is not valid, nginx rejects it),
\* or its answer is lost after it was carried out.
Fail(r) ==
  /\ r.reply \notin Refusal /\ faults < MaxFaults /\ faults' = faults + 1
  /\ net' = (net \ {r}) \cup {[r EXCEPT !.reply = "failed", !.snapshot = None]}
  /\ UNCHANGED <<server, csrf, screen, page, editor, task, form, dialogs,
                 edits, writes, sessions, late>>

OtherSaves(c) ==
  /\ c # draft /\ writes < MaxWrites /\ writes' = writes + 1
  /\ draft' = c
  /\ UNCHANGED <<active, valid, frame, csrf, screen, page, editor, task, form, dialogs,
                 net, edits, faults, sessions, late>>

SessionExpires ==
  /\ csrf \in valid /\ faults < MaxFaults /\ faults' = faults + 1
  /\ valid' = valid \ {csrf}
  /\ UNCHANGED <<draft, active, frame, csrf, screen, page, editor, task, form, dialogs,
                 net, edits, writes, sessions, late>>

Publish ==
  /\ frame # draft /\ frame' = draft
  /\ UNCHANGED <<draft, active, valid, csrf, screen, page, editor, task, form, dialogs,
                 net, edits, writes, faults, sessions, late>>

(* Panel.                                                                            *)
Accept(s) == state' = s /\ config' = s.config /\ dirty' = FALSE /\ base' = s.config

Changed(c, b) ==
  config' = c /\ base' = b /\ dirty' = (c # state.config) /\ UNCHANGED state

Render ==
  IF config' # None /\ csrf' # None
  THEN /\ screen' = "panel"
       /\ form' = IF page' = "shield" THEN config'["settings"] ELSE None
  ELSE UNCHANGED <<screen, form>>

Collected == IF form = None THEN config ELSE [config EXCEPT !["settings"] = form]

\* api() on 401, auth_required, logout, a new password: showLogin() closes the dialogs.
\* A question still open resolves to "no", which ends an import; a submit stays in flight.
ShowLogin(rest) ==
  /\ csrf' = None /\ screen' = "login" /\ config' = None /\ base' = None
  /\ form' = None /\ modal' = None /\ confirm' = None
  /\ net' = WithModalClosed(rest)
  /\ UNCHANGED <<state, page, late>>
LogsOut(r)  == r.reply = "unauthorized" \/ (r.reply = "ok" /\ r.path \in {"logout", "password"})
Interrupted == IF task = "import" /\ confirm # None THEN None ELSE task

Counters == <<edits, writes, faults, sessions>>
Ask      == edits < MaxEdits /\ edits' = edits + 1 /\ UNCHANGED <<writes, faults, sessions>>

Login ==
  /\ screen = "login" /\ sessions < MaxSession
  /\ \A r \in Pending("load") : r.session # csrf
  /\ sessions' = sessions + 1 /\ csrf' = sessions' /\ valid' = valid \cup {sessions'}
  /\ net' = net \cup {[Request("load", "config", None, None) EXCEPT !.session = sessions']}
  /\ UNCHANGED <<draft, active, frame, screen, page, editor, task, form, dialogs,
                 edits, writes, faults, late>>

\* load(), awaited by the login form and by the start of the page.  Without an answer the
\* form shows the error and stays; a page just opened, which has no editor, shows the form.
LoadAnswered(r) ==
  /\ r.by = "load" /\ r.reply # None
  /\ \/ /\ r.reply = "unauthorized"
        /\ ShowLogin(net \ {r}) /\ task' = Interrupted /\ UNCHANGED dirty
     \/ /\ r.reply # "unauthorized"
        /\ net' = net \ {r}
        /\ UNCHANGED <<csrf, page, dialogs, task>>
        /\ IF r.reply \in Refusal
           THEN /\ UNCHANGED <<editor, late>>
                /\ IF config = None THEN screen' = "login" /\ form' = None
                                    ELSE UNCHANGED <<screen, form>>
           ELSE Accept(r.snapshot) /\ Render /\ late' = (late \/ r.session # csrf)
  /\ UNCHANGED <<server, Counters>>

\* The page is reopened.  What it sent and is still carried out counts as another's write.
Reload ==
  /\ Usable /\ csrf \in valid /\ Ask
  /\ page' = "routes" /\ state' = None /\ config' = None /\ base' = None /\ dirty' = FALSE
  /\ task' = None /\ form' = None /\ modal' = None /\ confirm' = None
  /\ net' = {Request("load", "config", None, None)}
  /\ UNCHANGED <<server, csrf, screen, late>>

\* The live stream learns that its session is gone.
AuthRequired ==
  /\ Usable /\ csrf \notin valid
  /\ ShowLogin(net) /\ task' = Interrupted
  /\ UNCHANGED <<server, dirty, Counters>>

(* The background refresh of the pages that only show the configuration.             *)
Safe == Usable /\ ~dirty /\ ~Busy /\ ~Dialog /\ page = "routes"

\* Faulty variant of SeeFrame: a second fetch while one is in flight.
SeeFrameAgain ==
  /\ Safe /\ csrf \in valid /\ frame # state.config
  /\ net' = net \cup {Request("sync", "config", None, state.config)}
  /\ UNCHANGED <<server, csrf, screen, page, editor, task, form, dialogs, Counters, late>>

SeeFrame ==
  /\ Safe /\ csrf \in valid /\ frame # state.config /\ Pending("sync") = {}
  /\ net' = net \cup {Request("sync", "config", None, state.config)}
  /\ UNCHANGED <<server, csrf, screen, page, editor, task, form, dialogs, Counters, late>>

\* Faulty variant of SyncDone: dockerConfigSync is reset after a success only.
SyncDoneOnSuccess(r) == IF r.reply \in Refusal THEN net ELSE net \ {r}

\* Faulty variants of SyncFits: safe() is not asked again; nor which revision it was for.
SyncFitsUnsafe(r)    == r.session = csrf /\ config # None /\ state.config = r.rev
SyncFitsAnyDialog(r) == r.session = csrf /\ Usable /\ ~dirty /\ ~Busy

SyncDone(r) == net \ {r}     \* dockerConfigSync = false, whatever the answer

SyncFits(r) == r.session = csrf /\ Safe /\ state.config = r.rev

SyncAnswered(r) ==
  /\ r.by = "sync" /\ r.reply # None
  /\ \/ /\ r.reply = "unauthorized"
        /\ ShowLogin(SyncDone(r)) /\ task' = Interrupted /\ UNCHANGED dirty
     \/ /\ r.reply # "unauthorized"
        /\ net' = SyncDone(r)
        /\ UNCHANGED <<csrf, page, dialogs, task, late>>
        /\ IF r.reply \notin Refusal /\ SyncFits(r)
           THEN Accept(r.snapshot) /\ Render ELSE UNCHANGED <<editor, screen, form>>
  /\ UNCHANGED <<server, Counters>>

(* The administrator edits.                                                          *)
Idle == Usable /\ ~Busy /\ ~Dialog

\* Faulty variant of Type: the form is not flagged as unsaved.
TypeUnflagged(v) ==
  /\ Usable /\ ~Dialog /\ form # None /\ v # form /\ Ask
  /\ form' = v
  /\ UNCHANGED <<server, csrf, screen, page, editor, task, dialogs, net, late>>

\* The settings form can be typed in while a task runs.
Type(v) ==
  /\ Usable /\ ~Dialog /\ form # None /\ v # form /\ Ask
  /\ form' = v /\ dirty' = TRUE
  /\ UNCHANGED <<server, csrf, screen, page, state, config, base, task, dialogs, net, late>>

\* collectSettings() refuses to leave a form that does not validate.
Navigate(p) ==
  /\ Idle /\ p # page /\ form # Bad
  /\ config' = Collected /\ page' = p /\ UNCHANGED csrf /\ Render
  /\ UNCHANGED <<server, state, dirty, base, task, dialogs, net, Counters, late>>

OpenEditor(p) ==
  /\ Idle /\ Ask
  /\ p = "hosts" => page # "shield"
  /\ p = "settings" => page = "other"
  /\ modal' = p
  /\ UNCHANGED <<server, csrf, screen, page, editor, task, form, confirm, net, late>>

\* Escape or the close button: possible while the answer to a submit is awaited.
CloseModal ==
  /\ modal # None /\ confirm = None
  /\ modal' = None /\ net' = WithModalClosed(net)
  /\ UNCHANGED <<server, csrf, screen, page, editor, task, form, confirm, Counters, late>>

Waiting == \E r \in net : r.by = "submit" /\ r.shown    \* the submit button is disabled

\* editHost(), editRoute(): the server checks the candidate before it is taken.
SubmitHosts(v) ==
  /\ modal = "hosts" /\ confirm = None /\ ~Waiting /\ v # config["hosts"]
  /\ net' = net \cup {Request("submit", "preview", [config EXCEPT !["hosts"] = v], base)}
  /\ UNCHANGED <<server, csrf, screen, page, editor, task, form, dialogs, Counters, late>>

SubmitPassword ==
  /\ modal = "password" /\ ~Waiting
  /\ net' = net \cup {Request("submit", "password", None, None)}
  /\ UNCHANGED <<server, csrf, screen, page, editor, task, form, dialogs, Counters, late>>

\* The size of the cache is taken at once, and so is the example of an empty editor.
SubmitCacheSize(v) ==
  /\ modal = "settings" /\ modal' = None
  /\ Changed([config EXCEPT !["settings"] = v], base) /\ UNCHANGED <<csrf, page>> /\ Render
  /\ UNCHANGED <<server, task, confirm, net, Counters, late>>

Example(v) ==
  /\ Idle /\ page = "routes" /\ config["hosts"] = Initial /\ v # Initial /\ Ask
  /\ Changed([config EXCEPT !["hosts"] = v], base) /\ UNCHANGED <<csrf, page>> /\ Render
  /\ UNCHANGED <<server, task, dialogs, net, late>>

\* The answer closes #modal and replaces `config`, whichever editor is open by then.
SubmitAnswered(r) ==
  /\ r.by = "submit" /\ r.reply # None
  /\ \/ /\ LogsOut(r)
        /\ ShowLogin(net \ {r}) /\ task' = Interrupted /\ UNCHANGED dirty
     \/ /\ r.reply \in Refusal \ {"unauthorized"}
        /\ net' = net \ {r}
        /\ UNCHANGED <<csrf, screen, page, editor, task, form, dialogs, late>>
     \/ /\ r.reply = "ok" /\ r.path = "preview"
        /\ Changed(r.body, r.rev) /\ UNCHANGED <<csrf, page, task>> /\ Render
        /\ modal' = None /\ net' = WithModalClosed(net \ {r})
        /\ confirm' = IF confirm = None THEN None ELSE [confirm EXCEPT !.live = FALSE]
        /\ late' = (late \/ ~r.shown \/ r.session # csrf)
  /\ UNCHANGED <<server, Counters>>

(* Questions.  Another confirmAction() while one is open answers itself with "no".   *)
Question(what, body) == [what |-> what, live |-> TRUE, body |-> body]

AskDelete(what) ==
  /\ modal = "hosts" /\ confirm = None /\ config["hosts"] # Initial
  /\ confirm' = Question(what, None)
  /\ UNCHANGED <<server, csrf, screen, page, editor, task, form, modal, net, Counters, late>>

\* A host is looked up again after the answer; a route is taken out of the host object
\* found before it, which may have left the editor meanwhile.
Delete ==
  /\ confirm # None /\ confirm.what \in {"host", "route"}
  /\ Changed(IF confirm.what = "host" \/ confirm.live
             THEN [config EXCEPT !["hosts"] = Initial] ELSE config, base)
  /\ UNCHANGED <<csrf, page>> /\ Render
  /\ confirm' = None /\ modal' = None /\ net' = WithModalClosed(net)
  /\ UNCHANGED <<server, task, Counters, late>>

\* An import replaces the editor with the file the administrator chose.
Import ==
  /\ confirm # None /\ confirm.what = "import"
  /\ config' = confirm.body /\ base' = state.config /\ dirty' = TRUE
  /\ confirm' = None /\ task' = None
  /\ UNCHANGED <<csrf, page>> /\ Render
  /\ UNCHANGED <<server, state, modal, net, Counters, late>>

Decline ==
  /\ confirm # None /\ confirm' = None
  /\ task' = Interrupted /\ UNCHANGED <<csrf, page, config>> /\ Render
  /\ UNCHANGED <<server, state, base, dirty, modal, net, Counters, late>>

(* task(): one at a time.                                                            *)
Send(t, path, body, rev) ==
  /\ task' = t
  /\ net' = net \cup {Request("task", path, body, rev)}

\* saveDraft() comes first in a save, an apply and a check; it takes the form in.
SaveFirst(t) ==
  /\ Idle /\ form # Bad /\ Ask
  /\ CASE t = "save"  -> dirty \/ page = "shield"
       [] t = "apply" -> dirty \/ state.pending
       [] t = "test"  -> page = "other"
  /\ config' = Collected /\ Send(t, "save", Collected, state.config)
  /\ UNCHANGED <<server, csrf, screen, page, state, dirty, base, form, dialogs, late>>

\* Ctrl+S or the dock with a form that does not validate: the form is drawn anew.
SaveInvalid ==
  /\ Idle /\ form = Bad /\ Ask
  /\ UNCHANGED <<csrf, page, config>> /\ Render
  /\ UNCHANGED <<server, state, dirty, base, task, dialogs, net, late>>

Restore(c) ==
  /\ Idle /\ page = "routes" /\ ~dirty /\ Ask
  /\ Send("restore", "restore", c, state.config)
  /\ UNCHANGED <<server, csrf, screen, page, editor, form, dialogs, late>>

AskRestore(c) ==
  /\ Idle /\ page = "routes" /\ dirty /\ Ask /\ confirm' = Question("restore", c)
  /\ UNCHANGED <<server, csrf, screen, page, editor, task, form, modal, net, late>>

RestoreAgreed ==
  /\ confirm # None /\ confirm.what = "restore" /\ confirm' = None
  /\ Send("restore", "restore", confirm.body, state.config)
  /\ UNCHANGED <<server, csrf, screen, page, editor, form, modal, Counters, late>>

ImportFile(c) ==
  /\ Idle /\ page = "routes" /\ Ask /\ Send("import", "preview", c, None)
  /\ UNCHANGED <<server, csrf, screen, page, editor, form, dialogs, late>>

Logout ==
  /\ Idle /\ Ask /\ Send("logout", "logout", None, None)
  /\ UNCHANGED <<server, csrf, screen, page, editor, form, dialogs, late>>

\* The next await of a task: an apply and a check follow the save with the revision the
\* save answered, an import asks before it replaces domains.
Continues(r) == r.path = "save" /\ task \in {"apply", "test"}
Asks(r)      == r.path = "preview" /\ config["hosts"] # Initial

\* `finally` ends the task and draws the page again.
TaskAnswered(r) ==
  /\ r.by = "task" /\ r.reply # None
  /\ \/ /\ LogsOut(r)
        /\ ShowLogin(net \ {r}) /\ task' = None
        /\ dirty' = (dirty /\ ~(r.path = "logout" /\ r.reply = "ok"))
     \/ /\ r.reply \in Refusal \ {"unauthorized"}
        /\ task' = None /\ net' = net \ {r} /\ UNCHANGED <<csrf, page, config>> /\ Render
        /\ UNCHANGED <<state, dirty, base, dialogs, late>>
     \/ /\ r.reply = "snapshot" /\ Accept(r.snapshot) /\ UNCHANGED <<csrf, page>>
        /\ IF Continues(r)
           THEN /\ task' = task /\ UNCHANGED <<screen, form>>
                /\ net' = (net \ {r}) \cup
                          {Request("task", task, r.body, r.snapshot.config)}
           ELSE task' = None /\ net' = net \ {r} /\ Render
        /\ late' = (late \/ r.session # csrf) /\ UNCHANGED dialogs
     \/ /\ r.reply = "ok" /\ r.path = "test"
        /\ task' = None /\ net' = net \ {r} /\ UNCHANGED <<csrf, page, config>> /\ Render
        /\ UNCHANGED <<state, dirty, base, dialogs, late>>
     \/ /\ r.reply = "ok" /\ r.path = "preview" /\ net' = net \ {r}
        /\ CASE config = None ->      \* logged out meanwhile: an error
                  /\ task' = None /\ UNCHANGED <<editor, screen, form, confirm>>
             [] config # None /\ Asks(r) ->
                  /\ confirm' = Question("import", r.body)
                  /\ UNCHANGED <<task, editor, screen, form>>
             [] config # None /\ ~Asks(r) ->
                  /\ config' = r.body /\ base' = state.config /\ dirty' = TRUE
                  /\ task' = None /\ UNCHANGED <<state, confirm, csrf, page>> /\ Render
        /\ UNCHANGED <<csrf, page, modal, late>>
  /\ UNCHANGED <<server, Counters>>

Answered(r) == LoadAnswered(r) \/ SyncAnswered(r) \/ SubmitAnswered(r) \/ TaskAnswered(r)

Edits ==
  \/ Login \/ Reload \/ CloseModal \/ SubmitPassword
  \/ \E v \in Value \cup {Bad} : Type(v)
  \/ \E p \in Page : Navigate(p)
  \/ \E p \in {"hosts", "settings", "password"} : OpenEditor(p)
  \/ \E v \in Value : SubmitHosts(v) \/ SubmitCacheSize(v) \/ Example(v)
  \/ \E what \in {"host", "route"} : AskDelete(what)
  \/ Delete \/ Import \/ Decline \/ RestoreAgreed \/ SaveInvalid \/ Logout
  \/ \E t \in {"save", "apply", "test"} : SaveFirst(t)
  \/ \E c \in Elsewhere : Restore(c) \/ AskRestore(c) \/ ImportFile(c)

Next ==
  \/ \E r \in net : Serve(r) \/ Fail(r) \/ Answered(r)
  \/ \E c \in Elsewhere : OtherSaves(c)
  \/ SessionExpires \/ Publish \/ AuthRequired \/ SeeFrame \/ Edits

\* The server answers, the stream publishes and the browser runs what is due; nobody has
\* to type, to answer a question or to write.
Fairness ==
  /\ WF_vars(\E r \in net : Serve(r)) /\ WF_vars(\E r \in net : Answered(r))
  /\ WF_vars(Publish) /\ WF_vars(AuthRequired) /\ WF_vars(SeeFrame)

Spec     == Init /\ [][Next]_vars
LiveSpec == Spec /\ Fairness

(* Properties.                                                                       *)

\* app.js:98-99, 573: whatever is not on the server is flagged as unsaved, so that the
\* page is not left, refreshed or restored without asking.  Nothing is said of the time a
\* task runs: Accept() of its answer replaces what was typed meanwhile and drops the flag.
UnsavedIsFlagged ==
  Usable /\ ~Busy => dirty \/ (config = state.config /\ form \in {None, config["settings"]})

\* app.js:399, storage.py:213: the revision a save is checked against is the one that was
\* edited, so that it cannot undo another's change.  The exception is an answer used after
\* its dialog or its session had gone (StaleEditorIsRefused shows what it does).
EditorIsOfItsRevision == config # None => base = state.config \/ late

\* docs/docker-labels.md:17 "Concurrent editor saves use revision checks; refresh an
\* outdated editor before saving again": an accepted save was made from the draft that it
\* replaces.
StaleEditorIsRefused ==
  [][\A r \in net : r.path = "save" /\ Serve(r) /\ draft' # draft => r.from = draft]_vars

\* The same while no answer was used late: what an editor was opened with, by a load, a
\* save, an import or a refresh, is what its save is compared with.
SavesReplaceWhatWasEdited ==
  [][\A r \in net :
       r.path = "save" /\ Serve(r) /\ draft' # draft => r.from = draft \/ late]_vars

\* docker.js:57-58 "Never replace an open editor or unsaved form, even if it is opened
\* while the fetch is in flight".
SyncSparesEdits ==
  [][\A r \in Pending("sync") :
       SyncAnswered(r) /\ (dirty \/ Dialog \/ Busy) => config' \in {config, None}]_vars

\* app.js:563: what an apply makes nginx run is what the editor showed at the click,
\* whoever replaced the draft between its two requests.
AppliedWasShown ==
  [][active' # active => \E r \in net : r.path = "apply" /\ r.body = active']_vars

\* docker.js:57-66: a page that only shows the configuration catches up with the draft,
\* failed refreshes included, unless it gets edited.
ReadOnlyPagesCatchUp ==
  [](Safe /\ state.config # draft => <>(~Safe \/ state.config = draft))
=============================================================================
