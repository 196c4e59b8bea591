------------------------- MODULE PanelEditor_proofs -------------------------
(* The proofs about the configuration editor, from ConstantsAssumption and           *)
(* NoneAssumption only.                                                              *)
(*                                                                                   *)
(* What the editor promises rests on what is in flight: an answer may only replace   *)
(* the editor, or be compared with it, as the code that sent the request expects.    *)
(* The inductive invariant IInv says of each kind of request what holds while it is  *)
(* in flight, and what no longer has to once an answer was used `late`, after its    *)
(* dialog or its session had gone.                                                   *)
EXTENDS PanelEditor, FiniteSetTheorems, TLAPS

\* Which code sends which request, with which body, and what it may be answered.
Sound(r) ==
  /\ r.by \in {"load", "sync"} => r.path = "config"
  /\ r.by = "submit" => r.path \in {"preview", "password"}
  /\ r.by = "task" => r.path \in {"save", "apply", "test", "restore", "preview", "logout"}
  /\ r.path \in {"save", "restore", "preview"} => r.body \in Config
  /\ r.path = "apply" => r.body = r.rev
  /\ r.reply = "ok" => ~Reads(r)
  /\ r.reply = "snapshot" =>
       r.snapshot \in Snapshot /\ (r.path = "save" => r.snapshot.config = r.body)
Requests == \A r \in net : Sound(r)

\* A save is compared with the revision that was edited.
SavedFrom == \A r \in net : r.path = "save" => r.from = r.rev \/ late

\* One task, one refresh, and one load in a session.
Unique ==
  \A q, r \in net :
    q.by = r.by /\ (q.by = "load" => q.session = r.session) /\ q.by # "submit" => q = r

\* No session of the panel is one to come.
Numbered ==
  /\ csrf \in 1..sessions \cup {None}
  /\ \A r \in net : r.session \in 1..sessions \cup {None}

\* Without a snapshot nothing is edited and nothing but loads is in flight.
Loaded == state = None => config = None /\ confirm = None /\ \A r \in net : r.by = "load"

\* Without a session the login form is shown, and over it no editor.
LoggedOut ==
  /\ csrf = None => screen = "login"
  /\ screen = "login" => form = None /\ (config = None \/ late)

\* What is open, is open over an editor that nothing else works on.
ModalOpen == modal # None => Usable /\ ~Busy

ConfirmOpen ==
  confirm # None =>
    /\ confirm.what \in {"restore", "import"} => confirm.body \in Config /\ modal = None
    /\ confirm.what = "import" => task = "import" /\ Pending("task") = {} /\ config # None
    /\ confirm.what # "import" => Usable /\ ~Busy

\* A request of task(), a load and a submit that is still shown.
TaskRuns ==
  \A r \in Pending("task") :
    /\ Busy /\ (r.path = "preview" => task = "import")
    /\ r.session = None => late
    /\ r.session = csrf => config # None \/ late

LoadRuns ==
  \A r \in Pending("load") : r.session # None /\ (r.session = csrf => config = None \/ late)

SubmitRuns ==
  \A r \in Pending("submit") : r.shown =>
    /\ r.session = csrf /\ modal = IF r.path = "preview" THEN "hosts" ELSE "password"
    /\ r.path = "preview" => r.rev = base \/ late

\* An editor that is not flagged shows the last snapshot.  UnsavedIsFlagged only speaks of
\* a page in use.
Flagged ==
  config # None /\ ~dirty =>
    config = state.config /\ (~Busy => form \in {None, config["settings"]})

IInv ==
  /\ ServerTyped /\ PageTyped /\ EditorTyped /\ DialogsTyped /\ NetTyped /\ Bounded
  /\ Requests /\ SavedFrom /\ Unique /\ Numbered /\ Loaded /\ LoggedOut /\ ModalOpen
  /\ ConfirmOpen /\ TaskRuns /\ LoadRuns /\ SubmitRuns /\ Flagged
  /\ EditorIsOfItsRevision

----------------------------------------------------------------------------
(* Helpers *)

\* A new request.
LEMMA RequestIn ==
  ASSUME PageTyped, EditorTyped, NEW by \in By, NEW path \in Path,
         NEW body \in Config \cup {None}, NEW rev \in Config \cup {None}
  PROVE  LET q == Request(by, path, body, rev)
         IN  /\ q \in Message
             /\ q.by = by /\ q.path = path /\ q.body = body /\ q.rev = rev
             /\ q.session = csrf /\ q.reply = None /\ q.shown
BY DEF PageTyped, EditorTyped, Request, Message

\* What closing #modal leaves of the requests rs: a submit is no longer shown.
LEMMA Closing ==
  ASSUME NEW rs \in SUBSET Message
  PROVE  /\ WithModalClosed(rs) \subseteq Message
         /\ \A q \in WithModalClosed(rs) :
              \/ q \in rs /\ q.by # "submit"
              \/ /\ q.by = "submit" /\ ~q.shown
                 /\ \E r \in rs : /\ r.by = "submit" /\ q.path = r.path /\ q.body = r.body
                                  /\ q.rev = r.rev /\ q.session = r.session
                                  /\ q.reply = r.reply /\ q.snapshot = r.snapshot /\ q.from = r.from
<1> USE DEF Message
<1>1. ASSUME NEW r \in rs, NEW q, q = [r EXCEPT !.shown = FALSE]
      PROVE  /\ q \in Message /\ ~q.shown /\ q.by = r.by /\ q.path = r.path /\ q.body = r.body
             /\ q.rev = r.rev /\ q.session = r.session
             /\ q.reply = r.reply /\ q.snapshot = r.snapshot /\ q.from = r.from
  BY <1>1
<1>2. ASSUME NEW q \in WithModalClosed(rs)
      PROVE  \/ q \in rs /\ q.by # "submit"
             \/ \E r \in rs : r.by = "submit" /\ q = [r EXCEPT !.shown = FALSE]
  BY DEF WithModalClosed, Closed
<1> HIDE DEF Message
<1> QED  BY <1>1, <1>2

\* An answer that is no refusal, and is not just "ok", carries a snapshot.
LEMMA AnswerIn ==
  ASSUME IInv, NEW r \in net
  PROVE  /\ r \in Message /\ r.by \in By /\ r.path \in Path /\ r.session \in Session \cup {None}
         /\ r.body \in Config \cup {None} /\ r.rev \in Config \cup {None}
         /\ r.path \in {"save", "restore", "preview"} => r.body \in Config
         /\ r.reply \in {"snapshot", "ok", None} \cup Refusal
         /\ r.reply = "snapshot" => r.snapshot \in Snapshot /\ r.snapshot.config \in Config
         /\ r.by \in {"load", "sync"} => r.reply # "ok"
BY DEF IInv, NetTyped, Message, Requests, Sound, Reads, Saves, Snapshot

\* While a configuration is edited, there is a snapshot it is compared with.
LEMMA InUse ==
  ASSUME IInv, config # None
  PROVE  /\ config \in Config /\ state \in Snapshot /\ state # None /\ state.config \in Config
         /\ form # Bad => Collected \in Config
         /\ \A p \in Part, v \in Value : [config EXCEPT ![p] = v] \in Config
BY DEF IInv, EditorTyped, PageTyped, Loaded, Collected, Config, Part, Snapshot

\* A dialog is only open over a configuration.
LEMMA DialogInUse ==
  ASSUME IInv, Dialog
  PROVE  config # None
BY DEF IInv, Dialog, ModalOpen, ConfirmOpen, Usable

LEMMA ElsewhereIn == Elsewhere \subseteq Config
BY ConstantsAssumption DEF ConstantsAssumption, Config, Part

LEMMA QuestionIn ==
  ASSUME NEW what \in {"host", "route", "restore", "import"}, NEW body \in Config \cup {None}
  PROVE  LET q == Question(what, body)
         IN  q \in Questions /\ q # None /\ q.what = what /\ q.body = body
<1>1. Question(what, body) = [what |-> what, live |-> TRUE, body |-> body]  BY DEF Question
<1>2. [what |-> what, live |-> TRUE, body |-> body] \in Questions  BY DEF Questions
<1>3. Question(what, body) # None  BY <1>1, <1>2, NoneAssumption DEF NoneAssumption
<1> QED  BY <1>1, <1>2, <1>3

\* What is drawn has a type, and a settings form shows the configuration.
LEMMA RenderIn ==
  ASSUME PageTyped, EditorTyped', Render
  PROVE  /\ screen' \in {"login", "panel"} /\ form' \in Value \cup {Bad, None}
         /\ \/ /\ config' # None /\ csrf' # None /\ screen' = "panel"
               /\ form' \in {None, config'["settings"]}
            \/ (config' = None \/ csrf' = None) /\ screen' = screen /\ form' = form
BY DEF PageTyped, EditorTyped, Render, Config, Part

LEMMA RequestHas ==
  ASSUME NEW by, NEW path, NEW body, NEW rev
  PROVE  LET q == Request(by, path, body, rev)
         IN  /\ q.by = by /\ q.path = path /\ q.body = body /\ q.rev = rev
             /\ q.session = csrf /\ q.reply = None /\ q.shown
             /\ path = "save" => q.from = base
BY DEF Request

LEMMA ClosingSound ==
  ASSUME NEW rs \in SUBSET Message, \A r \in rs : Sound(r)
  PROVE  \A q \in WithModalClosed(rs) : Sound(q)
<1>1. ASSUME NEW q \in WithModalClosed(rs), NEW r \in rs, r.by = "submit", q.by = "submit",
             q.path = r.path, q.body = r.body, q.rev = r.rev, q.reply = r.reply, q.snapshot = r.snapshot
      PROVE  Sound(q)
  BY <1>1 DEF Sound, Reads, Saves
<1> QED  BY <1>1, Closing


\* Logging in asks for the configuration, in the new session.
LEMMA LoginAsks ==
  ASSUME Login
  PROVE  /\ sessions' = sessions + 1 /\ csrf' = sessions'
         /\ \E q : /\ net' = net \cup {q}
                   /\ q.by = "load" /\ q.path = "config" /\ q.session = sessions'
                   /\ q.reply = None /\ q.shown
<1>1. PICK q : q = [Request("load", "config", None, None) EXCEPT !.session = sessions']  OBVIOUS
<1>2. /\ q.by = "load" /\ q.path = "config" /\ q.session = sessions' /\ q.reply = None /\ q.shown
  BY <1>1 DEF Request
<1>3. net' = net \cup {q}  BY <1>1 DEF Login
<1> QED  BY <1>2, <1>3 DEF Login

\* What becomes of the requests when a task gets its answer.
Follows(r) ==
  /\ csrf' = csrf /\ r.path = "save" /\ r.reply = "snapshot" /\ r.snapshot.config = r.body
  /\ task' = task /\ task \in {"apply", "test"}
  /\ config' = r.body /\ state' = r.snapshot /\ base' = r.body
  /\ late \/ r.session # csrf => late'
  /\ \E q : /\ net' = (net \ {r}) \cup {q}
            /\ q.by = "task" /\ q.path = task /\ q.body = r.body /\ q.rev = r.body
            /\ q.session = csrf /\ q.reply = None /\ q.shown
TaskGone(r) ==
  \/ csrf' = None /\ net' = WithModalClosed(net \ {r}) /\ task' = None
  \/ csrf' = csrf /\ net' = net \ {r}
  \/ Follows(r)

LEMMA TaskGoesOn ==
  ASSUME IInv, NEW r \in net, TaskAnswered(r)
  PROVE  TaskGone(r)
<1> USE DEF TaskGone, Follows
<1>1. CASE LogsOut(r)  BY <1>1 DEF TaskAnswered, LogsOut, ShowLogin, Refusal
<1>2. CASE r.reply = "snapshot" /\ Continues(r)
  <2>1. PICK q : q = Request("task", task, r.body, r.snapshot.config)  OBVIOUS
  <2>2. /\ q.by = "task" /\ q.path = task /\ q.body = r.body /\ q.rev = r.snapshot.config
        /\ q.session = csrf /\ q.reply = None /\ q.shown
    BY <2>1, RequestHas
  <2>3. r.snapshot.config = r.body /\ r.path = "save" /\ task \in {"apply", "test"}
    BY <1>2 DEF Continues, IInv, Requests, Sound
  <2>4. net' = (net \ {r}) \cup {q} /\ UNCHANGED <<csrf, task>>
    BY <1>2, <2>1 DEF TaskAnswered, LogsOut, Refusal
  <2>5. /\ config' = r.snapshot.config /\ base' = config' /\ state' = r.snapshot
        /\ late \/ r.session # csrf => late'
    BY <1>2 DEF TaskAnswered, LogsOut, Refusal, Accept
  <2> QED  BY <1>2, <2>2, <2>3, <2>4, <2>5
<1>3. CASE ~LogsOut(r) /\ ~(r.reply = "snapshot" /\ Continues(r))
  BY <1>3 DEF TaskAnswered
<1> QED  BY <1>1, <1>2, <1>3

\* A submit that is shown has its dialog open, over an editor of its revision.
LEMMA SubmitShown ==
  ASSUME IInv, NEW r \in net, r.by = "submit", r.shown
  PROVE  /\ Usable /\ ~Busy /\ r.session = csrf
         /\ r.path = "preview" => r.rev = base \/ late
<1>1. r \in Pending("submit")  BY DEF Pending
<1>2. /\ r.session = csrf /\ modal = IF r.path = "preview" THEN "hosts" ELSE "password"
      /\ r.path = "preview" => r.rev = base \/ late
  BY <1>1 DEF IInv, SubmitRuns
<1>3. modal # None  BY <1>2, NoneAssumption DEF NoneAssumption, Modals
<1> QED  BY <1>2, <1>3 DEF IInv, ModalOpen

\* What a submit's answer leads to.
Taken(r) ==
  /\ csrf' = csrf /\ page' = page /\ task' = task /\ state' = state /\ modal' = None
  /\ r.path = "preview" /\ r.body \in Config /\ config' = r.body /\ config' # None
  /\ base' = r.rev /\ (~dirty' => config' = state.config)
  /\ net' = WithModalClosed(net \ {r})
  /\ confirm = None => confirm' = None
  /\ confirm # None => confirm'.what = confirm.what /\ confirm'.body = confirm.body
  /\ late \/ ~r.shown \/ r.session # csrf => late'
  /\ csrf # None => screen' = "panel" /\ form' \in {None, config'["settings"]}
  /\ csrf = None => screen' = screen /\ form' = form
SubmitGone(r) ==
  \/ /\ csrf' = None /\ screen' = "login" /\ config' = None /\ form' = None
     /\ modal' = None /\ confirm' = None /\ net' = WithModalClosed(net \ {r})
     /\ late' = late
  \/ /\ UNCHANGED <<csrf, screen, page, editor, task, form, dialogs, late>>
     /\ net' = net \ {r}
  \/ Taken(r)

LEMMA SubmitGoesOn ==
  ASSUME IInv, NEW r \in net, SubmitAnswered(r)
  PROVE  SubmitGone(r)
<1>1. CASE LogsOut(r)  BY <1>1 DEF SubmitAnswered, LogsOut, ShowLogin, SubmitGone, Refusal
<1>2. CASE r.reply \in Refusal \ {"unauthorized"}
  BY <1>2 DEF SubmitAnswered, LogsOut, SubmitGone, Refusal, editor, dialogs
<1>3. CASE r.reply = "ok" /\ r.path = "preview"
  <2>1. r.body \in Config /\ r.body # None
    BY <1>3, AnswerIn, NoneAssumption DEF NoneAssumption
  <2>2. /\ csrf' = csrf /\ page' = page /\ task' = task /\ state' = state /\ modal' = None
        /\ config' = r.body /\ base' = r.rev /\ (~dirty' => r.body = state.config)
        /\ net' = WithModalClosed(net \ {r})
        /\ late \/ ~r.shown \/ r.session # csrf => late'
        /\ confirm' = IF confirm = None THEN None ELSE [confirm EXCEPT !.live = FALSE]
        /\ Render
    BY <1>3 DEF SubmitAnswered, LogsOut, Changed, Refusal
  <2>3. confirm # None => confirm'.what = confirm.what /\ confirm'.body = confirm.body
    BY <2>2 DEF IInv, DialogsTyped, Questions
  <2> QED  BY <1>3, <2>1, <2>2, <2>3 DEF SubmitGone, Taken, Render
<1> QED  BY <1>1, <1>2, <1>3 DEF SubmitAnswered

\* The dialog of the cache is open over an editor that is in use.
LEMMA CacheSizeIn ==
  ASSUME IInv, NEW v \in Value, SubmitCacheSize(v)
  PROVE  /\ Usable /\ ~Busy
         /\ csrf' = csrf /\ state' = state /\ base' = base /\ config' # None
         /\ screen' = "panel" /\ modal' = None
         /\ UNCHANGED <<confirm, net, late, task>>
<1>1. modal # None  BY NoneAssumption DEF SubmitCacheSize, NoneAssumption, Modals
<1>2. Usable /\ ~Busy  BY <1>1 DEF IInv, ModalOpen
<1>3. config' = [config EXCEPT !["settings"] = v]  BY DEF SubmitCacheSize, Changed
<1>4. config' \in Config  BY <1>2, <1>3, InUse DEF Usable, Part
<1>5. config' # None  BY <1>4, NoneAssumption DEF NoneAssumption
<1> QED  BY <1>2, <1>5 DEF SubmitCacheSize, Changed, Render, Usable

\* One task runs at a time.
LEMMA OneTask ==
  ASSUME IInv, NEW r \in net, r.by = "task"
  PROVE  \A q \in net : q.by = "task" => q = r
BY DEF IInv, Unique
\* The draft stays a configuration, and so does what nginx runs.
LEMMA ServerStep ==
  ASSUME IInv, [Next]_vars
  PROVE  ServerTyped'
<1> USE ConstantsAssumption, NoneAssumption DEF ConstantsAssumption, NoneAssumption, server,
      dialogs, editor, Counters, IInv, ServerTyped, SnapshotOf, Done, Saves, Bounded, Session
<1>1. CASE SessionExpires \/ Publish \/ \E c \in Elsewhere : OtherSaves(c)
  BY <1>1, ElsewhereIn DEF SessionExpires, Publish, OtherSaves
<1>2. ASSUME NEW r \in net, Serve(r)  PROVE ServerTyped'  BY <1>2, AnswerIn DEF Serve
<1>3. ASSUME NEW r \in net, Fail(r)  PROVE ServerTyped'  BY <1>3 DEF Fail
<1>4. ASSUME NEW r \in net, LoadAnswered(r)  PROVE ServerTyped'
  BY <1>4 DEF LoadAnswered, ShowLogin, Accept, Render
<1>5. ASSUME NEW r \in net, SyncAnswered(r)  PROVE ServerTyped'
  BY <1>5 DEF SyncAnswered, SyncDone, SyncFits, Safe, ShowLogin, Accept, Render
<1>6. ASSUME NEW r \in net, SubmitAnswered(r)  PROVE ServerTyped'
  BY <1>6 DEF SubmitAnswered, LogsOut, ShowLogin, Changed, Render
<1>7. ASSUME NEW r \in net, TaskAnswered(r)  PROVE ServerTyped'
  BY <1>7 DEF TaskAnswered, LogsOut, ShowLogin, Accept, Render
<1>8. CASE AuthRequired  BY <1>8 DEF AuthRequired, ShowLogin
<1>9. CASE SeeFrame  BY <1>9 DEF SeeFrame, Safe, Request
<1>10. CASE Login  BY <1>10 DEF Login, Request
<1>11. CASE Reload  BY <1>11 DEF Reload, Ask, Request
<1>12. CASE CloseModal  BY <1>12 DEF CloseModal
<1>13. CASE SubmitPassword  BY <1>13 DEF SubmitPassword, Request
<1>14. ASSUME NEW v \in Value \cup {Bad}, Type(v)  PROVE ServerTyped'  BY <1>14 DEF Type, Ask
<1>15. ASSUME NEW p \in Page, Navigate(p)  PROVE ServerTyped'
  BY <1>15 DEF Navigate, Idle, Render, Collected
<1>16. ASSUME NEW p \in Modals, OpenEditor(p)  PROVE ServerTyped'
  BY <1>16 DEF OpenEditor, Idle, Ask
<1>17. ASSUME NEW v \in Value, SubmitHosts(v)  PROVE ServerTyped'
  BY <1>17 DEF SubmitHosts, Request
<1>18. ASSUME NEW v \in Value, SubmitCacheSize(v)  PROVE ServerTyped'
  BY <1>18 DEF SubmitCacheSize, Changed, Render
<1>19. ASSUME NEW v \in Value, Example(v)  PROVE ServerTyped'
  BY <1>19 DEF Example, Idle, Ask, Changed, Render
<1>20. ASSUME NEW what \in {"host", "route"}, AskDelete(what)  PROVE ServerTyped'
  BY <1>20 DEF AskDelete, Question
<1>21. CASE Delete  BY <1>21 DEF Delete, Changed, Render
<1>22. CASE Import  BY <1>22 DEF Import, Render
<1>23. CASE Decline  BY <1>23 DEF Decline, Render
<1>24. CASE RestoreAgreed  BY <1>24 DEF RestoreAgreed, Send, Request
<1>25. CASE SaveInvalid  BY <1>25 DEF SaveInvalid, Idle, Ask, Render
<1>26. CASE Logout  BY <1>26 DEF Logout, Idle, Ask, Send, Request
<1>27. ASSUME NEW t \in {"save", "apply", "test"}, SaveFirst(t)  PROVE ServerTyped'
  BY <1>27 DEF SaveFirst, Idle, Ask, Collected, Send, Request
<1>28. ASSUME NEW c \in Elsewhere, Restore(c)  PROVE ServerTyped'
  BY <1>28 DEF Restore, Idle, Ask, Send, Request
<1>29. ASSUME NEW c \in Elsewhere, AskRestore(c)  PROVE ServerTyped'
  BY <1>29 DEF AskRestore, Idle, Ask, Question
<1>30. ASSUME NEW c \in Elsewhere, ImportFile(c)  PROVE ServerTyped'
  BY <1>30 DEF ImportFile, Idle, Ask, Send, Request
<1>31. CASE UNCHANGED vars  BY <1>31 DEF vars
<1> QED
  BY <1>1, <1>2, <1>3, <1>4, <1>5, <1>6, <1>7, <1>8, <1>9, <1>10, <1>11, <1>12, <1>13,
     <1>14, <1>15, <1>16, <1>17, <1>18, <1>19, <1>20, <1>21, <1>22, <1>23, <1>24, <1>25,
     <1>26, <1>27, <1>28, <1>29, <1>30, <1>31 DEF Next, Edits, Answered, Modals

\* The server's answer to r takes the place of r.
LEMMA Renews ==
  ASSUME IInv, NEW r \in net, Serve(r) \/ Fail(r)
  PROVE  /\ UNCHANGED <<csrf, screen, page, editor, task, form, dialogs, sessions, late>>
         /\ \E q \in Message :
              /\ net' = (net \ {r}) \cup {q} /\ Sound(q)
              /\ q.by = r.by /\ q.path = r.path /\ q.body = r.body /\ q.rev = r.rev
              /\ q.session = r.session /\ q.shown = r.shown /\ q.from = r.from
<1>1. r \in Message /\ Sound(r)  BY DEF IInv, NetTyped, Requests
<1>2. CASE Serve(r)
  <2> DEFINE s == IF Done(r) /\ Reads(r) THEN SnapshotOf(draft', active') ELSE None
  <2>1. Reply(r) \in {"snapshot", "ok"} \cup Refusal  BY DEF Reply, Refusal
  <2>2. draft' \in Config  BY <1>2, ServerStep DEF ServerTyped, Next
  <2>3. s \in Snapshot \cup {None}  BY <2>2 DEF SnapshotOf, Snapshot
  <2>4. Reply(r) = "ok" => ~Reads(r)  BY DEF Reply, Refusal
  <2>5. Reply(r) = "snapshot" => Done(r) /\ Reads(r)  BY DEF Reply, Done, Refusal
  <2>6. Done(r) /\ r.path = "save" => draft' = r.body  BY <1>2 DEF Serve, Saves
  <2>7. PICK q : q = [r EXCEPT !.reply = Reply(r), !.snapshot = s] /\ net' = (net \ {r}) \cup {q}
    BY <1>2 DEF Serve
  <2>8. Done(r) /\ Reads(r) => s \in Snapshot /\ s.config = draft'
    BY <2>2 DEF SnapshotOf, Snapshot
  <2>9. UNCHANGED <<csrf, screen, page, editor, task, form, dialogs, sessions, late>>
    BY <1>2 DEF Serve
  <2> HIDE DEF s
  <2>10. /\ q \in Message /\ q.reply = Reply(r) /\ q.snapshot = s
         /\ q.by = r.by /\ q.path = r.path /\ q.body = r.body /\ q.rev = r.rev
         /\ q.session = r.session /\ q.shown = r.shown /\ q.from = r.from
    BY <1>1, <2>1, <2>3, <2>7 DEF Message
  <2>11. Sound(q)
    BY <1>1, <2>4, <2>5, <2>6, <2>8, <2>10 DEF Sound, Reads, Saves
  <2> QED  BY <2>7, <2>9, <2>10, <2>11
<1>3. CASE Fail(r)
  <2>0. PICK q : q = [r EXCEPT !.reply = "failed", !.snapshot = None]  OBVIOUS
  <2>1. /\ q \in Message /\ q.reply = "failed"
        /\ q.by = r.by /\ q.path = r.path /\ q.body = r.body /\ q.rev = r.rev
        /\ q.session = r.session /\ q.shown = r.shown /\ q.from = r.from
    BY <1>1, <2>0 DEF Message, Refusal
  <2>2. net' = (net \ {r}) \cup {q}  BY <1>3, <2>0 DEF Fail
  <2>3. UNCHANGED <<csrf, screen, page, editor, task, form, dialogs, sessions, late>>
    BY <1>3 DEF Fail
  <2>4. Sound(q)  BY <1>1, <2>1 DEF Sound, Reads, Saves
  <2> QED  BY <2>1, <2>2, <2>3, <2>4
<1> QED  BY <1>2, <1>3


\* What is accepted from an answer, a file or a form is a configuration.
LEMMA EditorStep ==
  ASSUME IInv, [Next]_vars
  PROVE  EditorTyped'
<1> USE ConstantsAssumption, NoneAssumption DEF ConstantsAssumption, NoneAssumption, server,
      dialogs, editor, Counters, IInv, EditorTyped, Part
<1>1. CASE SessionExpires \/ Publish \/ \E c \in Elsewhere : OtherSaves(c)
  BY <1>1 DEF SessionExpires, Publish, OtherSaves
<1>2. ASSUME NEW r \in net, Serve(r)  PROVE EditorTyped'  BY <1>2 DEF Serve
<1>3. ASSUME NEW r \in net, Fail(r)  PROVE EditorTyped'  BY <1>3 DEF Fail
<1>4. ASSUME NEW r \in net, LoadAnswered(r)  PROVE EditorTyped'
  BY ZenonT(40), <1>4, AnswerIn DEF LoadAnswered, ShowLogin, Accept
<1>5. ASSUME NEW r \in net, SyncAnswered(r)  PROVE EditorTyped'
  BY ZenonT(40), <1>5, AnswerIn DEF SyncAnswered, SyncDone, SyncFits, Safe, ShowLogin, Accept
<1>6. ASSUME NEW r \in net, SubmitAnswered(r)  PROVE EditorTyped'
  BY ZenonT(40), <1>6, AnswerIn, InUse DEF SubmitAnswered, LogsOut, ShowLogin, Changed
<1>7. ASSUME NEW r \in net, TaskAnswered(r)  PROVE EditorTyped'
  <2>1. dirty' \in BOOLEAN  BY <1>7 DEF TaskAnswered, LogsOut, ShowLogin, Accept
  <2>2. CASE r.reply = "snapshot"
    BY <1>7, <2>1, <2>2, AnswerIn DEF TaskAnswered, LogsOut, Accept, Refusal
  <2>3. CASE r.reply = "ok" /\ r.path = "preview"
    BY <1>7, <2>1, <2>3, AnswerIn, InUse DEF TaskAnswered, LogsOut, Refusal
  <2>4. CASE r.reply # "snapshot" /\ ~(r.reply = "ok" /\ r.path = "preview")
    BY <1>7, <2>1, <2>4 DEF TaskAnswered, ShowLogin
  <2> QED  BY <2>2, <2>3, <2>4
<1>8. CASE AuthRequired  BY <1>8 DEF AuthRequired, ShowLogin
<1>9. CASE SeeFrame  BY <1>9 DEF SeeFrame, Safe, Request
<1>10. CASE Login  BY <1>10 DEF Login, Request
<1>11. CASE Reload  BY <1>11 DEF Reload, Ask, Request
<1>12. CASE CloseModal  BY <1>12 DEF CloseModal
<1>13. CASE SubmitPassword  BY <1>13 DEF SubmitPassword, Request
<1>14. ASSUME NEW v \in Value \cup {Bad}, Type(v)  PROVE EditorTyped'  BY <1>14 DEF Type, Ask
<1>15. ASSUME NEW p \in Page, Navigate(p)  PROVE EditorTyped'
  BY <1>15, InUse DEF Navigate, Idle, Usable
<1>16. ASSUME NEW p \in Modals, OpenEditor(p)  PROVE EditorTyped'
  BY <1>16 DEF OpenEditor, Idle, Ask
<1>17. ASSUME NEW v \in Value, SubmitHosts(v)  PROVE EditorTyped'
  BY <1>17 DEF SubmitHosts, Request
<1>18. ASSUME NEW v \in Value, SubmitCacheSize(v)  PROVE EditorTyped'
  <2>1. UNCHANGED <<state, base>> /\ config # None  BY <1>18, DialogInUse DEF SubmitCacheSize, Changed, Dialog, Modals
  <2>2. config' = [config EXCEPT !["settings"] = v]  BY <1>18 DEF SubmitCacheSize, Changed
  <2>3. config' \in Config  BY <2>1, <2>2, InUse
  <2>4. dirty' \in BOOLEAN  BY <1>18 DEF SubmitCacheSize, Changed
  <2> QED  BY <2>1, <2>3, <2>4
<1>19. ASSUME NEW v \in Value, Example(v)  PROVE EditorTyped'
  <2>1. UNCHANGED <<state, base>> /\ config # None  BY <1>19 DEF Example, Idle, Usable, Changed
  <2>2. config' = [config EXCEPT !["hosts"] = v]  BY <1>19 DEF Example, Changed
  <2>3. config' \in Config  BY <2>1, <2>2, InUse
  <2>4. dirty' \in BOOLEAN  BY <1>19 DEF Example, Changed
  <2> QED  BY <2>1, <2>3, <2>4
<1>20. ASSUME NEW what \in {"host", "route"}, AskDelete(what)  PROVE EditorTyped'
  BY <1>20 DEF AskDelete, Question
<1>21. CASE Delete  BY <1>21, InUse, DialogInUse DEF Delete, Changed, Dialog
<1>22. CASE Import  BY <1>22, InUse, DialogInUse DEF Import, Dialog, ConfirmOpen
<1>23. CASE Decline  BY <1>23 DEF Decline, Render
<1>24. CASE RestoreAgreed  BY <1>24 DEF RestoreAgreed, Send, Request
<1>25. CASE SaveInvalid  BY <1>25 DEF SaveInvalid, Idle, Ask, Render
<1>26. CASE Logout  BY <1>26 DEF Logout, Idle, Ask, Send, Request
<1>27. ASSUME NEW t \in {"save", "apply", "test"}, SaveFirst(t)  PROVE EditorTyped'
  BY <1>27, InUse DEF SaveFirst, Idle, Ask, Usable
<1>28. ASSUME NEW c \in Elsewhere, Restore(c)  PROVE EditorTyped'
  BY <1>28 DEF Restore, Idle, Ask, Send, Request
<1>29. ASSUME NEW c \in Elsewhere, AskRestore(c)  PROVE EditorTyped'
  BY <1>29 DEF AskRestore, Idle, Ask, Question
<1>30. ASSUME NEW c \in Elsewhere, ImportFile(c)  PROVE EditorTyped'
  BY <1>30 DEF ImportFile, Idle, Ask, Send, Request
<1>31. CASE UNCHANGED vars  BY <1>31 DEF vars
<1> QED
  BY <1>1, <1>2, <1>3, <1>4, <1>5, <1>6, <1>7, <1>8, <1>9, <1>10, <1>11, <1>12, <1>13,
     <1>14, <1>15, <1>16, <1>17, <1>18, <1>19, <1>20, <1>21, <1>22, <1>23, <1>24, <1>25,
     <1>26, <1>27, <1>28, <1>29, <1>30, <1>31 DEF Next, Edits, Answered, Modals

\* What is drawn, and the session, keep their types.
LEMMA PageStep ==
  ASSUME IInv, [Next]_vars
  PROVE  PageTyped'
<1> USE ConstantsAssumption, NoneAssumption DEF ConstantsAssumption, NoneAssumption, server,
      dialogs, editor, Counters, IInv, PageTyped, DialogsTyped, Interrupted, Bounded, Session,
      Tasks, Page
<1>1. CASE SessionExpires \/ Publish \/ \E c \in Elsewhere : OtherSaves(c)
  BY <1>1 DEF SessionExpires, Publish, OtherSaves
<1>2. ASSUME NEW r \in net, Serve(r)  PROVE PageTyped'  BY <1>2 DEF Serve
<1>3. ASSUME NEW r \in net, Fail(r)  PROVE PageTyped'  BY <1>3 DEF Fail
<1>4. ASSUME NEW r \in net, LoadAnswered(r)  PROVE PageTyped'
  BY <1>4, AnswerIn, EditorStep, RenderIn DEF LoadAnswered, ShowLogin
<1>5. ASSUME NEW r \in net, SyncAnswered(r)  PROVE PageTyped'
  BY <1>5, AnswerIn, EditorStep, RenderIn DEF SyncAnswered, SyncDone, SyncFits, Safe,
       ShowLogin
<1>6. ASSUME NEW r \in net, SubmitAnswered(r)  PROVE PageTyped'
  BY <1>6, AnswerIn, EditorStep, RenderIn DEF SubmitAnswered, LogsOut, ShowLogin
<1>7. ASSUME NEW r \in net, TaskAnswered(r)  PROVE PageTyped'
  BY <1>7, AnswerIn, EditorStep, RenderIn DEF TaskAnswered, LogsOut, ShowLogin
<1>8. CASE AuthRequired  BY <1>8 DEF AuthRequired, ShowLogin
<1>9. CASE SeeFrame  BY <1>9 DEF SeeFrame, Safe, Request
<1>10. CASE Login  BY <1>10 DEF Login, Request
<1>11. CASE Reload  BY <1>11 DEF Reload, Ask, Request
<1>12. CASE CloseModal  BY <1>12 DEF CloseModal
<1>13. CASE SubmitPassword  BY <1>13 DEF SubmitPassword, Request
<1>14. ASSUME NEW v \in Value \cup {Bad}, Type(v)  PROVE PageTyped'  BY <1>14 DEF Type, Ask
<1>15. ASSUME NEW p \in Page, Navigate(p)  PROVE PageTyped'
  BY <1>15, EditorStep, RenderIn DEF Navigate, Idle
<1>16. ASSUME NEW p \in Modals, OpenEditor(p)  PROVE PageTyped'
  BY <1>16 DEF OpenEditor, Idle, Ask
<1>17. ASSUME NEW v \in Value, SubmitHosts(v)  PROVE PageTyped'
  BY <1>17 DEF SubmitHosts, Request
<1>18. ASSUME NEW v \in Value, SubmitCacheSize(v)  PROVE PageTyped'
  BY <1>18, EditorStep, RenderIn DEF SubmitCacheSize
<1>19. ASSUME NEW v \in Value, Example(v)  PROVE PageTyped'
  BY <1>19, EditorStep, RenderIn DEF Example, Idle, Ask
<1>20. ASSUME NEW what \in {"host", "route"}, AskDelete(what)  PROVE PageTyped'
  BY <1>20 DEF AskDelete, Question
<1>21. CASE Delete  BY <1>21, EditorStep, RenderIn DEF Delete
<1>22. CASE Import  BY <1>22, EditorStep, RenderIn DEF Import
<1>23. CASE Decline  BY <1>23, EditorStep, RenderIn DEF Decline
<1>24. CASE RestoreAgreed  BY <1>24 DEF RestoreAgreed, Send, Request
<1>25. CASE SaveInvalid  BY <1>25, EditorStep, RenderIn DEF SaveInvalid, Idle, Ask
<1>26. CASE Logout  BY <1>26 DEF Logout, Idle, Ask, Send, Request
<1>27. ASSUME NEW t \in {"save", "apply", "test"}, SaveFirst(t)  PROVE PageTyped'
  BY <1>27 DEF SaveFirst, Idle, Ask, Collected, Send, Request
<1>28. ASSUME NEW c \in Elsewhere, Restore(c)  PROVE PageTyped'
  BY <1>28 DEF Restore, Idle, Ask, Send, Request
<1>29. ASSUME NEW c \in Elsewhere, AskRestore(c)  PROVE PageTyped'
  BY <1>29 DEF AskRestore, Idle, Ask, Question
<1>30. ASSUME NEW c \in Elsewhere, ImportFile(c)  PROVE PageTyped'
  BY <1>30 DEF ImportFile, Idle, Ask, Send, Request
<1>31. CASE UNCHANGED vars  BY <1>31 DEF vars
<1> QED
  BY <1>1, <1>2, <1>3, <1>4, <1>5, <1>6, <1>7, <1>8, <1>9, <1>10, <1>11, <1>12, <1>13,
     <1>14, <1>15, <1>16, <1>17, <1>18, <1>19, <1>20, <1>21, <1>22, <1>23, <1>24, <1>25,
     <1>26, <1>27, <1>28, <1>29, <1>30, <1>31 DEF Next, Edits, Answered, Modals

\* A dialog that opens is one of the panel's dialogs.
LEMMA DialogsStep ==
  ASSUME IInv, [Next]_vars
  PROVE  DialogsTyped'
<1> USE ConstantsAssumption, NoneAssumption DEF ConstantsAssumption, NoneAssumption, server,
      dialogs, editor, Counters, IInv, DialogsTyped, Modals
<1>1. CASE SessionExpires \/ Publish \/ \E c \in Elsewhere : OtherSaves(c)
  BY <1>1 DEF SessionExpires, Publish, OtherSaves
<1>2. ASSUME NEW r \in net, Serve(r)  PROVE DialogsTyped'  BY <1>2 DEF Serve
<1>3. ASSUME NEW r \in net, Fail(r)  PROVE DialogsTyped'  BY <1>3 DEF Fail
<1>4. ASSUME NEW r \in net, LoadAnswered(r)  PROVE DialogsTyped'
  BY <1>4 DEF LoadAnswered, ShowLogin, Accept, Render
<1>5. ASSUME NEW r \in net, SyncAnswered(r)  PROVE DialogsTyped'
  BY <1>5 DEF SyncAnswered, SyncDone, SyncFits, Safe, ShowLogin, Accept, Render
<1>6. ASSUME NEW r \in net, SubmitAnswered(r)  PROVE DialogsTyped'
  <2>1. confirm # None => [confirm EXCEPT !.live = FALSE] \in Questions  BY DEF Questions
  <2> QED  BY <1>6, <2>1 DEF SubmitAnswered, ShowLogin
<1>7. ASSUME NEW r \in net, TaskAnswered(r)  PROVE DialogsTyped'
  <2>1. \/ confirm' = confirm \/ confirm' = None
        \/ confirm' = Question("import", r.body)
    BY <1>7 DEF TaskAnswered, ShowLogin
  <2>2. modal' \in {modal, None}  BY <1>7 DEF TaskAnswered, ShowLogin
  <2>3. Question("import", r.body) \in Questions  BY AnswerIn, QuestionIn
  <2> QED  BY <2>1, <2>2, <2>3
<1>8. CASE AuthRequired  BY <1>8 DEF AuthRequired, ShowLogin
<1>9. CASE SeeFrame  BY <1>9 DEF SeeFrame, Safe, Request
<1>10. CASE Login  BY <1>10 DEF Login, Request
<1>11. CASE Reload  BY <1>11 DEF Reload, Ask, Request
<1>12. CASE CloseModal  BY <1>12 DEF CloseModal
<1>13. CASE SubmitPassword  BY <1>13 DEF SubmitPassword, Request
<1>14. ASSUME NEW v \in Value \cup {Bad}, Type(v)  PROVE DialogsTyped'  BY <1>14 DEF Type, Ask
<1>15. ASSUME NEW p \in Page, Navigate(p)  PROVE DialogsTyped'
  BY <1>15 DEF Navigate, Idle, Render, Collected
<1>16. ASSUME NEW p \in Modals, OpenEditor(p)  PROVE DialogsTyped'
  BY <1>16 DEF OpenEditor, Idle, Ask
<1>17. ASSUME NEW v \in Value, SubmitHosts(v)  PROVE DialogsTyped'
  BY <1>17 DEF SubmitHosts, Request
<1>18. ASSUME NEW v \in Value, SubmitCacheSize(v)  PROVE DialogsTyped'
  BY <1>18 DEF SubmitCacheSize, Changed, Render
<1>19. ASSUME NEW v \in Value, Example(v)  PROVE DialogsTyped'
  BY <1>19 DEF Example, Idle, Ask, Changed, Render
<1>20. ASSUME NEW what \in {"host", "route"}, AskDelete(what)  PROVE DialogsTyped'
  BY <1>20, QuestionIn DEF AskDelete
<1>21. CASE Delete  BY <1>21 DEF Delete, Changed, Render
<1>22. CASE Import  BY <1>22 DEF Import, Render
<1>23. CASE Decline  BY <1>23 DEF Decline, Render
<1>24. CASE RestoreAgreed  BY <1>24 DEF RestoreAgreed, Send, Request
<1>25. CASE SaveInvalid  BY <1>25 DEF SaveInvalid, Idle, Ask, Render
<1>26. CASE Logout  BY <1>26 DEF Logout, Idle, Ask, Send, Request
<1>27. ASSUME NEW t \in {"save", "apply", "test"}, SaveFirst(t)  PROVE DialogsTyped'
  BY <1>27 DEF SaveFirst, Idle, Ask, Collected, Send, Request
<1>28. ASSUME NEW c \in Elsewhere, Restore(c)  PROVE DialogsTyped'
  BY <1>28 DEF Restore, Idle, Ask, Send, Request
<1>29. ASSUME NEW c \in Elsewhere, AskRestore(c)  PROVE DialogsTyped'
  BY <1>29, QuestionIn, ElsewhereIn DEF AskRestore, Idle, Ask
<1>30. ASSUME NEW c \in Elsewhere, ImportFile(c)  PROVE DialogsTyped'
  BY <1>30 DEF ImportFile, Idle, Ask, Send, Request
<1>31. CASE UNCHANGED vars  BY <1>31 DEF vars
<1> QED
  BY <1>1, <1>2, <1>3, <1>4, <1>5, <1>6, <1>7, <1>8, <1>9, <1>10, <1>11, <1>12, <1>13,
     <1>14, <1>15, <1>16, <1>17, <1>18, <1>19, <1>20, <1>21, <1>22, <1>23, <1>24, <1>25,
     <1>26, <1>27, <1>28, <1>29, <1>30, <1>31 DEF Next, Edits, Answered, Modals

\* Requests and answers keep their form.
LEMMA NetStep ==
  ASSUME IInv, [Next]_vars
  PROVE  NetTyped'
<1> USE ConstantsAssumption, NoneAssumption DEF ConstantsAssumption, NoneAssumption, server,
      dialogs, editor, Counters, IInv, NetTyped
<1>1. CASE SessionExpires \/ Publish \/ \E c \in Elsewhere : OtherSaves(c)
  BY <1>1 DEF SessionExpires, Publish, OtherSaves
<1>2. ASSUME NEW r \in net, Serve(r)  PROVE NetTyped'  BY <1>2, Renews
<1>3. ASSUME NEW r \in net, Fail(r)  PROVE NetTyped'  BY <1>3, Renews
<1>4. ASSUME NEW r \in net, LoadAnswered(r)  PROVE NetTyped'
  BY <1>4, Closing DEF LoadAnswered, ShowLogin
<1>5. ASSUME NEW r \in net, SyncAnswered(r)  PROVE NetTyped'
  BY <1>5, Closing DEF SyncAnswered, SyncDone, SyncFits, Safe, ShowLogin
<1>6. ASSUME NEW r \in net, SubmitAnswered(r)  PROVE NetTyped'
  BY <1>6, Closing DEF SubmitAnswered, LogsOut, ShowLogin
<1>7. ASSUME NEW r \in net, TaskAnswered(r)  PROVE NetTyped'
  <2>1. \/ net' = WithModalClosed(net \ {r}) \/ net' = net \ {r}
        \/ /\ Continues(r) /\ r.reply = "snapshot"
           /\ net' = (net \ {r}) \cup {Request("task", task, r.body, r.snapshot.config)}
    BY <1>7 DEF TaskAnswered, ShowLogin
  <2>2. Continues(r) /\ r.reply = "snapshot" => Request("task", task, r.body, r.snapshot.config) \in Message
    BY SMTT(30), AnswerIn, RequestIn DEF Continues, By, Path
  <2> QED  BY <2>1, <2>2, Closing
<1>8. CASE AuthRequired  BY <1>8, Closing DEF AuthRequired, ShowLogin
<1>9. CASE SeeFrame  BY <1>9, RequestIn, InUse DEF SeeFrame, Safe, Usable, By, Path
<1>10. CASE Login
  <2>1. Request("load", "config", None, None) \in Message  BY RequestIn DEF By, Path
  <2>2. sessions' \in Session  BY <1>10 DEF Login, Bounded, Session
  <2>3. [Request("load", "config", None, None) EXCEPT !.session = sessions'] \in Message
    BY <2>1, <2>2 DEF Message
  <2> QED  BY <1>10, <2>3 DEF Login
<1>11. CASE Reload  BY <1>11, RequestIn DEF Reload, Ask, By, Path
<1>12. CASE CloseModal  BY <1>12, Closing DEF CloseModal
<1>13. CASE SubmitPassword  BY <1>13, RequestIn DEF SubmitPassword, By, Path
<1>14. ASSUME NEW v \in Value \cup {Bad}, Type(v)  PROVE NetTyped'  BY <1>14 DEF Type, Ask
<1>15. ASSUME NEW p \in Page, Navigate(p)  PROVE NetTyped'
  BY <1>15 DEF Navigate, Idle, Render, Collected
<1>16. ASSUME NEW p \in Modals, OpenEditor(p)  PROVE NetTyped'
  BY <1>16 DEF OpenEditor, Idle, Ask
<1>17. ASSUME NEW v \in Value, SubmitHosts(v)  PROVE NetTyped'
  <2>1. [config EXCEPT !["hosts"] = v] \in Config
    BY <1>17, InUse, DialogInUse DEF SubmitHosts, Dialog, Part, Modals
  <2>2. Request("submit", "preview", [config EXCEPT !["hosts"] = v], base) \in Message
    BY <2>1, RequestIn DEF By, Path, EditorTyped
  <2> QED  BY <1>17, <2>2 DEF SubmitHosts
<1>18. ASSUME NEW v \in Value, SubmitCacheSize(v)  PROVE NetTyped'
  BY <1>18 DEF SubmitCacheSize, Changed, Render
<1>19. ASSUME NEW v \in Value, Example(v)  PROVE NetTyped'
  BY <1>19 DEF Example, Idle, Ask, Changed, Render
<1>20. ASSUME NEW what \in {"host", "route"}, AskDelete(what)  PROVE NetTyped'
  BY <1>20 DEF AskDelete, Question
<1>21. CASE Delete  BY <1>21, Closing DEF Delete
<1>22. CASE Import  BY <1>22 DEF Import, Render
<1>23. CASE Decline  BY <1>23 DEF Decline, Render
<1>24. CASE RestoreAgreed
  <2>1. confirm.body \in Config \cup {None} /\ state.config \in Config
    BY <1>24, InUse, DialogInUse DEF RestoreAgreed, Dialog, DialogsTyped, Questions
  <2>2. Request("task", "restore", confirm.body, state.config) \in Message
    BY SMTT(30), <2>1, RequestIn DEF By, Path
  <2> QED  BY <1>24, <2>2 DEF RestoreAgreed, Send
<1>25. CASE SaveInvalid  BY <1>25 DEF SaveInvalid, Idle, Ask, Render
<1>26. CASE Logout  BY <1>26, RequestIn DEF Logout, Idle, Ask, Send, By, Path
<1>27. ASSUME NEW t \in {"save", "apply", "test"}, SaveFirst(t)  PROVE NetTyped'
  BY <1>27, RequestIn, InUse DEF SaveFirst, Idle, Ask, Send, Usable, By, Path
<1>28. ASSUME NEW c \in Elsewhere, Restore(c)  PROVE NetTyped'
  BY <1>28, RequestIn, InUse, ElsewhereIn DEF Restore, Idle, Ask, Send, Usable, By, Path
<1>29. ASSUME NEW c \in Elsewhere, AskRestore(c)  PROVE NetTyped'
  BY <1>29 DEF AskRestore, Idle, Ask, Question
<1>30. ASSUME NEW c \in Elsewhere, ImportFile(c)  PROVE NetTyped'
  BY <1>30, RequestIn, InUse, ElsewhereIn DEF ImportFile, Idle, Ask, Send, Usable, By, Path
<1>31. CASE UNCHANGED vars  BY <1>31 DEF vars
<1> QED
  BY <1>1, <1>2, <1>3, <1>4, <1>5, <1>6, <1>7, <1>8, <1>9, <1>10, <1>11, <1>12, <1>13,
     <1>14, <1>15, <1>16, <1>17, <1>18, <1>19, <1>20, <1>21, <1>22, <1>23, <1>24, <1>25,
     <1>26, <1>27, <1>28, <1>29, <1>30, <1>31 DEF Next, Edits, Answered, Modals

\* The counters stay within their bounds.
LEMMA BoundedStep ==
  ASSUME IInv, [Next]_vars
  PROVE  Bounded'
<1> USE ConstantsAssumption, NoneAssumption DEF ConstantsAssumption, NoneAssumption, server,
      dialogs, editor, Counters, IInv, Bounded
<1>1. CASE SessionExpires \/ Publish \/ \E c \in Elsewhere : OtherSaves(c)
  BY <1>1 DEF SessionExpires, Publish, OtherSaves
<1>2. ASSUME NEW r \in net, Serve(r)  PROVE Bounded'  BY <1>2 DEF Serve
<1>3. ASSUME NEW r \in net, Fail(r)  PROVE Bounded'  BY <1>3 DEF Fail
<1>4. ASSUME NEW r \in net, LoadAnswered(r)  PROVE Bounded'
  BY <1>4 DEF LoadAnswered, ShowLogin, Accept, Render
<1>5. ASSUME NEW r \in net, SyncAnswered(r)  PROVE Bounded'
  BY <1>5 DEF SyncAnswered, SyncDone, SyncFits, Safe, ShowLogin, Accept, Render
<1>6. ASSUME NEW r \in net, SubmitAnswered(r)  PROVE Bounded'
  BY <1>6 DEF SubmitAnswered, LogsOut, ShowLogin, Changed, Render
<1>7. ASSUME NEW r \in net, TaskAnswered(r)  PROVE Bounded'
  BY <1>7 DEF TaskAnswered, LogsOut, ShowLogin, Accept, Render
<1>8. CASE AuthRequired  BY <1>8 DEF AuthRequired, ShowLogin
<1>9. CASE SeeFrame  BY <1>9 DEF SeeFrame, Safe, Request
<1>10. CASE Login  BY <1>10 DEF Login, Request
<1>11. CASE Reload  BY <1>11 DEF Reload, Ask, Request
<1>12. CASE CloseModal  BY <1>12 DEF CloseModal
<1>13. CASE SubmitPassword  BY <1>13 DEF SubmitPassword, Request
<1>14. ASSUME NEW v \in Value \cup {Bad}, Type(v)  PROVE Bounded'  BY <1>14 DEF Type, Ask
<1>15. ASSUME NEW p \in Page, Navigate(p)  PROVE Bounded'
  BY <1>15 DEF Navigate, Idle, Render, Collected
<1>16. ASSUME NEW p \in Modals, OpenEditor(p)  PROVE Bounded'
  BY <1>16 DEF OpenEditor, Idle, Ask
<1>17. ASSUME NEW v \in Value, SubmitHosts(v)  PROVE Bounded'
  BY <1>17 DEF SubmitHosts, Request
<1>18. ASSUME NEW v \in Value, SubmitCacheSize(v)  PROVE Bounded'
  BY <1>18 DEF SubmitCacheSize, Changed, Render
<1>19. ASSUME NEW v \in Value, Example(v)  PROVE Bounded'
  BY <1>19 DEF Example, Idle, Ask, Changed, Render
<1>20. ASSUME NEW what \in {"host", "route"}, AskDelete(what)  PROVE Bounded'
  BY <1>20 DEF AskDelete, Question
<1>21. CASE Delete  BY <1>21 DEF Delete, Changed, Render
<1>22. CASE Import  BY <1>22 DEF Import, Render
<1>23. CASE Decline  BY <1>23 DEF Decline, Render
<1>24. CASE RestoreAgreed  BY <1>24 DEF RestoreAgreed, Send, Request
<1>25. CASE SaveInvalid  BY <1>25 DEF SaveInvalid, Idle, Ask, Render
<1>26. CASE Logout  BY <1>26 DEF Logout, Idle, Ask, Send, Request
<1>27. ASSUME NEW t \in {"save", "apply", "test"}, SaveFirst(t)  PROVE Bounded'
  BY <1>27 DEF SaveFirst, Idle, Ask, Collected, Send, Request
<1>28. ASSUME NEW c \in Elsewhere, Restore(c)  PROVE Bounded'
  BY <1>28 DEF Restore, Idle, Ask, Send, Request
<1>29. ASSUME NEW c \in Elsewhere, AskRestore(c)  PROVE Bounded'
  BY <1>29 DEF AskRestore, Idle, Ask, Question
<1>30. ASSUME NEW c \in Elsewhere, ImportFile(c)  PROVE Bounded'
  BY <1>30 DEF ImportFile, Idle, Ask, Send, Request
<1>31. CASE UNCHANGED vars  BY <1>31 DEF vars
<1> QED
  BY <1>1, <1>2, <1>3, <1>4, <1>5, <1>6, <1>7, <1>8, <1>9, <1>10, <1>11, <1>12, <1>13,
     <1>14, <1>15, <1>16, <1>17, <1>18, <1>19, <1>20, <1>21, <1>22, <1>23, <1>24, <1>25,
     <1>26, <1>27, <1>28, <1>29, <1>30, <1>31 DEF Next, Edits, Answered, Modals

\* Every part of the panel sends its own requests, and the server's answer fits its request.
LEMMA RequestsStep ==
  ASSUME IInv, [Next]_vars
  PROVE  Requests'
<1> USE ConstantsAssumption, NoneAssumption DEF ConstantsAssumption, NoneAssumption, server,
      dialogs, editor, Counters, IInv, Requests, NetTyped
<1>1. CASE SessionExpires \/ Publish \/ \E c \in Elsewhere : OtherSaves(c)
  BY <1>1 DEF SessionExpires, Publish, OtherSaves
<1>2. ASSUME NEW r \in net, Serve(r)  PROVE Requests'  BY <1>2, Renews
<1>3. ASSUME NEW r \in net, Fail(r)  PROVE Requests'  BY <1>3, Renews
<1>4. ASSUME NEW r \in net, LoadAnswered(r)  PROVE Requests'
  BY <1>4, ClosingSound DEF LoadAnswered, ShowLogin
<1>5. ASSUME NEW r \in net, SyncAnswered(r)  PROVE Requests'
  BY <1>5, ClosingSound DEF SyncAnswered, SyncDone, SyncFits, Safe, ShowLogin
<1>6. ASSUME NEW r \in net, SubmitAnswered(r)  PROVE Requests'
  BY <1>6, ClosingSound DEF SubmitAnswered, LogsOut, ShowLogin
<1>7. ASSUME NEW r \in net, TaskAnswered(r)  PROVE Requests'
  <2>1. \A q \in WithModalClosed(net \ {r}) : Sound(q)  BY ClosingSound
  <2>2. TaskGone(r)  BY <1>7, TaskGoesOn
  <2> QED  BY <2>1, <2>2, AnswerIn DEF TaskGone, Follows, Sound, Reads, Saves
<1>8. CASE AuthRequired  BY <1>8, ClosingSound DEF AuthRequired, ShowLogin
<1>9. CASE SeeFrame  BY <1>9, RequestHas DEF SeeFrame, Safe, Sound
<1>10. CASE Login  BY <1>10, LoginAsks DEF Sound, Reads, Saves
<1>11. CASE Reload  BY <1>11, RequestHas DEF Reload, Ask, Sound
<1>12. CASE CloseModal  BY <1>12, ClosingSound DEF CloseModal
<1>13. CASE SubmitPassword  BY <1>13, RequestHas DEF SubmitPassword, Sound
<1>14. ASSUME NEW v \in Value \cup {Bad}, Type(v)  PROVE Requests'  BY <1>14 DEF Type, Ask
<1>15. ASSUME NEW p \in Page, Navigate(p)  PROVE Requests'
  BY <1>15 DEF Navigate, Idle, Render, Collected
<1>16. ASSUME NEW p \in Modals, OpenEditor(p)  PROVE Requests'
  BY <1>16 DEF OpenEditor, Idle, Ask
<1>17. ASSUME NEW v \in Value, SubmitHosts(v)  PROVE Requests'
  BY <1>17, RequestHas, InUse, DialogInUse DEF SubmitHosts, Sound, Dialog, Modals, Part
<1>18. ASSUME NEW v \in Value, SubmitCacheSize(v)  PROVE Requests'
  BY <1>18 DEF SubmitCacheSize, Changed, Render
<1>19. ASSUME NEW v \in Value, Example(v)  PROVE Requests'
  BY <1>19 DEF Example, Idle, Ask, Changed, Render
<1>20. ASSUME NEW what \in {"host", "route"}, AskDelete(what)  PROVE Requests'
  BY <1>20 DEF AskDelete, Question
<1>21. CASE Delete  BY <1>21, ClosingSound DEF Delete
<1>22. CASE Import  BY <1>22 DEF Import, Render
<1>23. CASE Decline  BY <1>23 DEF Decline, Render
<1>24. CASE RestoreAgreed  BY <1>24, RequestHas DEF RestoreAgreed, Send, Sound, ConfirmOpen
<1>25. CASE SaveInvalid  BY <1>25 DEF SaveInvalid, Idle, Ask, Render
<1>26. CASE Logout  BY <1>26, RequestHas DEF Logout, Idle, Ask, Send, Sound
<1>27. ASSUME NEW t \in {"save", "apply", "test"}, SaveFirst(t)  PROVE Requests'
  BY <1>27, RequestHas, InUse DEF SaveFirst, Idle, Ask, Send, Usable, Sound
<1>28. ASSUME NEW c \in Elsewhere, Restore(c)  PROVE Requests'
  BY <1>28, RequestHas, ElsewhereIn DEF Restore, Idle, Ask, Send, Sound
<1>29. ASSUME NEW c \in Elsewhere, AskRestore(c)  PROVE Requests'
  BY <1>29 DEF AskRestore, Idle, Ask, Question
<1>30. ASSUME NEW c \in Elsewhere, ImportFile(c)  PROVE Requests'
  BY <1>30, RequestHas, ElsewhereIn DEF ImportFile, Idle, Ask, Send, Sound
<1>31. CASE UNCHANGED vars  BY <1>31 DEF vars
<1> QED
  BY <1>1, <1>2, <1>3, <1>4, <1>5, <1>6, <1>7, <1>8, <1>9, <1>10, <1>11, <1>12, <1>13,
     <1>14, <1>15, <1>16, <1>17, <1>18, <1>19, <1>20, <1>21, <1>22, <1>23, <1>24, <1>25,
     <1>26, <1>27, <1>28, <1>29, <1>30, <1>31 DEF Next, Edits, Answered, Modals

\* A save is sent with the revision the editor was made from.
LEMMA SavedStep ==
  ASSUME IInv, [Next]_vars
  PROVE  SavedFrom'
<1> USE ConstantsAssumption, NoneAssumption DEF ConstantsAssumption, NoneAssumption, server,
      dialogs, editor, Counters, IInv, SavedFrom, NetTyped
<1>1. CASE SessionExpires \/ Publish \/ \E c \in Elsewhere : OtherSaves(c)
  BY <1>1 DEF SessionExpires, Publish, OtherSaves
<1>2. ASSUME NEW r \in net, Serve(r)  PROVE SavedFrom'  BY <1>2, Renews
<1>3. ASSUME NEW r \in net, Fail(r)  PROVE SavedFrom'  BY <1>3, Renews
<1>4. ASSUME NEW r \in net, LoadAnswered(r)  PROVE SavedFrom'
  <2>1. late => late'  BY <1>4 DEF LoadAnswered, ShowLogin
  <2>2. net' = net \ {r} \/ net' = WithModalClosed(net \ {r})  BY <1>4 DEF LoadAnswered, ShowLogin
  <2> QED  BY <2>1, <2>2, Closing
<1>5. ASSUME NEW r \in net, SyncAnswered(r)  PROVE SavedFrom'
  BY <1>5, Closing, AnswerIn DEF SyncAnswered, SyncDone, SyncFits, Safe, ShowLogin
<1>6. ASSUME NEW r \in net, SubmitAnswered(r)  PROVE SavedFrom'
  <2>1. SubmitGone(r)  BY <1>6, SubmitGoesOn
  <2> QED  BY <2>1, Closing DEF SubmitGone, Taken
<1>7. ASSUME NEW r \in net, TaskAnswered(r)  PROVE SavedFrom'
  <2>1. TaskGone(r)  BY <1>7, TaskGoesOn
  <2>2. late => late'  BY <1>7 DEF TaskAnswered, ShowLogin
  <2> QED  BY <2>1, <2>2, Closing DEF TaskGone, Follows
<1>8. CASE AuthRequired  BY <1>8, Closing DEF AuthRequired, ShowLogin
<1>9. CASE SeeFrame  BY <1>9, RequestHas DEF SeeFrame, Safe
<1>10. CASE Login  BY <1>10, LoginAsks DEF Login
<1>11. CASE Reload  BY <1>11, RequestHas DEF Reload, Ask
<1>12. CASE CloseModal  BY <1>12, Closing DEF CloseModal
<1>13. CASE SubmitPassword  BY <1>13, RequestHas DEF SubmitPassword
<1>14. ASSUME NEW v \in Value \cup {Bad}, Type(v)  PROVE SavedFrom'  BY <1>14 DEF Type, Ask
<1>15. ASSUME NEW p \in Page, Navigate(p)  PROVE SavedFrom'
  BY <1>15 DEF Navigate, Idle, Render, Collected
<1>16. ASSUME NEW p \in Modals, OpenEditor(p)  PROVE SavedFrom'
  BY <1>16 DEF OpenEditor, Idle, Ask
<1>17. ASSUME NEW v \in Value, SubmitHosts(v)  PROVE SavedFrom'
  BY <1>17, RequestHas DEF SubmitHosts
<1>18. ASSUME NEW v \in Value, SubmitCacheSize(v)  PROVE SavedFrom'
  BY <1>18 DEF SubmitCacheSize, Changed, Render
<1>19. ASSUME NEW v \in Value, Example(v)  PROVE SavedFrom'
  BY <1>19 DEF Example, Idle, Ask, Changed, Render
<1>20. ASSUME NEW what \in {"host", "route"}, AskDelete(what)  PROVE SavedFrom'
  BY <1>20 DEF AskDelete, Question
<1>21. CASE Delete  BY <1>21, Closing DEF Delete
<1>22. CASE Import  BY <1>22 DEF Import, Render
<1>23. CASE Decline  BY <1>23 DEF Decline, Render
<1>24. CASE RestoreAgreed  BY <1>24, RequestHas DEF RestoreAgreed, Send
<1>25. CASE SaveInvalid  BY <1>25 DEF SaveInvalid, Idle, Ask, Render
<1>26. CASE Logout  BY <1>26, RequestHas DEF Logout, Idle, Ask, Send
<1>27. ASSUME NEW t \in {"save", "apply", "test"}, SaveFirst(t)  PROVE SavedFrom'
  <2>1. base = state.config \/ late  BY <1>27 DEF SaveFirst, Idle, Usable, EditorIsOfItsRevision
  <2> QED  BY <1>27, <2>1, RequestHas DEF SaveFirst, Idle, Ask, Send
<1>28. ASSUME NEW c \in Elsewhere, Restore(c)  PROVE SavedFrom'
  BY <1>28, RequestHas DEF Restore, Idle, Ask, Send
<1>29. ASSUME NEW c \in Elsewhere, AskRestore(c)  PROVE SavedFrom'
  BY <1>29 DEF AskRestore, Idle, Ask, Question
<1>30. ASSUME NEW c \in Elsewhere, ImportFile(c)  PROVE SavedFrom'
  BY <1>30, RequestHas DEF ImportFile, Idle, Ask, Send
<1>31. CASE UNCHANGED vars  BY <1>31 DEF vars
<1> QED
  BY <1>1, <1>2, <1>3, <1>4, <1>5, <1>6, <1>7, <1>8, <1>9, <1>10, <1>11, <1>12, <1>13,
     <1>14, <1>15, <1>16, <1>17, <1>18, <1>19, <1>20, <1>21, <1>22, <1>23, <1>24, <1>25,
     <1>26, <1>27, <1>28, <1>29, <1>30, <1>31 DEF Next, Edits, Answered, Modals

\* task(), dockerConfigSync and the session of a load let no second request start.
LEMMA UniqueStep ==
  ASSUME IInv, [Next]_vars
  PROVE  Unique'
<1> USE ConstantsAssumption, NoneAssumption DEF ConstantsAssumption, NoneAssumption, server,
      dialogs, editor, Counters, IInv, Unique, Numbered, Bounded, NetTyped, TaskRuns, Pending,
      Busy, Idle, ConfirmOpen, ModalOpen
<1>1. CASE SessionExpires \/ Publish \/ \E c \in Elsewhere : OtherSaves(c)
  BY <1>1 DEF SessionExpires, Publish, OtherSaves
<1>2. ASSUME NEW r \in net, Serve(r)  PROVE Unique'  BY <1>2, Renews
<1>3. ASSUME NEW r \in net, Fail(r)  PROVE Unique'  BY <1>3, Renews
<1>4. ASSUME NEW r \in net, LoadAnswered(r)  PROVE Unique'
  BY <1>4, Closing, AnswerIn DEF LoadAnswered, ShowLogin
<1>5. ASSUME NEW r \in net, SyncAnswered(r)  PROVE Unique'
  BY <1>5, Closing, AnswerIn DEF SyncAnswered, SyncDone, SyncFits, Safe, ShowLogin
<1>6. ASSUME NEW r \in net, SubmitAnswered(r)  PROVE Unique'
  BY <1>6, Closing, AnswerIn DEF SubmitAnswered, LogsOut, ShowLogin
<1>7. ASSUME NEW r \in net, TaskAnswered(r)  PROVE Unique'
  <2>1. TaskGone(r)  BY <1>7, TaskGoesOn
  <2>2. r.by = "task"  BY <1>7 DEF TaskAnswered
  <2>5. \A q \in net : q.by = "task" => q = r  BY <2>2, OneTask
  <2>3. CASE net' = net \ {r} \/ net' = WithModalClosed(net \ {r})  BY <2>3, Closing
  <2>4. CASE Follows(r)  BY <2>2, <2>5, <2>4 DEF Follows
  <2> QED  BY <2>1, <2>3, <2>4 DEF TaskGone
<1>8. CASE AuthRequired  BY <1>8, Closing DEF AuthRequired, ShowLogin
<1>9. CASE SeeFrame  BY <1>9, RequestHas DEF SeeFrame, Safe
<1>10. CASE Login
  <2>1. PICK q : net' = net \cup {q} /\ q.session = sessions' /\ q.by = "load"
    BY <1>10, LoginAsks
  <2>2. sessions' = sessions + 1 /\ sessions' \in Session  BY <1>10 DEF Login, Session
  <2>3. \A s \in net : s.session # sessions'  BY <2>2
  <2> QED  BY <2>1, <2>3
<1>11. CASE Reload  BY <1>11, RequestHas DEF Reload, Ask
<1>12. CASE CloseModal  BY <1>12, Closing DEF CloseModal
<1>13. CASE SubmitPassword  BY <1>13, RequestHas DEF SubmitPassword
<1>14. ASSUME NEW v \in Value \cup {Bad}, Type(v)  PROVE Unique'  BY <1>14 DEF Type, Ask
<1>15. ASSUME NEW p \in Page, Navigate(p)  PROVE Unique'
  BY <1>15 DEF Navigate, Idle, Render, Collected
<1>16. ASSUME NEW p \in Modals, OpenEditor(p)  PROVE Unique'
  BY <1>16 DEF OpenEditor, Idle, Ask
<1>17. ASSUME NEW v \in Value, SubmitHosts(v)  PROVE Unique'
  BY <1>17, RequestHas DEF SubmitHosts
<1>18. ASSUME NEW v \in Value, SubmitCacheSize(v)  PROVE Unique'
  BY <1>18 DEF SubmitCacheSize, Changed, Render
<1>19. ASSUME NEW v \in Value, Example(v)  PROVE Unique'
  BY <1>19 DEF Example, Idle, Ask, Changed, Render
<1>20. ASSUME NEW what \in {"host", "route"}, AskDelete(what)  PROVE Unique'
  BY <1>20 DEF AskDelete, Question
<1>21. CASE Delete  BY <1>21, Closing DEF Delete
<1>22. CASE Import  BY <1>22 DEF Import, Render
<1>23. CASE Decline  BY <1>23 DEF Decline, Render
<1>24. CASE RestoreAgreed  BY <1>24, RequestHas DEF RestoreAgreed, Send
<1>25. CASE SaveInvalid  BY <1>25 DEF SaveInvalid, Idle, Ask, Render
<1>26. CASE Logout  BY <1>26, RequestHas DEF Logout, Idle, Ask, Send
<1>27. ASSUME NEW t \in {"save", "apply", "test"}, SaveFirst(t)  PROVE Unique'
  BY <1>27, RequestHas DEF SaveFirst, Idle, Ask, Collected, Send
<1>28. ASSUME NEW c \in Elsewhere, Restore(c)  PROVE Unique'
  BY <1>28, RequestHas DEF Restore, Idle, Ask, Send
<1>29. ASSUME NEW c \in Elsewhere, AskRestore(c)  PROVE Unique'
  BY <1>29 DEF AskRestore, Idle, Ask, Question
<1>30. ASSUME NEW c \in Elsewhere, ImportFile(c)  PROVE Unique'
  BY <1>30, RequestHas DEF ImportFile, Idle, Ask, Send
<1>31. CASE UNCHANGED vars  BY <1>31 DEF vars
<1> QED
  BY <1>1, <1>2, <1>3, <1>4, <1>5, <1>6, <1>7, <1>8, <1>9, <1>10, <1>11, <1>12, <1>13,
     <1>14, <1>15, <1>16, <1>17, <1>18, <1>19, <1>20, <1>21, <1>22, <1>23, <1>24, <1>25,
     <1>26, <1>27, <1>28, <1>29, <1>30, <1>31 DEF Next, Edits, Answered, Modals

\* Sessions are numbered from 1 in the order of the logins.
LEMMA NumberedStep ==
  ASSUME IInv, [Next]_vars
  PROVE  Numbered'
<1> USE ConstantsAssumption, NoneAssumption DEF ConstantsAssumption, NoneAssumption, server,
      dialogs, editor, Counters, IInv, Numbered, NetTyped, Bounded, PageTyped
<1>1. CASE SessionExpires \/ Publish \/ \E c \in Elsewhere : OtherSaves(c)
  BY <1>1 DEF SessionExpires, Publish, OtherSaves
<1>2. ASSUME NEW r \in net, Serve(r)  PROVE Numbered'  BY <1>2, Renews
<1>3. ASSUME NEW r \in net, Fail(r)  PROVE Numbered'  BY <1>3, Renews
<1>4. ASSUME NEW r \in net, LoadAnswered(r)  PROVE Numbered'
  BY <1>4, Closing, AnswerIn DEF LoadAnswered, ShowLogin
<1>5. ASSUME NEW r \in net, SyncAnswered(r)  PROVE Numbered'
  BY <1>5, Closing, AnswerIn DEF SyncAnswered, SyncDone, SyncFits, Safe, ShowLogin
<1>6. ASSUME NEW r \in net, SubmitAnswered(r)  PROVE Numbered'
  BY <1>6, Closing, AnswerIn DEF SubmitAnswered, LogsOut, ShowLogin
<1>7. ASSUME NEW r \in net, TaskAnswered(r)  PROVE Numbered'
  <2>1. TaskGone(r)  BY <1>7, TaskGoesOn
  <2>2. sessions' = sessions  BY <1>7 DEF TaskAnswered
  <2> QED  BY <2>1, <2>2, Closing, AnswerIn DEF TaskGone, Follows
<1>8. CASE AuthRequired  BY <1>8, Closing DEF AuthRequired, ShowLogin
<1>9. CASE SeeFrame  BY <1>9, RequestHas DEF SeeFrame, Safe
<1>10. CASE Login  BY <1>10, LoginAsks DEF Login
<1>11. CASE Reload  BY <1>11, RequestHas DEF Reload, Ask
<1>12. CASE CloseModal  BY <1>12, Closing DEF CloseModal
<1>13. CASE SubmitPassword  BY <1>13, RequestHas DEF SubmitPassword
<1>14. ASSUME NEW v \in Value \cup {Bad}, Type(v)  PROVE Numbered'  BY <1>14 DEF Type, Ask
<1>15. ASSUME NEW p \in Page, Navigate(p)  PROVE Numbered'
  BY <1>15 DEF Navigate, Idle, Render, Collected
<1>16. ASSUME NEW p \in Modals, OpenEditor(p)  PROVE Numbered'
  BY <1>16 DEF OpenEditor, Idle, Ask
<1>17. ASSUME NEW v \in Value, SubmitHosts(v)  PROVE Numbered'
  BY <1>17, RequestHas DEF SubmitHosts
<1>18. ASSUME NEW v \in Value, SubmitCacheSize(v)  PROVE Numbered'
  BY <1>18 DEF SubmitCacheSize, Changed, Render
<1>19. ASSUME NEW v \in Value, Example(v)  PROVE Numbered'
  BY <1>19 DEF Example, Idle, Ask, Changed, Render
<1>20. ASSUME NEW what \in {"host", "route"}, AskDelete(what)  PROVE Numbered'
  BY <1>20 DEF AskDelete, Question
<1>21. CASE Delete  BY <1>21, Closing DEF Delete
<1>22. CASE Import  BY <1>22 DEF Import, Render
<1>23. CASE Decline  BY <1>23 DEF Decline, Render
<1>24. CASE RestoreAgreed  BY <1>24, RequestHas DEF RestoreAgreed, Send
<1>25. CASE SaveInvalid  BY <1>25 DEF SaveInvalid, Idle, Ask, Render
<1>26. CASE Logout  BY <1>26, RequestHas DEF Logout, Idle, Ask, Send
<1>27. ASSUME NEW t \in {"save", "apply", "test"}, SaveFirst(t)  PROVE Numbered'
  BY <1>27, RequestHas DEF SaveFirst, Idle, Ask, Collected, Send
<1>28. ASSUME NEW c \in Elsewhere, Restore(c)  PROVE Numbered'
  BY <1>28, RequestHas DEF Restore, Idle, Ask, Send
<1>29. ASSUME NEW c \in Elsewhere, AskRestore(c)  PROVE Numbered'
  BY <1>29 DEF AskRestore, Idle, Ask, Question
<1>30. ASSUME NEW c \in Elsewhere, ImportFile(c)  PROVE Numbered'
  BY <1>30, RequestHas DEF ImportFile, Idle, Ask, Send
<1>31. CASE UNCHANGED vars  BY <1>31 DEF vars
<1> QED
  BY <1>1, <1>2, <1>3, <1>4, <1>5, <1>6, <1>7, <1>8, <1>9, <1>10, <1>11, <1>12, <1>13,
     <1>14, <1>15, <1>16, <1>17, <1>18, <1>19, <1>20, <1>21, <1>22, <1>23, <1>24, <1>25,
     <1>26, <1>27, <1>28, <1>29, <1>30, <1>31 DEF Next, Edits, Answered, Modals

\* Before the first configuration has arrived, only loads are in flight.
LEMMA LoadedStep ==
  ASSUME IInv, [Next]_vars
  PROVE  Loaded'
<1> USE ConstantsAssumption, NoneAssumption DEF ConstantsAssumption, NoneAssumption, server,
      dialogs, editor, Counters, IInv, Loaded, NetTyped, Requests, Snapshot, EditorTyped,
      Usable, ModalOpen
<1>1. CASE SessionExpires \/ Publish \/ \E c \in Elsewhere : OtherSaves(c)
  BY <1>1 DEF SessionExpires, Publish, OtherSaves
<1>2. ASSUME NEW r \in net, Serve(r)  PROVE Loaded'  BY <1>2, Renews
<1>3. ASSUME NEW r \in net, Fail(r)  PROVE Loaded'  BY <1>3, Renews
<1>4. ASSUME NEW r \in net, LoadAnswered(r)  PROVE Loaded'
  BY <1>4, Closing, AnswerIn DEF LoadAnswered, ShowLogin, Accept, Render
<1>5. ASSUME NEW r \in net, SyncAnswered(r)  PROVE Loaded'
  BY <1>5, Closing, AnswerIn DEF SyncAnswered, SyncDone, SyncFits, Safe, ShowLogin, Accept,
       Render
<1>6. ASSUME NEW r \in net, SubmitAnswered(r)  PROVE Loaded'
  BY <1>6, Closing, AnswerIn DEF SubmitAnswered, LogsOut, ShowLogin, Changed, Render
<1>7. ASSUME NEW r \in net, TaskAnswered(r)  PROVE Loaded'
  <2>1. r.by = "task"  BY <1>7 DEF TaskAnswered
  <2>2. state # None  BY <2>1
  <2>3. state' # None  BY ZenonT(40), <1>7, <2>2, AnswerIn DEF TaskAnswered, ShowLogin, Accept
  <2> QED  BY <2>3
<1>8. CASE AuthRequired  BY <1>8, Closing DEF AuthRequired, ShowLogin
<1>9. CASE SeeFrame  BY <1>9, RequestHas DEF SeeFrame, Safe
<1>10. CASE Login  BY <1>10, LoginAsks DEF Login
<1>11. CASE Reload  BY <1>11, RequestHas DEF Reload, Ask
<1>12. CASE CloseModal  BY <1>12, Closing DEF CloseModal
<1>13. CASE SubmitPassword
  <2>1. state # None  BY <1>13, DialogInUse, InUse DEF SubmitPassword, Dialog, Modals
  <2>2. state' = state  BY <1>13 DEF SubmitPassword
  <2> QED  BY <2>1, <2>2
<1>14. ASSUME NEW v \in Value \cup {Bad}, Type(v)  PROVE Loaded'  BY <1>14 DEF Type, Ask
<1>15. ASSUME NEW p \in Page, Navigate(p)  PROVE Loaded'
  BY <1>15 DEF Navigate, Idle, Render, Collected
<1>16. ASSUME NEW p \in Modals, OpenEditor(p)  PROVE Loaded'
  BY <1>16 DEF OpenEditor, Idle, Ask
<1>17. ASSUME NEW v \in Value, SubmitHosts(v)  PROVE Loaded'
  <2>1. state # None  BY <1>17, DialogInUse, InUse DEF SubmitHosts, Dialog, Modals
  <2>2. state' = state  BY <1>17 DEF SubmitHosts
  <2> QED  BY <2>1, <2>2
<1>18. ASSUME NEW v \in Value, SubmitCacheSize(v)  PROVE Loaded'
  <2>1. state # None  BY <1>18, DialogInUse, InUse DEF SubmitCacheSize, Dialog, Modals
  <2>2. state' = state  BY <1>18 DEF SubmitCacheSize, Changed
  <2> QED  BY <2>1, <2>2
<1>19. ASSUME NEW v \in Value, Example(v)  PROVE Loaded'
  BY <1>19 DEF Example, Idle, Ask, Changed, Render
<1>20. ASSUME NEW what \in {"host", "route"}, AskDelete(what)  PROVE Loaded'
  <2>1. state # None  BY <1>20, DialogInUse, InUse DEF AskDelete, Dialog, Modals
  <2>2. state' = state  BY <1>20 DEF AskDelete
  <2> QED  BY <2>1, <2>2
<1>21. CASE Delete  BY <1>21, Closing DEF Delete, Changed, Render
<1>22. CASE Import  BY <1>22 DEF Import, Render
<1>23. CASE Decline  BY <1>23 DEF Decline, Render
<1>24. CASE RestoreAgreed  BY <1>24, RequestHas DEF RestoreAgreed, Send
<1>25. CASE SaveInvalid  BY <1>25 DEF SaveInvalid, Idle, Ask, Render
<1>26. CASE Logout  BY <1>26, RequestHas DEF Logout, Idle, Ask, Send
<1>27. ASSUME NEW t \in {"save", "apply", "test"}, SaveFirst(t)  PROVE Loaded'
  BY <1>27, RequestHas DEF SaveFirst, Idle, Ask, Collected, Send
<1>28. ASSUME NEW c \in Elsewhere, Restore(c)  PROVE Loaded'
  BY <1>28, RequestHas DEF Restore, Idle, Ask, Send
<1>29. ASSUME NEW c \in Elsewhere, AskRestore(c)  PROVE Loaded'
  BY <1>29 DEF AskRestore, Idle, Ask, Question
<1>30. ASSUME NEW c \in Elsewhere, ImportFile(c)  PROVE Loaded'
  BY <1>30, RequestHas DEF ImportFile, Idle, Ask, Send
<1>31. CASE UNCHANGED vars  BY <1>31 DEF vars
<1> QED
  BY <1>1, <1>2, <1>3, <1>4, <1>5, <1>6, <1>7, <1>8, <1>9, <1>10, <1>11, <1>12, <1>13,
     <1>14, <1>15, <1>16, <1>17, <1>18, <1>19, <1>20, <1>21, <1>22, <1>23, <1>24, <1>25,
     <1>26, <1>27, <1>28, <1>29, <1>30, <1>31 DEF Next, Edits, Answered, Modals

\* Without a session the login form is shown, with no editor but one left by a late answer.
LEMMA LoggedOutStep ==
  ASSUME IInv, [Next]_vars
  PROVE  LoggedOut'
<1> USE ConstantsAssumption, NoneAssumption DEF ConstantsAssumption, NoneAssumption, server,
      dialogs, editor, Counters, IInv, LoggedOut, NetTyped, PageTyped, Numbered, Bounded,
      Usable, TaskRuns, LoadRuns, SubmitRuns, ModalOpen, ConfirmOpen, Pending
<1>1. CASE SessionExpires \/ Publish \/ \E c \in Elsewhere : OtherSaves(c)
  BY <1>1 DEF SessionExpires, Publish, OtherSaves
<1>2. ASSUME NEW r \in net, Serve(r)  PROVE LoggedOut'  BY <1>2 DEF Serve
<1>3. ASSUME NEW r \in net, Fail(r)  PROVE LoggedOut'  BY <1>3 DEF Fail
<1>4. ASSUME NEW r \in net, LoadAnswered(r)  PROVE LoggedOut'
  BY <1>4 DEF LoadAnswered, ShowLogin, Accept, Render
<1>5. ASSUME NEW r \in net, SyncAnswered(r)  PROVE LoggedOut'
  BY <1>5 DEF SyncAnswered, SyncDone, SyncFits, Safe, ShowLogin, Accept, Render
<1>6. ASSUME NEW r \in net, SubmitAnswered(r)  PROVE LoggedOut'
  <2>1. SubmitGone(r)  BY <1>6, SubmitGoesOn
  <2>2. r.by = "submit"  BY <1>6 DEF SubmitAnswered
  <2>3. r.shown => Usable /\ ~Busy /\ r.session = csrf /\ (r.path = "preview" => r.rev = base \/ late)
    BY <2>2, SubmitShown
  <2> QED  BY <2>1, <2>2, <2>3, Closing DEF SubmitGone, Taken
<1>7. ASSUME NEW r \in net, TaskAnswered(r)  PROVE LoggedOut'
  <2>1. r \in Pending("task")  BY <1>7 DEF TaskAnswered, Pending
  <2>2. Busy /\ (r.session = None => late) /\ (r.session = csrf => config # None \/ late)
    BY <2>1
  <2>3. CASE LogsOut(r)  BY <1>7, <2>3 DEF TaskAnswered, LogsOut, ShowLogin, Refusal
  <2>4. CASE r.reply \in Refusal \ {"unauthorized"}
    <3>1. UNCHANGED <<csrf, config, late>> /\ Render
      BY <1>7, <2>4 DEF TaskAnswered, LogsOut, Refusal
    <3> QED  BY <3>1 DEF Render
  <2>5. CASE r.reply = "snapshot"
    BY <1>7, <2>2, <2>5, AnswerIn DEF TaskAnswered, LogsOut, Refusal, Accept, Render
  <2>6. CASE r.reply = "ok" /\ r.path \notin {"logout", "password"}
    BY <1>7, <2>2, <2>6, AnswerIn DEF TaskAnswered, LogsOut, Refusal, Render
  <2> QED  BY <1>7, <2>3, <2>4, <2>5, <2>6 DEF TaskAnswered, LogsOut
<1>8. CASE AuthRequired  BY <1>8 DEF AuthRequired, ShowLogin
<1>9. CASE SeeFrame  BY <1>9 DEF SeeFrame, Safe, Request
<1>10. CASE Login  BY <1>10 DEF Login, Request
<1>11. CASE Reload  BY <1>11 DEF Reload, Ask, Request
<1>12. CASE CloseModal  BY <1>12 DEF CloseModal
<1>13. CASE SubmitPassword  BY <1>13 DEF SubmitPassword, Request
<1>14. ASSUME NEW v \in Value \cup {Bad}, Type(v)  PROVE LoggedOut'  BY <1>14 DEF Type, Ask
<1>15. ASSUME NEW p \in Page, Navigate(p)  PROVE LoggedOut'
  BY <1>15 DEF Navigate, Idle, Render, Collected
<1>16. ASSUME NEW p \in Modals, OpenEditor(p)  PROVE LoggedOut'
  BY <1>16 DEF OpenEditor, Idle, Ask
<1>17. ASSUME NEW v \in Value, SubmitHosts(v)  PROVE LoggedOut'
  BY <1>17 DEF SubmitHosts, Request
<1>18. ASSUME NEW v \in Value, SubmitCacheSize(v)  PROVE LoggedOut'  BY <1>18, CacheSizeIn
<1>19. ASSUME NEW v \in Value, Example(v)  PROVE LoggedOut'
  BY <1>19 DEF Example, Idle, Ask, Changed, Render
<1>20. ASSUME NEW what \in {"host", "route"}, AskDelete(what)  PROVE LoggedOut'
  BY <1>20 DEF AskDelete, Question
<1>21. CASE Delete  BY <1>21 DEF Delete, Changed, Render
<1>22. CASE Import  BY <1>22 DEF Import, Render
<1>23. CASE Decline  BY <1>23 DEF Decline, Render
<1>24. CASE RestoreAgreed  BY <1>24 DEF RestoreAgreed, Send, Request
<1>25. CASE SaveInvalid  BY <1>25 DEF SaveInvalid, Idle, Ask, Render
<1>26. CASE Logout  BY <1>26 DEF Logout, Idle, Ask, Send, Request
<1>27. ASSUME NEW t \in {"save", "apply", "test"}, SaveFirst(t)  PROVE LoggedOut'
  BY <1>27 DEF SaveFirst, Idle, Ask, Collected, Send, Request
<1>28. ASSUME NEW c \in Elsewhere, Restore(c)  PROVE LoggedOut'
  BY <1>28 DEF Restore, Idle, Ask, Send, Request
<1>29. ASSUME NEW c \in Elsewhere, AskRestore(c)  PROVE LoggedOut'
  BY <1>29 DEF AskRestore, Idle, Ask, Question
<1>30. ASSUME NEW c \in Elsewhere, ImportFile(c)  PROVE LoggedOut'
  BY <1>30 DEF ImportFile, Idle, Ask, Send, Request
<1>31. CASE UNCHANGED vars  BY <1>31 DEF vars
<1> QED
  BY <1>1, <1>2, <1>3, <1>4, <1>5, <1>6, <1>7, <1>8, <1>9, <1>10, <1>11, <1>12, <1>13,
     <1>14, <1>15, <1>16, <1>17, <1>18, <1>19, <1>20, <1>21, <1>22, <1>23, <1>24, <1>25,
     <1>26, <1>27, <1>28, <1>29, <1>30, <1>31 DEF Next, Edits, Answered, Modals

\* #modal is only open over an editor, and while no task runs.
LEMMA ModalStep ==
  ASSUME IInv, [Next]_vars
  PROVE  ModalOpen'
<1> USE ConstantsAssumption, NoneAssumption DEF ConstantsAssumption, NoneAssumption, server,
      dialogs, editor, Counters, IInv, ModalOpen, Usable, Busy, Dialog, ConfirmOpen, TaskRuns,
      Pending, NetTyped, EditorTyped, DialogsTyped, Tasks, Modals, Interrupted, LoggedOut
<1>1. CASE SessionExpires \/ Publish \/ \E c \in Elsewhere : OtherSaves(c)
  BY <1>1 DEF SessionExpires, Publish, OtherSaves
<1>2. ASSUME NEW r \in net, Serve(r)  PROVE ModalOpen'  BY <1>2 DEF Serve
<1>3. ASSUME NEW r \in net, Fail(r)  PROVE ModalOpen'  BY <1>3 DEF Fail
<1>4. ASSUME NEW r \in net, LoadAnswered(r)  PROVE ModalOpen'
  BY <1>4, AnswerIn DEF LoadAnswered, ShowLogin, Accept, Render
<1>5. ASSUME NEW r \in net, SyncAnswered(r)  PROVE ModalOpen'
  BY <1>5 DEF SyncAnswered, SyncDone, SyncFits, Safe, ShowLogin, Accept, Render
<1>6. ASSUME NEW r \in net, SubmitAnswered(r)  PROVE ModalOpen'
  BY <1>6 DEF SubmitAnswered, LogsOut, ShowLogin, Changed, Render
<1>7. ASSUME NEW r \in net, TaskAnswered(r)  PROVE ModalOpen'
  BY <1>7 DEF TaskAnswered, LogsOut, ShowLogin, Accept, Render
<1>8. CASE AuthRequired  BY <1>8 DEF AuthRequired, ShowLogin
<1>9. CASE SeeFrame  BY <1>9 DEF SeeFrame, Safe, Request
<1>10. CASE Login  BY <1>10 DEF Login, Request
<1>11. CASE Reload  BY <1>11 DEF Reload, Ask, Request
<1>12. CASE CloseModal  BY <1>12 DEF CloseModal
<1>13. CASE SubmitPassword  BY <1>13 DEF SubmitPassword, Request
<1>14. ASSUME NEW v \in Value \cup {Bad}, Type(v)  PROVE ModalOpen'  BY <1>14 DEF Type, Ask
<1>15. ASSUME NEW p \in Page, Navigate(p)  PROVE ModalOpen'
  BY <1>15 DEF Navigate, Idle, Render, Collected
<1>16. ASSUME NEW p \in Modals, OpenEditor(p)  PROVE ModalOpen'
  BY <1>16 DEF OpenEditor, Idle, Ask
<1>17. ASSUME NEW v \in Value, SubmitHosts(v)  PROVE ModalOpen'
  BY <1>17 DEF SubmitHosts, Request
<1>18. ASSUME NEW v \in Value, SubmitCacheSize(v)  PROVE ModalOpen'
  BY <1>18 DEF SubmitCacheSize, Changed, Render
<1>19. ASSUME NEW v \in Value, Example(v)  PROVE ModalOpen'
  BY <1>19 DEF Example, Idle, Ask, Changed, Render
<1>20. ASSUME NEW what \in {"host", "route"}, AskDelete(what)  PROVE ModalOpen'
  BY <1>20 DEF AskDelete, Question
<1>21. CASE Delete  BY <1>21 DEF Delete, Changed, Render
<1>22. CASE Import  BY <1>22 DEF Import, Render
<1>23. CASE Decline  BY <1>23 DEF Decline, Render
<1>24. CASE RestoreAgreed  BY <1>24 DEF RestoreAgreed, Send, Request
<1>25. CASE SaveInvalid  BY <1>25 DEF SaveInvalid, Idle, Ask, Render
<1>26. CASE Logout  BY <1>26 DEF Logout, Idle, Ask, Send, Request
<1>27. ASSUME NEW t \in {"save", "apply", "test"}, SaveFirst(t)  PROVE ModalOpen'
  BY <1>27 DEF SaveFirst, Idle, Ask, Collected, Send, Request
<1>28. ASSUME NEW c \in Elsewhere, Restore(c)  PROVE ModalOpen'
  BY <1>28 DEF Restore, Idle, Ask, Send, Request
<1>29. ASSUME NEW c \in Elsewhere, AskRestore(c)  PROVE ModalOpen'
  BY <1>29 DEF AskRestore, Idle, Ask, Question
<1>30. ASSUME NEW c \in Elsewhere, ImportFile(c)  PROVE ModalOpen'
  BY <1>30 DEF ImportFile, Idle, Ask, Send, Request
<1>31. CASE UNCHANGED vars  BY <1>31 DEF vars
<1> QED
  BY <1>1, <1>2, <1>3, <1>4, <1>5, <1>6, <1>7, <1>8, <1>9, <1>10, <1>11, <1>12, <1>13,
     <1>14, <1>15, <1>16, <1>17, <1>18, <1>19, <1>20, <1>21, <1>22, <1>23, <1>24, <1>25,
     <1>26, <1>27, <1>28, <1>29, <1>30, <1>31 DEF Next, Edits, Answered, Modals

\* A question has a meaning to the code that asked it when it is answered.
LEMMA ConfirmStep ==
  ASSUME IInv, [Next]_vars
  PROVE  ConfirmOpen'
<1> USE ConstantsAssumption, NoneAssumption DEF ConstantsAssumption, NoneAssumption, server,
      dialogs, editor, Counters, IInv, ConfirmOpen, ModalOpen, Usable, Busy, Dialog, TaskRuns,
      Pending, NetTyped, EditorTyped, DialogsTyped, Questions, Tasks, Requests, Unique,
      Interrupted, Snapshot
<1>1. CASE SessionExpires \/ Publish \/ \E c \in Elsewhere : OtherSaves(c)
  BY <1>1 DEF SessionExpires, Publish, OtherSaves
<1>2. ASSUME NEW r \in net, Serve(r)  PROVE ConfirmOpen'  BY <1>2, Renews
<1>3. ASSUME NEW r \in net, Fail(r)  PROVE ConfirmOpen'  BY <1>3, Renews
<1>4. ASSUME NEW r \in net, LoadAnswered(r)  PROVE ConfirmOpen'
  BY <1>4, AnswerIn DEF LoadAnswered, ShowLogin, Accept, Render
<1>5. ASSUME NEW r \in net, SyncAnswered(r)  PROVE ConfirmOpen'
  BY <1>5 DEF SyncAnswered, SyncDone, SyncFits, Safe, ShowLogin, Accept, Render
<1>6. ASSUME NEW r \in net, SubmitAnswered(r)  PROVE ConfirmOpen'
  <2>1. SubmitGone(r)  BY <1>6, SubmitGoesOn
  <2>2. r.by = "submit"  BY <1>6 DEF SubmitAnswered
  <2>3. r.shown => Usable /\ ~Busy /\ r.session = csrf /\ (r.path = "preview" => r.rev = base \/ late)
    BY <2>2, SubmitShown
  <2> QED  BY <2>1, <2>2, <2>3, Closing DEF SubmitGone, Taken
<1>7. ASSUME NEW r \in net, TaskAnswered(r)  PROVE ConfirmOpen'
  <2>1. r \in Pending("task")  BY <1>7 DEF TaskAnswered, Pending
  <2>2. Busy /\ (r.path = "preview" => task = "import")  BY <2>1
  <2>3. confirm = None /\ modal = None  BY <2>1, <2>2
  <2>6. \A q \in net : q.by = "task" => q = r  BY <2>1, OneTask
  <2>4. net' = net \ {r} => Pending("task")' = {}  BY <2>6
  <2>5. \/ confirm' = None
        \/ /\ confirm' = Question("import", r.body) /\ r.path = "preview" /\ net' = net \ {r}
           /\ config # None /\ UNCHANGED <<config, task, modal>>
    BY <1>7, <2>3 DEF TaskAnswered, ShowLogin
  <2> QED  BY <2>2, <2>3, <2>4, <2>5, AnswerIn, QuestionIn
<1>8. CASE AuthRequired  BY <1>8 DEF AuthRequired, ShowLogin
<1>9. CASE SeeFrame  BY <1>9 DEF SeeFrame, Safe, Request
<1>10. CASE Login  BY <1>10 DEF Login, Request
<1>11. CASE Reload  BY <1>11 DEF Reload, Ask, Request
<1>12. CASE CloseModal  BY <1>12 DEF CloseModal
<1>13. CASE SubmitPassword  BY <1>13 DEF SubmitPassword, Request
<1>14. ASSUME NEW v \in Value \cup {Bad}, Type(v)  PROVE ConfirmOpen'  BY <1>14 DEF Type, Ask
<1>15. ASSUME NEW p \in Page, Navigate(p)  PROVE ConfirmOpen'
  BY <1>15 DEF Navigate, Idle, Render, Collected
<1>16. ASSUME NEW p \in Modals, OpenEditor(p)  PROVE ConfirmOpen'
  BY <1>16 DEF OpenEditor, Idle, Ask
<1>17. ASSUME NEW v \in Value, SubmitHosts(v)  PROVE ConfirmOpen'
  BY <1>17 DEF SubmitHosts, Request
<1>18. ASSUME NEW v \in Value, SubmitCacheSize(v)  PROVE ConfirmOpen'  BY <1>18, CacheSizeIn
<1>19. ASSUME NEW v \in Value, Example(v)  PROVE ConfirmOpen'
  BY <1>19 DEF Example, Idle, Ask, Changed, Render
<1>20. ASSUME NEW what \in {"host", "route"}, AskDelete(what)  PROVE ConfirmOpen'
  <2>1. modal # None  BY <1>20 DEF AskDelete, Modals
  <2>2. UNCHANGED <<screen, csrf, config, task>> /\ confirm' = Question(what, None)
    BY <1>20 DEF AskDelete
  <2>3. confirm' # None /\ confirm'.what = what  BY <1>20, <2>2, QuestionIn
  <2> QED  BY <1>20, <2>1, <2>2, <2>3
<1>21. CASE Delete  BY <1>21 DEF Delete, Changed, Render
<1>22. CASE Import  BY <1>22 DEF Import, Render
<1>23. CASE Decline  BY <1>23 DEF Decline, Render
<1>24. CASE RestoreAgreed  BY <1>24 DEF RestoreAgreed, Send, Request
<1>25. CASE SaveInvalid  BY <1>25 DEF SaveInvalid, Idle, Ask, Render
<1>26. CASE Logout  BY <1>26 DEF Logout, Idle, Ask, Send, Request
<1>27. ASSUME NEW t \in {"save", "apply", "test"}, SaveFirst(t)  PROVE ConfirmOpen'
  BY <1>27 DEF SaveFirst, Idle, Ask, Collected, Send, Request
<1>28. ASSUME NEW c \in Elsewhere, Restore(c)  PROVE ConfirmOpen'
  BY <1>28 DEF Restore, Idle, Ask, Send, Request
<1>29. ASSUME NEW c \in Elsewhere, AskRestore(c)  PROVE ConfirmOpen'
  BY <1>29, QuestionIn, ElsewhereIn DEF AskRestore, Idle, Ask
<1>30. ASSUME NEW c \in Elsewhere, ImportFile(c)  PROVE ConfirmOpen'
  BY <1>30 DEF ImportFile, Idle, Ask, Send, Request
<1>31. CASE UNCHANGED vars  BY <1>31 DEF vars
<1> QED
  BY <1>1, <1>2, <1>3, <1>4, <1>5, <1>6, <1>7, <1>8, <1>9, <1>10, <1>11, <1>12, <1>13,
     <1>14, <1>15, <1>16, <1>17, <1>18, <1>19, <1>20, <1>21, <1>22, <1>23, <1>24, <1>25,
     <1>26, <1>27, <1>28, <1>29, <1>30, <1>31 DEF Next, Edits, Answered, Modals

\* While a task's request is in flight the panel is busy with that task.
LEMMA TaskStep ==
  ASSUME IInv, [Next]_vars
  PROVE  TaskRuns'
<1> USE ConstantsAssumption, NoneAssumption DEF ConstantsAssumption, NoneAssumption, server,
      dialogs, editor, Counters, IInv, TaskRuns, Tasks, Pending, Busy, Usable, Dialog,
      ConfirmOpen, Unique, NetTyped, PageTyped, EditorTyped, Numbered, Bounded, Interrupted,
      ModalOpen, Requests, Snapshot
<1>1. CASE SessionExpires \/ Publish \/ \E c \in Elsewhere : OtherSaves(c)
  BY <1>1 DEF SessionExpires, Publish, OtherSaves
<1>2. ASSUME NEW r \in net, Serve(r)  PROVE TaskRuns'  BY <1>2, Renews
<1>3. ASSUME NEW r \in net, Fail(r)  PROVE TaskRuns'  BY <1>3, Renews
<1>4. ASSUME NEW r \in net, LoadAnswered(r)  PROVE TaskRuns'
  BY <1>4, Closing, AnswerIn DEF LoadAnswered, ShowLogin, Accept, Render
<1>5. ASSUME NEW r \in net, SyncAnswered(r)  PROVE TaskRuns'
  BY <1>5, Closing, AnswerIn DEF SyncAnswered, SyncDone, SyncFits, Safe, ShowLogin, Accept,
       Render
<1>6. ASSUME NEW r \in net, SubmitAnswered(r)  PROVE TaskRuns'
  BY <1>6, Closing, AnswerIn DEF SubmitAnswered, LogsOut, ShowLogin, Changed, Render
<1>7. ASSUME NEW r \in net, TaskAnswered(r)  PROVE TaskRuns'
  <2>1. r \in Pending("task") /\ r.by = "task"  BY <1>7 DEF TaskAnswered, Pending
  <2>2. r.session = None => late  BY <2>1
  <2>3. TaskGone(r)  BY <1>7, TaskGoesOn
  <2>6. \A q \in net : q.by = "task" => q = r  BY <2>1, OneTask
  <2>4. net' = net \ {r} \/ net' = WithModalClosed(net \ {r}) => Pending("task")' = {}
    BY <2>6, Closing
  <2>5. CASE Follows(r)  BY <2>6, <2>2, <2>5, AnswerIn DEF Follows
  <2> QED  BY <2>3, <2>4, <2>5 DEF TaskGone
<1>8. CASE AuthRequired  BY <1>8, Closing DEF AuthRequired, ShowLogin
<1>9. CASE SeeFrame  BY <1>9, RequestHas DEF SeeFrame, Safe
<1>10. CASE Login  BY <1>10, LoginAsks DEF Login
<1>11. CASE Reload  BY <1>11, RequestHas DEF Reload, Ask
<1>12. CASE CloseModal  BY <1>12, Closing DEF CloseModal
<1>13. CASE SubmitPassword  BY <1>13, RequestHas DEF SubmitPassword
<1>14. ASSUME NEW v \in Value \cup {Bad}, Type(v)  PROVE TaskRuns'  BY <1>14 DEF Type, Ask
<1>15. ASSUME NEW p \in Page, Navigate(p)  PROVE TaskRuns'
  BY <1>15 DEF Navigate, Idle, Render, Collected
<1>16. ASSUME NEW p \in Modals, OpenEditor(p)  PROVE TaskRuns'
  BY <1>16 DEF OpenEditor, Idle, Ask
<1>17. ASSUME NEW v \in Value, SubmitHosts(v)  PROVE TaskRuns'
  BY <1>17, RequestHas DEF SubmitHosts
<1>18. ASSUME NEW v \in Value, SubmitCacheSize(v)  PROVE TaskRuns'  BY <1>18, CacheSizeIn
<1>19. ASSUME NEW v \in Value, Example(v)  PROVE TaskRuns'
  BY <1>19 DEF Example, Idle, Ask, Changed, Render
<1>20. ASSUME NEW what \in {"host", "route"}, AskDelete(what)  PROVE TaskRuns'
  BY <1>20 DEF AskDelete, Question
<1>21. CASE Delete  BY <1>21, Closing DEF Delete, Changed, Render
<1>22. CASE Import  BY <1>22 DEF Import, Render
<1>23. CASE Decline  BY <1>23 DEF Decline, Render
<1>24. CASE RestoreAgreed  BY <1>24, RequestHas DEF RestoreAgreed, Send
<1>25. CASE SaveInvalid  BY <1>25 DEF SaveInvalid, Idle, Ask, Render
<1>26. CASE Logout  BY <1>26, RequestHas DEF Logout, Idle, Ask, Send
<1>27. ASSUME NEW t \in {"save", "apply", "test"}, SaveFirst(t)  PROVE TaskRuns'
  BY <1>27, RequestHas, InUse DEF SaveFirst, Idle, Ask, Send
<1>28. ASSUME NEW c \in Elsewhere, Restore(c)  PROVE TaskRuns'
  BY <1>28, RequestHas DEF Restore, Idle, Ask, Send
<1>29. ASSUME NEW c \in Elsewhere, AskRestore(c)  PROVE TaskRuns'
  BY <1>29 DEF AskRestore, Idle, Ask, Question
<1>30. ASSUME NEW c \in Elsewhere, ImportFile(c)  PROVE TaskRuns'
  BY <1>30, RequestHas DEF ImportFile, Idle, Ask, Send
<1>31. CASE UNCHANGED vars  BY <1>31 DEF vars
<1> QED
  BY <1>1, <1>2, <1>3, <1>4, <1>5, <1>6, <1>7, <1>8, <1>9, <1>10, <1>11, <1>12, <1>13,
     <1>14, <1>15, <1>16, <1>17, <1>18, <1>19, <1>20, <1>21, <1>22, <1>23, <1>24, <1>25,
     <1>26, <1>27, <1>28, <1>29, <1>30, <1>31 DEF Next, Edits, Answered, Modals

\* A load of the current session finds no editor, unless one was left by a late answer.
LEMMA LoadStep ==
  ASSUME IInv, [Next]_vars
  PROVE  LoadRuns'
<1> USE ConstantsAssumption, NoneAssumption DEF ConstantsAssumption, NoneAssumption, server,
      dialogs, editor, Counters, IInv, LoadRuns, Unique, Pending, NetTyped, PageTyped,
      Numbered, Bounded, LoggedOut, TaskRuns, SubmitRuns, ModalOpen, ConfirmOpen, Usable
<1>1. CASE SessionExpires \/ Publish \/ \E c \in Elsewhere : OtherSaves(c)
  BY <1>1 DEF SessionExpires, Publish, OtherSaves
<1>2. ASSUME NEW r \in net, Serve(r)  PROVE LoadRuns'  BY <1>2, Renews
<1>3. ASSUME NEW r \in net, Fail(r)  PROVE LoadRuns'  BY <1>3, Renews
<1>4. ASSUME NEW r \in net, LoadAnswered(r)  PROVE LoadRuns'
  <2>1. r \in Pending("load")  BY <1>4 DEF LoadAnswered, Pending
  <2>2. \A q \in Pending("load") : q.session # None /\ (q.session = r.session => q = r)
    BY <2>1
  <2>3. CASE r.reply = "unauthorized"
    <3>1. csrf' = None /\ net' = WithModalClosed(net \ {r})
      BY <1>4, <2>3 DEF LoadAnswered, ShowLogin
    <3>2. Pending("load")' \subseteq Pending("load")  BY <3>1, Closing
    <3> QED  BY <2>2, <3>1, <3>2
  <2>4. CASE r.reply # "unauthorized"
    <3>1. csrf' = csrf /\ net' = net \ {r} /\ (late => late')
          /\ (config' = config \/ (r.session # csrf => late'))
      BY <1>4, <2>4 DEF LoadAnswered
    <3> QED  BY <2>1, <2>2, <3>1
  <2> QED  BY <2>3, <2>4
<1>5. ASSUME NEW r \in net, SyncAnswered(r)  PROVE LoadRuns'
  BY <1>5, Closing, AnswerIn DEF SyncAnswered, SyncDone, SyncFits, Safe, ShowLogin, Accept,
       Render
<1>6. ASSUME NEW r \in net, SubmitAnswered(r)  PROVE LoadRuns'
  <2>1. SubmitGone(r)  BY <1>6, SubmitGoesOn
  <2>2. r.by = "submit"  BY <1>6 DEF SubmitAnswered
  <2>3. r.shown => Usable /\ ~Busy /\ r.session = csrf /\ (r.path = "preview" => r.rev = base \/ late)
    BY <2>2, SubmitShown
  <2> QED  BY <2>1, <2>2, <2>3, Closing DEF SubmitGone, Taken
<1>7. ASSUME NEW r \in net, TaskAnswered(r)  PROVE LoadRuns'
  <2>1. r \in Pending("task") /\ r.by = "task"  BY <1>7 DEF TaskAnswered, Pending
  <2>2. r.session = csrf => config # None \/ late  BY <2>1
  <2>3. TaskGone(r)  BY <1>7, TaskGoesOn
  <2>4. Pending("load")' \subseteq Pending("load")  BY <2>1, <2>3, Closing DEF TaskGone, Follows
  <2>5. csrf' # None => csrf' = csrf /\ (config' = None \/ config # None \/ late')
    BY <1>7, <2>2 DEF TaskAnswered, ShowLogin, Accept
  <2>6. late => late'  BY <1>7 DEF TaskAnswered, ShowLogin
  <2> QED  BY <2>4, <2>5, <2>6
<1>8. CASE AuthRequired  BY <1>8, Closing DEF AuthRequired, ShowLogin
<1>9. CASE SeeFrame  BY <1>9, RequestHas DEF SeeFrame, Safe
<1>10. CASE Login
  <2>1. PICK q : net' = net \cup {q} /\ q.session = sessions'
    BY <1>10, LoginAsks
  <2>2. sessions' = sessions + 1 /\ csrf' = sessions' /\ sessions' \in Session
    BY <1>10 DEF Login, Session
  <2>3. csrf' # None /\ \A s \in net : s.session # csrf'  BY <2>2
  <2>4. UNCHANGED <<config, late>> /\ (config = None \/ late)  BY <1>10 DEF Login
  <2> QED  BY <2>1, <2>2, <2>3, <2>4
<1>11. CASE Reload  BY <1>11, RequestHas DEF Reload, Ask
<1>12. CASE CloseModal  BY <1>12, Closing DEF CloseModal
<1>13. CASE SubmitPassword  BY <1>13, RequestHas DEF SubmitPassword
<1>14. ASSUME NEW v \in Value \cup {Bad}, Type(v)  PROVE LoadRuns'  BY <1>14 DEF Type, Ask
<1>15. ASSUME NEW p \in Page, Navigate(p)  PROVE LoadRuns'
  BY <1>15 DEF Navigate, Idle, Render, Collected
<1>16. ASSUME NEW p \in Modals, OpenEditor(p)  PROVE LoadRuns'
  BY <1>16 DEF OpenEditor, Idle, Ask
<1>17. ASSUME NEW v \in Value, SubmitHosts(v)  PROVE LoadRuns'
  BY <1>17, RequestHas DEF SubmitHosts
<1>18. ASSUME NEW v \in Value, SubmitCacheSize(v)  PROVE LoadRuns'  BY <1>18, CacheSizeIn
<1>19. ASSUME NEW v \in Value, Example(v)  PROVE LoadRuns'
  BY <1>19 DEF Example, Idle, Ask, Changed, Render
<1>20. ASSUME NEW what \in {"host", "route"}, AskDelete(what)  PROVE LoadRuns'
  BY <1>20 DEF AskDelete, Question
<1>21. CASE Delete  BY <1>21, Closing DEF Delete, Changed, Render
<1>22. CASE Import  BY <1>22 DEF Import, Render
<1>23. CASE Decline  BY <1>23 DEF Decline, Render
<1>24. CASE RestoreAgreed  BY <1>24, RequestHas DEF RestoreAgreed, Send
<1>25. CASE SaveInvalid  BY <1>25 DEF SaveInvalid, Idle, Ask, Render
<1>26. CASE Logout  BY <1>26, RequestHas DEF Logout, Idle, Ask, Send
<1>27. ASSUME NEW t \in {"save", "apply", "test"}, SaveFirst(t)  PROVE LoadRuns'
  BY <1>27, RequestHas DEF SaveFirst, Idle, Ask, Collected, Send
<1>28. ASSUME NEW c \in Elsewhere, Restore(c)  PROVE LoadRuns'
  BY <1>28, RequestHas DEF Restore, Idle, Ask, Send
<1>29. ASSUME NEW c \in Elsewhere, AskRestore(c)  PROVE LoadRuns'
  BY <1>29 DEF AskRestore, Idle, Ask, Question
<1>30. ASSUME NEW c \in Elsewhere, ImportFile(c)  PROVE LoadRuns'
  BY <1>30, RequestHas DEF ImportFile, Idle, Ask, Send
<1>31. CASE UNCHANGED vars  BY <1>31 DEF vars
<1> QED
  BY <1>1, <1>2, <1>3, <1>4, <1>5, <1>6, <1>7, <1>8, <1>9, <1>10, <1>11, <1>12, <1>13,
     <1>14, <1>15, <1>16, <1>17, <1>18, <1>19, <1>20, <1>21, <1>22, <1>23, <1>24, <1>25,
     <1>26, <1>27, <1>28, <1>29, <1>30, <1>31 DEF Next, Edits, Answered, Modals

\* A submit that is still shown has its own dialog open, over the editor it was made from.
LEMMA SubmitStep ==
  ASSUME IInv, [Next]_vars
  PROVE  SubmitRuns'
<1> USE ConstantsAssumption, NoneAssumption DEF ConstantsAssumption, NoneAssumption, server,
      dialogs, editor, Counters, IInv, SubmitRuns, Pending, NetTyped, ModalOpen, Usable,
      Dialog, Busy, TaskRuns, LoadRuns, ConfirmOpen, Waiting, WithModalClosed, Closed, Modals
<1>1. CASE SessionExpires \/ Publish \/ \E c \in Elsewhere : OtherSaves(c)
  BY <1>1 DEF SessionExpires, Publish, OtherSaves
<1>2. ASSUME NEW r \in net, Serve(r)  PROVE SubmitRuns'  BY <1>2, Renews
<1>3. ASSUME NEW r \in net, Fail(r)  PROVE SubmitRuns'  BY <1>3, Renews
<1>4. ASSUME NEW r \in net, LoadAnswered(r)  PROVE SubmitRuns'
  <2>1. r \in Pending("load")  BY <1>4 DEF LoadAnswered, Pending
  <2>2. r.session = csrf => config = None \/ late  BY <2>1
  <2>3. \A q \in net : q.by = "submit" /\ q.shown => config # None  BY SubmitShown
  <2>4. CASE r.reply = "unauthorized"
    BY <1>4, <2>4, Closing DEF LoadAnswered, ShowLogin
  <2>5. CASE r.reply # "unauthorized"
    <3>1. csrf' = csrf /\ net' = net \ {r} /\ modal' = modal /\ (late => late')
          /\ (base' = base \/ (r.session # csrf => late'))
      BY <1>4, <2>5 DEF LoadAnswered
    <3> QED  BY <2>1, <2>2, <2>3, <3>1
  <2> QED  BY <2>4, <2>5
<1>5. ASSUME NEW r \in net, SyncAnswered(r)  PROVE SubmitRuns'
  BY SMTT(30), <1>5, Closing, AnswerIn DEF SyncAnswered, SyncDone, SyncFits, Safe, ShowLogin, Accept,
       Render
<1>6. ASSUME NEW r \in net, SubmitAnswered(r)  PROVE SubmitRuns'
  BY SMTT(30), <1>6, Closing, AnswerIn DEF SubmitAnswered, LogsOut, ShowLogin, Changed, Render
<1>7. ASSUME NEW r \in net, TaskAnswered(r)  PROVE SubmitRuns'
  <2>1. TaskGone(r)  BY <1>7, TaskGoesOn
  <2>2. r.by = "task"  BY <1>7 DEF TaskAnswered
  <2> QED  BY SMTT(30), <2>1, <2>2, Closing, AnswerIn DEF TaskGone, Follows
<1>8. CASE AuthRequired  BY <1>8, Closing DEF AuthRequired, ShowLogin
<1>9. CASE SeeFrame  BY <1>9, RequestHas DEF SeeFrame, Safe
<1>10. CASE Login  BY <1>10, LoginAsks DEF Login
<1>11. CASE Reload  BY <1>11, RequestHas DEF Reload, Ask
<1>12. CASE CloseModal  BY <1>12, Closing DEF CloseModal
<1>13. CASE SubmitPassword  BY <1>13, RequestHas DEF SubmitPassword
<1>14. ASSUME NEW v \in Value \cup {Bad}, Type(v)  PROVE SubmitRuns'  BY <1>14 DEF Type, Ask
<1>15. ASSUME NEW p \in Page, Navigate(p)  PROVE SubmitRuns'
  BY <1>15 DEF Navigate, Idle, Render, Collected
<1>16. ASSUME NEW p \in Modals, OpenEditor(p)  PROVE SubmitRuns'
  BY <1>16 DEF OpenEditor, Idle, Ask
<1>17. ASSUME NEW v \in Value, SubmitHosts(v)  PROVE SubmitRuns'
  BY <1>17, RequestHas DEF SubmitHosts
<1>18. ASSUME NEW v \in Value, SubmitCacheSize(v)  PROVE SubmitRuns'
  BY <1>18 DEF SubmitCacheSize, Changed, Render
<1>19. ASSUME NEW v \in Value, Example(v)  PROVE SubmitRuns'
  BY <1>19 DEF Example, Idle, Ask, Changed, Render
<1>20. ASSUME NEW what \in {"host", "route"}, AskDelete(what)  PROVE SubmitRuns'
  BY <1>20 DEF AskDelete, Question
<1>21. CASE Delete  BY <1>21, Closing DEF Delete, Changed, Render
<1>22. CASE Import  BY <1>22 DEF Import, Render
<1>23. CASE Decline  BY <1>23 DEF Decline, Render
<1>24. CASE RestoreAgreed  BY <1>24, RequestHas DEF RestoreAgreed, Send
<1>25. CASE SaveInvalid  BY <1>25 DEF SaveInvalid, Idle, Ask, Render
<1>26. CASE Logout  BY <1>26, RequestHas DEF Logout, Idle, Ask, Send
<1>27. ASSUME NEW t \in {"save", "apply", "test"}, SaveFirst(t)  PROVE SubmitRuns'
  BY <1>27, RequestHas DEF SaveFirst, Idle, Ask, Collected, Send
<1>28. ASSUME NEW c \in Elsewhere, Restore(c)  PROVE SubmitRuns'
  BY <1>28, RequestHas DEF Restore, Idle, Ask, Send
<1>29. ASSUME NEW c \in Elsewhere, AskRestore(c)  PROVE SubmitRuns'
  BY <1>29 DEF AskRestore, Idle, Ask, Question
<1>30. ASSUME NEW c \in Elsewhere, ImportFile(c)  PROVE SubmitRuns'
  BY <1>30, RequestHas DEF ImportFile, Idle, Ask, Send
<1>31. CASE UNCHANGED vars  BY <1>31 DEF vars
<1> QED
  BY <1>1, <1>2, <1>3, <1>4, <1>5, <1>6, <1>7, <1>8, <1>9, <1>10, <1>11, <1>12, <1>13,
     <1>14, <1>15, <1>16, <1>17, <1>18, <1>19, <1>20, <1>21, <1>22, <1>23, <1>24, <1>25,
     <1>26, <1>27, <1>28, <1>29, <1>30, <1>31 DEF Next, Edits, Answered, Modals

\* An editor that is not flagged shows what the server sent.
LEMMA FlaggedStep ==
  ASSUME IInv, [Next]_vars
  PROVE  Flagged'
<1> USE ConstantsAssumption, NoneAssumption DEF ConstantsAssumption, NoneAssumption, server,
      dialogs, editor, Counters, IInv, Flagged, Usable, Busy, Dialog, PageTyped, EditorTyped,
      DialogsTyped, NetTyped, LoggedOut, ConfirmOpen, ModalOpen, Loaded, Requests, Snapshot,
      Config, Part, Tasks, Interrupted, TaskRuns, Pending
<1>1. CASE SessionExpires \/ Publish \/ \E c \in Elsewhere : OtherSaves(c)
  BY <1>1 DEF SessionExpires, Publish, OtherSaves
<1>2. ASSUME NEW r \in net, Serve(r)  PROVE Flagged'  BY <1>2 DEF Serve
<1>3. ASSUME NEW r \in net, Fail(r)  PROVE Flagged'  BY <1>3 DEF Fail
<1>4. ASSUME NEW r \in net, LoadAnswered(r)  PROVE Flagged'
  BY <1>4 DEF LoadAnswered, ShowLogin, Accept, Render
<1>5. ASSUME NEW r \in net, SyncAnswered(r)  PROVE Flagged'
  BY <1>5 DEF SyncAnswered, SyncDone, SyncFits, Safe, ShowLogin, Accept, Render
<1>6. ASSUME NEW r \in net, SubmitAnswered(r)  PROVE Flagged'
  <2>1. SubmitGone(r)  BY <1>6, SubmitGoesOn
  <2>2. r.by = "submit"  BY <1>6 DEF SubmitAnswered
  <2>3. r.shown => Usable /\ ~Busy /\ r.session = csrf /\ (r.path = "preview" => r.rev = base \/ late)
    BY <2>2, SubmitShown
  <2> QED  BY <2>1, <2>2, <2>3, Closing DEF SubmitGone, Taken
<1>7. ASSUME NEW r \in net, TaskAnswered(r)  PROVE Flagged'
  BY <1>7 DEF TaskAnswered, LogsOut, ShowLogin, Accept, Render
<1>8. CASE AuthRequired  BY <1>8 DEF AuthRequired, ShowLogin
<1>9. CASE SeeFrame  BY <1>9 DEF SeeFrame, Safe, Request
<1>10. CASE Login  BY <1>10 DEF Login, Request
<1>11. CASE Reload  BY <1>11 DEF Reload, Ask, Request
<1>12. CASE CloseModal  BY <1>12 DEF CloseModal
<1>13. CASE SubmitPassword  BY <1>13 DEF SubmitPassword, Request
<1>14. ASSUME NEW v \in Value \cup {Bad}, Type(v)  PROVE Flagged'  BY <1>14 DEF Type, Ask
<1>15. ASSUME NEW p \in Page, Navigate(p)  PROVE Flagged'
  BY <1>15 DEF Navigate, Idle, Render, Collected
<1>16. ASSUME NEW p \in Modals, OpenEditor(p)  PROVE Flagged'
  BY <1>16 DEF OpenEditor, Idle, Ask
<1>17. ASSUME NEW v \in Value, SubmitHosts(v)  PROVE Flagged'
  BY <1>17 DEF SubmitHosts, Request
<1>18. ASSUME NEW v \in Value, SubmitCacheSize(v)  PROVE Flagged'
  BY <1>18 DEF SubmitCacheSize, Changed, Render
<1>19. ASSUME NEW v \in Value, Example(v)  PROVE Flagged'
  BY <1>19 DEF Example, Idle, Ask, Changed, Render
<1>20. ASSUME NEW what \in {"host", "route"}, AskDelete(what)  PROVE Flagged'
  BY <1>20 DEF AskDelete, Question
<1>21. CASE Delete  BY <1>21 DEF Delete, Changed, Render
<1>22. CASE Import  BY <1>22 DEF Import, Render
<1>23. CASE Decline  BY <1>23 DEF Decline, Render
<1>24. CASE RestoreAgreed  BY <1>24 DEF RestoreAgreed, Send, Request
<1>25. CASE SaveInvalid  BY <1>25 DEF SaveInvalid, Idle, Ask, Render
<1>26. CASE Logout  BY <1>26 DEF Logout, Idle, Ask, Send, Request
<1>27. ASSUME NEW t \in {"save", "apply", "test"}, SaveFirst(t)  PROVE Flagged'
  BY <1>27 DEF SaveFirst, Idle, Ask, Collected, Send, Request
<1>28. ASSUME NEW c \in Elsewhere, Restore(c)  PROVE Flagged'
  BY <1>28 DEF Restore, Idle, Ask, Send, Request
<1>29. ASSUME NEW c \in Elsewhere, AskRestore(c)  PROVE Flagged'
  BY <1>29 DEF AskRestore, Idle, Ask, Question
<1>30. ASSUME NEW c \in Elsewhere, ImportFile(c)  PROVE Flagged'
  BY <1>30 DEF ImportFile, Idle, Ask, Send, Request
<1>31. CASE UNCHANGED vars  BY <1>31 DEF vars
<1> QED
  BY <1>1, <1>2, <1>3, <1>4, <1>5, <1>6, <1>7, <1>8, <1>9, <1>10, <1>11, <1>12, <1>13,
     <1>14, <1>15, <1>16, <1>17, <1>18, <1>19, <1>20, <1>21, <1>22, <1>23, <1>24, <1>25,
     <1>26, <1>27, <1>28, <1>29, <1>30, <1>31 DEF Next, Edits, Answered, Modals

\* Whatever replaces the editor or the snapshot keeps the two of one revision.
LEMMA EditorIsStep ==
  ASSUME IInv, [Next]_vars
  PROVE  EditorIsOfItsRevision'
<1> USE ConstantsAssumption, NoneAssumption DEF ConstantsAssumption, NoneAssumption, server,
      dialogs, editor, Counters, IInv, EditorIsOfItsRevision, SubmitRuns, Pending, NetTyped,
      ModalOpen, ConfirmOpen, Usable, Snapshot, Requests
<1>1. CASE SessionExpires \/ Publish \/ \E c \in Elsewhere : OtherSaves(c)
  BY <1>1 DEF SessionExpires, Publish, OtherSaves
<1>2. ASSUME NEW r \in net, Serve(r)  PROVE EditorIsOfItsRevision'  BY <1>2 DEF Serve
<1>3. ASSUME NEW r \in net, Fail(r)  PROVE EditorIsOfItsRevision'  BY <1>3 DEF Fail
<1>4. ASSUME NEW r \in net, LoadAnswered(r)  PROVE EditorIsOfItsRevision'
  BY <1>4 DEF LoadAnswered, ShowLogin, Accept, Render
<1>5. ASSUME NEW r \in net, SyncAnswered(r)  PROVE EditorIsOfItsRevision'
  BY <1>5 DEF SyncAnswered, SyncDone, SyncFits, Safe, ShowLogin, Accept, Render
<1>6. ASSUME NEW r \in net, SubmitAnswered(r)  PROVE EditorIsOfItsRevision'
  <2>1. SubmitGone(r)  BY <1>6, SubmitGoesOn
  <2>2. r.by = "submit"  BY <1>6 DEF SubmitAnswered
  <2>3. r.shown => Usable /\ ~Busy /\ r.session = csrf /\ (r.path = "preview" => r.rev = base \/ late)
    BY <2>2, SubmitShown
  <2> QED  BY <2>1, <2>2, <2>3, Closing DEF SubmitGone, Taken
<1>7. ASSUME NEW r \in net, TaskAnswered(r)  PROVE EditorIsOfItsRevision'
  <2>1. late => late'  BY <1>7 DEF TaskAnswered, ShowLogin
  <2>2. \/ config' = None \/ UNCHANGED <<config, base, state>> \/ base' = state'.config
    BY <1>7 DEF TaskAnswered, ShowLogin, Accept
  <2> QED  BY <2>1, <2>2
<1>8. CASE AuthRequired  BY <1>8 DEF AuthRequired, ShowLogin
<1>9. CASE SeeFrame  BY <1>9 DEF SeeFrame, Safe, Request
<1>10. CASE Login  BY <1>10 DEF Login, Request
<1>11. CASE Reload  BY <1>11 DEF Reload, Ask, Request
<1>12. CASE CloseModal  BY <1>12 DEF CloseModal
<1>13. CASE SubmitPassword  BY <1>13 DEF SubmitPassword, Request
<1>14. ASSUME NEW v \in Value \cup {Bad}, Type(v)  PROVE EditorIsOfItsRevision'
  BY <1>14 DEF Type, Ask
<1>15. ASSUME NEW p \in Page, Navigate(p)  PROVE EditorIsOfItsRevision'
  BY <1>15 DEF Navigate, Idle, Render, Collected
<1>16. ASSUME NEW p \in Modals, OpenEditor(p)  PROVE EditorIsOfItsRevision'
  BY <1>16 DEF OpenEditor, Idle, Ask
<1>17. ASSUME NEW v \in Value, SubmitHosts(v)  PROVE EditorIsOfItsRevision'
  BY <1>17 DEF SubmitHosts, Request
<1>18. ASSUME NEW v \in Value, SubmitCacheSize(v)  PROVE EditorIsOfItsRevision'
  BY <1>18, CacheSizeIn
<1>19. ASSUME NEW v \in Value, Example(v)  PROVE EditorIsOfItsRevision'
  BY <1>19 DEF Example, Idle, Ask, Changed, Render
<1>20. ASSUME NEW what \in {"host", "route"}, AskDelete(what)  PROVE EditorIsOfItsRevision'
  BY <1>20 DEF AskDelete, Question
<1>21. CASE Delete  BY <1>21 DEF Delete, Changed, Render
<1>22. CASE Import  BY <1>22 DEF Import, Render
<1>23. CASE Decline  BY <1>23 DEF Decline, Render
<1>24. CASE RestoreAgreed  BY <1>24 DEF RestoreAgreed, Send, Request
<1>25. CASE SaveInvalid  BY <1>25 DEF SaveInvalid, Idle, Ask, Render
<1>26. CASE Logout  BY <1>26 DEF Logout, Idle, Ask, Send, Request
<1>27. ASSUME NEW t \in {"save", "apply", "test"}, SaveFirst(t)  PROVE EditorIsOfItsRevision'
  BY <1>27 DEF SaveFirst, Idle, Ask, Collected, Send, Request
<1>28. ASSUME NEW c \in Elsewhere, Restore(c)  PROVE EditorIsOfItsRevision'
  BY <1>28 DEF Restore, Idle, Ask, Send, Request
<1>29. ASSUME NEW c \in Elsewhere, AskRestore(c)  PROVE EditorIsOfItsRevision'
  BY <1>29 DEF AskRestore, Idle, Ask, Question
<1>30. ASSUME NEW c \in Elsewhere, ImportFile(c)  PROVE EditorIsOfItsRevision'
  BY <1>30 DEF ImportFile, Idle, Ask, Send, Request
<1>31. CASE UNCHANGED vars  BY <1>31 DEF vars
<1> QED
  BY <1>1, <1>2, <1>3, <1>4, <1>5, <1>6, <1>7, <1>8, <1>9, <1>10, <1>11, <1>12, <1>13,
     <1>14, <1>15, <1>16, <1>17, <1>18, <1>19, <1>20, <1>21, <1>22, <1>23, <1>24, <1>25,
     <1>26, <1>27, <1>28, <1>29, <1>30, <1>31 DEF Next, Edits, Answered, Modals

----------------------------------------------------------------------------
(* Theorems *)

\* At most one task and one refresh wait for an answer.
LEMMA PendingIsOne ==
  ASSUME IInv
  PROVE  OneAtATime
<1> SUFFICES ASSUME NEW by \in {"task", "sync"}  PROVE Cardinality(Pending(by)) <= 1
  BY DEF OneAtATime
<1>1. CASE Pending(by) = {}  BY <1>1, FS_EmptySet
<1>2. CASE Pending(by) # {}
  <2>1. PICK q : q \in Pending(by)  BY <1>2
  <2>2. \A r \in Pending(by) : r = q  BY <2>1 DEF IInv, Unique, Pending
  <2>3. Pending(by) = {q}  BY <2>1, <2>2
  <2>4. Cardinality({q}) = 1  BY FS_Singleton
  <2> QED  BY <2>3, <2>4
<1> QED  BY <1>1, <1>2

LEMMA InitEstablishes == Init => IInv
<1> SUFFICES ASSUME Init  PROVE IInv  OBVIOUS
<1> USE ConstantsAssumption DEF Init
<1>1. Plain \in Config  BY DEF ConstantsAssumption, Plain, Config, Part
<1>2. ServerTyped  BY <1>1 DEF ServerTyped, Session
<1>3. PageTyped /\ EditorTyped /\ DialogsTyped /\ NetTyped
  BY DEF PageTyped, EditorTyped, DialogsTyped, NetTyped, Page
<1>4. Bounded  BY DEF Bounded, ConstantsAssumption
<1>5. Requests /\ SavedFrom /\ Unique /\ Numbered /\ Loaded
  BY DEF Requests, SavedFrom, Unique, Numbered, Loaded
<1>6. LoggedOut /\ ModalOpen /\ ConfirmOpen  BY DEF LoggedOut, ModalOpen, ConfirmOpen
<1>7. TaskRuns /\ LoadRuns /\ SubmitRuns  BY DEF TaskRuns, LoadRuns, SubmitRuns, Pending
<1>8. Flagged /\ EditorIsOfItsRevision  BY DEF Flagged, EditorIsOfItsRevision
<1> QED  BY <1>2, <1>3, <1>4, <1>5, <1>6, <1>7, <1>8 DEF IInv

LEMMA StepPreserves ==
  ASSUME IInv, [Next]_vars
  PROVE  IInv'
<1>1. ServerTyped' /\ PageTyped' /\ EditorTyped' /\ DialogsTyped' /\ NetTyped' /\ Bounded'
  BY ServerStep, PageStep, EditorStep, DialogsStep, NetStep, BoundedStep
<1>2. Requests' /\ SavedFrom' /\ Unique' /\ Numbered' /\ Loaded'
  BY RequestsStep, SavedStep, UniqueStep, NumberedStep, LoadedStep
<1>3. LoggedOut' /\ ModalOpen' /\ ConfirmOpen'  BY LoggedOutStep, ModalStep, ConfirmStep
<1>4. TaskRuns' /\ LoadRuns' /\ SubmitRuns'  BY TaskStep, LoadStep, SubmitStep
<1>5. Flagged' /\ EditorIsOfItsRevision'  BY FlaggedStep, EditorIsStep
<1> QED  BY <1>1, <1>2, <1>3, <1>4, <1>5 DEF IInv

\* The invariant of the editor holds in every reachable state.
THEOREM InvariantAlways == Spec => []IInv
BY InitEstablishes, StepPreserves, PTL DEF Spec

\* Every variable keeps its type, and at most one task and one background refresh wait
\* for an answer: task() and dockerConfigSync let no second one start.
THEOREM TypesAlways == Spec => []TypeOK
<1>1. IInv => TypeOK  BY PendingIsOne DEF IInv, TypeOK
<1> QED  BY <1>1, InvariantAlways, PTL

\* app.js:98-99, 573: what is not on the server is flagged as unsaved, whatever answers
\* arrive late, after other dialogs and in other sessions.
THEOREM UnsavedAlways == Spec => []UnsavedIsFlagged
<1>1. IInv => UnsavedIsFlagged  BY DEF IInv, Flagged, UnsavedIsFlagged, Usable
<1> QED  BY <1>1, InvariantAlways, PTL

\* app.js:399: a save is compared with the revision that was edited, unless an answer was
\* used after its dialog or its session had gone.
THEOREM EditorAlways == Spec => []EditorIsOfItsRevision
<1>1. IInv => EditorIsOfItsRevision  BY DEF IInv
<1> QED  BY <1>1, InvariantAlways, PTL

\* docker.js:57-58: the answer of a background refresh never replaces a configuration that
\* is being edited, in any state: the page asks safe() again when it arrives.
THEOREM SyncAlways == Spec => SyncSparesEdits
<1> DEFINE Spares ==
      \A r \in Pending("sync") :
        SyncAnswered(r) /\ (dirty \/ Dialog \/ Busy) => config' \in {config, None}
<1>1. ASSUME NEW r \in Pending("sync"), SyncAnswered(r), dirty \/ Dialog \/ Busy
      PROVE  config' \in {config, None}
  BY <1>1 DEF SyncAnswered, SyncFits, Safe, ShowLogin, editor
<1>2. Spares  BY <1>1
<1>3. [Next]_vars => [Spares]_vars  BY <1>2
<1> HIDE DEF Spares
<1>4. Spec => [][Spares]_vars  BY <1>3, PTL DEF Spec
<1> QED  BY <1>4 DEF SyncSparesEdits, Spares

\* Only the server, carrying out a request, changes what nginx runs.
LEMMA ActiveMoves ==
  ASSUME Next, active' # active
  PROVE  \E r \in net : Serve(r)
<1>1. ASSUME NEW r \in net, Fail(r) \/ Answered(r)  PROVE active' = active
  BY <1>1 DEF Fail, Answered, LoadAnswered, SyncAnswered, SubmitAnswered, TaskAnswered, server
<1>2. CASE \/ SessionExpires \/ Publish \/ AuthRequired \/ SeeFrame
           \/ \E c \in Elsewhere : OtherSaves(c)
  BY <1>2 DEF SessionExpires, Publish, AuthRequired, SeeFrame, OtherSaves, server
<1>3. CASE Edits
  BY <1>3 DEF Edits, Login, Reload, CloseModal, SubmitPassword, Type, Navigate, OpenEditor,
       SubmitHosts, SubmitCacheSize, Example, AskDelete, Delete, Import, Decline,
       RestoreAgreed, SaveInvalid, Logout, SaveFirst, Restore, AskRestore, ImportFile, server
<1> QED  BY <1>1, <1>2, <1>3 DEF Next

\* app.js:563: what an apply makes nginx run was in the request that asked for it, also
\* when another writer replaced the draft between the save and the apply.
THEOREM AppliedAlways == Spec => AppliedWasShown
<1> DEFINE Shown == active' # active => \E r \in net : r.path = "apply" /\ r.body = active'
<1>1. ASSUME IInv, [Next]_vars, active' # active
      PROVE  \E r \in net : r.path = "apply" /\ r.body = active'
  <2>1. PICK r \in net : Serve(r)  BY <1>1, ActiveMoves DEF vars, server
  <2>2. Done(r) /\ r.path = "apply" /\ active' = draft  BY <1>1, <2>1 DEF Serve
  <2>3. r.rev = draft  BY <2>2 DEF Done, Current
  <2>4. r.body = r.rev  BY <1>1, <2>2 DEF IInv, Requests, Sound
  <2> QED  BY <2>2, <2>3, <2>4
<1>2. IInv /\ [Next]_vars => [Shown]_vars  BY <1>1
<1> HIDE DEF Shown
<1>3. Spec => [][Shown]_vars  BY <1>2, InvariantAlways, PTL DEF Spec
<1> QED  BY <1>3 DEF AppliedWasShown, Shown

\* docs/docker-labels.md:17: a save that the server accepts was made from the draft that it
\* replaces, unless an answer was used after its dialog or its session had gone.
THEOREM SavesAlways == Spec => SavesReplaceWhatWasEdited
<1> DEFINE Replaces ==
      \A r \in net : r.path = "save" /\ Serve(r) /\ draft' # draft => r.from = draft \/ late
<1>1. ASSUME IInv, NEW r \in net, r.path = "save", Serve(r), draft' # draft
      PROVE  r.from = draft \/ late
  <2>1. Done(r)  BY <1>1 DEF Serve
  <2>2. r.rev = draft  BY <1>1, <2>1 DEF Done, Current
  <2> QED  BY <1>1, <2>2 DEF IInv, SavedFrom
<1>2. IInv /\ [Next]_vars => [Replaces]_vars  BY <1>1
<1> HIDE DEF Replaces
<1>3. Spec => [][Replaces]_vars  BY <1>2, InvariantAlways, PTL DEF Spec
<1> QED  BY <1>3 DEF SavesReplaceWhatWasEdited, Replaces
=============================================================================
