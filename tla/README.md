# A TLA+ model of AmberGate

AmberGate is an nginx gateway with a control plane in Python. The control plane keeps a
draft and an immutable history of configurations, promotes the draft to nginx with a
verified reload and a rollback, discovers routes from Docker labels, keeps certificates,
and carries traffic of remote hosts over tunnels that their agents open. Its panel, a page
of plain JavaScript, edits the draft and follows the server over one live stream. This
directory models the parts of it whose correctness depends on order, failure and
concurrency.

Sources are named relative to `src/ambergate/`.

## 1. The system

| Component | State it keeps | Operations | What is hard | What makes it correct |
|---|---|---|---|---|
| **Revision store** `storage.py`, `main.py` | `draft.json`; `revisions/<g>/{config.json,nginx.conf,meta.json}`; the `active` symlink; the nginx process | `save`, `restore`, `test`, `apply_config`, `start`, `stop`, `cleanup`; main's half-second poll | crash at any write, nginx reload seen only through a probe, rollback that fails itself, upgrade at restart | `active` is always whole and checked; a draft never runs by itself; a failed apply leaves no trace; a confirmed one is really the only one serving; the container comes back |
| **Tunnel hub** `tunnel_hub.py`, `tunnel.py`, `agent_tunnel` in `server.py` | control session per agent, registered streams, 128 slots, port map `agent-ports.json` | `attach`, `control`, `disconnect`, `claim`, `data`, `forward`, `finish`, `reserve`, `stop` | five kinds of thread finish one stream; two locks; replacement and revocation while streams are being set up | streams die with their session; revoked tokens hold nothing; slots come back; nothing deadlocks |
| **Agent registry** `agents.py` | definitions and token hashes, last report, manual targets, leases | `mutate`, `report`, `select_targets`, `refresh_targets`, `routing`, `materialize` | wall clock, leases, reports racing revocation, ports allocated in two phases | a destination is routable only within its lease; a failed batch leaves no ports; ports in use are never lost |
| **HTTP server and admission** `server.py`, `http_security.py` | request permits by kind and by client | `enter`, `identify`, `promote`, `leave` | early returns, exceptions, permits that change hands | permits are neither lost nor counted twice; a busy kind never takes another's |
| **Authentication** `auth.py` | credentials, sessions, login credit | `login`, `session`, `logout`, `change_password` | password hashed outside the lock | no session of an old password survives its change |
| **Docker labels** `labels.py` | mode, last scan and its preview token | `scan`, `save` | client of the store that touches draft and active | only Docker-owned targets change; the draft is restored exactly |
| **Certificates** `certificates.py`, `tls.py` | status, pointer per domain, ACME account | `tick`, `issue`, `install` | long external command, pointer and reload, retries | no certificate is installed for a host that changed; a failed reload restores the pointer |
| **Live events** `events.py` | one shared frame, its sequence, subscribers | `subscribe`, `wait`, `run`, `stop` | producer and consumers around one condition | every subscriber gets a frame newer than its last, never one of an idle period |
| **Traffic metrics** `metrics.py` | ten-second buckets, recent errors | `record`, `prune`, `snapshot` | clocks of nginx and of the control plane | bounded memory, sums that agree |
| **General settings** `settings.py` | one file | `save` | stale token | as `Store.save` |
| **Docker inventory** `docker.py` | cached snapshot, settings | `snapshot`, `save` | cache | read-only |
| **Agent program** `agent.py`, `agent_network.py` | control session, streams, slots, targets | `run`, `receive`, `open_stream`, `disconnect` | reconnection while streams open; PID reuse | a stream belongs to the current session only |
| **Renderer** `config.py`, `nginx.py`, `response_rewrite.py` | none | `validate`, `render` | - | - |
| **Panel editor** `static/app.js`, the refresh in `docker.js` | last snapshot, the configuration being edited, unsaved flag, one task, one dialog, one question | `task`, `saveDraft`, `editHost`, `editRoute`, `confirmAction`, `receiveDockerLabels` | answers that arrive after the page has moved on; another writer of the draft | nothing unsaved goes unflagged; a save cannot undo another's change; an apply activates what was shown |
| **Panel live stream** `static/dashboard.js` | the `EventSource`, two timers, status | `startDashboardStream`, `retry`, `stopDashboardStream` | a check of the session awaited inside a retry; hiding, logins, refusals without a status | one connection at most, always watched, found again after every failure |
| **Panel agents and general settings** `static/agents.js`, `general.js` | lists, typed address, open form and question | `agentAction`, `agentForm`, `mutateAgent`, `bindGeneralPage`, `receiveAgents`, `receiveGeneral` | the stream renews a list below an open form | changes were decided on what was shown; HTTP only for an address that was agreed to |
| **Panel Docker page and picker** `static/docker.js` | settings and drafts, the open picker, its token and selection | `loadDockerPage`, `runDockerLabels`, `openDockerPicker`, `addDockerTargets` | lists that change while a selection is shown; ports that arrive late | targets land in the editor they were chosen for |
| **Panel texts** `static/i18n.js` | language | - | - | - |
| **Installer** `first-start.sh` | none | - | - | - |

How they interact. Locks are taken in the order `labels.lock`, `store.lock`,
`agents.lock`, `hub.lock`. The store is called by the HTTP handlers, by the label thread
(`apply_config` of a reconciled active configuration) and by the certificate thread
(`apply_config` of the unchanged active configuration, for a new certificate). nginx
connects to loopback listeners of the hub; the hub asks an agent over its control
WebSocket to open a stream and the agent answers with a second, data WebSocket. Settings
edits carry the digest of what they were made from and are refused if it has changed.

The panel talks to the server by requests, each with the token of its session, and hears
of changes by others from the frames of the live stream. An answer of 401 to any of them,
and the event `auth_required`, return it to the login form. JavaScript runs one task at a
time, so what can interleave is what happens between two `await`s: other answers, frames,
timers, the administrator, and on the server other panels and the label thread.

## 2. Modules

| Module | What it is |
|---|---|
| `ConfigPromotion` | abstract specification of the store: a draft, a committed configuration, at most one promotion that commits as a whole or leaves no trace |
| `RevisionStore` | the store, nginx and the container, one action per write, signal and probe; implements `ConfigPromotion` |
| `RevisionStore_proofs` | its inductive invariant and theorems |
| `TunnelHub` | control sessions, streams and their threads |
| `TunnelHub_proofs` | its inductive invariant and theorems |
| `Admission` | permits of the HTTP listener and the threads that hold them |
| `Admission_proofs` | their accounting and limits |
| `PanelEditor` | the configuration editor with the draft, its server and its other writers |
| `PanelEditor_proofs` | what holds of its requests, dialogs and questions, and its theorems |
| `LiveStream` | the live connection of the panel with its timers and its session |
| `LiveStream_proofs` | its inductive invariant and theorems |
| `AgentPanel` | the pages of agents and of general settings |
| `AgentPanel_proofs` | what is true of every request those pages have in flight |
| `DockerPanel` | the Docker page and the container picker |
| `DockerPanel_proofs` | what holds of the picker's requests, and its theorems |
| `PanelPages` | `AgentPanel` and `DockerPanel` side by side, with the theorems they inherit |
| `MCRevisionStore`, `MCTunnelHub`, `MCAdmission`, `MCPanelEditor`, `MCLiveStream`, `MCPanelPages` | instances for TLC |

### 2.1 RevisionStore

Every operation of `Store` holds one re-entrant lock, so at most one is in progress. `job`
says which (`init` and `start` are `Store.__init__` and `Store.start`), `pc` where it is,
`cand` and `old` are `generation` and `old` of `apply_config()`.

| Code | Model |
|---|---|
| `revisions/<g>/...` | `files[g]`, a subset of directory, config, conf, meta; `config[g]`, `made[g]` (the program version whose `render()` made `nginx.conf`), `applied` (`applied_at` is set) |
| `active`, and what a machine crash leaves of it | `active`, `disk` (its value at the last sync of the directory) |
| `prepare()` | `Prepare`, then `WriteFile` three times; `PrepareFails` |
| `check()` | `CheckPasses`, `CheckFails` |
| `activate()` | `Activate` (replace), `SyncActive` (sync of the directory); `ActivateFails`, and `RollbackFails` in the exception handler: either half may raise |
| `wait_generation()` | `ProbeMatches`, `ProbeMisses`, `WaitFails`: one action is one probe; `left` counts probes to the deadline, `stable` those that matched in a row |
| handler of `apply_config()` | `Rescue`, then `Activate`/`SyncActive`/`Signal`/probes of the rollback, then `Remove` |
| `mark_applied()`, `cleanup()` | `MarkApplied`, `MarkFails`; `Cleanup`, `Purge` (one file of `rmtree` per step) |
| `main()` | `Boot`, `Shutdown`, `NginxMissed`, `Exit` |

Revisions are numbered in the order they are created, which stands for `created_at` and
for the random identifiers; `digest()` tokens are not modelled, because a refused request
changes nothing. nginx is external: a SIGHUP is remembered once (`hups`), the master reads
the configuration through the symlink when it acts on it (`ReadConf`), new workers accept
(`StartWorkers`) while the old ones still do for the handover of 100 ms that the comment
in `wait_generation()` describes (`retiring`, `overlap`, `HandoverEnds`), and a reload may
fail or be late.

Assumed of the environment: `fsync` reports failure; after a *failed* sync of the data
directory the file system writes the symlink back before a later crash; `rmtree` itself
raises no I/O error; the wall clock does not step back between two revisions; nginx reads
one configuration file as a whole.

`FailedApplyKeepsOld` is about every report of a failure, that is every end of an apply but
the successful return from `cleanup()`. In three places the code cannot keep that promise,
because the write that fails is the one that would have kept it, and the property says what
is left there: `prepare()` raises (the directory stays, without `meta.json`), `activate(old)`
raises in the handler (the candidate's directory stays, and the candidate may be active),
and `mark_applied()` raises (the apply has committed). Everywhere else the old revision is
active, on disk as well, and the candidate is gone.

### 2.2 TunnelHub

| Code | Model |
|---|---|
| `agents.lock` | `RegistryFree`: no `mutate()`, no `attach()`, no claimed connection being upgraded |
| `hub.lock` | `lock` where it is held over several steps (`data()` and `control()`), one action per region otherwise |
| `mutate()` rotate, disable, delete | `Revoke`, the steps of `disconnect()`, `RevokeEnds` |
| `agent_tunnel()` connect | `AttachBegins`, the steps of `disconnect()`, `AttachEnds`, then `control()`: `FailureReported`, `FailureHandled`, `ControlEnds`, `ControlOver` |
| `agent_tunnel()` tunnel | `Claim`, `Upgrade` or `UpgradeFails`, `DataTests`, `DataSets`, `BridgeEnds`, `DataEnds` |
| `disconnect()` | `Disconnect` (its region of the lock), `ClosesControl`, `FinishesNext` for each stream, `Disconnected` |
| `finish()` | per thread: `FinishTests` (`done`), `FinishSets`, `FinishCloses` |
| `run()`, `forward()` | `Accept` (with a thread, without a slot, or with a slot and no thread), `Lookup`, `Send`, `ReadyArrives`, `ReadyTimesOut`, `DoneArrives`, `ForwardEnds` |
| `stop()` | `Stop`, `StopDisconnects`, `StopGoesOn` |

Agents are not trusted to follow the protocol: any session may report any stream of its
agent as failed, any holder of a token may claim any stream, a session may break or send
nonsense at any time. The lease of a destination is a refusal that may happen at any time
(`Lookup`). Bytes are not modelled: a stream *flows* while both its connections are open
and bridged.

`Thread.start()` may raise after `run()` has taken a slot (`tunnel_hub.py:276`); `run()`
catches `OSError` and `ValueError` only. The slot is then never released and the listeners'
thread ends with the exception (`Unstarted`, `Listening`): nothing is accepted any more.
`SlotsAccounted` counts that slot as taken and says that there is one at most, and
`SlotsComeBack` is about the others.

Where the code holds `agents.lock` and takes `hub.lock` (`Revoke`, `AttachBegins`, `Claim`)
the model takes both in one step. This loses no interleaving of what the locks protect, but
it means that a reversed order of locks cannot be expressed: `LocksAreReleased` is about
what a thread does while it holds `hub.lock`, not about the order.

### 2.3 Admission

Each method of `Admission` is one region of its lock, and one action: `enter()` is
`Enter`, `identify()` is `Identify` or `IdentifyRefused`, `promote()` is `Promote` or
`PromoteRefused`, `leave()` is `Left`, taken when the thread cannot be started
(`StartFails`) or ends (`Leave`). `requests`, `counts` and `sources` are the code's; a
missing entry of `sources` is zero. `stage` is where the thread of a connection is. A
connection serves one request, as HTTP/1.0 does, so both exchanges start from a pending
permit. Which address a trusted proxy names is any.

### 2.4 The panel: what its modules share

An action of `PanelEditor`, `AgentPanel` and `DockerPanel` is the code between two `await`s.
`net` is the set of requests in flight. `Serve` is the moment the server carries one out;
`Fail` loses it, refuses it, or (in `PanelEditor`) loses the answer of one that was carried
out; an action named `...Answered` is what the panel does with the answer, in every branch
of the code: 401 (`ShowLogin`), another refusal, and the answer, used or ignored. Requests
of one `Promise.all` are one request. A revision is the digest of a value, so it is the
value itself. `csrf` is the session; a login makes a new one while requests of the old may
still be in flight. Other writers, failures and sessions that end by themselves are
bounded counters.

### 2.5 PanelEditor

| Code | Model |
|---|---|
| `state`, `config`, `dirty`, `busy` | `state` (its `config` is the revision as well), `config`, `dirty`, `task` |
| `accept()`, `changed()`, `render()`, `collectSettings()` | `Accept`, `Changed`, `Render`, `Collected` |
| `task()` and what runs in it | `SaveFirst`, `Restore`, `ImportFile`, `Logout`; `TaskAnswered` takes the next step and ends the task |
| forms in `#modal` | `OpenEditor`, `SubmitHosts`, `SubmitCacheSize`, `SubmitPassword`, `SubmitAnswered`, `CloseModal` |
| `confirmAction()` | `AskDelete`, `AskRestore`, then `Delete`, `RestoreAgreed`, `Import`, `Decline` |
| the settings form, shown on one page | `form`, `Type`, `Navigate` |
| the refresh of `receiveDockerLabels()` | `SeeFrame`, `SyncAnswered` with `SyncFits` |
| `load()`, login, logout, reload of the page | `Login`, `LoadAnswered` (with the `catch` of `app.js:594` for a page just opened), `ShowLogin`, `AuthRequired`, `Reload` |

A configuration has two parts, edited in a dialog (`hosts`) and in a form of the page
(`settings`). `base` and `late`, which no action reads to decide anything, record which
revision `config` was made from and whether an answer was used after its dialog or its
session had gone. `UnsavedIsFlagged` is not asserted while a task runs: what is typed into
the settings form while a save is awaited is lost with its answer, and so is its flag
(`app.js:96`). Left out: layout, search, the sidebar, the language, the page that shows
the nginx configuration.

### 2.6 LiveStream

`link` is the state of each `EventSource`, `stream` is `dashboardStream`, `timer` and
`watchdog` are the two timers, `checking` the sources whose `retry()` awaits
`api('session')`. `Stop`, `Start` and `Restart` are `stopDashboardStream()` and
`startDashboardStream()` without and with `force`; `Retry` is `retry()` up to its `await`
and `Resume` what follows it; `Current` is `current()`. Timers run out in any order, except
that the watchdog does not overtake a source that delivers. A refused source is closed by
the browser and its status is not shown to the page; a broken one that is not current is
connected again by the browser. A stream that an earlier session left over (`Leftover`, finding
4) is excepted from `LiveIsWatched`, `Recovers` and `EndedSessionIsLeft`, which say so; that
only an earlier session's stream is ever left over is part of `LiveIsWatched`. Left out: how long an attempt is put off, and what the
frames show.

### 2.7 AgentPanel

`kept` is what `agents.json` and `settings.json` hold, `data` the lists the panel shows,
`typed` the address being typed, `modal` and `confirm` the open form and question with the
revision of the list they were opened on. `AgentAction` reads the public address before a
form or question is opened (`AddressRead`), `Mutate` is `mutateAgent()`, `SubmitAddress`,
`AddressAnswered` and `Agree` are the form of `bindGeneralPage()` with its second request,
`ReceiveFrame` is `receiveAgents()` and `receiveGeneral()`. There is one agent, or none; an
agent created anew has another key; a second one, which the registry would accept, is refused
here (a bound on the data). Left out: the installation dialog with the one-time
token and the view of an agent's inventory.

### 2.8 DockerPanel

`data`, `draft` and `form` are what the server said, what was typed and what is shown of
Docker settings, label mode and host address. `picker` is the open picker: loading, an
error, or rows with the chosen endpoint; `fresh` in a request says that
`dockerPickerToken` has not been raised since. `OpenPicker`, `RefreshPicker`,
`ChooseSource` begin with the list of agents (`AgentsAnswered`) and go on with the
containers (`RowsAnswered`, `Again` for the selection that a refresh keeps); `AddLocal` and
`AddRemote`/`TargetsAnswered` are `addDockerTargets()`. Each source has one container with
a list of endpoints. The picker also stores the list of agents it reads (`agentsData`,
`docker.js:179`): no form of these pages shows it, and in `AgentPanel` an answer to
`Load("agents")` replaces that list in the same way, also while a change is under way.
Left out: several containers at once, ports typed by hand, access modes, search.

### 2.9 PanelPages

The two sides share no variable. A behaviour runs one of them while the other stays as it
is (`side`), so the composition adds no interleaving: its run checks both modules at once,
and each of its theorems is about one of the two.

## 3. Runs

| Run | Shows | Bounds |
|---|---|---|
| `revision_faults` | safety of the store, what cleanup keeps, and that it implements `ConfigPromotion` | 3 configurations (default, good, rejected by nginx), requests while fewer than 3 revisions exist, 1 upgrade, 2 faults, history of 2, handover of 2 probes, confirmation of 3, deadline of 7 |
| `revision_liveness` | operations end, the container comes back | 1 fault, 1 upgrade, history of 1, deadline of 5 |
| `revision_restart` (violation) | finding 1 | 1 fault |
| `revision_rollback` (violation) | finding 2 | 1 fault |
| `admission_permits` | permits are exchanged without loss, within limits, and pending ones end | 3 connections, a trusted and another address, limits of 1 and 2 |
| `hub_safety` | streams die with their session, slots and the limit per agent, an old session's end spares its successor | 2 agents, 3 streams, 2 sessions, 2 tokens each, 2 slots, 1 stream per agent; at most 5 of them take part in a behaviour (`MaxActors`), and 3 pairs of a stream and a session (`MaxPairs`); no `stop()` |
| `hub_liveness` | connections settle, slots come back, locks are released, a revoked token holds nothing, nothing is open after `stop()` | 1 stream, 1 session, 2 tokens, 1 stop |
| `panel_concurrent` | safety of the editor, of its saves and of its refresh, and that read-only pages catch up | 2 values, 2 sessions, 2 edits, 1 write by another, 1 failure |
| `panel_late` (violation) | finding 3 | 1 session, 2 edits, 1 write, 1 failure |
| `stream_faults` | one connection, always watched, recovered in the end; an ended session is noticed | 3 sources, 2 sessions, 2 faults, 1 restart |
| `stream_relogin` (violation) | finding 4 | 2 sources, 2 sessions, 1 fault |
| `panel_pages` | agents are changed as shown, HTTP only as agreed, lists catch up; chosen containers are meant and land where meant | 2 sessions, 2 requests by the administrator to the agents' pages or 3 to Docker's, 1 event |

Why the bounds are enough. The store is sequential: what matters is the state of at most
four revisions at a time (the active one, the candidate, the previous one, the one cleanup
removes) and a fault during the treatment of a fault; three requests, a restart that
renders anew and two faults give all of these. Probes count time: a deadline of seven with
a confirmation of three and a handover of two leaves room for every order of reload,
handover, match and miss, and the theorems hold for all lengths.

In the hub two sessions are needed for a replacement, two tokens for a revocation, three
streams for slots that are all taken. Five actors are two sessions of an agent, its second
token and one stream, or three streams of two agents; what a bound on actors leaves out is
only these at once, and a stream meets all its finishers already alone. Streams, sessions
and agents are symmetric in the safety run; the liveness run uses no symmetry.

Three connections are one more than the pending places, so that every counter is met at
its limit by a connection that comes from another kind, peer or client.

In the panel one task, one dialog and one refresh are in flight at most, each with a
request; two edits open a dialog and use another path, one write by another changes the
draft under both, and a second session makes every request of the first a late one. Three
sources are one in use, one whose check is awaited, one being forgotten. In `panel_pages`
two or three requests are a change, what it overlaps with, and a refresh; a second session
makes each of them late. The theorems of section 4 hold for any number of all of these.

Deadlock checking is off where the program may really stop: in `hub_*` when all
connections are used up, and in the panel, whose administrator may stop.

Fairness. The thread that holds the store lock keeps running and the container runtime
restarts the program (`WF(Progress)`, `restart: unless-stopped`); nginx finishes what it
began. In the hub every thread runs (`WF` for each) and timeouts fire; connections and
agents' messages are not fair: an agent may never answer, a bridge may flow for ever.
In `Admission` a thread runs and its read deadline fires; that headers arrive, that a
client is recognised or that a served request ends is not fair.
`hub.lock` is held for finitely many steps and is contended by finitely many threads, so
weak fairness is enough. In the panel the server answers what it was sent, the stream
publishes once a second, the browser runs what is due and its timers fire, and an outage
ends; nothing the administrator, another writer or a fault does is fair. `DockerPanel` is
checked for safety only.

### Findings

1. **A crash during cleanup can make every later start fail** (`revision_restart`).
   `rmtree` removes files in any order; if the machine or the container stops when
   `config.json` of an old revision is gone and `meta.json` is not, `history()`
   (`storage.py:282`) raises in `start()`'s `cleanup()`, the program exits and the
   container restarts into the same error. `docs/configuration.ru.md:241` promises a
   restart into the active version. `RestartsOrHistoryBroken` shows it is the only way: a
   container that went down serves again, or stands in the `cleanup()` of `start()` before a
   history that cannot be read.
2. **A verified rollback may be followed by the rejected revision** (`revision_rollback`).
   A reload slower than eight seconds is still loading the rejected revision when the
   rollback's check is answered by the old workers (`storage.py:255`). The second SIGHUP
   corrects it later. `docs/configuration.ru.md:237` says the previous version is returned
   and checked.
3. **An answer to a closed dialog can undo another's change** (`panel_late`). A domain or
   route form is closed with Escape while its answer is awaited; the page is refreshed to
   another's draft (`docker.js:64`); the answer then replaces the editor by a candidate made
   from the old draft (`app.js:411`, `app.js:478`) while the revision is the new one, and
   the save that follows is accepted (`app.js:399`). `docs/docker-labels.md:17` says that
   concurrent saves use revision checks. `EditorIsOfItsRevision` and
   `SavesReplaceWhatWasEdited` show, and section 4 proves for any number of writers, that a
   late answer is the only way.
4. **A stream overtaken by a login is never replaced** (`stream_relogin`). If `load()` fails
   after a login (`app.js:175`), the session stays set behind the login form and a page that
   becomes visible opens a stream for it. The next login does not close it: its events and
   errors are ignored (`dashboard.js:41`) and no other is opened (`dashboard.js:36`).
   `dashboard.js:86` tells the user that it reconnects automatically. `Recovers` shows the
   same without this case.

## 4. Proofs

`RevisionStore_proofs` proves, for all values of the constants that satisfy
`ConfigAssumption`, `BoundAssumption` and `TimingAssumption`:

* `TypeCorrect`, `ActiveAlwaysComplete`, `NothingUnappliedServes`, `ConfirmationIsSound`,
  `FailureRestoresOld`, and `ImplementsPromise` (`Spec => KeepsPromise`, the refinement);
* `HistoryAlways` and `LeftoversAlways`.

The argument is one inductive invariant, `IndInv`. None of the properties is inductive:
that `active` is whole needs to know that the revision being removed is neither `active`
nor what a crash would restore (`LinkInv`), which needs to know which revisions an
operation may hold at each `pc` (`ControlInv`, `CandInv`); that a confirmed apply is
settled needs the number of matching probes to outgrow the handover
(`stable + overlap` against `StableProbes`, in `NginxInv` and `SettingsInv`), which is
where `TimingAssumption` is used. `ApprovedInv` carries that what is active was applied.
Each conjunct has a step lemma with one case per action; `StepInv` puts them together.
`FailureRestoresOld` needs more: an apply whose `cleanup()` has begun can read the history
and so does not report a failure there (`HistoryIsKept`, of the invariant below), and what is
marked is the candidate, active and synced (`LinkInv`). `ApplyEnds` lists the steps that end
an apply, and the theorem is the case for each.

On top of it `KeepInv` is the invariant of `KeptAlways`, from which `HistoryAlways` and
`LeftoversAlways` follow. Its parts: revisions are applied in the order they are made, so
the active one is never among those in excess (`OrderInv`); the newest applied revisions are
complete, and what a cleanup removes is not one of them (`HistoryInv`); a directory that is
neither in the history for good nor in the hands of the operation under way was left there
by a fault (`StrayInv`). That a start gives up on its wait without a fault of its own is the
case that makes the last one hard: `OnTime` says what nginx and the clock must still allow
for the wait to succeed, and a wait that has lost it was charged a fault before. That the
`n` newest of a finite set are `n` at most is `NewestFew`, from a least element and without
induction.

`Admission_proofs` proves, under `AdmissionAssumption`, `AccountedAlways`, `LimitsAlways`,
`FollowAlways` and `TypesAlways`. `PermitsAccounted` needs `PermitsFollowThreads` (what
`leave()` finds) and `PendingStages` (an exchange starts from a pending permit); in turn
no counter can fall below zero because it is a cardinality. `Exchange` says how the
cardinalities change when one connection exchanges its permit for another, and each
action is one instance of it.

`LiveStream_proofs` proves, under `LiveAssumption`, `TypeCorrect`, `OneConnectionAlways`,
`LiveIsWatchedAlways` and `NeverGivesUpAlways`, for any number of sources, sessions and
faults. The invariant `IInv` adds to the types and the properties what they rest on:
sessions are numbered by logins and a panel that is shown has one (`SessionsKnown`), and the
panel's stream is alive and watched, or closed and checked, unless an earlier session
opened it, which `LiveIsWatched` needs to name its exception (`StreamAccounted`). Each conjunct has a lemma with one step per action.

`AgentPanel_proofs` proves, under `AgentPanelAssumption`, `ShownAlways` and `AgreedAlways`.
Both are about the moment the server accepts a request, long after the panel has moved on,
so the invariant `IndInv` is about the requests: whatever is in flight and says "confirmed"
names an address that was agreed to, and whatever changes an agent carries the revision its
sender was shown (`NetSound`). That answers and dialogs only copy or drop requests is
`LikeIsSound` and `SoundStays`.

`TunnelHub_proofs` proves, under `HubAssumption`, `SlotsAlways`, `StreamsAlways`,
`TokensAlways`, `SilentAlways`, `SuccessorsAlways` and `TypesAlways`, for any number of
agents, sessions, tokens, streams and slots. What each property says of a thread that stands
still depends on what the other four kinds of thread may do to its stream meanwhile, so the
invariant `IInv` has a part for each place where one can stand:

* what has not been used yet is untouched, and what was finished stays so (`done` is set
  before the connections are closed, and only the thread that set it closes them);
* a stream is in `pending` exactly while its slot is taken, which makes `SlotsAccounted` a
  count: the slots that are free and the streams that hold one add up, because each action
  moves at most one stream from one to the other. A stream without a thread keeps its slot
  and is never in `pending`; a second one would need a listener, which has ended (`CountInv`);
* a stream that is not done belongs to the current session of its agent, or a thread that
  finishes it has it on its list: a claim, a succession and a stop each carry such a list
  from the lock's region, where it is complete, to its end;
* a connection that passed the authentication holds the current token, unless the
  revocation that replaced it is still on its way to it, or the registry is held;
* after `stop()` sets its flag nobody is admitted, and what is left is on its list.

`PanelEditor_proofs` proves, under `ConstantsAssumption` and `NoneAssumption`,
`UnsavedAlways`, `EditorAlways`, `SavesAlways`, `SyncAlways`, `AppliedAlways` and
`TypesAlways`, for any number of configurations, writers, edits and sessions. An answer may
come when the dialog, the question or the session that asked for it has gone. `IInv`
therefore says, for each kind of request, what holds while it is in flight: which code
sends it with which body (`Requests`), that there is one of a kind and session and that its
session has begun (`Unique`, `Numbered`), that the panel is busy while a task or a load is
out and that its dialog or question is open (`TaskRuns`, `LoadRuns`, `SubmitRuns`,
`ModalOpen`, `ConfirmOpen`), and what a candidate was made from (`SavedFrom`). `late`
marks the executions of finding 3: what those conjuncts say of the revision of the editor
holds until it is set, and the rest always.

`DockerPanel_proofs` proves, under `DockerAssumption`, `ChosenAlways` and `TargetsAlways`, for
any lists of endpoints and routes. `ChosenIsMeant` is not
inductive: a selection disappears from the page while rows are fetched and comes back from
a request. `IInv` follows it there: of the requests that lead from an opening of the picker
to its rows at most one is fresh (`Alone`), no rows are shown meanwhile and the selection
in it is what was meant (`ChainMeant`). `TargetsSound` says that an answer which can still
land fits the open editor, because an open picker is what keeps the administrator from
it and a new editor is another. That the chosen endpoint is looked up by what it is and
not by its place is `AgainFinds`, which needs the least element of a set of numbers.
`PanelPages`, which the run `panel_pages` checks, inherits both: `DockerSide` shows that its
behaviours are behaviours of `DockerPanel`, and `ChosenOnPages` and `TargetsOnPages` follow.

What the proofs showed of the model. `TypeOK` of `PanelEditor` once said that one load is
pending at most, which the bound of two sessions hid: a third login starts a third load
while two are out, and the invariant now counts what the code really excludes. The answers
of the server were written as a `CASE` whose arms overlap, which has no defined order; they
are now chains of conditions in the order of the code.

Only model-checked. The liveness properties: fairness is out of the prover's reach. Every
other property of a passing run is a theorem.

## 5. Not modelled yet, and not modelled

In the order of what they would add:

1. `ConfigPipeline`: labels and certificates as clients of the store, over
   `ConfigPromotion`, with crashes between their writes (`labels.py:265`,
   `certificates.py:108` and `179`).
2. `Leases` and `Reservations`: reports, leases and the two-phase allocation of ports
   (`agents.py:295`, `tunnel_hub.py:123`).
3. `DashboardEvents` and `Auth`: the shared frame and its subscribers (`events.py:63`),
   passwords verified outside the lock and evicted sessions (`auth.py:77` and `81`).
4. `AgentProgram` against an abstract specification of a stream that `TunnelHub`
   implements as well (`agent_network.py:120`).
5. Of the panel, the installation dialog with the one-time token (`agents.js:57`) and
   several containers in one picker.
6. Pure algorithms with reference definitions: `reconcile()`, the client address behind
   trusted proxies, certificate retries, metrics windows.

Not planned: rendering and validation of configurations, parsing of Docker and certificate
data (text without state), the panel's layout and texts, the installer. Three hazards of
the panel have no property, because neither the code nor its documentation promises anything
there: a 401 for a request of an earlier session logs out the one that followed it
(`app.js:79`), a Docker form keeps what was typed while its revision is renewed
(`docker.js:128`), and text typed while a save is awaited is lost (`app.js:96`). The models
take all three as they are. The order of the four locks (`tunnel_hub.py:185`) has none
either: it needs models of the labels and of the store's callers (1 and 2 above).
