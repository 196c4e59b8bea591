--------------------------- MODULE RevisionStore ---------------------------
(***************************************************************************)
(* The revision store of the control plane (ambergate/storage.py) together *)
(* with the nginx master it reloads and the container that restarts both.  *)
(*                                                                         *)
(* Every operation of Store runs under one re-entrant lock, so at most one *)
(* is in progress: `pc` and `job` say where it is, one action is one write *)
(* to disk, one signal, one probe.  What interleaves with it is nginx,     *)
(* crashes of the container, and writes or checks that fail.               *)
(***************************************************************************)
EXTENDS Naturals, FiniteSets

CONSTANTS
  Config,         \* configurations that validate() accepts
  Good,           \* those `nginx -t` can accept
  Default,        \* default_config()
  NoConfig,       \* draft.json does not exist yet
  MaxHistory,     \* applied revisions cleanup() keeps (20)
  Deadline,       \* probes one wait_generation() has time for
  StableProbes,   \* consecutive matching probes that confirm (.2 s apart)
  OverlapProbes,  \* probes that fit in nginx's handover of listeners (100 ms)
  MaxRequests,    \* bound: no new test or apply after this many revisions
  MaxVersion,     \* bound: upgrades of the program, counted from 1
  MaxFaults,      \* bound: crashes, failed writes, slow or failing nginx
  MaxGen          \* bound: revisions created, counted from 1

ASSUME ConfigAssumption ==
  /\ Default \in Good
  /\ Good \subseteq Config
  /\ NoConfig \notin Config

ASSUME BoundAssumption ==
  /\ MaxHistory \in Nat \ {0}
  /\ Deadline \in Nat \ {0} /\ StableProbes \in Nat \ {0} /\ OverlapProbes \in Nat
  /\ MaxRequests \in Nat /\ MaxVersion \in Nat \ {0} /\ MaxFaults \in Nat
  /\ MaxGen \in Nat /\ MaxGen >= MaxRequests + MaxVersion + MaxFaults

\* The margins the comment in wait_generation() and its eight seconds ask for.
ASSUME TimingAssumption ==
  OverlapProbes < StableProbes /\ StableProbes + OverlapProbes + 1 < Deadline

Gen   == 1..MaxGen          \* revisions, named in the order they are created
NoGen == 0
File  == {"dir", "config", "conf", "meta"}
Job   == {"none", "init", "start", "test", "apply"}
PC    == {"down", "init", "start", "prepare", "check", "activate", "sync",
          "check_active", "signal", "wait", "rescue", "rb_activate", "rb_sync",
          "rb_signal", "rb_wait", "remove", "mark", "cleanup", "purge", "idle"}

VARIABLES
  \* The data directory.
  draft,      \* draft.json
  active,     \* target of the `active` symlink
  disk,       \* target a machine crash would leave: `active` at the last sync
  files,      \* what exists of revisions/<g>: its directory and three files
  config,     \* what config.json of <g> holds, or will hold
  made,       \* program version (and other render inputs) nginx.conf was made with
  applied,    \* revisions whose meta.json has applied_at
  last,       \* newest revision allocated
  \* nginx.
  master,     \* the master process: "up" or "down"
  hups,       \* SIGHUPs the master has not acted on: two coalesce
  loading,    \* revision a start or a reload has read and is bringing up
  serving,    \* revision of the current workers
  retiring,   \* revision of old workers that still accept connections
  overlap,    \* probes until they stop
  \* The operation that holds the store lock.
  pc, job,
  cand,       \* the revision it prepares, activates or removes
  old,        \* the revision active when apply_config() began
  left,       \* probes before the deadline of wait_generation()
  stable,     \* matching probes in a row
  outcome,    \* what the operation is about to report
  \* The running program.
  version,
  \* History variables, read by properties only.
  checked,    \* revisions `nginx -t` accepted
  approved,   \* configurations someone applied
  faults      \* faults so far

treeVars  == <<files, config, made, applied, last>>
dataVars  == <<draft, active, disk, treeVars>>
nginxVars == <<master, hups, loading, serving, retiring, overlap>>
opVars    == <<pc, job, cand, old, left, stable, outcome>>
histVars  == <<checked, approved>>
progVars  == <<version, histVars, faults>>
vars      == <<dataVars, nginxVars, opVars, progVars>>

Outcome == {"none", "rejected", "rolled_back", "unverified"}

DataTypeOK ==
  /\ draft \in Config \cup {NoConfig}
  /\ active \in Gen \cup {NoGen} /\ disk \in Gen \cup {NoGen}
  /\ files \in [Gen -> SUBSET File] /\ config \in [Gen -> Config]
  /\ made \in [Gen -> 0..MaxVersion]
  /\ applied \subseteq Gen /\ last \in 0..MaxGen

NginxTypeOK ==
  /\ master \in {"up", "down"} /\ hups \in 0..1
  /\ loading \in Gen \cup {NoGen} /\ serving \in Gen \cup {NoGen}
  /\ retiring \in Gen \cup {NoGen} /\ overlap \in 0..OverlapProbes

OpTypeOK ==
  /\ pc \in PC /\ job \in Job
  /\ cand \in Gen \cup {NoGen} /\ old \in Gen \cup {NoGen}
  /\ left \in 0..Deadline /\ stable \in 0..StableProbes
  /\ outcome \in Outcome

ProgTypeOK ==
  /\ version \in 1..MaxVersion
  /\ checked \subseteq Gen /\ approved \subseteq Config
  /\ faults \in 0..MaxFaults

TypeOK == DataTypeOK /\ NginxTypeOK /\ OpTypeOK /\ ProgTypeOK

Init ==
  /\ draft = NoConfig /\ active = NoGen /\ disk = NoGen
  /\ files = [g \in Gen |-> {}] /\ config = [g \in Gen |-> Default]
  /\ made = [g \in Gen |-> 0] /\ applied = {} /\ last = 0
  /\ master = "down" /\ hups = 0
  /\ loading = NoGen /\ serving = NoGen /\ retiring = NoGen /\ overlap = 0
  /\ pc = "down" /\ job = "none" /\ cand = NoGen /\ old = NoGen
  /\ left = 0 /\ stable = 0 /\ outcome = "none"
  /\ version = 1
  /\ checked = {} /\ approved = {Default} /\ faults = 0

----------------------------------------------------------------------------
(* Helpers *)

alive == master = "up"

Fault == faults < MaxFaults /\ faults' = faults + 1

Complete(g) == files[g] = File

\* Store.history(): applied revisions and the active one, as far as meta.json is there.
History == {g \in Gen : "meta" \in files[g] /\ (g \in applied \/ g = active)}

\* history() also reads config.json of each of them, and raises if one is missing.
HistoryReadable == \A g \in History : "config" \in files[g]

Newest(S, n) == {g \in S : Cardinality({h \in S : h > g}) < n}

\* Faulty variant of Excess: the list is sorted oldest first.
ExcessOldestFirst ==
  {g \in History : Cardinality({h \in History : h < g}) >= MaxHistory} \ {active}

\* What cleanup() removes: history()[20:] without the active revision.
Excess == (History \ Newest(History, MaxHistory)) \ {active}

Goto(l) == pc' = l /\ UNCHANGED <<job, cand, old, left, stable, outcome>>

\* The operation is over, with a result or an exception.
Finish(l) ==
  /\ pc' = l /\ job' = "none" /\ cand' = NoGen /\ old' = NoGen
  /\ left' = 0 /\ stable' = 0 /\ outcome' = "none"

NginxGone ==
  /\ master' = "down" /\ hups' = 0
  /\ loading' = NoGen /\ serving' = NoGen /\ retiring' = NoGen /\ overlap' = 0

\* stop() ends nginx, and the program exits.
Exit == Finish("down") /\ NginxGone

\* An exception ends the operation: start() takes the program down.
Raise ==
  \/ job = "start" /\ Exit
  \/ job # "start" /\ Finish("idle") /\ UNCHANGED nginxVars

\* Faulty variant of Discard: the result is reported and the directory stays.
DiscardKeeps(o) == Finish("idle")

\* The candidate is to be removed, then result o is reported.
Discard(o) ==
  /\ pc' = "remove" /\ outcome' = o /\ left' = 0 /\ stable' = 0
  /\ UNCHANGED <<job, cand, old>>

----------------------------------------------------------------------------
(* prepare, check, activate *)

\* prepare() allocates a directory for configuration c.
Prepare(j, c) ==
  /\ last < MaxGen /\ last' = last + 1
  /\ files' = [files EXCEPT ![last + 1] = {"dir"}]
  /\ config' = [config EXCEPT ![last + 1] = c]
  /\ made' = [made EXCEPT ![last + 1] = version]
  /\ pc' = "prepare" /\ job' = j /\ cand' = last + 1 /\ old' = active
  /\ UNCHANGED <<left, stable, outcome, draft, active, disk, applied, nginxVars,
                 version, checked, faults>>

NextFile(s) ==
  IF "config" \notin s THEN "config" ELSE IF "conf" \notin s THEN "conf" ELSE "meta"

\* One atomic_write of prepare(), in the order config.json, nginx.conf, meta.json.
WriteFile ==
  /\ pc = "prepare"
  /\ LET f == NextFile(files[cand])
     IN  /\ files' = [files EXCEPT ![cand] = @ \cup {f}]
         /\ Goto(IF f = "meta" THEN "check" ELSE "prepare")
  /\ UNCHANGED <<draft, active, disk, config, made, applied, last, nginxVars, progVars>>

\* A write of prepare() raises: no caller has entered its try, the directory stays.
PrepareFails ==
  /\ pc = "prepare" /\ Fault
  /\ Finish(IF job \in {"test", "apply"} THEN "idle" ELSE "down")
  /\ UNCHANGED <<dataVars, nginxVars, version, histVars>>

\* `nginx -t` accepts the candidate.  test() then removes it, and so does
\* apply_config() when nginx does not run.
CheckPasses ==
  /\ pc = "check" /\ config[cand] \in Good
  /\ checked' = checked \cup {cand}
  /\ \/ job \in {"init", "start"} /\ Goto("activate")
     \/ job = "apply" /\ alive /\ Goto("activate")
     \/ job = "apply" /\ ~alive /\ Discard("rejected")
     \/ job = "test" /\ Discard("rejected")
  /\ UNCHANGED <<dataVars, nginxVars, version, approved, faults>>

\* `nginx -t` rejects it, cannot run, or exceeds its 12 seconds.  Only Store.__init__
\* has no handler that removes the directory.
CheckFails ==
  /\ pc = "check"
  /\ \/ config[cand] \in Good /\ Fault
     \/ config[cand] \notin Good /\ UNCHANGED faults
  /\ \/ job = "init" /\ Finish("down")
     \/ job # "init" /\ Discard("rejected")
  /\ UNCHANGED <<dataVars, nginxVars, version, histVars>>

\* activate(), of the candidate or in a rollback: the symlink is replaced ...
Activate ==
  /\ \/ pc = "activate" /\ active' = cand /\ Goto("sync")
     \/ pc = "rb_activate" /\ active' = old /\ Goto("rb_sync")
  /\ UNCHANGED <<draft, disk, treeVars, nginxVars, progVars>>

\* ... and its directory is synced.  A rollback signals nginx only if it still runs.
SyncActive ==
  /\ disk' = active
  /\ \/ pc = "sync" /\ job = "init" /\ Goto("init")
     \/ pc = "sync" /\ job = "start" /\ Goto("check_active")
     \/ pc = "sync" /\ job = "apply" /\ Goto("signal")
     \/ pc = "rb_sync" /\ alive /\ Goto("rb_signal")
     \/ pc = "rb_sync" /\ ~alive /\ Discard("rejected")
  /\ UNCHANGED <<draft, active, treeVars, nginxVars, progVars>>

\* Either half of activate() raises.  At the start that ends the program, and the file
\* system writes back what activate() could not sync.
ActivateFails ==
  /\ Fault /\ pc \in {"activate", "sync"}
  /\ \/ job = "apply" /\ Goto("rescue") /\ UNCHANGED disk
     \/ job # "apply" /\ Finish("down") /\ disk' = active
  /\ UNCHANGED <<draft, active, treeVars, nginxVars, version, histVars>>

\* Either half of activate(old) raises inside the handler of apply_config(), which ends
\* there: the candidate is still active, or the old revision is again without a signal to
\* nginx.  The file system writes back what is there, and the candidate's directory stays.
RollbackFails ==
  /\ pc \in {"rb_activate", "rb_sync"} /\ Fault
  /\ disk' = active
  /\ Finish("idle")
  /\ UNCHANGED <<draft, active, treeVars, nginxVars, version, histVars>>

----------------------------------------------------------------------------
(* The container starts: Store.__init__ and Store.start *)

\* The container starts the program, possibly an upgraded one.
Boot ==
  /\ pc = "down" /\ Goto("init")
  /\ version' \in {version, version + 1} /\ version' <= MaxVersion
  /\ UNCHANGED <<dataVars, nginxVars, histVars, faults>>

\* Store.__init__ on an empty volume: the default configuration becomes active.
InitActive ==
  /\ pc = "init" /\ active = NoGen
  /\ Prepare("init", Default)
  /\ UNCHANGED approved

\* Store.__init__ writes a missing draft, then main() calls start().
InitDraft ==
  /\ pc = "init" /\ active # NoGen
  /\ draft' = IF draft = NoConfig THEN config[active] ELSE draft
  /\ Finish("start")
  /\ UNCHANGED <<active, disk, treeVars, nginxVars, progVars>>

\* Faulty variant of ActiveSettings: the saved draft.
DraftSettings == draft

\* What start() renders: "only the ACTIVE settings".
ActiveSettings == config[active]

\* start(): nginx.conf of the active revision is what this program would render.
StartCurrent ==
  /\ pc = "start" /\ made[active] = version
  /\ pc' = "check_active" /\ job' = "start"
  /\ UNCHANGED <<cand, old, left, stable, outcome, dataVars, nginxVars, progVars>>

\* start(): it is not, so the active settings are rendered into a new revision.
StartStale ==
  /\ pc = "start" /\ made[active] # version
  /\ Prepare("start", ActiveSettings)
  /\ UNCHANGED approved

\* start(): check(active) and Popen; the new master reads the active revision.
Spawn ==
  /\ pc = "check_active" /\ config[active] \in Good
  /\ master' = "up" /\ loading' = active
  /\ pc' = "wait" /\ left' = Deadline
  /\ UNCHANGED <<hups, serving, retiring, overlap, job, cand, old, stable, outcome,
                 dataVars, progVars>>

\* start(): check(active) fails, or the process cannot be created.
SpawnFails ==
  /\ pc = "check_active" /\ Fault
  /\ Exit
  /\ UNCHANGED <<dataVars, version, histVars>>

----------------------------------------------------------------------------
(* wait_generation *)

\* send_signal(SIGHUP), then wait_generation() on what is now active.
Signal ==
  /\ pc \in {"signal", "rb_signal"}
  /\ hups' = IF alive THEN 1 ELSE 0
  /\ pc' = IF pc = "signal" THEN "wait" ELSE "rb_wait"
  /\ left' = Deadline
  /\ UNCHANGED <<job, cand, old, stable, outcome, master, loading, serving, retiring,
                 overlap, dataVars, progVars>>

\* wait_generation() returns.
Leave(l) == pc' = l /\ left' = 0 /\ stable' = 0 /\ UNCHANGED <<job, cand, old, outcome>>

Waiting == pc \in {"wait", "rb_wait"}

\* Faulty variant of Settled: the first matching answer is enough.
SettledAtOnce == TRUE

\* The answers have matched for .2 s.
Settled == stable + 1 >= StableProbes

\* Faulty variants of Countdown: an overrun, and a deadline renewed by every answer.
CountdownOverrun == left' = left - 2
CountdownRenewed == left' = Deadline

Countdown == left' = left - 1

\* One probe period goes by for the workers that are handing over.
HandoverStep ==
  /\ overlap' = IF overlap = 0 THEN 0 ELSE overlap - 1
  /\ retiring' = IF overlap <= 1 THEN NoGen ELSE retiring
  /\ UNCHANGED <<master, hups, loading, serving>>

\* A probe answered by workers of the awaited revision.  Enough of them in a row and
\* wait_generation() returns TRUE.
ProbeMatches ==
  /\ Waiting /\ alive /\ left > 0
  /\ active \in {serving, retiring}
  /\ \/ /\ ~Settled /\ Countdown /\ stable' = stable + 1
        /\ UNCHANGED <<pc, job, cand, old, outcome>>
     \/ Settled /\ pc = "wait" /\ Leave("mark")
     \/ Settled /\ pc = "rb_wait" /\ Discard("rolled_back")
  /\ HandoverStep
  /\ UNCHANGED <<dataVars, progVars>>

\* The last moment at which a start or a reload leaves time for handover and confirmation.
LastChance == StableProbes + OverlapProbes + 1

\* A probe answered by other workers, or not at all.  It takes a fault when nothing
\* but the awaited revision could answer, and (once) when nginx is late with a start or
\* a reload.
ProbeMisses ==
  /\ Waiting /\ alive /\ left > 0
  /\ \/ Fault
     \/ /\ ~(serving = active /\ retiring \in {NoGen, active})
        /\ ~((hups = 1 \/ loading # NoGen) /\ left = LastChance)
        /\ UNCHANGED faults
  /\ Countdown /\ stable' = 0
  /\ HandoverStep
  /\ UNCHANGED <<pc, job, cand, old, outcome, dataVars, version, histVars>>

\* wait_generation() returned FALSE: nginx ended, or the deadline passed.
WaitFails ==
  /\ ~alive \/ left = 0
  /\ \/ pc = "wait" /\ job = "start" /\ Exit
     \/ pc = "wait" /\ job = "apply" /\ Leave("rescue") /\ UNCHANGED nginxVars
     \/ pc = "rb_wait" /\ Discard("unverified") /\ UNCHANGED nginxVars
  /\ UNCHANGED <<dataVars, progVars>>

----------------------------------------------------------------------------
(* The end of apply_config() and start(): rollback, removal, history *)

\* Faulty variant of CandidateIsActive: the handler only removes the candidate.
RescueNever == FALSE

CandidateIsActive == active = cand

\* The exception handler of apply_config().
Rescue ==
  /\ pc = "rescue"
  /\ \/ CandidateIsActive /\ Goto("rb_activate")
     \/ ~CandidateIsActive /\ Discard("rejected")
  /\ UNCHANGED <<dataVars, nginxVars, progVars>>

\* rmtree() removes the files of a directory in any order, then the directory.
RemoveFile(g) ==
  \E f \in files[g] :
    /\ f = "dir" => files[g] = {"dir"}
    /\ files' = [files EXCEPT ![g] = @ \ {f}]

\* rmtree() of a candidate that was tested or failed; then the result is reported.
Remove ==
  /\ pc = "remove"
  /\ RemoveFile(cand)
  /\ \/ files'[cand] # {} /\ Goto("remove") /\ UNCHANGED nginxVars
     \/ files'[cand] = {} /\ Raise
  /\ UNCHANGED <<draft, active, disk, config, made, applied, last, progVars>>

\* mark_applied(): meta.json of the confirmed revision gets its applied_at.
MarkApplied ==
  /\ pc = "mark"
  /\ applied' = applied \cup {active}
  /\ Goto("cleanup")
  /\ UNCHANGED <<draft, active, disk, files, config, made, last, nginxVars, progVars>>

\* That write raises: apply_config() has committed and reports an error all the same.
MarkFails ==
  /\ pc = "mark" /\ Fault
  /\ Raise
  /\ UNCHANGED <<dataVars, version, histVars>>

\* cleanup() picks the revisions beyond the limit, newest first.
Cleanup ==
  /\ pc = "cleanup"
  /\ \/ ~HistoryReadable /\ Raise
     \/ HistoryReadable /\ Excess = {} /\ Finish("idle") /\ UNCHANGED nginxVars
     \/ /\ HistoryReadable /\ pc' = "purge" /\ cand' \in Newest(Excess, 1)
        /\ UNCHANGED <<job, old, left, stable, outcome, nginxVars>>
  /\ UNCHANGED <<dataVars, progVars>>

\* rmtree() of one of them.
Purge ==
  /\ pc = "purge"
  /\ RemoveFile(cand)
  /\ Goto(IF files'[cand] = {} THEN "cleanup" ELSE "purge")
  /\ UNCHANGED <<draft, active, disk, config, made, applied, last, nginxVars, progVars>>

----------------------------------------------------------------------------
(* Operations that begin while the lock is free *)

\* What restore() can put back: the settings of any revision whose config.json exists.
Restorable == {config[g] : g \in {h \in Gen : "config" \in files[h]}}

\* save() and restore(): the draft becomes an edited configuration, or an old one.  A
\* stale token is refused and changes nothing.
Edit ==
  /\ pc = "idle"
  /\ draft' \in Config \cup Restorable
  /\ UNCHANGED <<active, disk, treeVars, nginxVars, opVars, progVars>>

\* test(): the draft is prepared and checked, never activated.
Test ==
  /\ pc = "idle" /\ last < MaxRequests
  /\ Prepare("test", draft)
  /\ UNCHANGED approved

\* apply(): the draft becomes the candidate of apply_config().
Apply ==
  /\ pc = "idle" /\ last < MaxRequests
  /\ Prepare("apply", draft)
  /\ approved' = approved \cup {draft}

\* SIGTERM: main() takes the lock, stops nginx and exits.
Shutdown ==
  /\ pc = "idle" /\ alive
  /\ Exit
  /\ UNCHANGED <<dataVars, progVars>>

\* Faulty variant of NginxEnded: main() waits for a signal only.
NginxUnwatched == FALSE

NginxEnded == ~alive

\* main() polls nginx every half second, and leaves when it has ended.
NginxMissed ==
  /\ pc = "idle" /\ NginxEnded
  /\ Exit
  /\ UNCHANGED <<dataVars, progVars>>

----------------------------------------------------------------------------
(* nginx *)

\* The master acts on SIGHUP: it reads `active/nginx.conf` through the symlink.  It
\* does not while it brings workers up or hands over.
ReadConf ==
  /\ alive /\ hups = 1 /\ serving # NoGen /\ loading = NoGen /\ overlap = 0
  /\ hups' = 0 /\ loading' = active
  /\ UNCHANGED <<master, serving, retiring, overlap, dataVars, opVars, progVars>>

\* New workers accept; those of before still do until the handover ends.
StartWorkers ==
  /\ alive /\ loading # NoGen
  /\ serving' = loading /\ loading' = NoGen
  /\ overlap' = IF serving = NoGen THEN 0 ELSE OverlapProbes
  /\ retiring' = IF overlap' = 0 THEN NoGen ELSE serving
  /\ UNCHANGED <<master, hups, dataVars, opVars, progVars>>

\* A reload fails (a port, a file, a resolver): the master keeps the workers it has.
ReloadFails ==
  /\ alive /\ loading # NoGen /\ serving # NoGen /\ Fault
  /\ loading' = NoGen
  /\ UNCHANGED <<master, hups, serving, retiring, overlap, dataVars, opVars, version, histVars>>

\* The old workers stop accepting.
HandoverEnds ==
  /\ alive /\ overlap > 0
  /\ overlap' = 0 /\ retiring' = NoGen
  /\ UNCHANGED <<master, hups, loading, serving, dataVars, opVars, progVars>>

\* The master ends by itself, at its start or later.
NginxDies ==
  /\ alive /\ Fault
  /\ NginxGone
  /\ UNCHANGED <<dataVars, opVars, version, histVars>>

\* The container is killed, or the machine fails: nginx goes with the program, and a
\* symlink that was not synced may be lost.
Crash ==
  /\ pc # "down" /\ Fault
  /\ active' \in {active, disk} /\ disk' = active'
  /\ Exit
  /\ UNCHANGED <<draft, treeVars, version, histVars>>

----------------------------------------------------------------------------

\* The control plane at work.
Progress ==
  \/ Boot \/ InitActive \/ InitDraft \/ StartCurrent \/ StartStale \/ Spawn
  \/ WriteFile \/ CheckPasses \/ CheckFails \/ Activate \/ SyncActive
  \/ Signal \/ ProbeMatches \/ ProbeMisses \/ WaitFails
  \/ Rescue \/ Remove \/ MarkApplied \/ Cleanup \/ Purge \/ NginxMissed

Requests == Edit \/ Test \/ Apply \/ Shutdown

Nginx == ReadConf \/ StartWorkers \/ HandoverEnds

Faulty ==
  \/ PrepareFails \/ ActivateFails \/ SpawnFails \/ RollbackFails \/ MarkFails
  \/ ReloadFails \/ NginxDies \/ Crash

Next == Progress \/ Requests \/ Nginx \/ Faulty

Spec == Init /\ [][Next]_vars

\* The thread that holds the lock keeps running, the container is restarted
\* (`restart: unless-stopped`), and nginx finishes what it began.
Fairness == WF_vars(Progress) /\ WF_vars(ReadConf) /\ WF_vars(StartWorkers) /\ WF_vars(HandoverEnds)

FairSpec == Spec /\ Fairness

----------------------------------------------------------------------------
(* Safety *)

\* The `active` symlink, and what a crash would make of it, names a revision with all
\* its files that `nginx -t` has accepted: in the middle of a rollback, of a cleanup,
\* after a crash.  Nothing in storage.py looks before it follows the link.
ActiveIsComplete ==
  \A g \in {active, disk} \ {NoGen} : Complete(g) /\ g \in checked

\* A saved or restored draft never reaches nginx by itself: workers only ever run a
\* configuration that was applied (start() renders "only the ACTIVE settings").
OnlyAppliedServes ==
  \A g \in {loading, serving, retiring} \ {NoGen} : g \in checked /\ config[g] \in approved

\* When wait_generation() confirms an apply, no listener of another revision accepts
\* any more and no reload is under way that would bring one back.
ConfirmedIsSettled ==
  pc \in {"mark", "cleanup", "purge"} /\ alive =>
     /\ serving = active /\ retiring \in {NoGen, active}
     /\ loading \in {NoGen, active}

\* apply_config() ends with an exception: whenever it ends, but for the return from a
\* cleanup() that could read the history.
FailureReported ==
  job = "apply" /\ pc' = "idle" /\ ~(pc = "cleanup" /\ HistoryReadable)

\* An apply that reports a failure leaves the revision that was active when it began, on
\* disk as well, and nothing of its candidate.  It does not in three cases, each a failure
\* of the very write that ends it: prepare() leaves a directory without meta.json;
\* activate(old) leaves the candidate's directory and perhaps the candidate active; and
\* mark_applied() reports an error for an apply that has committed.
FailedApplyKeepsOld ==
  [][FailureReported =>
       \/ active' = old /\ disk' = old /\ files'[cand] = {}
       \/ /\ faults' = faults + 1 /\ disk' = active'
          /\ \/ pc = "prepare" /\ active' = old /\ "meta" \notin files'[cand]
             \/ pc \in {"rb_activate", "rb_sync"} /\ active' \in {old, cand}
             \/ pc = "mark" /\ active' = cand]_vars

\* The newest applied revisions are in the history with all their files, whatever failed
\* in between, and it holds no other applied revision: only an active revision that could
\* not be marked may come on top of them.
HistoryIsTheNewest ==
  pc = "idle" =>
     /\ \A g \in Newest(applied, MaxHistory) : g \in History /\ Complete(g)
     /\ Cardinality(History \cap applied) <= MaxHistory

\* Directories that no history shows and no cleanup removes are left only by faults,
\* at most one by each.
LeftoversBounded ==
  pc = "idle" => Cardinality({g \in Gen : files[g] # {}} \ History) <= faults

----------------------------------------------------------------------------
(* The promise of the store *)

\* An apply is open from its first write until it is confirmed, or rolled back on disk.
Open ==
  job = "apply" /\ pc \in {"prepare", "check", "activate", "sync", "signal", "wait",
                           "rescue", "rb_activate", "rb_sync"}

promisedDraft     == IF draft = NoConfig THEN Default ELSE draft
promisedPending   == IF Open THEN config[cand] ELSE NoConfig
promisedCommitted ==
  IF Open THEN config[old] ELSE IF active = NoGen THEN Default ELSE config[active]

Promise == INSTANCE ConfigPromotion WITH
  draft <- promisedDraft, pending <- promisedPending, committed <- promisedCommitted

\* The store implements ConfigPromotion: whatever fails, wherever it crashes, the
\* settings a restart would serve change only to those of the apply that is open, and
\* an apply takes the draft as it was when it began.
KeepsPromise == Promise!Spec

----------------------------------------------------------------------------
(* Liveness, under FairSpec *)

\* Every operation returns its lock: no wait for nginx is without an end, whatever nginx
\* answers or whether it still runs.
OperationsEnd == pc \notin {"idle", "down"} ~> pc \in {"idle", "down"}

Ready == pc = "idle" /\ alive /\ serving = active

\* A container that went down comes back and serves the active revision, unless start()
\* raises in its cleanup() because the history cannot be read.
RestartsOrHistoryBroken ==
  pc = "down" ~> (Ready \/ (pc = "cleanup" /\ job = "start" /\ ~HistoryReadable))

----------------------------------------------------------------------------
(* What the documentation says, and the code does not always do *)

\* "After a restart exactly the active version is started ... restart: unless-stopped
\* restores the service" (docs/configuration.ru.md:241).
RestartServesActive == pc = "down" ~> Ready

\* "If the reload is not confirmed, the service returns the previous version and checks
\* it again" (docs/configuration.ru.md:237): once that check has passed nginx is not
\* still bringing up the version that was rejected.
VerifiedRollbackIsSettled ==
  pc = "remove" /\ outcome = "rolled_back" /\ alive => loading \in {NoGen, active}
=============================================================================
