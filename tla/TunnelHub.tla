----------------------------- MODULE TunnelHub -----------------------------
(***************************************************************************)
(* The tunnel hub of the control plane (ambergate/tunnel_hub.py) and the   *)
(* endpoint its agents connect to (agent_tunnel in ambergate/server.py).   *)
(*                                                                         *)
(* nginx connects to a loopback listener; a forward thread asks the agent, *)
(* over its control session, to open a stream; the agent comes back with a *)
(* data WebSocket that a server thread bridges to nginx's connection.      *)
(* Streams are finished by five kinds of thread, and finish() is not       *)
(* atomic: it tests `done`, sets it, and only then closes what is open. *)
(*                                                                         *)
(* One action is one region of a lock or one step outside of it.  What an  *)
(* agent sends is not trusted to make sense: any session may report any    *)
(* stream as failed, any agent may claim any stream.                       *)
(***************************************************************************)
EXTENDS Naturals, FiniteSets

CONSTANTS
  Agent,        \* registered agents
  Stream,       \* TCP connections of nginx, each with an identity of its own
  None,
  Slots,        \* forward threads (128)
  AgentLimit,   \* pending streams of one agent (32)
  Session,      \* bound: control sessions that agents open
  MayStop,      \* bound: whether the hub stops at all
  MaxToken      \* bound: tokens of an agent, numbered as they are issued

ASSUME HubAssumption ==
  /\ None \notin Agent \cup Stream \cup Session /\ Stream \cap Session = {}
  /\ Session \cap {"registry", "stop", "forward", "data"} = {}   \* names of other threads
  /\ Slots \in Nat \ {0} /\ AgentLimit \in Nat \ {0}
  /\ MayStop \in BOOLEAN /\ MaxToken \in Nat \ {0}

Token    == 1..MaxToken
Killer   == {"registry", "stop"} \cup Session  \* threads in disconnect()
Finisher == Killer \cup {"forward", "data"}    \* threads in finish()

VARIABLES
  \* Agents.
  token,      \* the token that authenticates each agent
  revoking,   \* the agent that mutate() is taking its token from
  attaching,  \* the session attach() is installing
  \* TunnelHub.
  controls,   \* the control session of each agent
  pending,    \* registered streams
  slots,      \* free forward threads
  lock,       \* who keeps hub.lock over more than one step
  stopping,   \* stop() has begun
  toStop,     \* agents it has yet to disconnect
  \* Control sessions.
  session,    \* agent and token of each, and its WebSocket: "new", "open", "closed"
  loop,       \* its thread in control(): "none", "receive", "failed", "leave", "over"
  \* Streams.
  owner,      \* the agent of the listener nginx connected to
  forward,    \* step of the forward thread
  via,        \* the session it asked
  data,       \* step of the server thread that claimed the stream
  bearer,     \* the agent and token that claimed it
  tcp, ws,    \* the two connections: "none", "open", "closed"
  ready, done,
  \* Threads that finish streams.
  step,       \* of the threads in disconnect(): "idle", "close", "finish"
  victims,    \* the streams they have still to finish
  dropped,    \* the session they have still to close
  finish      \* the step of finish(s) in each thread

agentVars   == <<token, revoking, attaching>>
hubVars     == <<controls, pending, slots, lock, stopping, toStop>>
sessionVars == <<session, loop>>
streamVars  == <<owner, forward, via, data, bearer, tcp, ws, ready, done>>
finishVars  == <<step, victims, dropped, finish>>
vars == <<agentVars, hubVars, sessionVars, streamVars, finishVars>>

NoBearer == [agent |-> None, token |-> 0]

AgentsTyped ==
  /\ token \in [Agent -> Token]
  /\ revoking \in Agent \cup {None} /\ attaching \in Session \cup {None}
HubTyped ==
  /\ controls \in [Agent -> Session \cup {None}] /\ pending \subseteq Stream
  /\ lock \in Stream \cup Session \cup {None}
  /\ stopping \in BOOLEAN /\ toStop \subseteq Agent
SessionsTyped ==
  /\ session \in [Session -> [agent : Agent \cup {None}, token : Token \cup {0},
                              ws : {"new", "open", "closed"}]]
  /\ loop \in [Session -> {"none", "receive", "failed", "leave", "over"}]
ForwardTyped ==
  /\ owner \in [Stream -> Agent \cup {None}]
  /\ forward \in [Stream -> {"none", "unstarted", "lookup", "send", "ready", "done", "finish",
                            "over"}]
  /\ via \in [Stream -> Session \cup {None}]
DataTyped ==
  /\ data \in [Stream -> {"none", "upgrade", "abort", "enter", "set", "bridge", "finish", "over"}]
  /\ bearer \in [Stream -> [agent : Agent \cup {None}, token : Token \cup {0}]]
ConnectionsTyped ==
  /\ tcp \in [Stream -> {"none", "open", "closed"}] /\ ws \in [Stream -> {"none", "open", "closed"}]
  /\ ready \in [Stream -> BOOLEAN] /\ done \in [Stream -> BOOLEAN]
KillersTyped ==
  /\ step \in [Killer -> {"idle", "close", "finish"}]
  /\ victims \in [Killer -> SUBSET Stream]
  /\ dropped \in [Killer -> Session \cup {None}]
FinishTyped == finish \in [Stream -> [Finisher -> {"no", "test", "set", "close"}]]

TypeOK ==
  /\ AgentsTyped /\ HubTyped /\ SessionsTyped /\ ForwardTyped /\ DataTyped /\ ConnectionsTyped
  /\ KillersTyped /\ FinishTyped /\ slots \in 0..Slots

Init ==
  /\ token = [a \in Agent |-> 1] /\ revoking = None /\ attaching = None
  /\ controls = [a \in Agent |-> None] /\ pending = {}
  /\ slots = Slots /\ lock = None /\ stopping = FALSE /\ toStop = {}
  /\ session = [n \in Session |-> [agent |-> None, token |-> 0, ws |-> "new"]]
  /\ loop = [n \in Session |-> "none"]
  /\ owner = [s \in Stream |-> None] /\ forward = [s \in Stream |-> "none"]
  /\ via = [s \in Stream |-> None] /\ data = [s \in Stream |-> "none"]
  /\ bearer = [s \in Stream |-> NoBearer]
  /\ tcp = [s \in Stream |-> "none"] /\ ws = [s \in Stream |-> "none"]
  /\ ready = [s \in Stream |-> FALSE] /\ done = [s \in Stream |-> FALSE]
  /\ step = [k \in Killer |-> "idle"] /\ victims = [k \in Killer |-> {}]
  /\ dropped = [k \in Killer |-> None]
  /\ finish = [s \in Stream |-> [f \in Finisher |-> "no"]]

----------------------------------------------------------------------------
(* Locks *)

HubFree == lock = None

\* agents.lock: mutate() holds it to its end, agent_tunnel() until the session is
\* attached, or the stream claimed and its connection upgraded.
RegistryFree ==
  /\ revoking = None /\ attaching = None
  /\ \A s \in Stream : data[s] \notin {"upgrade", "abort"}

\* Faulty variant of Authentic: the token is checked before agents.lock is taken.
AuthenticEarlier(a, t) == t \in {token[a] - 1, token[a]}

\* authenticate(): the bearer token is the current one.
Authentic(a, t) == t = token[a]

----------------------------------------------------------------------------
(* finish() *)

Begins(s, f) == finish' = [finish EXCEPT ![s][f] = "test"]

\* finish(s) returns: disconnect() goes on with its next stream.
Returns(s, f) ==
  /\ finish' = [finish EXCEPT ![s][f] = "no"]
  /\ victims' = [k \in Killer |-> IF k = f THEN victims[k] \ {s} ELSE victims[k]]

\* `if not pending["done"].is_set()`
FinishTests(s, f) ==
  /\ finish[s][f] = "test"
  /\ \/ done[s] /\ Returns(s, f)
     \/ ~done[s] /\ finish' = [finish EXCEPT ![s][f] = "set"] /\ UNCHANGED victims
  /\ UNCHANGED <<agentVars, hubVars, sessionVars, streamVars, step, dropped>>

FinishSets(s, f) ==
  /\ finish[s][f] = "set"
  /\ done' = [done EXCEPT ![s] = TRUE]
  /\ finish' = [finish EXCEPT ![s][f] = "close"]
  /\ UNCHANGED <<agentVars, hubVars, sessionVars, owner, forward, via, data, bearer, tcp, ws,
                 ready, step, victims, dropped>>

\* The WebSocket is closed if there is one, otherwise nginx is sent a 503; then its
\* connection is closed and `ready` wakes the forward thread.
FinishCloses(s, f) ==
  /\ finish[s][f] = "close"
  /\ ws' = [ws EXCEPT ![s] = IF @ = "open" THEN "closed" ELSE @]
  /\ tcp' = [tcp EXCEPT ![s] = "closed"] /\ ready' = [ready EXCEPT ![s] = TRUE]
  /\ Returns(s, f)
  /\ UNCHANGED <<agentVars, hubVars, sessionVars, owner, forward, via, data, bearer, done, step,
                 dropped>>

Finishing(s, f) == finish[s][f] # "no"

----------------------------------------------------------------------------
(* disconnect() *)

\* Faulty variant of StreamsOf: streams nobody has claimed yet are left to their timeout.
ClaimedStreamsOf(a) == {s \in pending : owner[s] = a /\ bearer[s] # NoBearer}

StreamsOf(a) == {s \in pending : owner[s] = a}

\* Its region of hub.lock: the control session is dropped, its streams are listed.
Disconnect(k, a) ==
  /\ HubFree /\ step[k] = "idle"
  /\ dropped' = [dropped EXCEPT ![k] = controls[a]]
  /\ controls' = [controls EXCEPT ![a] = None]
  /\ victims' = [victims EXCEPT ![k] = StreamsOf(a)]
  /\ step' = [step EXCEPT ![k] = "close"]
  /\ UNCHANGED finish

\* Outside of the lock: the session is closed ...
ClosesControl(k) ==
  /\ step[k] = "close"
  /\ session' = [n \in Session |->
                   IF n = dropped[k] THEN [session[n] EXCEPT !.ws = "closed"] ELSE session[n]]
  /\ step' = [step EXCEPT ![k] = "finish"]
  /\ dropped' = [dropped EXCEPT ![k] = None]
  /\ UNCHANGED <<agentVars, hubVars, loop, streamVars, victims, finish>>

\* ... and then one stream after the other is finished.
FinishesNext(k) ==
  /\ step[k] = "finish" /\ \A s \in Stream : ~Finishing(s, k)
  /\ \E s \in victims[k] : Begins(s, k)
  /\ UNCHANGED <<agentVars, hubVars, sessionVars, streamVars, step, victims, dropped>>

Disconnected(k) ==
  /\ step[k] = "finish" /\ victims[k] = {}
  /\ step' = [step EXCEPT ![k] = "idle"]
  /\ UNCHANGED <<victims, dropped, finish>>

----------------------------------------------------------------------------
(* The registry of agents *)

\* mutate() replaces the token (or disables or deletes the agent) and disconnects it.
Revoke(a) ==
  /\ RegistryFree /\ token[a] < MaxToken
  /\ token' = [token EXCEPT ![a] = @ + 1]
  /\ revoking' = a
  /\ Disconnect("registry", a)
  /\ UNCHANGED <<attaching, pending, slots, lock, stopping, toStop, sessionVars, streamVars>>

RevokeEnds ==
  /\ revoking # None
  /\ Disconnected("registry")
  /\ revoking' = None
  /\ UNCHANGED <<token, attaching, hubVars, sessionVars, streamVars>>

----------------------------------------------------------------------------
(* Control sessions *)

\* GET /api/agents/connect: the upgraded connection first disconnects its predecessor ...
AttachBegins(n, a, t) ==
  /\ RegistryFree /\ Authentic(a, t)
  /\ session[n].ws = "new"
  /\ session' = [session EXCEPT ![n] = [agent |-> a, token |-> t, ws |-> "open"]]
  /\ attaching' = n
  /\ Disconnect("registry", a)
  /\ UNCHANGED <<token, revoking, pending, slots, lock, stopping, toStop, loop, streamVars>>

\* Faulty variant of Admitted: attach() does not look whether the hub stops.
AdmittedAlways == TRUE

Admitted == ~stopping

\* ... and then takes its place, unless the hub stops.
AttachEnds ==
  /\ HubFree /\ attaching # None
  /\ Disconnected("registry")
  /\ attaching' = None
  /\ loop' = [loop EXCEPT ![attaching] = "receive"]
  /\ \/ ~Admitted /\ session' = [session EXCEPT ![attaching].ws = "closed"] /\ UNCHANGED controls
     \/ Admitted /\ controls' = [controls EXCEPT ![session[attaching].agent] = attaching]
        /\ UNCHANGED session
  /\ UNCHANGED <<token, revoking, pending, slots, lock, stopping, toStop, streamVars>>

\* The connection breaks, or a heartbeat finds it broken.
SessionBreaks(n) ==
  /\ session[n].ws = "open"
  /\ session' = [session EXCEPT ![n].ws = "closed"]
  /\ UNCHANGED <<agentVars, hubVars, loop, streamVars, finishVars>>

\* control() receives `failed` for a stream of its agent and finishes it under the lock
\* (for a stream that is done the message changes nothing) ...
FailureReported(n, s) ==
  /\ loop[n] = "receive" /\ session[n].ws = "open" /\ HubFree
  /\ s \in pending /\ owner[s] = session[n].agent /\ ~done[s]
  /\ lock' = n /\ loop' = [loop EXCEPT ![n] = "failed"]
  /\ Begins(s, n)
  /\ UNCHANGED <<agentVars, controls, pending, slots, stopping, toStop, session, streamVars,
                 step, victims, dropped>>

\* Faulty variant of Handled: the thread waits until the stream is gone from `pending`.
HandledWhenGone(n) == \A s \in Stream : ~Finishing(s, n) /\ (done[s] => s \notin pending)

Handled(n) == \A s \in Stream : ~Finishing(s, n)

\* ... which it then releases.
FailureHandled(n) ==
  /\ loop[n] = "failed" /\ Handled(n)
  /\ lock' = None /\ loop' = [loop EXCEPT ![n] = "receive"]
  /\ UNCHANGED <<agentVars, controls, pending, slots, stopping, toStop, session, streamVars,
                 finishVars>>

\* Faulty variant of IsCurrent: disconnect() does not look whose session it drops.
IsAnyones(n) == TRUE

IsCurrent(n) == controls[session[n].agent] = n

\* control() ends and disconnects the agent, unless a later session has taken over.
ControlEnds(n) ==
  /\ loop[n] = "receive" /\ HubFree
  /\ loop' = [loop EXCEPT ![n] = "leave"]
  /\ \/ IsCurrent(n) /\ Disconnect(n, session[n].agent)
     \/ ~IsCurrent(n) /\ UNCHANGED <<controls, finishVars>>
  /\ UNCHANGED <<agentVars, pending, slots, lock, stopping, toStop, session, streamVars>>

\* It must once its WebSocket has closed; a message that makes no sense ends it as well.
ControlCut(n) == session[n].ws = "closed" /\ ControlEnds(n)

\* Whatever ended it, agent_tunnel() closes the WebSocket.
ControlOver(n) ==
  /\ loop[n] = "leave"
  /\ \/ Disconnected(n)
     \/ step[n] = "idle" /\ UNCHANGED <<step, victims, dropped, finish>>
  /\ loop' = [loop EXCEPT ![n] = "over"]
  /\ session' = [session EXCEPT ![n].ws = "closed"]
  /\ UNCHANGED <<agentVars, hubVars, streamVars>>

----------------------------------------------------------------------------
(* forward() *)

Stopped == stopping /\ toStop = {} /\ step["stop"] = "idle"

\* Streams that were given a slot and no thread.
Unstarted == {s \in Stream : forward[s] = "unstarted"}

\* Faulty variant of Listening: the thread outlives an exception, the slot stays taken.
ListeningOn == ~Stopped

\* Listeners are closed at the end of stop(); their thread may have ended before.
Listening == ~Stopped /\ Unstarted = {}

\* The listener accepts a connection if a slot is free, and answers 503 if none is.  When
\* no thread can be started, run() ends with the exception: the slot stays taken, and the
\* connection closes with the frame that held it.
Accept(s, a) ==
  /\ forward[s] = "none" /\ Listening
  /\ owner' = [owner EXCEPT ![s] = a]
  /\ \/ /\ slots > 0 /\ slots' = slots - 1
        /\ forward' = [forward EXCEPT ![s] = "lookup"] /\ tcp' = [tcp EXCEPT ![s] = "open"]
     \/ /\ slots > 0 /\ slots' = slots - 1
        /\ forward' = [forward EXCEPT ![s] = "unstarted"] /\ tcp' = [tcp EXCEPT ![s] = "closed"]
     \/ /\ slots = 0 /\ UNCHANGED slots
        /\ forward' = [forward EXCEPT ![s] = "over"] /\ tcp' = [tcp EXCEPT ![s] = "closed"]
  /\ UNCHANGED <<agentVars, controls, pending, lock, stopping, toStop, sessionVars, via, data,
                 bearer, ws, ready, done, finishVars>>

\* Faulty variant of Available: the streams already pending are not counted.
AvailableUncounted(a) ==
  controls[a] # None /\ session[controls[a]].ws = "open"

Available(a) ==
  /\ controls[a] # None /\ session[controls[a]].ws = "open"
  /\ Cardinality(StreamsOf(a)) < AgentLimit

\* The stream is registered, or refused with a 503: then the agent is not available, or
\* has not reported the destination for as long as its lease runs.
Lookup(s) ==
  /\ forward[s] = "lookup" /\ HubFree
  /\ \/ /\ Available(owner[s])
        /\ pending' = pending \cup {s} /\ via' = [via EXCEPT ![s] = controls[owner[s]]]
        /\ forward' = [forward EXCEPT ![s] = "send"]
     \/ /\ forward' = [forward EXCEPT ![s] = "finish"] /\ UNCHANGED <<pending, via>>
  /\ UNCHANGED <<agentVars, controls, slots, lock, stopping, toStop, sessionVars, owner, data,
                 bearer, tcp, ws, ready, done, finishVars>>

\* The forward thread waits, or goes to its `finally`.
Moves(s, to) ==
  /\ forward' = [forward EXCEPT ![s] = to]
  /\ \/ to = "finish" /\ Begins(s, "forward")
     \/ to # "finish" /\ UNCHANGED finish
  /\ UNCHANGED <<agentVars, hubVars, sessionVars, owner, via, data, bearer, tcp, ws, ready, done, step,
                 victims, dropped>>

\* The agent is asked to open the stream; the session may have broken since.
Send(s) ==
  /\ forward[s] = "send"
  /\ \/ session[via[s]].ws = "open" /\ Moves(s, "ready")
     \/ session[via[s]].ws = "closed" /\ Moves(s, "finish")

ReadyArrives(s) == forward[s] = "ready" /\ ready[s] /\ Moves(s, "done")

\* Faulty variant of ReadyTimesOut: ready.wait() without a timeout.
ReadyAwaited(s) == forward[s] = "ready" /\ ready[s] /\ Moves(s, "finish")

ReadyTimesOut(s) == forward[s] = "ready" /\ Moves(s, "finish")

DoneArrives(s) == forward[s] = "done" /\ done[s] /\ Moves(s, "finish")

\* Faulty variant of Released: a refusal gives the slot back and so does `finally`.
ReleasedTwice(s) == slots' = IF s \in pending THEN slots + 1 ELSE slots + 2

Released(s) == slots' = slots + 1

\* The rest of `finally`: the connection is closed, the stream and the slot are released.
ForwardEnds(s) ==
  /\ forward[s] = "finish" /\ ~Finishing(s, "forward") /\ HubFree
  /\ tcp' = [tcp EXCEPT ![s] = "closed"] /\ pending' = pending \ {s}
  /\ Released(s)
  /\ forward' = [forward EXCEPT ![s] = "over"]
  /\ UNCHANGED <<agentVars, controls, lock, stopping, toStop, sessionVars, owner, via, data,
                 bearer, ws, ready, done, finishVars>>

----------------------------------------------------------------------------
(* claim() and data() *)

Claimable(s, a) == s \in pending /\ owner[s] = a /\ bearer[s] = NoBearer /\ ~done[s]

\* GET /api/agents/tunnel/<s>, under agents.lock and hub.lock.
Claim(s, a, t) ==
  /\ RegistryFree /\ HubFree /\ Authentic(a, t) /\ Claimable(s, a)
  /\ bearer' = [bearer EXCEPT ![s] = [agent |-> a, token |-> t]]
  /\ data' = [data EXCEPT ![s] = "upgrade"]
  /\ UNCHANGED <<agentVars, hubVars, sessionVars, owner, forward, via, tcp, ws, ready, done, finishVars>>

Upgrade(s) ==
  /\ data[s] = "upgrade"
  /\ data' = [data EXCEPT ![s] = "enter"]
  /\ UNCHANGED <<agentVars, hubVars, sessionVars, owner, forward, via, bearer, tcp, ws, ready, done,
                 finishVars>>

\* The upgrade raises: the stream is finished before agents.lock is released.
UpgradeFails(s) ==
  /\ data[s] = "upgrade"
  /\ data' = [data EXCEPT ![s] = "abort"] /\ Begins(s, "data")
  /\ UNCHANGED <<agentVars, hubVars, sessionVars, owner, forward, via, bearer, tcp, ws, ready, done, step,
                 victims, dropped>>

\* data() tests `done` and then sets `ws` under hub.lock, which finish() does not take.
DataTests(s) ==
  /\ data[s] = "enter" /\ HubFree
  /\ \/ done[s] /\ data' = [data EXCEPT ![s] = "over"] /\ UNCHANGED lock
     \/ ~done[s] /\ data' = [data EXCEPT ![s] = "set"] /\ lock' = s
  /\ UNCHANGED <<agentVars, controls, pending, slots, stopping, toStop, sessionVars, owner, forward,
                 via, bearer, tcp, ws, ready, done, finishVars>>

DataSets(s) ==
  /\ data[s] = "set"
  /\ ws' = [ws EXCEPT ![s] = "open"] /\ ready' = [ready EXCEPT ![s] = TRUE]
  /\ lock' = None /\ data' = [data EXCEPT ![s] = "bridge"]
  /\ UNCHANGED <<agentVars, controls, pending, slots, stopping, toStop, sessionVars, owner, forward,
                 via, bearer, tcp, done, finishVars>>

\* Faulty variant of DataFinishes: bridge() returns and nobody is told.
DataReturns(s) == UNCHANGED finish

DataFinishes(s) == Begins(s, "data")

\* bridge() closes both connections.
BridgeEnds(s) ==
  /\ data[s] = "bridge"
  /\ ws' = [ws EXCEPT ![s] = "closed"] /\ tcp' = [tcp EXCEPT ![s] = "closed"]
  /\ data' = [data EXCEPT ![s] = "finish"] /\ DataFinishes(s)
  /\ UNCHANGED <<agentVars, hubVars, sessionVars, owner, forward, via, bearer, ready, done, step, victims,
                 dropped>>

\* It does when either end has closed; otherwise it goes on for as long as they like.
BridgeCut(s) == (ws[s] = "closed" \/ tcp[s] = "closed") /\ BridgeEnds(s)

DataEnds(s) ==
  /\ data[s] \in {"finish", "abort"} /\ ~Finishing(s, "data")
  /\ data' = [data EXCEPT ![s] = "over"]
  /\ UNCHANGED <<agentVars, hubVars, sessionVars, owner, forward, via, bearer, tcp, ws, ready, done,
                 finishVars>>

----------------------------------------------------------------------------
(* stop() *)

Stop ==
  /\ MayStop /\ ~stopping /\ HubFree
  /\ stopping' = TRUE /\ toStop' = {a \in Agent : controls[a] # None}
  /\ UNCHANGED <<agentVars, controls, pending, slots, lock, sessionVars, streamVars, finishVars>>

StopDisconnects(a) ==
  /\ a \in toStop /\ Disconnect("stop", a)
  /\ toStop' = toStop \ {a}
  /\ UNCHANGED <<agentVars, pending, slots, lock, stopping, sessionVars, streamVars>>

StopGoesOn ==
  /\ Disconnected("stop")
  /\ UNCHANGED <<agentVars, hubVars, sessionVars, streamVars>>

----------------------------------------------------------------------------

\* The steps of each thread; nothing outside holds them up.
FinishThread(s, f) ==
  FinishTests(s, f) \/ FinishSets(s, f) \/ FinishCloses(s, f)

DisconnectThread(k) == ClosesControl(k) \/ FinishesNext(k)

ControlThread(n) == FailureHandled(n) \/ ControlCut(n) \/ ControlOver(n)

StopThread == StopGoesOn \/ \E a \in Agent : StopDisconnects(a)

ForwardThread(s) ==
  Lookup(s) \/ Send(s) \/ ReadyArrives(s) \/ ReadyTimesOut(s) \/ DoneArrives(s) \/ ForwardEnds(s)

DataThread(s) ==
  Upgrade(s) \/ UpgradeFails(s) \/ DataTests(s) \/ DataSets(s) \/ BridgeCut(s) \/ DataEnds(s)

\* What agents, nginx and administrators do.
Environment ==
  \/ Stop
  \/ \E a \in Agent : Revoke(a)
  \/ \E n \in Session, a \in Agent, t \in Token : AttachBegins(n, a, t)
  \/ \E n \in Session : SessionBreaks(n) \/ ControlEnds(n)
  \/ \E n \in Session, s \in Stream : FailureReported(n, s)
  \/ \E s \in Stream, a \in Agent : Accept(s, a)
  \/ \E s \in Stream, a \in Agent, t \in Token : Claim(s, a, t)
  \/ \E s \in Stream : BridgeEnds(s)

Next ==
  \/ Environment \/ RevokeEnds \/ AttachEnds \/ StopThread
  \/ \E k \in Killer : DisconnectThread(k)
  \/ \E n \in Session : ControlThread(n)
  \/ \E s \in Stream : ForwardThread(s) \/ DataThread(s)
  \/ \E s \in Stream, f \in Finisher : FinishThread(s, f)

Spec == Init /\ [][Next]_vars

\* Threads run; a lock is released after finitely many steps.
Fairness ==
  /\ WF_vars(RevokeEnds) /\ WF_vars(AttachEnds) /\ WF_vars(StopThread)
  /\ \A k \in Killer : WF_vars(DisconnectThread(k))
  /\ \A n \in Session : WF_vars(ControlThread(n))
  /\ \A s \in Stream : WF_vars(ForwardThread(s)) /\ WF_vars(DataThread(s))
  /\ \A s \in Stream, f \in Finisher : WF_vars(FinishThread(s, f))

FairSpec == Spec /\ Fairness

----------------------------------------------------------------------------
(* Safety *)

\* Bytes pass between nginx and the agent.
Flows(s) == data[s] = "bridge" /\ ws[s] = "open" /\ tcp[s] = "open"

\* A thread has set `done` and is about to close what is open.
Ending(s) == \E f \in Finisher : finish[s][f] = "close"

Condemned(s) == \E k \in Killer : s \in victims[k]

\* A stream ends with the session that asked for it: when the session is no longer that
\* of the agent, some thread is on its way to close what still flows, whether the stream
\* was waiting, being claimed or being bridged when the session was dropped.
StreamsDieWithTheirSession ==
  \A s \in Stream : Flows(s) => via[s] = controls[owner[s]] \/ Condemned(s) \/ Ending(s)

\* "Attach/claim under the identity lock so revocation cannot race an authenticated
\* connection into existence" (server.py:165): once mutate() has returned, no session and
\* no stream of the old token is left, but for the step that closes it.
OnlyTheCurrentToken ==
  \A a \in Agent \ {revoking} :
    /\ controls[a] # None => session[controls[a]].token = token[a]
    /\ \A s \in Stream : owner[s] = a /\ Flows(s)
         => bearer[s] = [agent |-> a, token |-> token[a]] \/ Ending(s)

\* No agent holds more than its share of streams, and slots are neither lost nor given
\* back twice, however a stream ends.  The exception: a forward thread that cannot be
\* started keeps its slot, once, because the listeners' thread ends with it.
SlotsAccounted ==
  /\ \A a \in Agent : Cardinality(StreamsOf(a)) <= AgentLimit
  /\ slots + Cardinality({s \in Stream : forward[s] \notin {"none", "over"}}) = Slots
  /\ Cardinality(Unstarted) <= 1

\* After stop() no session is left, and nothing flows that no thread is closing: an
\* attach that was under way does not outlive it.
StoppedIsSilent ==
  Stopped => /\ \A a \in Agent : controls[a] = None
             /\ \A s \in Stream : Flows(s) => Condemned(s) \/ Ending(s)

\* The end of an old session never drops the one that took over: a session is dropped
\* by its own thread, when a successor attaches, by revocation or by stop().
SuccessorsStay ==
  [][\A a \in Agent : controls[a] # None /\ controls'[a] # controls[a]
       => \/ loop'[controls[a]] = "leave"
          \/ revoking' = a \/ attaching' # attaching \/ stopping]_vars

----------------------------------------------------------------------------
(* Liveness, under FairSpec *)

\* Every connection that is accepted and given a thread is bridged or closed, even if the
\* agent never answers.
EveryConnectionSettles ==
  \A s \in Stream : forward[s] = "lookup" ~> data[s] = "bridge" \/ forward[s] = "over"

\* A stream that has lost an end, or its session, gives its slot back, unless no thread was
\* ever started for it.
SlotsComeBack ==
  \A s \in Stream :
    (/\ s \notin Unstarted
     /\ tcp[s] = "closed" \/ ws[s] = "closed" \/ (via[s] # None /\ session[via[s]].ws = "closed"))
      ~> forward[s] = "over"

\* Somebody holds agents.lock or hub.lock over several steps, or waits for them in stop().
Busy == revoking # None \/ attaching # None \/ lock # None \/ (stopping /\ ~Stopped)

\* Revocations, reconnections, failure reports and stop() come to an end: whoever keeps
\* agents.lock or hub.lock over several steps lets go of it.  (Both are taken in one step
\* here, agents.lock first in the code: another order could not block this model.)
LocksAreReleased == Busy ~> ~Busy
=============================================================================
