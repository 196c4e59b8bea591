-------------------------- MODULE TunnelHub_proofs --------------------------
(***************************************************************************)
(* Proofs about TunnelHub, for every value of its constants: agents,       *)
(* streams, control sessions, tokens and limits.                           *)
(*                                                                         *)
(* finish() tests, sets and closes in three steps that other threads come  *)
(* between, so nothing can be said of a stream by looking at one thread.   *)
(* What holds throughout is: a stream that is not done is registered and   *)
(* its claim carries the current token or is condemned (ClaimInv), its     *)
(* session is the agent's or some thread has listed it (SuccessionInv);    *)
(* one that is done is closed or about to be (DoneInv).                    *)
(***************************************************************************)
EXTENDS TunnelHub, FiniteSetTheorems, TLAPS

\* TypeOK but for the number of slots, which CountInv bounds.
Typed ==
  /\ AgentsTyped /\ HubTyped /\ SessionsTyped /\ ForwardTyped /\ DataTyped /\ ConnectionsTyped
  /\ KillersTyped /\ FinishTyped

\* Streams that hold a slot.
Active == {s \in Stream : forward[s] \notin {"none", "over"}}

\* A connection that was accepted has an owner.
StartedInv == \A s \in Stream : forward[s] # "none" => owner[s] \in Agent

\* Nobody knows a connection that was not accepted.
FreshInv ==
  \A s \in Stream : forward[s] = "none" =>
    /\ s \notin pending /\ data[s] = "none" /\ bearer[s] = NoBearer /\ ~done[s]
    /\ \A k \in Killer : s \notin victims[k]
    /\ \A f \in Finisher : finish[s][f] = "no"

\* A registered stream has asked a session, and its forward thread has yet to end.
PendingInv ==
  \A s \in pending : forward[s] \in {"send", "ready", "done", "finish"} /\ via[s] \in Session

\* Whoever attaches, and every attached session, was authenticated with the current token,
\* but for the agent whose token mutate() is replacing: it has no session any more.
SessionInv ==
  /\ \A n \in Session : session[n].ws # "new" => session[n].agent \in Agent
  /\ \A n \in Session : loop[n] # "none" => session[n].ws # "new"
  /\ attaching # None =>
       /\ session[attaching].ws # "new" /\ revoking = None
       /\ session[attaching].token = token[session[attaching].agent]
       /\ controls[session[attaching].agent] = None
  /\ revoking # None => controls[revoking] = None
  /\ \A k \in Killer : dropped[k] # None => session[dropped[k]].ws # "new"
  /\ \A a \in Agent : controls[a] # None =>
       /\ session[controls[a]].ws # "new" /\ session[controls[a]].agent = a
       /\ a # revoking => session[controls[a]].token = token[a]

\* The threads of a stream finish it once, at their end.
ThreadInv ==
  \A s \in Stream :
    /\ finish[s]["forward"] # "no" => forward[s] = "finish"
    /\ finish[s]["data"] # "no" => data[s] \in {"abort", "finish"}

\* `done` is set before anything is closed, and whoever has set it will close.
DoneInv ==
  /\ \A s \in Stream, f \in Finisher : finish[s][f] = "close" => done[s]
  /\ \A s \in Stream : done[s] => tcp[s] = "closed" \/ Ending(s)
  /\ \A s \in pending : forward[s] = "finish" /\ finish[s]["forward"] = "no" => done[s]

\* A claimed stream that is not done is registered, and was claimed by its owner with the
\* current token, or revocation has listed it.
ClaimInv ==
  /\ \A s \in Stream : data[s] # "none" => bearer[s] # NoBearer
  /\ \A s \in Stream : bearer[s] # NoBearer /\ ~done[s] =>
       /\ s \in pending /\ bearer[s].agent = owner[s]
       /\ \/ bearer[s].token = token[owner[s]]
          \/ revoking = owner[s] /\ s \in victims["registry"]

\* A registered stream that is not done belongs to the session of its agent, or a thread
\* that dropped that session has listed it.
SuccessionInv ==
  /\ \A k \in Killer : step[k] = "idle" => victims[k] = {}
  /\ \A s \in pending : ~done[s] => via[s] = controls[owner[s]] \/ Condemned(s)

\* stop() has listed every session that is left, and none is added.
StopInv ==
  /\ toStop # {} => stopping
  /\ stopping => \A a \in Agent : controls[a] # None => a \in toStop

\* Free and taken slots add up, one at most is taken for good, and no agent has more
\* streams than its share.
CountInv ==
  /\ IsFiniteSet(Active) /\ slots \in Nat /\ slots + Cardinality(Active) = Slots
  /\ \A a \in Agent : Cardinality(StreamsOf(a)) <= AgentLimit
  /\ \A s, t \in Unstarted : s = t

\* The inductive invariant.
IInv ==
  /\ Typed /\ StartedInv /\ FreshInv /\ PendingInv /\ SessionInv /\ ThreadInv /\ DoneInv
  /\ ClaimInv /\ SuccessionInv /\ StopInv /\ CountInv

----------------------------------------------------------------------------
(* Helpers *)

\* A thread takes a step of finish(s).
LEMMA FinishAt ==
  ASSUME FinishTyped, NEW s \in Stream, NEW f \in Finisher,
         NEW v \in {"no", "test", "set", "close"}
  PROVE  [finish EXCEPT ![s][f] = v] \in [Stream -> [Finisher -> {"no", "test", "set", "close"}]]
BY DEF FinishTyped

\* finish[s][f] changes and nothing else.
LEMMA FinishRead ==
  ASSUME FinishTyped, NEW s \in Stream, NEW f \in Finisher, NEW v,
         finish' = [finish EXCEPT ![s][f] = v]
  PROVE  \A t \in Stream, g \in Finisher :
           finish'[t][g] = IF t = s /\ g = f THEN v ELSE finish[t][g]
BY DEF FinishTyped

\* Who was about to close a stream still is, after a step of another thread.
LEMMA EndingStays ==
  ASSUME FinishTyped, NEW s \in Stream, NEW f \in Finisher, NEW v,
         finish' = [finish EXCEPT ![s][f] = v],
         finish[s][f] # "close"
  PROVE  \A t \in Stream : Ending(t) => Ending(t)'
BY FinishRead DEF Ending

\* disconnect() lists the streams of the session it drops.
LEMMA Succeeds ==
  ASSUME Typed, SuccessionInv, NEW k \in Killer, NEW a \in Agent, Disconnect(k, a),
         UNCHANGED <<pending, owner, via, done>>
  PROVE  SuccessionInv'
<1> USE DEF Typed, Disconnect, SuccessionInv, KillersTyped, HubTyped
<1>1. ASSUME NEW j \in Killer, step'[j] = "idle"  PROVE victims'[j] = {}  BY <1>1
<1>2. ASSUME NEW s \in pending', ~done'[s]  PROVE (via[s] = controls[owner[s]])' \/ Condemned(s)'
  <2>1. CASE owner[s] = a
    <3>1. s \in victims'[k]  BY <1>2, <2>1 DEF StreamsOf
    <3> QED  BY <3>1 DEF Condemned
  <2>2. CASE owner[s] # a
    <3>1. controls'[owner[s]] = controls[owner[s]]  BY <2>2
    <3>2. \A j \in Killer : s \in victims[j] => s \in victims'[j]  BY <1>2
    <3> QED  BY <1>2, <3>1, <3>2 DEF Condemned
  <2> QED  BY <2>1, <2>2
<1> QED  BY <1>1, <1>2

\* A step that drops no session.
LEMMA StillSucceeds ==
  ASSUME SuccessionInv,
         \A k \in Killer : step'[k] = "idle" => victims'[k] = {},
         \A s \in pending' : ~done'[s] =>
           /\ s \in pending /\ ~done[s]
           /\ via'[s] = via[s] /\ controls'[owner'[s]] = controls[owner[s]]
           /\ \A k \in Killer : s \in victims[k] => s \in victims'[k]
  PROVE  SuccessionInv'
BY DEF SuccessionInv, Condemned

\* A step that at most closes sessions.
SessionsKept ==
  /\ \A n \in Session :
       /\ session'[n].agent = session[n].agent /\ session'[n].token = session[n].token
       /\ session'[n].ws = "new" <=> session[n].ws = "new"
  /\ \A n \in Session : loop'[n] # "none" => session[n].ws # "new"
  /\ UNCHANGED token
  /\ revoking' = revoking /\ attaching' \in {attaching, None} /\ controls' = controls
  /\ \A k \in Killer : dropped'[k] \in {dropped[k], None}

\* What is known of sessions stays true when some are closed.
LEMMA SessionsStay ==
  ASSUME Typed, SessionInv, SessionsKept  PROVE SessionInv'
<1> USE DEF Typed, AgentsTyped, HubTyped, KillersTyped, SessionsKept
<1>1. \A n \in Session : session'[n].ws # "new" => session'[n].agent \in Agent
  BY DEF SessionInv
<1>2. \A n \in Session : loop'[n] # "none" => session'[n].ws # "new"
  OBVIOUS
<1>3. attaching' # None =>
        /\ session'[attaching'].ws # "new" /\ revoking' = None
        /\ session'[attaching'].token = token'[session'[attaching'].agent]
        /\ controls'[session'[attaching'].agent] = None
  BY DEF SessionInv
<1>4. \A a \in Agent : controls'[a] # None =>
        /\ session'[controls'[a]].ws # "new" /\ session'[controls'[a]].agent = a
        /\ a # revoking' => session'[controls'[a]].token = token'[a]
  BY DEF SessionInv
<1>5. revoking' # None => controls'[revoking'] = None
  BY DEF SessionInv
<1>6. \A k \in Killer : dropped'[k] # None => session'[dropped'[k]].ws # "new"
  BY DEF SessionInv
<1> QED  BY <1>1, <1>2, <1>3, <1>4, <1>5, <1>6 DEF SessionInv

----------------------------------------------------------------------------
(* The steps, part by part *)

\* The hub's maps keep their type: what attaches is a session of an agent.
LEMMA HubStep ==
  ASSUME IInv, [Next]_vars
  PROVE  HubTyped'
<1> USE HubAssumption DEF HubAssumption, Token, Killer, Finisher, agentVars, hubVars,
      sessionVars, streamVars, finishVars, IInv, Typed, HubTyped, AgentsTyped, SessionsTyped,
      StreamsOf, SessionInv
<1>1. CASE Stop  BY <1>1 DEF Stop
<1>2. ASSUME NEW a \in Agent, Revoke(a)  PROVE HubTyped'  BY <1>2 DEF Revoke, Disconnect
<1>3. CASE RevokeEnds  BY <1>3 DEF RevokeEnds, Disconnected
<1>4. ASSUME NEW n \in Session, NEW a \in Agent, NEW t \in Token, AttachBegins(n, a, t)
       PROVE HubTyped'
  BY <1>4 DEF AttachBegins, Disconnect
<1>5. CASE AttachEnds  BY <1>5 DEF AttachEnds, Disconnected
<1>6. ASSUME NEW n \in Session, SessionBreaks(n)  PROVE HubTyped'  BY <1>6 DEF SessionBreaks
<1>7. ASSUME NEW n \in Session, ControlEnds(n)  PROVE HubTyped'
  BY <1>7 DEF ControlEnds, Disconnect
<1>8. ASSUME NEW n \in Session, NEW s \in Stream, FailureReported(n, s)  PROVE HubTyped'
  BY <1>8 DEF FailureReported, Begins
<1>9. ASSUME NEW s \in Stream, NEW a \in Agent, Accept(s, a)  PROVE HubTyped'
  BY <1>9 DEF Accept
<1>10. ASSUME NEW s \in Stream, NEW a \in Agent, NEW t \in Token, Claim(s, a, t)
       PROVE HubTyped'
  BY <1>10 DEF Claim
<1>11. ASSUME NEW s \in Stream, BridgeEnds(s)  PROVE HubTyped'
  BY <1>11 DEF BridgeEnds, DataFinishes, Begins
<1>12. CASE StopThread
  BY <1>12 DEF StopThread, StopGoesOn, Disconnected, StopDisconnects, Disconnect
<1>13. ASSUME NEW k \in Killer, DisconnectThread(k)  PROVE HubTyped'
  BY <1>13 DEF DisconnectThread, ClosesControl, FinishesNext, Begins
<1>14. ASSUME NEW n \in Session, ControlThread(n)  PROVE HubTyped'
  BY <1>7, <1>14 DEF ControlThread, FailureHandled, ControlCut, ControlOver, Disconnected
<1>15. ASSUME NEW s \in Stream, ForwardThread(s)  PROVE HubTyped'
  BY <1>15 DEF ForwardThread, Lookup, Send, ReadyArrives, ReadyTimesOut, DoneArrives,
       ForwardEnds, Moves, Begins
<1>16. ASSUME NEW s \in Stream, DataThread(s)  PROVE HubTyped'
  BY <1>11, <1>16 DEF DataThread, Upgrade, UpgradeFails, DataTests, DataSets, BridgeCut,
       DataEnds, Begins
<1>17. ASSUME NEW s \in Stream, NEW f \in Finisher, FinishThread(s, f)  PROVE HubTyped'
  BY <1>17 DEF FinishThread, FinishTests, FinishSets, FinishCloses, Returns
<1>18. CASE UNCHANGED vars  BY <1>18 DEF vars
<1> QED
  BY <1>1, <1>2, <1>3, <1>4, <1>5, <1>6, <1>7, <1>8, <1>9, <1>10, <1>11, <1>12, <1>13,
     <1>14, <1>15, <1>16, <1>17, <1>18 DEF Next, Environment

\* The forward threads keep their type: a stream asks the session its agent has.
LEMMA ForwardStep ==
  ASSUME IInv, [Next]_vars
  PROVE  ForwardTyped'
<1> USE HubAssumption DEF HubAssumption, Token, Killer, Finisher, agentVars, hubVars,
      sessionVars, streamVars, finishVars, IInv, Typed, ForwardTyped, HubTyped
<1>1. CASE Stop  BY <1>1 DEF Stop
<1>2. ASSUME NEW a \in Agent, Revoke(a)  PROVE ForwardTyped'  BY <1>2 DEF Revoke, Disconnect
<1>3. CASE RevokeEnds  BY <1>3 DEF RevokeEnds, Disconnected
<1>4. ASSUME NEW n \in Session, NEW a \in Agent, NEW t \in Token, AttachBegins(n, a, t)
       PROVE ForwardTyped'
  BY <1>4 DEF AttachBegins, Disconnect
<1>5. CASE AttachEnds  BY <1>5 DEF AttachEnds, Disconnected
<1>6. ASSUME NEW n \in Session, SessionBreaks(n)  PROVE ForwardTyped'  BY <1>6 DEF SessionBreaks
<1>7. ASSUME NEW n \in Session, ControlEnds(n)  PROVE ForwardTyped'
  BY <1>7 DEF ControlEnds, Disconnect
<1>8. ASSUME NEW n \in Session, NEW s \in Stream, FailureReported(n, s)  PROVE ForwardTyped'
  BY <1>8 DEF FailureReported, Begins
<1>9. ASSUME NEW s \in Stream, NEW a \in Agent, Accept(s, a)  PROVE ForwardTyped'
  BY <1>9 DEF Accept
<1>10. ASSUME NEW s \in Stream, NEW a \in Agent, NEW t \in Token, Claim(s, a, t)
       PROVE ForwardTyped'
  BY <1>10 DEF Claim
<1>11. ASSUME NEW s \in Stream, BridgeEnds(s)  PROVE ForwardTyped'
  BY <1>11 DEF BridgeEnds, DataFinishes, Begins
<1>12. CASE StopThread
  BY <1>12 DEF StopThread, StopGoesOn, Disconnected, StopDisconnects, Disconnect
<1>13. ASSUME NEW k \in Killer, DisconnectThread(k)  PROVE ForwardTyped'
  BY <1>13 DEF DisconnectThread, ClosesControl, FinishesNext, Begins
<1>14. ASSUME NEW n \in Session, ControlThread(n)  PROVE ForwardTyped'
  BY <1>7, <1>14 DEF ControlThread, FailureHandled, ControlCut, ControlOver, Disconnected
<1>15. ASSUME NEW s \in Stream, ForwardThread(s)  PROVE ForwardTyped'
  <2>1. CASE Lookup(s)  BY <2>1 DEF Lookup, StartedInv
  <2>2. CASE Send(s)  BY <2>2 DEF Send, Moves
  <2>3. CASE ReadyArrives(s) \/ ReadyTimesOut(s) \/ DoneArrives(s)
    BY <2>3 DEF ReadyArrives, ReadyTimesOut, DoneArrives, Moves
  <2>4. CASE ForwardEnds(s)  BY <2>4 DEF ForwardEnds
  <2> QED  BY <1>15, <2>1, <2>2, <2>3, <2>4 DEF ForwardThread
<1>16. ASSUME NEW s \in Stream, DataThread(s)  PROVE ForwardTyped'
  BY <1>11, <1>16 DEF DataThread, Upgrade, UpgradeFails, DataTests, DataSets, BridgeCut,
       DataEnds, Begins
<1>17. ASSUME NEW s \in Stream, NEW f \in Finisher, FinishThread(s, f)  PROVE ForwardTyped'
  BY <1>17 DEF FinishThread, FinishTests, FinishSets, FinishCloses, Returns
<1>18. CASE UNCHANGED vars  BY <1>18 DEF vars
<1> QED
  BY <1>1, <1>2, <1>3, <1>4, <1>5, <1>6, <1>7, <1>8, <1>9, <1>10, <1>11, <1>12, <1>13,
     <1>14, <1>15, <1>16, <1>17, <1>18 DEF Next, Environment

\* Threads in disconnect() keep their type: what they list is registered.
LEMMA KillersStep ==
  ASSUME IInv, [Next]_vars
  PROVE  KillersTyped'
<1> USE HubAssumption DEF HubAssumption, Token, Killer, Finisher, agentVars, hubVars,
      sessionVars, streamVars, finishVars, IInv, Typed, KillersTyped, HubTyped, SessionInv,
      StreamsOf
<1>1. CASE Stop  BY <1>1 DEF Stop
<1>2. ASSUME NEW a \in Agent, Revoke(a)  PROVE KillersTyped'  BY <1>2 DEF Revoke, Disconnect
<1>3. CASE RevokeEnds  BY <1>3 DEF RevokeEnds, Disconnected
<1>4. ASSUME NEW n \in Session, NEW a \in Agent, NEW t \in Token, AttachBegins(n, a, t)
       PROVE KillersTyped'
  BY <1>4 DEF AttachBegins, Disconnect
<1>5. CASE AttachEnds  BY <1>5 DEF AttachEnds, Disconnected
<1>6. ASSUME NEW n \in Session, SessionBreaks(n)  PROVE KillersTyped'  BY <1>6 DEF SessionBreaks
<1>7. ASSUME NEW n \in Session, ControlEnds(n)  PROVE KillersTyped'
  BY <1>7 DEF ControlEnds, Disconnect
<1>8. ASSUME NEW n \in Session, NEW s \in Stream, FailureReported(n, s)  PROVE KillersTyped'
  BY <1>8 DEF FailureReported, Begins
<1>9. ASSUME NEW s \in Stream, NEW a \in Agent, Accept(s, a)  PROVE KillersTyped'
  BY <1>9 DEF Accept
<1>10. ASSUME NEW s \in Stream, NEW a \in Agent, NEW t \in Token, Claim(s, a, t)
       PROVE KillersTyped'
  BY <1>10 DEF Claim
<1>11. ASSUME NEW s \in Stream, BridgeEnds(s)  PROVE KillersTyped'
  BY <1>11 DEF BridgeEnds, DataFinishes, Begins
<1>12. CASE StopThread
  <2>1. CASE StopGoesOn  BY <2>1 DEF StopGoesOn, Disconnected
  <2>2. ASSUME NEW a \in Agent, StopDisconnects(a)  PROVE KillersTyped'
    BY <2>2 DEF StopDisconnects, Disconnect
  <2> QED  BY <1>12, <2>1, <2>2 DEF StopThread
<1>13. ASSUME NEW k \in Killer, DisconnectThread(k)  PROVE KillersTyped'
  BY <1>13 DEF DisconnectThread, ClosesControl, FinishesNext, Begins
<1>14. ASSUME NEW n \in Session, ControlThread(n)  PROVE KillersTyped'
  BY <1>7, <1>14 DEF ControlThread, FailureHandled, ControlCut, ControlOver, Disconnected
<1>15. ASSUME NEW s \in Stream, ForwardThread(s)  PROVE KillersTyped'
  BY <1>15 DEF ForwardThread, Lookup, Send, ReadyArrives, ReadyTimesOut, DoneArrives,
       ForwardEnds, Moves, Begins
<1>16. ASSUME NEW s \in Stream, DataThread(s)  PROVE KillersTyped'
  BY <1>11, <1>16 DEF DataThread, Upgrade, UpgradeFails, DataTests, DataSets, BridgeCut,
       DataEnds, Begins
<1>17. ASSUME NEW s \in Stream, NEW f \in Finisher, FinishThread(s, f)  PROVE KillersTyped'
  BY <1>17 DEF FinishThread, FinishTests, FinishSets, FinishCloses, Returns
<1>18. CASE UNCHANGED vars  BY <1>18 DEF vars
<1> QED
  BY <1>1, <1>2, <1>3, <1>4, <1>5, <1>6, <1>7, <1>8, <1>9, <1>10, <1>11, <1>12, <1>13,
     <1>14, <1>15, <1>16, <1>17, <1>18 DEF Next, Environment

\* Every thread keeps its step of finish().
LEMMA FinishStep ==
  ASSUME IInv, [Next]_vars
  PROVE  FinishTyped'
<1> USE HubAssumption DEF HubAssumption, Token, Killer, Finisher, agentVars, hubVars,
      sessionVars, streamVars, finishVars, IInv, Typed, FinishTyped
<1>1. CASE Stop  BY <1>1 DEF Stop
<1>2. ASSUME NEW a \in Agent, Revoke(a)  PROVE FinishTyped'  BY <1>2 DEF Revoke, Disconnect
<1>3. CASE RevokeEnds  BY <1>3 DEF RevokeEnds, Disconnected
<1>4. ASSUME NEW n \in Session, NEW a \in Agent, NEW t \in Token, AttachBegins(n, a, t)
       PROVE FinishTyped'
  BY <1>4 DEF AttachBegins, Disconnect
<1>5. CASE AttachEnds  BY <1>5 DEF AttachEnds, Disconnected
<1>6. ASSUME NEW n \in Session, SessionBreaks(n)  PROVE FinishTyped'  BY <1>6 DEF SessionBreaks
<1>7. ASSUME NEW n \in Session, ControlEnds(n)  PROVE FinishTyped'
  BY <1>7 DEF ControlEnds, Disconnect
<1>8. ASSUME NEW n \in Session, NEW s \in Stream, FailureReported(n, s)  PROVE FinishTyped'
  BY <1>8, FinishAt DEF FailureReported, Begins
<1>9. ASSUME NEW s \in Stream, NEW a \in Agent, Accept(s, a)  PROVE FinishTyped'
  BY <1>9 DEF Accept
<1>10. ASSUME NEW s \in Stream, NEW a \in Agent, NEW t \in Token, Claim(s, a, t)
       PROVE FinishTyped'
  BY <1>10 DEF Claim
<1>11. ASSUME NEW s \in Stream, BridgeEnds(s)  PROVE FinishTyped'
  BY <1>11, FinishAt DEF BridgeEnds, DataFinishes, Begins
<1>12. CASE StopThread
  BY <1>12 DEF StopThread, StopGoesOn, Disconnected, StopDisconnects, Disconnect
<1>13. ASSUME NEW k \in Killer, DisconnectThread(k)  PROVE FinishTyped'
  <2>1. finish' = finish \/ \E s \in victims[k] : Begins(s, k)
    BY <1>13 DEF DisconnectThread, ClosesControl, FinishesNext
  <2>2. victims[k] \subseteq Stream  BY DEF KillersTyped
  <2> QED  BY SMTT(30), <2>1, <2>2, FinishAt DEF Begins
<1>14. ASSUME NEW n \in Session, ControlThread(n)  PROVE FinishTyped'
  BY <1>7, <1>14 DEF ControlThread, FailureHandled, ControlCut, ControlOver, Disconnected
<1>15. ASSUME NEW s \in Stream, ForwardThread(s)  PROVE FinishTyped'
  <2>1. finish' = finish \/ Begins(s, "forward")
    BY <1>15 DEF ForwardThread, Lookup, Send, ReadyArrives, ReadyTimesOut, DoneArrives,
         ForwardEnds, Moves
  <2> QED  BY SMTT(30), <2>1, FinishAt DEF Begins
<1>16. ASSUME NEW s \in Stream, DataThread(s)  PROVE FinishTyped'
  <2>1. finish' = finish \/ Begins(s, "data")
    BY <1>16 DEF DataThread, Upgrade, UpgradeFails, DataTests, DataSets, BridgeCut, BridgeEnds,
         DataFinishes, DataEnds
  <2>2. CASE Begins(s, "data")
    <3>1. finish' = [finish EXCEPT ![s]["data"] = "test"]  BY <2>2 DEF Begins
    <3> QED  BY <3>1, FinishAt
  <2> QED  BY <2>1, <2>2
<1>17. ASSUME NEW s \in Stream, NEW f \in Finisher, FinishThread(s, f)  PROVE FinishTyped'
  <2>1. PICK v \in {"no", "test", "set", "close"} : finish' = [finish EXCEPT ![s][f] = v]
    BY <1>17 DEF FinishThread, FinishTests, FinishSets, FinishCloses, Returns
  <2> QED  BY <2>1, FinishAt
<1>18. CASE UNCHANGED vars  BY <1>18 DEF vars
<1> QED
  BY <1>1, <1>2, <1>3, <1>4, <1>5, <1>6, <1>7, <1>8, <1>9, <1>10, <1>11, <1>12, <1>13,
     <1>14, <1>15, <1>16, <1>17, <1>18 DEF Next, Environment

\* Tokens stay within the bound; one agent at a time is revoked or attached.
LEMMA AgentsStep ==
  ASSUME IInv, [Next]_vars
  PROVE  AgentsTyped'
<1> USE HubAssumption DEF HubAssumption, Token, Killer, Finisher, agentVars, hubVars,
      sessionVars, streamVars, finishVars, IInv, Typed, AgentsTyped
<1>1. CASE Stop  BY <1>1 DEF Stop
<1>2. ASSUME NEW a \in Agent, Revoke(a)  PROVE AgentsTyped'  BY <1>2 DEF Revoke, Disconnect
<1>3. CASE RevokeEnds  BY <1>3 DEF RevokeEnds, Disconnected
<1>4. ASSUME NEW n \in Session, NEW a \in Agent, NEW t \in Token, AttachBegins(n, a, t)
       PROVE AgentsTyped'
  BY <1>4 DEF AttachBegins, Disconnect
<1>5. CASE AttachEnds  BY <1>5 DEF AttachEnds, Disconnected
<1>6. ASSUME NEW n \in Session, SessionBreaks(n)  PROVE AgentsTyped'  BY <1>6 DEF SessionBreaks
<1>7. ASSUME NEW n \in Session, ControlEnds(n)  PROVE AgentsTyped'
  BY <1>7 DEF ControlEnds, Disconnect
<1>8. ASSUME NEW n \in Session, NEW s \in Stream, FailureReported(n, s)  PROVE AgentsTyped'
  BY <1>8 DEF FailureReported, Begins
<1>9. ASSUME NEW s \in Stream, NEW a \in Agent, Accept(s, a)  PROVE AgentsTyped'
  BY <1>9 DEF Accept
<1>10. ASSUME NEW s \in Stream, NEW a \in Agent, NEW t \in Token, Claim(s, a, t)
       PROVE AgentsTyped'
  BY <1>10 DEF Claim
<1>11. ASSUME NEW s \in Stream, BridgeEnds(s)  PROVE AgentsTyped'
  BY <1>11 DEF BridgeEnds, DataFinishes, Begins
<1>12. CASE StopThread
  BY <1>12 DEF StopThread, StopGoesOn, Disconnected, StopDisconnects, Disconnect
<1>13. ASSUME NEW k \in Killer, DisconnectThread(k)  PROVE AgentsTyped'
  BY <1>13 DEF DisconnectThread, ClosesControl, FinishesNext, Begins
<1>14. ASSUME NEW n \in Session, ControlThread(n)  PROVE AgentsTyped'
  BY <1>7, <1>14 DEF ControlThread, FailureHandled, ControlCut, ControlOver, Disconnected
<1>15. ASSUME NEW s \in Stream, ForwardThread(s)  PROVE AgentsTyped'
  BY <1>15 DEF ForwardThread, Lookup, Send, ReadyArrives, ReadyTimesOut, DoneArrives,
       ForwardEnds, Moves, Begins
<1>16. ASSUME NEW s \in Stream, DataThread(s)  PROVE AgentsTyped'
  BY <1>11, <1>16 DEF DataThread, Upgrade, UpgradeFails, DataTests, DataSets, BridgeCut,
       DataEnds, Begins
<1>17. ASSUME NEW s \in Stream, NEW f \in Finisher, FinishThread(s, f)  PROVE AgentsTyped'
  BY <1>17 DEF FinishThread, FinishTests, FinishSets, FinishCloses, Returns
<1>18. CASE UNCHANGED vars  BY <1>18 DEF vars
<1> QED
  BY <1>1, <1>2, <1>3, <1>4, <1>5, <1>6, <1>7, <1>8, <1>9, <1>10, <1>11, <1>12, <1>13,
     <1>14, <1>15, <1>16, <1>17, <1>18 DEF Next, Environment

\* Sessions keep their agent, token and WebSocket.
LEMMA SessionsStep ==
  ASSUME IInv, [Next]_vars
  PROVE  SessionsTyped'
<1> USE HubAssumption DEF HubAssumption, Token, Killer, Finisher, agentVars, hubVars,
      sessionVars, streamVars, finishVars, IInv, Typed, SessionsTyped, AgentsTyped
<1>1. CASE Stop  BY <1>1 DEF Stop
<1>2. ASSUME NEW a \in Agent, Revoke(a)  PROVE SessionsTyped'  BY <1>2 DEF Revoke, Disconnect
<1>3. CASE RevokeEnds  BY <1>3 DEF RevokeEnds, Disconnected
<1>4. ASSUME NEW n \in Session, NEW a \in Agent, NEW t \in Token, AttachBegins(n, a, t)
       PROVE SessionsTyped'
  BY <1>4 DEF AttachBegins, Disconnect
<1>5. CASE AttachEnds  BY <1>5 DEF AttachEnds, Disconnected
<1>6. ASSUME NEW n \in Session, SessionBreaks(n)  PROVE SessionsTyped'
  BY <1>6 DEF SessionBreaks
<1>7. ASSUME NEW n \in Session, ControlEnds(n)  PROVE SessionsTyped'
  BY <1>7 DEF ControlEnds, Disconnect
<1>8. ASSUME NEW n \in Session, NEW s \in Stream, FailureReported(n, s)  PROVE SessionsTyped'
  BY <1>8 DEF FailureReported, Begins
<1>9. ASSUME NEW s \in Stream, NEW a \in Agent, Accept(s, a)  PROVE SessionsTyped'
  BY <1>9 DEF Accept
<1>10. ASSUME NEW s \in Stream, NEW a \in Agent, NEW t \in Token, Claim(s, a, t)
       PROVE SessionsTyped'
  BY <1>10 DEF Claim
<1>11. ASSUME NEW s \in Stream, BridgeEnds(s)  PROVE SessionsTyped'
  BY <1>11 DEF BridgeEnds, DataFinishes, Begins
<1>12. CASE StopThread
  BY <1>12 DEF StopThread, StopGoesOn, Disconnected, StopDisconnects, Disconnect
<1>13. ASSUME NEW k \in Killer, DisconnectThread(k)  PROVE SessionsTyped'
  BY <1>13 DEF DisconnectThread, ClosesControl, FinishesNext, Begins
<1>14. ASSUME NEW n \in Session, ControlThread(n)  PROVE SessionsTyped'
  BY <1>7, <1>14 DEF ControlThread, FailureHandled, ControlCut, ControlOver, Disconnected
<1>15. ASSUME NEW s \in Stream, ForwardThread(s)  PROVE SessionsTyped'
  BY <1>15 DEF ForwardThread, Lookup, Send, ReadyArrives, ReadyTimesOut, DoneArrives,
       ForwardEnds, Moves, Begins
<1>16. ASSUME NEW s \in Stream, DataThread(s)  PROVE SessionsTyped'
  BY <1>11, <1>16 DEF DataThread, Upgrade, UpgradeFails, DataTests, DataSets, BridgeCut,
       DataEnds, Begins
<1>17. ASSUME NEW s \in Stream, NEW f \in Finisher, FinishThread(s, f)  PROVE SessionsTyped'
  BY <1>17 DEF FinishThread, FinishTests, FinishSets, FinishCloses, Returns
<1>18. CASE UNCHANGED vars  BY <1>18 DEF vars
<1> QED
  BY <1>1, <1>2, <1>3, <1>4, <1>5, <1>6, <1>7, <1>8, <1>9, <1>10, <1>11, <1>12, <1>13,
     <1>14, <1>15, <1>16, <1>17, <1>18 DEF Next, Environment

\* The threads of claimed streams keep their type.
LEMMA DataStep ==
  ASSUME IInv, [Next]_vars
  PROVE  DataTyped'
<1> USE HubAssumption DEF HubAssumption, Token, Killer, Finisher, agentVars, hubVars,
      sessionVars, streamVars, finishVars, IInv, Typed, DataTyped
<1>1. CASE Stop  BY <1>1 DEF Stop
<1>2. ASSUME NEW a \in Agent, Revoke(a)  PROVE DataTyped'  BY <1>2 DEF Revoke, Disconnect
<1>3. CASE RevokeEnds  BY <1>3 DEF RevokeEnds, Disconnected
<1>4. ASSUME NEW n \in Session, NEW a \in Agent, NEW t \in Token, AttachBegins(n, a, t)
       PROVE DataTyped'
  BY <1>4 DEF AttachBegins, Disconnect
<1>5. CASE AttachEnds  BY <1>5 DEF AttachEnds, Disconnected
<1>6. ASSUME NEW n \in Session, SessionBreaks(n)  PROVE DataTyped'  BY <1>6 DEF SessionBreaks
<1>7. ASSUME NEW n \in Session, ControlEnds(n)  PROVE DataTyped'
  BY <1>7 DEF ControlEnds, Disconnect
<1>8. ASSUME NEW n \in Session, NEW s \in Stream, FailureReported(n, s)  PROVE DataTyped'
  BY <1>8 DEF FailureReported, Begins
<1>9. ASSUME NEW s \in Stream, NEW a \in Agent, Accept(s, a)  PROVE DataTyped'
  BY <1>9 DEF Accept
<1>10. ASSUME NEW s \in Stream, NEW a \in Agent, NEW t \in Token, Claim(s, a, t)
       PROVE DataTyped'
  BY <1>10 DEF Claim
<1>11. ASSUME NEW s \in Stream, BridgeEnds(s)  PROVE DataTyped'
  BY <1>11 DEF BridgeEnds, DataFinishes, Begins
<1>12. CASE StopThread
  BY <1>12 DEF StopThread, StopGoesOn, Disconnected, StopDisconnects, Disconnect
<1>13. ASSUME NEW k \in Killer, DisconnectThread(k)  PROVE DataTyped'
  BY <1>13 DEF DisconnectThread, ClosesControl, FinishesNext, Begins
<1>14. ASSUME NEW n \in Session, ControlThread(n)  PROVE DataTyped'
  BY <1>7, <1>14 DEF ControlThread, FailureHandled, ControlCut, ControlOver, Disconnected
<1>15. ASSUME NEW s \in Stream, ForwardThread(s)  PROVE DataTyped'
  BY <1>15 DEF ForwardThread, Lookup, Send, ReadyArrives, ReadyTimesOut, DoneArrives,
       ForwardEnds, Moves, Begins
<1>16. ASSUME NEW s \in Stream, DataThread(s)  PROVE DataTyped'
  BY <1>11, <1>16 DEF DataThread, Upgrade, UpgradeFails, DataTests, DataSets, BridgeCut,
       DataEnds, Begins
<1>17. ASSUME NEW s \in Stream, NEW f \in Finisher, FinishThread(s, f)  PROVE DataTyped'
  BY <1>17 DEF FinishThread, FinishTests, FinishSets, FinishCloses, Returns
<1>18. CASE UNCHANGED vars  BY <1>18 DEF vars
<1> QED
  BY <1>1, <1>2, <1>3, <1>4, <1>5, <1>6, <1>7, <1>8, <1>9, <1>10, <1>11, <1>12, <1>13,
     <1>14, <1>15, <1>16, <1>17, <1>18 DEF Next, Environment

\* Connections are opened and closed, `ready` and `done` are set.
LEMMA ConnectionsStep ==
  ASSUME IInv, [Next]_vars
  PROVE  ConnectionsTyped'
<1> USE HubAssumption DEF HubAssumption, Token, Killer, Finisher, agentVars, hubVars,
      sessionVars, streamVars, finishVars, IInv, Typed, ConnectionsTyped
<1>1. CASE Stop  BY <1>1 DEF Stop
<1>2. ASSUME NEW a \in Agent, Revoke(a)  PROVE ConnectionsTyped'  BY <1>2 DEF Revoke, Disconnect
<1>3. CASE RevokeEnds  BY <1>3 DEF RevokeEnds, Disconnected
<1>4. ASSUME NEW n \in Session, NEW a \in Agent, NEW t \in Token, AttachBegins(n, a, t)
       PROVE ConnectionsTyped'
  BY <1>4 DEF AttachBegins, Disconnect
<1>5. CASE AttachEnds  BY <1>5 DEF AttachEnds, Disconnected
<1>6. ASSUME NEW n \in Session, SessionBreaks(n)  PROVE ConnectionsTyped'
  BY <1>6 DEF SessionBreaks
<1>7. ASSUME NEW n \in Session, ControlEnds(n)  PROVE ConnectionsTyped'
  BY <1>7 DEF ControlEnds, Disconnect
<1>8. ASSUME NEW n \in Session, NEW s \in Stream, FailureReported(n, s)
       PROVE ConnectionsTyped'
  BY <1>8 DEF FailureReported, Begins
<1>9. ASSUME NEW s \in Stream, NEW a \in Agent, Accept(s, a)  PROVE ConnectionsTyped'
  BY <1>9 DEF Accept
<1>10. ASSUME NEW s \in Stream, NEW a \in Agent, NEW t \in Token, Claim(s, a, t)
       PROVE ConnectionsTyped'
  BY <1>10 DEF Claim
<1>11. ASSUME NEW s \in Stream, BridgeEnds(s)  PROVE ConnectionsTyped'
  BY <1>11 DEF BridgeEnds, DataFinishes, Begins
<1>12. CASE StopThread
  BY <1>12 DEF StopThread, StopGoesOn, Disconnected, StopDisconnects, Disconnect
<1>13. ASSUME NEW k \in Killer, DisconnectThread(k)  PROVE ConnectionsTyped'
  BY <1>13 DEF DisconnectThread, ClosesControl, FinishesNext, Begins
<1>14. ASSUME NEW n \in Session, ControlThread(n)  PROVE ConnectionsTyped'
  BY <1>7, <1>14 DEF ControlThread, FailureHandled, ControlCut, ControlOver, Disconnected
<1>15. ASSUME NEW s \in Stream, ForwardThread(s)  PROVE ConnectionsTyped'
  BY <1>15 DEF ForwardThread, Lookup, Send, ReadyArrives, ReadyTimesOut, DoneArrives,
       ForwardEnds, Moves, Begins
<1>16. ASSUME NEW s \in Stream, DataThread(s)  PROVE ConnectionsTyped'
  BY <1>11, <1>16 DEF DataThread, Upgrade, UpgradeFails, DataTests, DataSets, BridgeCut,
       DataEnds, Begins
<1>17. ASSUME NEW s \in Stream, NEW f \in Finisher, FinishThread(s, f)
       PROVE ConnectionsTyped'
  BY <1>17 DEF FinishThread, FinishTests, FinishSets, FinishCloses, Returns
<1>18. CASE UNCHANGED vars  BY <1>18 DEF vars
<1> QED
  BY <1>1, <1>2, <1>3, <1>4, <1>5, <1>6, <1>7, <1>8, <1>9, <1>10, <1>11, <1>12, <1>13,
     <1>14, <1>15, <1>16, <1>17, <1>18 DEF Next, Environment

\* Owners are set on acceptance.
LEMMA StartedStep ==
  ASSUME IInv, [Next]_vars
  PROVE  StartedInv'
<1> USE HubAssumption DEF HubAssumption, Token, Killer, Finisher, agentVars, hubVars,
      sessionVars, streamVars, finishVars, IInv, Typed, StartedInv, ForwardTyped
<1>1. CASE Stop  BY <1>1 DEF Stop
<1>2. ASSUME NEW a \in Agent, Revoke(a)  PROVE StartedInv'  BY <1>2 DEF Revoke, Disconnect
<1>3. CASE RevokeEnds  BY <1>3 DEF RevokeEnds, Disconnected
<1>4. ASSUME NEW n \in Session, NEW a \in Agent, NEW t \in Token, AttachBegins(n, a, t)
       PROVE StartedInv'
  BY <1>4 DEF AttachBegins, Disconnect
<1>5. CASE AttachEnds  BY <1>5 DEF AttachEnds, Disconnected
<1>6. ASSUME NEW n \in Session, SessionBreaks(n)  PROVE StartedInv'  BY <1>6 DEF SessionBreaks
<1>7. ASSUME NEW n \in Session, ControlEnds(n)  PROVE StartedInv'
  BY <1>7 DEF ControlEnds, Disconnect
<1>8. ASSUME NEW n \in Session, NEW s \in Stream, FailureReported(n, s)  PROVE StartedInv'
  BY <1>8 DEF FailureReported, Begins
<1>9. ASSUME NEW s \in Stream, NEW a \in Agent, Accept(s, a)  PROVE StartedInv'
  BY <1>9 DEF Accept
<1>10. ASSUME NEW s \in Stream, NEW a \in Agent, NEW t \in Token, Claim(s, a, t)
       PROVE StartedInv'
  BY <1>10 DEF Claim
<1>11. ASSUME NEW s \in Stream, BridgeEnds(s)  PROVE StartedInv'
  BY <1>11 DEF BridgeEnds, DataFinishes, Begins
<1>12. CASE StopThread
  BY <1>12 DEF StopThread, StopGoesOn, Disconnected, StopDisconnects, Disconnect
<1>13. ASSUME NEW k \in Killer, DisconnectThread(k)  PROVE StartedInv'
  BY <1>13 DEF DisconnectThread, ClosesControl, FinishesNext, Begins
<1>14. ASSUME NEW n \in Session, ControlThread(n)  PROVE StartedInv'
  BY <1>7, <1>14 DEF ControlThread, FailureHandled, ControlCut, ControlOver, Disconnected
<1>15. ASSUME NEW s \in Stream, ForwardThread(s)  PROVE StartedInv'
  BY <1>15 DEF ForwardThread, Lookup, Send, ReadyArrives, ReadyTimesOut, DoneArrives,
       ForwardEnds, Moves, Begins
<1>16. ASSUME NEW s \in Stream, DataThread(s)  PROVE StartedInv'
  BY <1>11, <1>16 DEF DataThread, Upgrade, UpgradeFails, DataTests, DataSets, BridgeCut,
       DataEnds, Begins
<1>17. ASSUME NEW s \in Stream, NEW f \in Finisher, FinishThread(s, f)  PROVE StartedInv'
  BY <1>17 DEF FinishThread, FinishTests, FinishSets, FinishCloses, Returns
<1>18. CASE UNCHANGED vars  BY <1>18 DEF vars
<1> QED
  BY <1>1, <1>2, <1>3, <1>4, <1>5, <1>6, <1>7, <1>8, <1>9, <1>10, <1>11, <1>12, <1>13,
     <1>14, <1>15, <1>16, <1>17, <1>18 DEF Next, Environment

\* Nothing is done to a connection before it is accepted.
LEMMA FreshStep ==
  ASSUME IInv, [Next]_vars
  PROVE  FreshInv'
<1> USE HubAssumption DEF HubAssumption, Token, Killer, Finisher, agentVars, hubVars,
      sessionVars, streamVars, finishVars, IInv, Typed, FreshInv, PendingInv, ForwardTyped,
      DataTyped, ConnectionsTyped, KillersTyped, FinishTyped, HubTyped, StreamsOf, Returns
<1>1. CASE Stop  BY <1>1 DEF Stop
<1>2. ASSUME NEW a \in Agent, Revoke(a)  PROVE FreshInv'  BY <1>2 DEF Revoke, Disconnect
<1>3. CASE RevokeEnds  BY <1>3 DEF RevokeEnds, Disconnected
<1>4. ASSUME NEW n \in Session, NEW a \in Agent, NEW t \in Token, AttachBegins(n, a, t)
       PROVE FreshInv'
  BY <1>4 DEF AttachBegins, Disconnect
<1>5. CASE AttachEnds  BY <1>5 DEF AttachEnds, Disconnected
<1>6. ASSUME NEW n \in Session, SessionBreaks(n)  PROVE FreshInv'  BY <1>6 DEF SessionBreaks
<1>7. ASSUME NEW n \in Session, ControlEnds(n)  PROVE FreshInv'
  <2>1. UNCHANGED <<streamVars, pending>>  BY <1>7 DEF ControlEnds
  <2>2. CASE Disconnect(n, session[n].agent)
    <3>1. finish' = finish /\ \A k \in Killer : victims'[k] \subseteq victims[k] \cup pending
      BY <2>2 DEF Disconnect
    <3> QED  BY <2>1, <3>1
  <2>3. CASE UNCHANGED finishVars  BY <2>1, <2>3
  <2> QED  BY <1>7, <2>2, <2>3 DEF ControlEnds
<1>8. ASSUME NEW n \in Session, NEW s \in Stream, FailureReported(n, s)  PROVE FreshInv'
  BY <1>8 DEF FailureReported, Begins
<1>9. ASSUME NEW s \in Stream, NEW a \in Agent, Accept(s, a)  PROVE FreshInv'
  BY <1>9 DEF Accept
<1>10. ASSUME NEW s \in Stream, NEW a \in Agent, NEW t \in Token, Claim(s, a, t)
       PROVE FreshInv'
  BY <1>10 DEF Claim, Claimable
<1>11. ASSUME NEW s \in Stream, BridgeEnds(s)  PROVE FreshInv'
  BY <1>11 DEF BridgeEnds, DataFinishes, Begins
<1>12. CASE StopThread
  BY <1>12 DEF StopThread, StopGoesOn, Disconnected, StopDisconnects, Disconnect
<1>13. ASSUME NEW k \in Killer, DisconnectThread(k)  PROVE FreshInv'
  <2>1. CASE ClosesControl(k)  BY <2>1 DEF ClosesControl
  <2>2. CASE FinishesNext(k)  BY <2>2 DEF FinishesNext, Begins
  <2> QED  BY <1>13, <2>1, <2>2 DEF DisconnectThread
<1>14. ASSUME NEW n \in Session, ControlThread(n)  PROVE FreshInv'
  BY <1>7, <1>14 DEF ControlThread, FailureHandled, ControlCut, ControlOver, Disconnected
<1>15. ASSUME NEW s \in Stream, ForwardThread(s)  PROVE FreshInv'
  <2>1. CASE Lookup(s)  BY <2>1 DEF Lookup
  <2>2. CASE Send(s)  BY <2>2 DEF Send, Moves, Begins
  <2>3. CASE ReadyArrives(s)  BY <2>3 DEF ReadyArrives, Moves, Begins
  <2>4. CASE ReadyTimesOut(s)  BY <2>4 DEF ReadyTimesOut, Moves, Begins
  <2>5. CASE DoneArrives(s)  BY <2>5 DEF DoneArrives, Moves, Begins
  <2>6. CASE ForwardEnds(s)  BY <2>6 DEF ForwardEnds, Finishing
  <2> QED  BY <1>15, <2>1, <2>2, <2>3, <2>4, <2>5, <2>6 DEF ForwardThread
<1>16. ASSUME NEW s \in Stream, DataThread(s)  PROVE FreshInv'
  <2>1. CASE Upgrade(s)  BY <2>1 DEF Upgrade
  <2>2. CASE UpgradeFails(s)  BY <2>2 DEF UpgradeFails, Begins
  <2>3. CASE DataTests(s)  BY <2>3 DEF DataTests
  <2>4. CASE DataSets(s)  BY <2>4 DEF DataSets
  <2>5. CASE DataEnds(s)  BY <2>5 DEF DataEnds
  <2> QED  BY <1>11, <1>16, <2>1, <2>2, <2>3, <2>4, <2>5 DEF DataThread, BridgeCut
<1>17. ASSUME NEW s \in Stream, NEW f \in Finisher, FinishThread(s, f)  PROVE FreshInv'
  <2>1. CASE FinishTests(s, f)
    <3>1. PICK v \in {"no", "set"} : finish' = [finish EXCEPT ![s][f] = v]
      BY <2>1 DEF FinishTests, Returns
    <3>2. forward[s] # "none" /\ UNCHANGED <<streamVars, pending>>  BY <2>1 DEF FinishTests
    <3>3. \A k \in Killer : victims'[k] \subseteq victims[k]  BY <2>1 DEF FinishTests, Returns
    <3>4. \A t \in Stream, g \in Finisher : t # s => finish'[t][g] = finish[t][g]
      BY <3>1, FinishRead
    <3>5. ASSUME NEW t \in Stream, forward[t] = "none", NEW g \in Finisher
          PROVE  finish'[t][g] = "no"
      <4>1. t # s /\ finish[t][g] = "no"  BY <3>2, <3>5
      <4> QED  BY <3>4, <4>1
    <3>6. \A t \in Stream : forward[t] = "none" => \A k \in Killer : t \notin victims'[k]
      BY <3>3
    <3> QED  BY <3>2, <3>5, <3>6
  <2>2. CASE FinishSets(s, f)  BY <2>2 DEF FinishSets
  <2>3. CASE FinishCloses(s, f)  BY <2>3 DEF FinishCloses, Returns
  <2> QED  BY <1>17, <2>1, <2>2, <2>3 DEF FinishThread
<1>18. CASE UNCHANGED vars  BY <1>18 DEF vars
<1> QED
  BY <1>1, <1>2, <1>3, <1>4, <1>5, <1>6, <1>7, <1>8, <1>9, <1>10, <1>11, <1>12, <1>13,
     <1>14, <1>15, <1>16, <1>17, <1>18 DEF Next, Environment

\* A stream is registered with the session it asks, and removed at its end.
LEMMA PendingStep ==
  ASSUME IInv, [Next]_vars
  PROVE  PendingInv'
<1> USE HubAssumption DEF HubAssumption, Token, Killer, Finisher, agentVars, hubVars,
      sessionVars, streamVars, finishVars, IInv, Typed, PendingInv, ForwardTyped, HubTyped,
      StartedInv, FreshInv
<1>1. CASE Stop  BY <1>1 DEF Stop
<1>2. ASSUME NEW a \in Agent, Revoke(a)  PROVE PendingInv'  BY <1>2 DEF Revoke, Disconnect
<1>3. CASE RevokeEnds  BY <1>3 DEF RevokeEnds, Disconnected
<1>4. ASSUME NEW n \in Session, NEW a \in Agent, NEW t \in Token, AttachBegins(n, a, t)
       PROVE PendingInv'
  BY <1>4 DEF AttachBegins, Disconnect
<1>5. CASE AttachEnds  BY <1>5 DEF AttachEnds, Disconnected
<1>6. ASSUME NEW n \in Session, SessionBreaks(n)  PROVE PendingInv'  BY <1>6 DEF SessionBreaks
<1>7. ASSUME NEW n \in Session, ControlEnds(n)  PROVE PendingInv'
  BY <1>7 DEF ControlEnds, Disconnect
<1>8. ASSUME NEW n \in Session, NEW s \in Stream, FailureReported(n, s)  PROVE PendingInv'
  BY <1>8 DEF FailureReported, Begins
<1>9. ASSUME NEW s \in Stream, NEW a \in Agent, Accept(s, a)  PROVE PendingInv'
  BY <1>9 DEF Accept
<1>10. ASSUME NEW s \in Stream, NEW a \in Agent, NEW t \in Token, Claim(s, a, t)
       PROVE PendingInv'
  BY <1>10 DEF Claim
<1>11. ASSUME NEW s \in Stream, BridgeEnds(s)  PROVE PendingInv'
  BY <1>11 DEF BridgeEnds, DataFinishes, Begins
<1>12. CASE StopThread
  BY <1>12 DEF StopThread, StopGoesOn, Disconnected, StopDisconnects, Disconnect
<1>13. ASSUME NEW k \in Killer, DisconnectThread(k)  PROVE PendingInv'
  BY <1>13 DEF DisconnectThread, ClosesControl, FinishesNext, Begins
<1>14. ASSUME NEW n \in Session, ControlThread(n)  PROVE PendingInv'
  BY <1>7, <1>14 DEF ControlThread, FailureHandled, ControlCut, ControlOver, Disconnected
<1>15. ASSUME NEW s \in Stream, ForwardThread(s)  PROVE PendingInv'
  <2>1. CASE Lookup(s)  BY <2>1 DEF Lookup, Available
  <2>2. CASE Send(s)  BY <2>2 DEF Send, Moves, Begins
  <2>3. CASE ReadyArrives(s)  BY <2>3 DEF ReadyArrives, Moves, Begins
  <2>4. CASE ReadyTimesOut(s)  BY <2>4 DEF ReadyTimesOut, Moves, Begins
  <2>5. CASE DoneArrives(s)  BY <2>5 DEF DoneArrives, Moves, Begins
  <2>6. CASE ForwardEnds(s)  BY <2>6 DEF ForwardEnds, Finishing
  <2> QED  BY <1>15, <2>1, <2>2, <2>3, <2>4, <2>5, <2>6 DEF ForwardThread
<1>16. ASSUME NEW s \in Stream, DataThread(s)  PROVE PendingInv'
  BY <1>11, <1>16 DEF DataThread, Upgrade, UpgradeFails, DataTests, DataSets, BridgeCut,
       DataEnds, Begins
<1>17. ASSUME NEW s \in Stream, NEW f \in Finisher, FinishThread(s, f)  PROVE PendingInv'
  BY <1>17 DEF FinishThread, FinishTests, FinishSets, FinishCloses, Returns
<1>18. CASE UNCHANGED vars  BY <1>18 DEF vars
<1> QED
  BY <1>1, <1>2, <1>3, <1>4, <1>5, <1>6, <1>7, <1>8, <1>9, <1>10, <1>11, <1>12, <1>13,
     <1>14, <1>15, <1>16, <1>17, <1>18 DEF Next, Environment

\* Tokens change only under agents.lock, with the session dropped in the same step.
LEMMA SessionStep ==
  ASSUME IInv, [Next]_vars
  PROVE  SessionInv'
<1> USE HubAssumption DEF HubAssumption, Token, Killer, Finisher, agentVars, hubVars,
      sessionVars, streamVars, finishVars, IInv, Typed, SessionInv, SessionsTyped,
      AgentsTyped, HubTyped, KillersTyped, RegistryFree, Authentic
<1>1. CASE Stop  BY <1>1 DEF Stop
<1>2. ASSUME NEW a \in Agent, Revoke(a)  PROVE SessionInv'  BY <1>2 DEF Revoke, Disconnect
<1>3. CASE RevokeEnds  BY <1>3 DEF RevokeEnds, Disconnected
<1>4. ASSUME NEW n \in Session, NEW a \in Agent, NEW t \in Token, AttachBegins(n, a, t)
       PROVE SessionInv'
  BY <1>4 DEF AttachBegins, Disconnect
<1>5. CASE AttachEnds
  <2>1. attaching \in Session /\ session[attaching].agent \in Agent /\ revoking = None
    BY <1>5 DEF AttachEnds
  <2>2. CASE Admitted
    <3>1. controls' = [controls EXCEPT ![session[attaching].agent] = attaching]
      BY <1>5, <2>2 DEF AttachEnds
    <3>2. UNCHANGED <<session, token, revoking, dropped>> /\ attaching' = None
      BY <1>5, <2>2 DEF AttachEnds, Disconnected
    <3>3. loop' = [loop EXCEPT ![attaching] = "receive"]  BY <1>5 DEF AttachEnds
    <3>4. \A n \in Session : loop'[n] # "none" => session[n].ws # "new"  BY <2>1, <3>3
    <3> QED  BY <2>1, <3>1, <3>2, <3>4
  <2>3. CASE ~Admitted
    <3>1. session' = [session EXCEPT ![attaching].ws = "closed"]  BY <1>5, <2>3 DEF AttachEnds
    <3>2. \A n \in Session :
            /\ session'[n].agent = session[n].agent /\ session'[n].token = session[n].token
            /\ session'[n].ws = "new" <=> session[n].ws = "new"
      BY <1>5, <2>1, <3>1 DEF AttachEnds
    <3>3. loop' = [loop EXCEPT ![attaching] = "receive"]  BY <1>5 DEF AttachEnds
    <3>4. \A n \in Session : loop'[n] # "none" => session[n].ws # "new"
      BY <1>5, <2>1, <3>3 DEF AttachEnds
    <3>5. UNCHANGED <<token, revoking, controls, dropped>> /\ attaching' = None
      BY <1>5, <2>3 DEF AttachEnds, Disconnected
    <3>6. SessionsKept  BY <3>2, <3>4, <3>5 DEF SessionsKept
    <3> QED  BY <3>6, SessionsStay DEF SessionInv
  <2> QED  BY <2>2, <2>3
<1>6. ASSUME NEW n \in Session, SessionBreaks(n)  PROVE SessionInv'  BY <1>6 DEF SessionBreaks
<1>7. ASSUME NEW n \in Session, ControlEnds(n)  PROVE SessionInv'
  BY <1>7 DEF ControlEnds, Disconnect
<1>8. ASSUME NEW n \in Session, NEW s \in Stream, FailureReported(n, s)  PROVE SessionInv'
  BY <1>8 DEF FailureReported, Begins
<1>9. ASSUME NEW s \in Stream, NEW a \in Agent, Accept(s, a)  PROVE SessionInv'
  BY <1>9 DEF Accept
<1>10. ASSUME NEW s \in Stream, NEW a \in Agent, NEW t \in Token, Claim(s, a, t)
       PROVE SessionInv'
  BY <1>10 DEF Claim
<1>11. ASSUME NEW s \in Stream, BridgeEnds(s)  PROVE SessionInv'
  BY <1>11 DEF BridgeEnds, DataFinishes, Begins
<1>12. CASE StopThread
  BY <1>12 DEF StopThread, StopGoesOn, Disconnected, StopDisconnects, Disconnect
<1>13. ASSUME NEW k \in Killer, DisconnectThread(k)  PROVE SessionInv'
  <2>1. CASE ClosesControl(k)
    <3>1. \A n \in Session : n = dropped[k] => session[n].ws # "new"  OBVIOUS
    <3>2. SessionsKept  BY <2>1, <3>1 DEF ClosesControl, SessionsKept
    <3> QED  BY <3>2, SessionsStay DEF SessionInv
  <2>2. CASE FinishesNext(k)  BY <2>2 DEF FinishesNext, Begins
  <2> QED  BY <1>13, <2>1, <2>2 DEF DisconnectThread
<1>14. ASSUME NEW n \in Session, ControlThread(n)  PROVE SessionInv'
  <2>1. CASE FailureHandled(n)  BY <2>1 DEF FailureHandled
  <2>2. CASE ControlOver(n)
    <3>1. SessionsKept  BY <2>2 DEF ControlOver, Disconnected, SessionsKept
    <3> QED  BY <3>1, SessionsStay DEF SessionInv
  <2> QED  BY <1>7, <1>14, <2>1, <2>2 DEF ControlThread, ControlCut
<1>15. ASSUME NEW s \in Stream, ForwardThread(s)  PROVE SessionInv'
  BY <1>15 DEF ForwardThread, Lookup, Send, ReadyArrives, ReadyTimesOut, DoneArrives,
       ForwardEnds, Moves, Begins
<1>16. ASSUME NEW s \in Stream, DataThread(s)  PROVE SessionInv'
  BY <1>11, <1>16 DEF DataThread, Upgrade, UpgradeFails, DataTests, DataSets, BridgeCut,
       DataEnds, Begins
<1>17. ASSUME NEW s \in Stream, NEW f \in Finisher, FinishThread(s, f)  PROVE SessionInv'
  BY <1>17 DEF FinishThread, FinishTests, FinishSets, FinishCloses, Returns
<1>18. CASE UNCHANGED vars  BY <1>18 DEF vars
<1> QED
  BY <1>1, <1>2, <1>3, <1>4, <1>5, <1>6, <1>7, <1>8, <1>9, <1>10, <1>11, <1>12, <1>13,
     <1>14, <1>15, <1>16, <1>17, <1>18 DEF Next, Environment

\* A thread of a stream begins finish() only at its end.
LEMMA ThreadStep ==
  ASSUME IInv, [Next]_vars
  PROVE  ThreadInv'
<1> USE HubAssumption DEF HubAssumption, Token, Killer, Finisher, agentVars, hubVars,
      sessionVars, streamVars, finishVars, IInv, Typed, ThreadInv, ClaimInv, Claimable,
      FreshInv, ForwardTyped, DataTyped, FinishTyped, Finishing
<1>1. CASE Stop  BY <1>1 DEF Stop
<1>2. ASSUME NEW a \in Agent, Revoke(a)  PROVE ThreadInv'  BY <1>2 DEF Revoke, Disconnect
<1>3. CASE RevokeEnds  BY <1>3 DEF RevokeEnds, Disconnected
<1>4. ASSUME NEW n \in Session, NEW a \in Agent, NEW t \in Token, AttachBegins(n, a, t)
       PROVE ThreadInv'
  BY <1>4 DEF AttachBegins, Disconnect
<1>5. CASE AttachEnds  BY <1>5 DEF AttachEnds, Disconnected
<1>6. ASSUME NEW n \in Session, SessionBreaks(n)  PROVE ThreadInv'  BY <1>6 DEF SessionBreaks
<1>7. ASSUME NEW n \in Session, ControlEnds(n)  PROVE ThreadInv'
  BY <1>7 DEF ControlEnds, Disconnect
<1>8. ASSUME NEW n \in Session, NEW s \in Stream, FailureReported(n, s)  PROVE ThreadInv'
  BY <1>8 DEF FailureReported, Begins
<1>9. ASSUME NEW s \in Stream, NEW a \in Agent, Accept(s, a)  PROVE ThreadInv'
  BY <1>9 DEF Accept
<1>10. ASSUME NEW s \in Stream, NEW a \in Agent, NEW t \in Token, Claim(s, a, t)
       PROVE ThreadInv'
  BY <1>10 DEF Claim
<1>11. ASSUME NEW s \in Stream, BridgeEnds(s)  PROVE ThreadInv'
  BY <1>11 DEF BridgeEnds, DataFinishes, Begins
<1>12. CASE StopThread
  BY <1>12 DEF StopThread, StopGoesOn, Disconnected, StopDisconnects, Disconnect
<1>13. ASSUME NEW k \in Killer, DisconnectThread(k)  PROVE ThreadInv'
  BY SMTT(30), <1>13 DEF DisconnectThread, ClosesControl, FinishesNext, Begins
<1>14. ASSUME NEW n \in Session, ControlThread(n)  PROVE ThreadInv'
  BY <1>7, <1>14 DEF ControlThread, FailureHandled, ControlCut, ControlOver, Disconnected
<1>15. ASSUME NEW s \in Stream, ForwardThread(s)  PROVE ThreadInv'
  <2>1. CASE Lookup(s)  BY <2>1 DEF Lookup
  <2>2. CASE Send(s)  BY <2>2 DEF Send, Moves, Begins
  <2>3. CASE ReadyArrives(s)  BY <2>3 DEF ReadyArrives, Moves, Begins
  <2>4. CASE ReadyTimesOut(s)  BY <2>4 DEF ReadyTimesOut, Moves, Begins
  <2>5. CASE DoneArrives(s)  BY <2>5 DEF DoneArrives, Moves, Begins
  <2>6. CASE ForwardEnds(s)  BY <2>6 DEF ForwardEnds
  <2> QED  BY <1>15, <2>1, <2>2, <2>3, <2>4, <2>5, <2>6 DEF ForwardThread
<1>16. ASSUME NEW s \in Stream, DataThread(s)  PROVE ThreadInv'
  BY <1>11, <1>16 DEF DataThread, Upgrade, UpgradeFails, DataTests, DataSets, BridgeCut,
       DataEnds, Begins
<1>17. ASSUME NEW s \in Stream, NEW f \in Finisher, FinishThread(s, f)  PROVE ThreadInv'
  <2>1. PICK v \in {"no", "test", "set", "close"} : finish' = [finish EXCEPT ![s][f] = v]
    BY <1>17 DEF FinishThread, FinishTests, FinishSets, FinishCloses, Returns
  <2>2. UNCHANGED <<forward, data>> /\ finish[s][f] # "no"
    BY <1>17 DEF FinishThread, FinishTests, FinishSets, FinishCloses
  <2>3. \A t \in Stream, g \in Finisher : finish'[t][g] = IF t = s /\ g = f THEN v ELSE finish[t][g]
    BY <2>1, FinishRead
  <2> QED  BY <2>2, <2>3
<1>18. CASE UNCHANGED vars  BY <1>18 DEF vars
<1> QED
  BY <1>1, <1>2, <1>3, <1>4, <1>5, <1>6, <1>7, <1>8, <1>9, <1>10, <1>11, <1>12, <1>13,
     <1>14, <1>15, <1>16, <1>17, <1>18 DEF Next, Environment

\* Streams are finished in order: tested, set, closed.
LEMMA DoneStep ==
  ASSUME IInv, [Next]_vars
  PROVE  DoneInv'
<1> USE HubAssumption DEF HubAssumption, Token, Killer, Finisher, agentVars, hubVars,
      sessionVars, streamVars, finishVars, IInv, Typed, ThreadInv, DoneInv, FreshInv,
      PendingInv, ForwardTyped, HubTyped, ConnectionsTyped, FinishTyped, Ending
<1>1. CASE Stop  BY <1>1 DEF Stop
<1>2. ASSUME NEW a \in Agent, Revoke(a)  PROVE DoneInv'  BY <1>2 DEF Revoke, Disconnect
<1>3. CASE RevokeEnds  BY <1>3 DEF RevokeEnds, Disconnected
<1>4. ASSUME NEW n \in Session, NEW a \in Agent, NEW t \in Token, AttachBegins(n, a, t)
       PROVE DoneInv'
  BY <1>4 DEF AttachBegins, Disconnect
<1>5. CASE AttachEnds  BY <1>5 DEF AttachEnds, Disconnected
<1>6. ASSUME NEW n \in Session, SessionBreaks(n)  PROVE DoneInv'  BY <1>6 DEF SessionBreaks
<1>7. ASSUME NEW n \in Session, ControlEnds(n)  PROVE DoneInv'
  BY <1>7 DEF ControlEnds, Disconnect
<1>8. ASSUME NEW n \in Session, NEW s \in Stream, FailureReported(n, s)  PROVE DoneInv'
  BY <1>8 DEF FailureReported, Begins
<1>9. ASSUME NEW s \in Stream, NEW a \in Agent, Accept(s, a)  PROVE DoneInv'  BY <1>9 DEF Accept
<1>10. ASSUME NEW s \in Stream, NEW a \in Agent, NEW t \in Token, Claim(s, a, t)
       PROVE DoneInv'
  BY <1>10 DEF Claim
<1>11. ASSUME NEW s \in Stream, BridgeEnds(s)  PROVE DoneInv'
  BY <1>11 DEF BridgeEnds, DataFinishes, Begins
<1>12. CASE StopThread
  BY <1>12 DEF StopThread, StopGoesOn, Disconnected, StopDisconnects, Disconnect
<1>13. ASSUME NEW k \in Killer, DisconnectThread(k)  PROVE DoneInv'
  <2>1. CASE ClosesControl(k)  BY <2>1 DEF ClosesControl
  <2>2. CASE FinishesNext(k)
    <3>1. PICK s \in Stream :
            s \in victims[k] /\ finish' = [finish EXCEPT ![s][k] = "test"] /\ finish[s][k] = "no"
      BY <2>2 DEF FinishesNext, Begins, Finishing, KillersTyped
    <3>2. k \in Finisher /\ k # "forward"  OBVIOUS
    <3>3. \A t \in Stream : Ending(t) => Ending(t)'  BY <3>1, <3>2, EndingStays
    <3>4. \A t \in Stream, g \in Finisher :
            finish'[t][g] = IF t = s /\ g = k THEN "test" ELSE finish[t][g]
      BY <3>1, <3>2, FinishRead
    <3> QED  BY <2>2, <3>2, <3>3, <3>4 DEF FinishesNext
  <2> QED  BY <1>13, <2>1, <2>2 DEF DisconnectThread
<1>14. ASSUME NEW n \in Session, ControlThread(n)  PROVE DoneInv'
  BY <1>7, <1>14 DEF ControlThread, FailureHandled, ControlCut, ControlOver, Disconnected
<1>15. ASSUME NEW s \in Stream, ForwardThread(s)  PROVE DoneInv'
  <2>1. CASE Lookup(s)
    <3>1. s \notin pending /\ (\A t \in Stream : t # s => forward'[t] = forward[t])
      BY SMTT(30), <2>1 DEF Lookup
    <3>2. \A t \in pending' : t = s => forward'[t] = "send"  BY <2>1, <3>1 DEF Lookup
    <3>3. \A t \in pending' : t # s => t \in pending  BY <2>1 DEF Lookup
    <3>4. UNCHANGED <<finish, done, tcp>>  BY <2>1 DEF Lookup
    <3>5. \A t \in Stream, f \in Finisher : finish'[t][f] = "close" => done'[t]  BY <3>4
    <3>6. \A t \in Stream : done'[t] => tcp'[t] = "closed" \/ Ending(t)'  BY <3>4
    <3>7. \A t \in pending' :
            forward'[t] = "finish" /\ finish'[t]["forward"] = "no" => done'[t]
      <4>1. TAKE t \in pending'
      <4>2. CASE t = s  BY <3>2, <4>2
      <4>3. CASE t # s
        <5>1. t \in pending /\ t \in Stream  BY <3>3, <4>3
        <5>2. forward'[t] = forward[t]  BY <3>1, <4>3, <5>1
        <5> QED  BY <3>4, <5>1, <5>2
      <4> QED  BY <4>2, <4>3
    <3> QED  BY <3>5, <3>6, <3>7
  <2>2. ASSUME forward[s] # "finish", Moves(s, "finish")  PROVE DoneInv'
    <3>1. finish' = [finish EXCEPT ![s]["forward"] = "test"] /\ finish[s]["forward"] = "no"
      BY <2>2 DEF Moves, Begins
    <3>2. \A t \in Stream : Ending(t) => Ending(t)'  BY <3>1, EndingStays
    <3>3. \A t \in Stream, h \in Finisher :
            finish'[t][h] = IF t = s /\ h = "forward" THEN "test" ELSE finish[t][h]
      BY <3>1, FinishRead
    <3>4. UNCHANGED <<done, tcp, pending>> /\ \A t \in Stream : t # s => forward'[t] = forward[t]
      BY <2>2 DEF Moves
    <3>5. \A t \in Stream, h \in Finisher : finish'[t][h] = "close" => done'[t]
      BY <3>3, <3>4
    <3>6. \A t \in pending : forward'[t] = "finish" /\ finish'[t]["forward"] = "no" => done[t]
      BY <3>3, <3>4
    <3>7. \A t \in Stream : done[t] => tcp[t] = "closed" \/ Ending(t)'  BY <3>2
    <3> QED  BY <3>4, <3>5, <3>6, <3>7
  <2>3. CASE Send(s)
    <3>1. CASE Moves(s, "ready")  BY <3>1 DEF Moves
    <3> QED  BY <2>2, <2>3, <3>1 DEF Send
  <2>4. CASE ReadyArrives(s)  BY <2>4 DEF ReadyArrives, Moves, Begins
  <2>5. CASE ReadyTimesOut(s) \/ DoneArrives(s)  BY <2>2, <2>5 DEF ReadyTimesOut, DoneArrives
  <2>6. CASE ForwardEnds(s)
    <3>1. /\ UNCHANGED <<finish, done>>
          /\ pending' = pending \ {s} /\ tcp' = [tcp EXCEPT ![s] = "closed"]
      BY <2>6 DEF ForwardEnds
    <3>2. \A t \in pending' : forward'[t] = forward[t]  BY <2>6, <3>1 DEF ForwardEnds
    <3>3. \A t \in Stream : tcp[t] = "closed" => tcp'[t] = "closed"  BY <3>1
    <3> QED  BY <3>1, <3>2, <3>3
  <2> QED  BY <1>15, <2>1, <2>2, <2>3, <2>4, <2>5, <2>6 DEF ForwardThread
<1>16. ASSUME NEW s \in Stream, DataThread(s)  PROVE DoneInv'
  <2>1. CASE Upgrade(s)  BY <2>1 DEF Upgrade
  <2>2. CASE UpgradeFails(s)
    <3>1. finish' = [finish EXCEPT ![s]["data"] = "test"] /\ finish[s]["data"] = "no"
      BY <2>2 DEF UpgradeFails, Begins
    <3>2. \A t \in Stream : Ending(t) => Ending(t)'  BY <3>1, EndingStays
    <3>3. \A t \in Stream, h \in Finisher :
            finish'[t][h] = IF t = s /\ h = "data" THEN "test" ELSE finish[t][h]
      BY <3>1, FinishRead
    <3>4. UNCHANGED <<done, tcp, pending, forward>>  BY <2>2 DEF UpgradeFails
    <3>5. \A t \in Stream, h \in Finisher : finish'[t][h] = "close" => done'[t]
      BY <3>3, <3>4
    <3>6. \A t \in pending : forward[t] = "finish" /\ finish'[t]["forward"] = "no" => done[t]
      BY <3>3
    <3>7. \A t \in Stream : done[t] => tcp[t] = "closed" \/ Ending(t)'  BY <3>2
    <3> QED  BY <3>4, <3>5, <3>6, <3>7
  <2>3. CASE DataTests(s)  BY <2>3 DEF DataTests
  <2>4. CASE DataSets(s)  BY <2>4 DEF DataSets
  <2>5. CASE DataEnds(s)  BY <2>5 DEF DataEnds
  <2> QED  BY <1>11, <1>16, <2>1, <2>2, <2>3, <2>4, <2>5 DEF DataThread, BridgeCut
<1>17. ASSUME NEW s \in Stream, NEW f \in Finisher, FinishThread(s, f)  PROVE DoneInv'
  <2>1. CASE FinishTests(s, f)
    <3>1. PICK v \in {"no", "set"} : finish' = [finish EXCEPT ![s][f] = v]
      BY <2>1 DEF FinishTests, Returns
    <3>2. finish[s][f] = "test" /\ UNCHANGED streamVars  BY <2>1 DEF FinishTests
    <3>3. \A t \in Stream : Ending(t) => Ending(t)'  BY <3>1, <3>2, EndingStays
    <3>4. \A t \in Stream, g \in Finisher :
            finish'[t][g] = IF t = s /\ g = f THEN v ELSE finish[t][g]
      BY <3>1, FinishRead
    <3>5. v = "no" => done[s]  BY <2>1, <3>1, <3>4 DEF FinishTests
    <3>6. UNCHANGED pending  BY <2>1 DEF FinishTests
    <3> HIDE DEF Ending
    <3> QED  BY <3>1, <3>2, <3>3, <3>4, <3>5, <3>6
  <2>2. CASE FinishSets(s, f)  BY <2>2 DEF FinishSets
  <2>3. CASE FinishCloses(s, f)  BY <2>3 DEF FinishCloses, Returns
  <2> QED  BY <1>17, <2>1, <2>2, <2>3 DEF FinishThread
<1>18. CASE UNCHANGED vars  BY <1>18 DEF vars
<1> QED
  BY <1>1, <1>2, <1>3, <1>4, <1>5, <1>6, <1>7, <1>8, <1>9, <1>10, <1>11, <1>12, <1>13,
     <1>14, <1>15, <1>16, <1>17, <1>18 DEF Next, Environment

\* Claims carry the current token; revoking it lists the streams it claimed.
LEMMA ClaimStep ==
  ASSUME IInv, [Next]_vars
  PROVE  ClaimInv'
<1> USE HubAssumption DEF HubAssumption, Token, Killer, Finisher, agentVars, hubVars,
      sessionVars, streamVars, finishVars, IInv, Typed, ClaimInv, FreshInv, PendingInv,
      DoneInv, RegistryFree, StreamsOf, SuccessionInv, Claimable, Authentic, AgentsTyped,
      ForwardTyped, HubTyped, ConnectionsTyped, FinishTyped, KillersTyped, DataTyped
<1>1. CASE Stop  BY <1>1 DEF Stop
<1>2. ASSUME NEW a \in Agent, Revoke(a)  PROVE ClaimInv'  BY SMTT(30), <1>2 DEF Revoke, Disconnect
<1>3. CASE RevokeEnds  BY <1>3 DEF RevokeEnds, Disconnected
<1>4. ASSUME NEW n \in Session, NEW a \in Agent, NEW t \in Token, AttachBegins(n, a, t)
       PROVE ClaimInv'
  BY SMTT(30), <1>4 DEF AttachBegins, Disconnect
<1>5. CASE AttachEnds  BY <1>5 DEF AttachEnds, Disconnected
<1>6. ASSUME NEW n \in Session, SessionBreaks(n)  PROVE ClaimInv'  BY <1>6 DEF SessionBreaks
<1>7. ASSUME NEW n \in Session, ControlEnds(n)  PROVE ClaimInv'
  BY <1>7 DEF ControlEnds, Disconnect
<1>8. ASSUME NEW n \in Session, NEW s \in Stream, FailureReported(n, s)  PROVE ClaimInv'
  BY <1>8 DEF FailureReported, Begins
<1>9. ASSUME NEW s \in Stream, NEW a \in Agent, Accept(s, a)  PROVE ClaimInv'
  BY <1>9 DEF Accept
<1>10. ASSUME NEW s \in Stream, NEW a \in Agent, NEW t \in Token, Claim(s, a, t)
       PROVE ClaimInv'
  <2>1. /\ Authentic(a, t) /\ Claimable(s, a) /\ revoking = None
        /\ bearer' = [bearer EXCEPT ![s] = [agent |-> a, token |-> t]]
        /\ data' = [data EXCEPT ![s] = "upgrade"]
        /\ UNCHANGED <<agentVars, pending, owner, done, victims>>
    BY <1>10 DEF Claim
  <2>2. bearer'[s] = [agent |-> a, token |-> t] /\ bearer'[s].agent = a /\ bearer'[s].token = t
    BY <2>1
  <2>3. bearer'[s] # NoBearer  BY <2>2 DEF NoBearer
  <2>4. \A u \in Stream : u # s => bearer'[u] = bearer[u] /\ data'[u] = data[u]  BY <2>1
  <2> QED  BY <2>1, <2>2, <2>3, <2>4
<1>11. ASSUME NEW s \in Stream, BridgeEnds(s)  PROVE ClaimInv'
  BY <1>11 DEF BridgeEnds, DataFinishes, Begins
<1>12. CASE StopThread
  <2>1. CASE StopGoesOn  BY <2>1 DEF StopGoesOn, Disconnected
  <2>2. ASSUME NEW a \in Agent, StopDisconnects(a)  PROVE ClaimInv'
    BY <2>2 DEF StopDisconnects, Disconnect
  <2> QED  BY <1>12, <2>1, <2>2 DEF StopThread
<1>13. ASSUME NEW k \in Killer, DisconnectThread(k)  PROVE ClaimInv'
  BY <1>13 DEF DisconnectThread, ClosesControl, FinishesNext, Begins
<1>14. ASSUME NEW n \in Session, ControlThread(n)  PROVE ClaimInv'
  BY <1>7, <1>14 DEF ControlThread, FailureHandled, ControlCut, ControlOver, Disconnected
<1>15. ASSUME NEW s \in Stream, ForwardThread(s)  PROVE ClaimInv'
  <2>1. CASE Lookup(s)  BY <2>1 DEF Lookup
  <2>2. CASE Send(s)  BY <2>2 DEF Send, Moves, Begins
  <2>3. CASE ReadyArrives(s)  BY <2>3 DEF ReadyArrives, Moves, Begins
  <2>4. CASE ReadyTimesOut(s)  BY <2>4 DEF ReadyTimesOut, Moves, Begins
  <2>5. CASE DoneArrives(s)  BY <2>5 DEF DoneArrives, Moves, Begins
  <2>6. CASE ForwardEnds(s)  BY <2>6 DEF ForwardEnds, Finishing
  <2> QED  BY <1>15, <2>1, <2>2, <2>3, <2>4, <2>5, <2>6 DEF ForwardThread
<1>16. ASSUME NEW s \in Stream, DataThread(s)  PROVE ClaimInv'
  BY <1>11, <1>16 DEF DataThread, Upgrade, UpgradeFails, DataTests, DataSets, BridgeCut,
       DataEnds, Begins
<1>17. ASSUME NEW s \in Stream, NEW f \in Finisher, FinishThread(s, f)  PROVE ClaimInv'
  <2>1. CASE FinishTests(s, f)
    <3>1. UNCHANGED <<streamVars, pending, token, revoking>>  BY <2>1 DEF FinishTests
    <3>2. \A u \in Stream : u \in victims["registry"] => u \in victims'["registry"] \/ done[u]
      BY <2>1 DEF FinishTests, Returns
    <3> QED  BY <3>1, <3>2
  <2>2. CASE FinishSets(s, f)  BY <2>2 DEF FinishSets
  <2>3. CASE FinishCloses(s, f)  BY <2>3 DEF FinishCloses, Returns
  <2> QED  BY <1>17, <2>1, <2>2, <2>3 DEF FinishThread
<1>18. CASE UNCHANGED vars  BY <1>18 DEF vars
<1> QED
  BY <1>1, <1>2, <1>3, <1>4, <1>5, <1>6, <1>7, <1>8, <1>9, <1>10, <1>11, <1>12, <1>13,
     <1>14, <1>15, <1>16, <1>17, <1>18 DEF Next, Environment

\* Sessions change only with their streams listed.
LEMMA SuccessionStep ==
  ASSUME IInv, [Next]_vars
  PROVE  SuccessionInv'
<1> USE HubAssumption DEF HubAssumption, Token, Killer, Finisher, agentVars, hubVars,
      sessionVars, streamVars, finishVars, IInv, Typed, SuccessionInv, FreshInv, PendingInv,
      DoneInv, SessionInv, StreamsOf, Condemned, AgentsTyped, ForwardTyped, HubTyped,
      ConnectionsTyped, FinishTyped, KillersTyped, DataTyped
<1>1. CASE Stop  BY <1>1 DEF Stop
<1>2. ASSUME NEW a \in Agent, Revoke(a)  PROVE SuccessionInv'    BY <1>2, Succeeds DEF Revoke
<1>3. CASE RevokeEnds  BY <1>3 DEF RevokeEnds, Disconnected
<1>4. ASSUME NEW n \in Session, NEW a \in Agent, NEW t \in Token, AttachBegins(n, a, t)
       PROVE SuccessionInv'
  BY <1>4, Succeeds DEF AttachBegins
<1>5. CASE AttachEnds
  <2>1. attaching \in Session /\ session[attaching].agent \in Agent  BY <1>5 DEF AttachEnds
  <2>2. UNCHANGED <<pending, owner, via, done, victims>>  BY <1>5 DEF AttachEnds, Disconnected
  <2>3. \A k \in Killer : step'[k] = "idle" => victims'[k] = {}
    BY <1>5 DEF AttachEnds, Disconnected
  <2>4. \A a \in Agent : controls'[a] = controls[a] \/ controls[a] = None
    BY <1>5, <2>1 DEF AttachEnds
  <2>5. \A s \in pending : owner[s] \in Agent /\ via[s] # None
    BY DEF StartedInv
  <2>6. \A s \in Stream : Condemned(s) => Condemned(s)'  BY <2>2
  <2> HIDE DEF Condemned
  <2> QED  BY <2>2, <2>3, <2>4, <2>5, <2>6
<1>6. ASSUME NEW n \in Session, SessionBreaks(n)  PROVE SuccessionInv'
  BY <1>6 DEF SessionBreaks
<1>7. ASSUME NEW n \in Session, ControlEnds(n)  PROVE SuccessionInv'
  <2>1. n \in Killer /\ session[n].agent \in Agent  BY <1>7 DEF ControlEnds
  <2>2. UNCHANGED <<pending, owner, via, done>>  BY <1>7 DEF ControlEnds
  <2>3. CASE Disconnect(n, session[n].agent)
    <3> HIDE DEF SessionsTyped, SuccessionInv, KillersTyped, HubTyped
    <3> DEFINE a == session[n].agent
    <3>1. a \in Agent /\ n \in Killer /\ Disconnect(n, a)  BY <2>1, <2>3
    <3> HIDE DEF a
    <3> QED  BY <2>2, <3>1, Succeeds DEF SuccessionInv
  <2>4. CASE UNCHANGED <<controls, step, victims>>  BY <2>2, <2>4, StillSucceeds
  <2> QED  BY <1>7, <2>3, <2>4 DEF ControlEnds
<1>8. ASSUME NEW n \in Session, NEW s \in Stream, FailureReported(n, s)  PROVE SuccessionInv'
  BY <1>8 DEF FailureReported, Begins
<1>9. ASSUME NEW s \in Stream, NEW a \in Agent, Accept(s, a)  PROVE SuccessionInv'
  <2>1. s \notin pending  BY <1>9 DEF Accept
  <2>2. \A t \in pending : owner'[t] = owner[t]  BY <1>9, <2>1 DEF Accept
  <2>3. UNCHANGED <<pending, done, via, controls, step, victims>>  BY <1>9 DEF Accept
  <2> QED  BY <2>2, <2>3, StillSucceeds
<1>10. ASSUME NEW s \in Stream, NEW a \in Agent, NEW t \in Token, Claim(s, a, t)
       PROVE SuccessionInv'
  BY <1>10 DEF Claim
<1>11. ASSUME NEW s \in Stream, BridgeEnds(s)  PROVE SuccessionInv'
  BY <1>11 DEF BridgeEnds, DataFinishes, Begins
<1>12. CASE StopThread
  <2>1. CASE StopGoesOn  BY <2>1 DEF StopGoesOn, Disconnected
  <2>2. ASSUME NEW a \in Agent, StopDisconnects(a)  PROVE SuccessionInv'
    BY <2>2, Succeeds DEF StopDisconnects
  <2> QED  BY <1>12, <2>1, <2>2 DEF StopThread
<1>13. ASSUME NEW k \in Killer, DisconnectThread(k)  PROVE SuccessionInv'
  <2>1. CASE ClosesControl(k)  BY <2>1 DEF ClosesControl
  <2>2. CASE FinishesNext(k)  BY <2>2 DEF FinishesNext, Begins
  <2> QED  BY <1>13, <2>1, <2>2 DEF DisconnectThread
<1>14. ASSUME NEW n \in Session, ControlThread(n)  PROVE SuccessionInv'
  <2>1. CASE FailureHandled(n)  BY <2>1 DEF FailureHandled
  <2>2. CASE ControlOver(n)
    <3>1. UNCHANGED <<pending, owner, via, done, controls, victims>>
      BY <2>2 DEF ControlOver, Disconnected
    <3>2. \A k \in Killer : step'[k] = "idle" => victims'[k] = {}
      BY <2>2 DEF ControlOver, Disconnected
    <3> QED  BY <3>1, <3>2
  <2> QED  BY <1>7, <1>14, <2>1, <2>2 DEF ControlThread, ControlCut
<1>15. ASSUME NEW s \in Stream, ForwardThread(s)  PROVE SuccessionInv'
  <2>1. CASE Lookup(s)
    <3>1. s \notin pending /\ UNCHANGED <<controls, owner, done, victims, step>>
      BY <2>1 DEF Lookup, finishVars
    <3>2. ASSUME pending' = pending \cup {s}, via' = [via EXCEPT ![s] = controls[owner[s]]]
          PROVE  SuccessionInv'
      <4>1. via'[s] = controls'[owner'[s]]  BY <3>1, <3>2
      <4>2. \A t \in pending : via'[t] = via[t]  BY <3>1, <3>2
      <4>3. \A t \in Stream : Condemned(t) => Condemned(t)'  BY <3>1
      <4> HIDE DEF Condemned
      <4> QED  BY <3>1, <3>2, <4>1, <4>2, <4>3
    <3>3. CASE UNCHANGED <<pending, via>>  BY <3>1, <3>3, StillSucceeds
    <3> QED  BY <2>1, <3>2, <3>3 DEF Lookup
  <2>2. CASE Send(s)
    <3>1. UNCHANGED <<pending, done, via, owner, controls, step, victims>>
      BY <2>2 DEF Send, Moves
    <3> QED  BY <3>1, StillSucceeds
  <2>3. CASE ReadyArrives(s)  BY <2>3 DEF ReadyArrives, Moves, Begins
  <2>4. CASE ReadyTimesOut(s)  BY <2>4 DEF ReadyTimesOut, Moves, Begins
  <2>5. CASE DoneArrives(s)  BY <2>5 DEF DoneArrives, Moves, Begins
  <2>6. CASE ForwardEnds(s)  BY <2>6 DEF ForwardEnds, Finishing
  <2> QED  BY <1>15, <2>1, <2>2, <2>3, <2>4, <2>5, <2>6 DEF ForwardThread
<1>16. ASSUME NEW s \in Stream, DataThread(s)  PROVE SuccessionInv'
  <2>1. CASE Upgrade(s)  BY <2>1 DEF Upgrade
  <2>2. CASE UpgradeFails(s)  BY <2>2 DEF UpgradeFails, Begins
  <2>3. CASE DataTests(s)  BY <2>3 DEF DataTests
  <2>4. CASE DataSets(s)  BY <2>4 DEF DataSets
  <2>5. CASE DataEnds(s)  BY <2>5 DEF DataEnds
  <2> QED  BY <1>11, <1>16, <2>1, <2>2, <2>3, <2>4, <2>5 DEF DataThread, BridgeCut
<1>17. ASSUME NEW s \in Stream, NEW f \in Finisher, FinishThread(s, f)  PROVE SuccessionInv'
  <2>1. CASE FinishTests(s, f)
    <3>1. UNCHANGED <<pending, owner, via, controls, done, step>>  BY <2>1 DEF FinishTests
    <3>2. \A k \in Killer : victims'[k] \subseteq victims[k]  BY <2>1 DEF FinishTests, Returns
    <3>3. \A t \in Stream, k \in Killer : t \in victims[k] /\ ~done[t] => t \in victims'[k]
      BY <2>1 DEF FinishTests, Returns
    <3>4. \A k \in Killer : step'[k] = "idle" => victims'[k] = {}  BY <3>1, <3>2
    <3> QED  BY <3>1, <3>3, <3>4, StillSucceeds
  <2>2. CASE FinishSets(s, f)  BY <2>2 DEF FinishSets
  <2>3. CASE FinishCloses(s, f)  BY <2>3 DEF FinishCloses, Returns
  <2> QED  BY <1>17, <2>1, <2>2, <2>3 DEF FinishThread
<1>18. CASE UNCHANGED vars  BY <1>18 DEF vars
<1> QED
  BY <1>1, <1>2, <1>3, <1>4, <1>5, <1>6, <1>7, <1>8, <1>9, <1>10, <1>11, <1>12, <1>13,
     <1>14, <1>15, <1>16, <1>17, <1>18 DEF Next, Environment

\* No session attaches once the hub stops.
LEMMA StopStep ==
  ASSUME IInv, [Next]_vars
  PROVE  StopInv'
<1> USE HubAssumption DEF HubAssumption, Token, Killer, Finisher, agentVars, hubVars,
      sessionVars, streamVars, finishVars, IInv, Typed, StopInv, HubTyped, Admitted
<1>1. CASE Stop  BY <1>1 DEF Stop
<1>2. ASSUME NEW a \in Agent, Revoke(a)  PROVE StopInv'  BY <1>2 DEF Revoke, Disconnect
<1>3. CASE RevokeEnds  BY <1>3 DEF RevokeEnds, Disconnected
<1>4. ASSUME NEW n \in Session, NEW a \in Agent, NEW t \in Token, AttachBegins(n, a, t)
       PROVE StopInv'
  BY <1>4 DEF AttachBegins, Disconnect
<1>5. CASE AttachEnds  BY <1>5 DEF AttachEnds, Disconnected
<1>6. ASSUME NEW n \in Session, SessionBreaks(n)  PROVE StopInv'  BY <1>6 DEF SessionBreaks
<1>7. ASSUME NEW n \in Session, ControlEnds(n)  PROVE StopInv'
  BY <1>7 DEF ControlEnds, Disconnect
<1>8. ASSUME NEW n \in Session, NEW s \in Stream, FailureReported(n, s)  PROVE StopInv'
  BY <1>8 DEF FailureReported, Begins
<1>9. ASSUME NEW s \in Stream, NEW a \in Agent, Accept(s, a)  PROVE StopInv'  BY <1>9 DEF Accept
<1>10. ASSUME NEW s \in Stream, NEW a \in Agent, NEW t \in Token, Claim(s, a, t)
       PROVE StopInv'
  BY <1>10 DEF Claim
<1>11. ASSUME NEW s \in Stream, BridgeEnds(s)  PROVE StopInv'
  BY <1>11 DEF BridgeEnds, DataFinishes, Begins
<1>12. CASE StopThread
  BY <1>12 DEF StopThread, StopGoesOn, Disconnected, StopDisconnects, Disconnect
<1>13. ASSUME NEW k \in Killer, DisconnectThread(k)  PROVE StopInv'
  BY <1>13 DEF DisconnectThread, ClosesControl, FinishesNext, Begins
<1>14. ASSUME NEW n \in Session, ControlThread(n)  PROVE StopInv'
  BY <1>7, <1>14 DEF ControlThread, FailureHandled, ControlCut, ControlOver, Disconnected
<1>15. ASSUME NEW s \in Stream, ForwardThread(s)  PROVE StopInv'
  BY <1>15 DEF ForwardThread, Lookup, Send, ReadyArrives, ReadyTimesOut, DoneArrives,
       ForwardEnds, Moves, Begins
<1>16. ASSUME NEW s \in Stream, DataThread(s)  PROVE StopInv'
  BY <1>11, <1>16 DEF DataThread, Upgrade, UpgradeFails, DataTests, DataSets, BridgeCut,
       DataEnds, Begins
<1>17. ASSUME NEW s \in Stream, NEW f \in Finisher, FinishThread(s, f)  PROVE StopInv'
  BY <1>17 DEF FinishThread, FinishTests, FinishSets, FinishCloses, Returns
<1>18. CASE UNCHANGED vars  BY <1>18 DEF vars
<1> QED
  BY <1>1, <1>2, <1>3, <1>4, <1>5, <1>6, <1>7, <1>8, <1>9, <1>10, <1>11, <1>12, <1>13,
     <1>14, <1>15, <1>16, <1>17, <1>18 DEF Next, Environment

\* Streams and slots stay balanced: accepting takes a slot, ending gives it back, and a
\* stream is registered only while its agent holds fewer than its limit.
LEMMA CountStep ==
  ASSUME IInv, [Next]_vars
  PROVE  CountInv'
<1> USE HubAssumption DEF IInv, Typed, HubTyped, ForwardTyped
<1>1. /\ IsFiniteSet(Active) /\ Cardinality(Active) \in Nat
      /\ slots \in Nat /\ slots + Cardinality(Active) = Slots
      /\ \A a \in Agent : Cardinality(StreamsOf(a)) <= AgentLimit
      /\ \A t, u \in Unstarted : t = u
  BY FS_CardinalityType DEF CountInv
<1>2. \A a \in Agent : IsFiniteSet(StreamsOf(a)) /\ Cardinality(StreamsOf(a)) \in Nat
  <2>1. \A a \in Agent : StreamsOf(a) \subseteq Active  BY DEF StreamsOf, Active, PendingInv
  <2> QED  BY <1>1, <2>1, FS_Subset, FS_CardinalityType
<1>3. CASE UNCHANGED <<forward, slots, pending, owner>>
  <2>1. Active' = Active  BY <1>3 DEF Active
  <2>2. \A a \in Agent : StreamsOf(a)' = StreamsOf(a)  BY <1>3 DEF StreamsOf
  <2>3. Unstarted' = Unstarted  BY <1>3 DEF Unstarted
  <2> QED  BY <1>1, <1>3, <2>1, <2>2, <2>3 DEF CountInv
<1>4. ASSUME NEW s \in Stream, NEW a \in Agent, Accept(s, a)  PROVE CountInv'
  <2>1. forward[s] = "none" /\ s \notin pending /\ UNCHANGED pending
    BY <1>4 DEF Accept, FreshInv
  <2>2. \A b \in Agent : StreamsOf(b)' = StreamsOf(b)
    <3>1. \A t \in pending : owner'[t] = owner[t]  BY <1>4, <2>1 DEF Accept
    <3> QED  BY <2>1, <3>1 DEF StreamsOf
  <2>3. Unstarted = {}  BY <1>4 DEF Accept, Listening
  <2>4. CASE slots > 0
    <3>1. PICK to \in {"lookup", "unstarted"} :
            forward' = [forward EXCEPT ![s] = to] /\ slots' = slots - 1
      BY <1>1, <1>4, <2>4 DEF Accept
    <3>2. Active' = Active \cup {s} /\ s \notin Active  BY <2>1, <3>1 DEF Active
    <3>3. IsFiniteSet(Active') /\ Cardinality(Active') = Cardinality(Active) + 1
      BY <1>1, <3>2, FS_AddElement
    <3>4. Unstarted' \subseteq {s}  BY <2>3, <3>1 DEF Unstarted
    <3>5. slots' \in Nat /\ slots' + Cardinality(Active') = Slots  BY <1>1, <2>4, <3>1, <3>3
    <3>6. \A b \in Agent : Cardinality(StreamsOf(b)') <= AgentLimit  BY <1>1, <2>2
    <3> QED  BY <3>3, <3>4, <3>5, <3>6 DEF CountInv
  <2>5. CASE slots = 0
    <3>1. forward' = [forward EXCEPT ![s] = "over"] /\ slots' = slots
      BY <1>4, <2>5 DEF Accept
    <3>2. Active' = Active  BY <2>1, <3>1 DEF Active
    <3>3. Unstarted' = {}  BY <2>3, <3>1 DEF Unstarted
    <3> QED  BY <1>1, <2>2, <3>1, <3>2, <3>3 DEF CountInv
  <2> QED  BY <1>1, <2>4, <2>5
<1>5. ASSUME NEW s \in Stream, ForwardThread(s)  PROVE CountInv'
  <2>1. CASE Lookup(s)
    <3>1. Active' = Active /\ Unstarted' \subseteq Unstarted
      BY <2>1 DEF Lookup, Active, Unstarted
    <3>2. UNCHANGED <<slots, owner>>  BY <2>1 DEF Lookup
    <3>3. CASE Available(owner[s]) /\ pending' = pending \cup {s}
      <4>1. s \notin pending /\ owner[s] \in Agent  BY <2>1 DEF Lookup, PendingInv, StartedInv
      <4>2. Cardinality(StreamsOf(owner[s])) < AgentLimit  BY <3>3 DEF Available
      <4>3. StreamsOf(owner[s])' = StreamsOf(owner[s]) \cup {s} /\ s \notin StreamsOf(owner[s])
        BY <3>2, <3>3, <4>1 DEF StreamsOf
      <4>4. Cardinality(StreamsOf(owner[s])') = Cardinality(StreamsOf(owner[s])) + 1
        BY <1>2, <4>1, <4>3, FS_AddElement
      <4>5. Cardinality(StreamsOf(owner[s])') <= AgentLimit
        BY <1>2, <4>1, <4>2, <4>4 DEF HubAssumption
      <4>6. ASSUME NEW b \in Agent, b # owner[s]  PROVE StreamsOf(b)' = StreamsOf(b)
        BY <3>2, <3>3, <4>6 DEF StreamsOf
      <4>7. \A b \in Agent : b = owner[s] => StreamsOf(b)' = StreamsOf(owner[s])'
        BY <3>2 DEF StreamsOf
      <4>8. \A b \in Agent : Cardinality(StreamsOf(b)') <= AgentLimit  BY <1>1, <4>5, <4>6, <4>7
      <4> QED  BY <1>1, <3>1, <3>2, <4>8 DEF CountInv
    <3>4. CASE UNCHANGED pending
      <4>1. \A b \in Agent : StreamsOf(b)' = StreamsOf(b)  BY <3>2, <3>4 DEF StreamsOf
      <4> QED  BY <1>1, <3>1, <3>2, <4>1 DEF CountInv
    <3> QED  BY <2>1, <3>3, <3>4 DEF Lookup
  <2>2. CASE Send(s) \/ ReadyArrives(s) \/ ReadyTimesOut(s) \/ DoneArrives(s)
    <3>1. PICK to \in {"ready", "done", "finish"} :
            forward' = [forward EXCEPT ![s] = to] /\ forward[s] \notin {"none", "over"}
      BY <2>2 DEF Send, ReadyArrives, ReadyTimesOut, DoneArrives, Moves
    <3>2. Active' = Active /\ Unstarted' \subseteq Unstarted  BY <3>1 DEF Active, Unstarted
    <3>3. UNCHANGED <<slots, pending, owner>>
      BY <2>2 DEF Send, ReadyArrives, ReadyTimesOut, DoneArrives, Moves, hubVars
    <3>4. \A b \in Agent : StreamsOf(b)' = StreamsOf(b)  BY <3>3 DEF StreamsOf
    <3> QED  BY <1>1, <3>2, <3>3, <3>4 DEF CountInv
  <2>3. CASE ForwardEnds(s)
    <3>1. /\ forward' = [forward EXCEPT ![s] = "over"] /\ forward[s] = "finish"
          /\ slots' = slots + 1 /\ pending' = pending \ {s} /\ UNCHANGED owner
      BY <2>3 DEF ForwardEnds, Released
    <3>2. Active' = Active \ {s} /\ s \in Active /\ Unstarted' \subseteq Unstarted
      BY <3>1 DEF Active, Unstarted
    <3>3. IsFiniteSet(Active') /\ Cardinality(Active') = Cardinality(Active) - 1
      BY <1>1, <3>2, FS_RemoveElement
    <3>4. \A b \in Agent : StreamsOf(b)' \subseteq StreamsOf(b)  BY <3>1 DEF StreamsOf
    <3>5. \A b \in Agent : Cardinality(StreamsOf(b)') \in Nat
                           /\ Cardinality(StreamsOf(b)') <= Cardinality(StreamsOf(b))
      BY <1>2, <3>4, FS_Subset, FS_CardinalityType
    <3>6. \A b \in Agent : Cardinality(StreamsOf(b)') <= AgentLimit
      BY <1>1, <1>2, <3>5 DEF HubAssumption
    <3> QED  BY <1>1, <3>1, <3>2, <3>3, <3>6 DEF CountInv
  <2> QED  BY <1>5, <2>1, <2>2, <2>3 DEF ForwardThread
<1>6. \/ UNCHANGED <<forward, slots, pending, owner>>
      \/ \E s \in Stream, a \in Agent : Accept(s, a)
      \/ \E s \in Stream : ForwardThread(s)
  <2> USE DEF agentVars, hubVars, sessionVars, streamVars, finishVars
  <2>1. CASE \E s \in Stream : DataThread(s) \/ BridgeEnds(s)
    BY <2>1 DEF DataThread, Upgrade, UpgradeFails, DataTests, DataSets, BridgeCut, BridgeEnds,
         DataEnds
  <2>2. CASE \E s \in Stream, f \in Finisher : FinishThread(s, f)
    BY <2>2 DEF FinishThread, FinishTests, FinishSets, FinishCloses
  <2>3. CASE \E n \in Session : ControlThread(n) \/ SessionBreaks(n) \/ ControlEnds(n)
    BY <2>3 DEF ControlThread, FailureHandled, ControlCut, ControlOver, SessionBreaks, ControlEnds
  <2>4. CASE StopThread \/ Stop \/ \E k \in Killer : DisconnectThread(k)
    BY <2>4 DEF StopThread, StopGoesOn, StopDisconnects, Stop, DisconnectThread, ClosesControl,
         FinishesNext
  <2>5. CASE \/ RevokeEnds \/ AttachEnds \/ \E a \in Agent : Revoke(a)
             \/ \E n \in Session, a \in Agent, t \in Token : AttachBegins(n, a, t)
    BY <2>5 DEF RevokeEnds, AttachEnds, Revoke, AttachBegins
  <2>6. CASE \/ \E n \in Session, s \in Stream : FailureReported(n, s)
             \/ \E s \in Stream, a \in Agent, t \in Token : Claim(s, a, t)
    BY <2>6 DEF FailureReported, Claim
  <2>7. CASE UNCHANGED vars  BY <2>7 DEF vars
  <2> QED  BY <2>1, <2>2, <2>3, <2>4, <2>5, <2>6, <2>7 DEF Next, Environment
<1> QED  BY <1>3, <1>4, <1>5, <1>6

----------------------------------------------------------------------------
(* Theorems *)

\* The hub starts with nothing but its tokens and its slots.
LEMMA InitEstablishes ==
  ASSUME Init
  PROVE  IInv
<1> USE HubAssumption DEF HubAssumption, Init, Token, Killer, Finisher, NoBearer
<1>1. Typed
  <2>1. AgentsTyped /\ HubTyped
    <3>1. 1 \in Token  OBVIOUS
    <3> QED  BY <3>1 DEF AgentsTyped, HubTyped
  <2>2. ForwardTyped /\ DataTyped /\ ConnectionsTyped  BY DEF ForwardTyped, DataTyped, ConnectionsTyped
  <2>3. KillersTyped  BY DEF KillersTyped
  <2>4. FinishTyped  BY DEF FinishTyped
  <2>5. SessionsTyped
    <3>1. [agent |-> None, token |-> 0, ws |-> "new"]
            \in [agent : Agent \cup {None}, token : Token \cup {0}, ws : {"new", "open", "closed"}]
      OBVIOUS
    <3> QED  BY <3>1 DEF SessionsTyped
  <2> QED  BY <2>1, <2>2, <2>3, <2>4, <2>5 DEF Typed
<1>2. StartedInv /\ FreshInv /\ PendingInv /\ SessionInv /\ ThreadInv
  BY DEF StartedInv, FreshInv, PendingInv, SessionInv, ThreadInv
<1>3. DoneInv /\ ClaimInv /\ SuccessionInv /\ StopInv
  BY DEF DoneInv, ClaimInv, SuccessionInv, StopInv
<1>4. CountInv
  <2>1. Active = {} /\ \A a \in Agent : StreamsOf(a) = {}  BY DEF Active, StreamsOf
  <2>2. IsFiniteSet({}) /\ Cardinality({}) = 0  BY FS_EmptySet
  <2>3. IsFiniteSet(Active) /\ Cardinality(Active) = 0  BY <2>1, <2>2
  <2>4. \A a \in Agent : Cardinality(StreamsOf(a)) = 0  BY <2>1, <2>2
  <2>5. Unstarted = {}  BY DEF Unstarted
  <2> QED  BY <2>3, <2>4, <2>5 DEF CountInv
<1> QED  BY <1>1, <1>2, <1>3, <1>4 DEF IInv

\* Every step keeps every part.
LEMMA StepPreserves ==
  ASSUME IInv, [Next]_vars
  PROVE  IInv'
BY AgentsStep, HubStep, SessionsStep, ForwardStep, DataStep, ConnectionsStep, KillersStep, FinishStep,
   StartedStep, FreshStep, PendingStep, SessionStep, ThreadStep, DoneStep, ClaimStep, SuccessionStep,
   StopStep, CountStep
   DEF IInv, Typed

\* The inductive invariant holds in every behaviour of the hub.
THEOREM InvariantAlways == Spec => []IInv
BY InitEstablishes, StepPreserves, PTL DEF Spec

\* Every variable of agents, sessions, streams and threads keeps its type.
THEOREM TypesAlways == Spec => []TypeOK
<1>1. IInv => TypeOK
  <2>1. ASSUME IInv  PROVE slots \in 0..Slots
    BY <2>1, HubAssumption, FS_CardinalityType DEF IInv, CountInv, HubAssumption
  <2> QED  BY <2>1 DEF IInv, Typed, TypeOK
<1> QED  BY <1>1, InvariantAlways, PTL

\* Slots are neither lost nor given back twice, but for one that a forward thread which
\* cannot be started keeps, and no agent exceeds its share.
THEOREM SlotsAlways == Spec => []SlotsAccounted
<1>1. ASSUME CountInv  PROVE Cardinality(Unstarted) <= 1
  <2>1. CASE Unstarted = {}
    BY <2>1, FS_EmptySet
  <2>2. ASSUME NEW s \in Unstarted  PROVE Cardinality(Unstarted) <= 1
    <3>1. Unstarted = {s}  BY <1>1, <2>2 DEF CountInv
    <3> QED  BY <3>1, FS_Singleton
  <2> QED  BY <2>1, <2>2
<1>2. CountInv => SlotsAccounted  BY <1>1 DEF CountInv, SlotsAccounted, Active
<1>3. IInv => SlotsAccounted  BY <1>2 DEF IInv
<1> QED  BY <1>3, InvariantAlways, PTL

\* What flows, and that nobody is closing, is a registered stream that is not done and
\* that its agent has claimed.
LEMMA Flowing ==
  ASSUME IInv, NEW s \in Stream, Flows(s), ~Ending(s)
  PROVE  /\ s \in pending /\ ~done[s] /\ bearer[s] # NoBearer
         /\ owner[s] \in Agent /\ via[s] \in Session
<1>1. tcp[s] = "open" /\ data[s] = "bridge"  BY DEF Flows
<1>2. ~done[s]  BY <1>1 DEF IInv, DoneInv
<1>3. s \in pending /\ bearer[s] # NoBearer  BY <1>1, <1>2 DEF IInv, ClaimInv
<1> QED  BY <1>2, <1>3 DEF IInv, PendingInv, StartedInv

\* A stream does not outlive the session that asked for it.
THEOREM StreamsAlways == Spec => []StreamsDieWithTheirSession
<1>1. ASSUME IInv, NEW s \in Stream, Flows(s), ~Ending(s)
      PROVE  via[s] = controls[owner[s]] \/ Condemned(s)
  BY <1>1, Flowing DEF IInv, SuccessionInv
<1>2. IInv => StreamsDieWithTheirSession  BY <1>1 DEF StreamsDieWithTheirSession
<1> QED  BY <1>2, InvariantAlways, PTL

\* Once a token is replaced, no session and no stream that came with it is left.
THEOREM TokensAlways == Spec => []OnlyTheCurrentToken
<1>1. ASSUME IInv, NEW a \in Agent, a # revoking, controls[a] # None
      PROVE  session[controls[a]].token = token[a]
  BY <1>1 DEF IInv, SessionInv
<1>2. ASSUME IInv, NEW a \in Agent, a # revoking, NEW s \in Stream, owner[s] = a,
             Flows(s), ~Ending(s)
      PROVE  bearer[s] = [agent |-> a, token |-> token[a]]
  <2>1. bearer[s].agent = a /\ bearer[s].token = token[a]
    BY <1>2, Flowing DEF IInv, ClaimInv
  <2>2. bearer[s] \in [agent : Agent \cup {None}, token : Token \cup {0}]
    BY <1>2 DEF IInv, Typed, DataTyped
  <2> QED  BY <2>1, <2>2
<1>3. IInv => OnlyTheCurrentToken  BY <1>1, <1>2 DEF OnlyTheCurrentToken
<1> QED  BY <1>3, InvariantAlways, PTL

\* When stop() has returned nothing is attached and nothing flows unattended.
THEOREM SilentAlways == Spec => []StoppedIsSilent
<1>1. ASSUME IInv, Stopped  PROVE \A a \in Agent : controls[a] = None
  BY <1>1 DEF IInv, StopInv, Stopped
<1>2. ASSUME IInv, Stopped, NEW s \in Stream, Flows(s), ~Ending(s)  PROVE Condemned(s)
  <2>1. via[s] = controls[owner[s]] \/ Condemned(s)
    BY <1>2, Flowing DEF IInv, SuccessionInv
  <2>2. via[s] # None  BY <1>2, Flowing, HubAssumption DEF HubAssumption
  <2>3. controls[owner[s]] = None  BY <1>1, <1>2, Flowing
  <2> QED  BY <2>1, <2>2, <2>3
<1>3. IInv => StoppedIsSilent  BY <1>1, <1>2 DEF StoppedIsSilent
<1> QED  BY <1>3, InvariantAlways, PTL

\* A session is dropped by its own end, by a successor that attaches, by revocation or by
\* stop(), never by the end of another session.
THEOREM SuccessorsAlways == Spec => SuccessorsStay
<1> DEFINE Dropped(a) == \/ loop'[controls[a]] = "leave"
                         \/ revoking' = a \/ attaching' # attaching \/ stopping
<1>1. ASSUME IInv, [Next]_vars, NEW a \in Agent, controls[a] # None, controls'[a] # controls[a]
      PROVE  Dropped(a)
  <2> USE <1>1, HubAssumption DEF HubAssumption, IInv, Typed, HubTyped, SessionsTyped, Disconnect
  <2>1. ASSUME NEW b \in Agent, Revoke(b)  PROVE Dropped(a)  BY <2>1 DEF Revoke
  <2>2. ASSUME NEW n \in Session, NEW b \in Agent, NEW t \in Token, AttachBegins(n, b, t)
        PROVE  Dropped(a)
    BY <2>2 DEF AttachBegins, RegistryFree
  <2>3. CASE AttachEnds  BY <2>3 DEF AttachEnds, AgentsTyped
  <2>4. ASSUME NEW n \in Session, ControlEnds(n)  PROVE Dropped(a)
    <3>1. controls[session[n].agent] = n /\ controls' = [controls EXCEPT ![session[n].agent] = None]
      BY <2>4 DEF ControlEnds, IsCurrent
    <3>2. controls[a] = n /\ loop' = [loop EXCEPT ![n] = "leave"]  BY <2>4, <3>1 DEF ControlEnds
    <3> QED  BY <3>2
  <2>5. ASSUME NEW b \in Agent, StopDisconnects(b)  PROVE Dropped(a)
    BY <2>5 DEF StopDisconnects, StopInv
  <2>6. \/ UNCHANGED controls
        \/ AttachEnds
        \/ \E b \in Agent : Revoke(b) \/ StopDisconnects(b)
        \/ \E n \in Session : ControlEnds(n)
        \/ \E n \in Session, b \in Agent, t \in Token : AttachBegins(n, b, t)
    <3> USE DEF agentVars, hubVars, sessionVars, streamVars, finishVars
    <3>1. CASE \E s \in Stream : ForwardThread(s) \/ DataThread(s) \/ BridgeEnds(s)
      BY <3>1 DEF ForwardThread, Lookup, Send, ReadyArrives, ReadyTimesOut, DoneArrives, ForwardEnds,
           Moves, DataThread, Upgrade, UpgradeFails, DataTests, DataSets, BridgeCut, BridgeEnds,
         DataEnds
    <3>2. CASE \E s \in Stream, f \in Finisher : FinishThread(s, f)
      BY <3>2 DEF FinishThread, FinishTests, FinishSets, FinishCloses
    <3>3. CASE \E n \in Session : ControlThread(n) \/ SessionBreaks(n)
      BY <3>3 DEF ControlThread, FailureHandled, ControlCut, ControlOver, SessionBreaks
    <3>4. CASE StopThread \/ Stop \/ \E k \in Killer : DisconnectThread(k)
      BY <3>4 DEF StopThread, StopGoesOn, Stop, DisconnectThread, ClosesControl, FinishesNext
    <3>5. CASE \/ RevokeEnds
               \/ \E n \in Session, s \in Stream : FailureReported(n, s)
               \/ \E s \in Stream, b \in Agent : Accept(s, b)
               \/ \E s \in Stream, b \in Agent, t \in Token : Claim(s, b, t)
      BY <3>5 DEF RevokeEnds, FailureReported, Accept, Claim
    <3>6. CASE UNCHANGED vars  BY <3>6 DEF vars
    <3> HIDE DEF IInv
    <3> QED  BY <3>1, <3>2, <3>3, <3>4, <3>5, <3>6 DEF Next, Environment
  <2> QED  BY <2>1, <2>2, <2>3, <2>4, <2>5, <2>6
<1>2. IInv /\ [Next]_vars
        => [\A a \in Agent : controls[a] # None /\ controls'[a] # controls[a] => Dropped(a)]_vars
  BY <1>1
<1> QED  BY <1>2, InvariantAlways, PTL DEF Spec, SuccessorsStay
=============================================================================
