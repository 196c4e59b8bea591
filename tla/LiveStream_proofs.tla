-------------------------- MODULE LiveStream_proofs --------------------------
(* The safety of the panel's live connection, for every set of sources and every     *)
(* bound.  IInv adds to the properties what a session, a stream and a check in       *)
(* flight know of each other.  There is one lemma for each of its parts, and in it   *)
(* one step for each action.                                                         *)
EXTENDS LiveStream, TLAPS

\* The invariant holds at first.
LEMMA Initially == Init => IInv
<1> SUFFICES ASSUME Init PROVE IInv
  OBVIOUS
<1>1. FlagsTyped   BY DEF Init, FlagsTyped
<1>2. CountsTyped  BY LiveAssumption DEF Init, CountsTyped
<1>3. PanelTyped   BY DEF Init, PanelTyped
<1>4. SessionsKnown /\ StreamAccounted /\ OneConnection /\ NeverGivesUp
  BY LiveAssumption DEF Init, SessionsKnown, StreamAccounted, OneConnection, NeverGivesUp, Live
<1> QED BY <1>1, <1>2, <1>3, <1>4 DEF IInv, TypeOK

\* Every step keeps the flags of their types.
LEMMA FlagsStep ==
  ASSUME FlagsTyped, PanelTyped, [Next]_vars
  PROVE  FlagsTyped'
<1> USE LiveAssumption DEF Session, Live, network, conn, counts, Fault, Closed, Stop, Connect,
         Start, Restart, ShowLogin, Current, PutOff, Retry, Lost, Resume, Delivers
<1> USE DEF FlagsTyped
<1>1. CASE Login  BY <1>1 DEF Login
<1>2. CASE Draw  BY <1>2 DEF Draw
<1>3. CASE LoadFails  BY <1>3 DEF LoadFails
<1>4. CASE Logout  BY <1>4 DEF Logout
<1>5. CASE SessionEnds  BY <1>5 DEF SessionEnds
<1>6. CASE Unauthorized  BY <1>6 DEF Unauthorized
<1>7. CASE Hide  BY <1>7 DEF Hide
<1>8. CASE Show  BY <1>8 DEF Show
<1>9. CASE Reopen  BY <1>9 DEF Reopen
<1>10. CASE TimerFires  BY <1>10 DEF TimerFires
<1>11. CASE WatchdogFires  BY <1>11 DEF WatchdogFires
<1>12. CASE Outage  BY <1>12 DEF Outage
<1>13. CASE Returns  BY <1>13 DEF Returns
<1>14. ASSUME NEW s \in Source, CheckAnswered(s) \/ FromSource(s)  PROVE FlagsTyped'
  <2>1. CASE CheckAnswered(s)  BY <2>1 DEF CheckAnswered
  <2>2. CASE Opens(s)  BY <2>2 DEF Opens
  <2>3. CASE Refused(s)  BY <2>3 DEF Refused
  <2>4. CASE Breaks(s)  BY <2>4 DEF Breaks
  <2>5. CASE Snapshot(s)  BY <2>5 DEF Snapshot
  <2>6. CASE BadSnapshot(s)  BY <2>6 DEF BadSnapshot
  <2>7. CASE StreamError(s)  BY <2>7 DEF StreamError
  <2>8. CASE AuthRequired(s)  BY <2>8 DEF AuthRequired
  <2>9. CASE Stalls(s)  BY <2>9 DEF Stalls
  <2>10. CASE Forgotten(s)  BY <2>10 DEF Forgotten
  <2> QED BY <1>14, <2>1, <2>2, <2>3, <2>4, <2>5, <2>6, <2>7, <2>8, <2>9, <2>10 DEF FromSource
<1>15. CASE UNCHANGED vars  BY <1>15 DEF vars
<1> QED BY <1>1, <1>2, <1>3, <1>4, <1>5, <1>6, <1>7, <1>8, <1>9, <1>10, <1>11, <1>12, <1>13, <1>14, <1>15 DEF Next

\* Every step keeps the counters within their bounds.
LEMMA CountsStep ==
  ASSUME CountsTyped, PanelTyped, [Next]_vars
  PROVE  CountsTyped'
<1> USE LiveAssumption DEF Session, Live, network, conn, counts, Fault, Closed, Stop, Connect,
         Start, Restart, ShowLogin, Current, PutOff, Retry, Lost, Resume, Delivers
<1> USE DEF CountsTyped
<1>1. CASE Login  BY <1>1 DEF Login
<1>2. CASE Draw  BY <1>2 DEF Draw
<1>3. CASE LoadFails  BY <1>3 DEF LoadFails
<1>4. CASE Logout  BY <1>4 DEF Logout
<1>5. CASE SessionEnds  BY <1>5 DEF SessionEnds
<1>6. CASE Unauthorized  BY <1>6 DEF Unauthorized
<1>7. CASE Hide  BY <1>7 DEF Hide
<1>8. CASE Show  BY <1>8 DEF Show
<1>9. CASE Reopen  BY <1>9 DEF Reopen
<1>10. CASE TimerFires  BY <1>10 DEF TimerFires
<1>11. CASE WatchdogFires  BY <1>11 DEF WatchdogFires
<1>12. CASE Outage  BY <1>12 DEF Outage
<1>13. CASE Returns  BY <1>13 DEF Returns
<1>14. ASSUME NEW s \in Source, CheckAnswered(s) \/ FromSource(s)  PROVE CountsTyped'
  <2>1. CASE CheckAnswered(s)  BY <2>1 DEF CheckAnswered
  <2>2. CASE Opens(s)  BY <2>2 DEF Opens
  <2>3. CASE Refused(s)  BY <2>3 DEF Refused
  <2>4. CASE Breaks(s)  BY <2>4 DEF Breaks
  <2>5. CASE Snapshot(s)  BY <2>5 DEF Snapshot
  <2>6. CASE BadSnapshot(s)  BY <2>6 DEF BadSnapshot
  <2>7. CASE StreamError(s)  BY <2>7 DEF StreamError
  <2>8. CASE AuthRequired(s)  BY <2>8 DEF AuthRequired
  <2>9. CASE Stalls(s)  BY <2>9 DEF Stalls
  <2>10. CASE Forgotten(s)  BY <2>10 DEF Forgotten
  <2> QED BY <1>14, <2>1, <2>2, <2>3, <2>4, <2>5, <2>6, <2>7, <2>8, <2>9, <2>10 DEF FromSource
<1>15. CASE UNCHANGED vars  BY <1>15 DEF vars
<1> QED BY <1>1, <1>2, <1>3, <1>4, <1>5, <1>6, <1>7, <1>8, <1>9, <1>10, <1>11, <1>12, <1>13, <1>14, <1>15 DEF Next

\* Every step keeps the panel, its session and its links of their types.
LEMMA PanelStep ==
  ASSUME CountsTyped, PanelTyped, [Next]_vars
  PROVE  PanelTyped'
<1> USE LiveAssumption DEF Session, Live, network, conn, counts, Fault, Closed, Stop, Connect,
         Start, Restart, ShowLogin, Current, PutOff, Retry, Lost, Resume, Delivers
<1> USE DEF PanelTyped, CountsTyped
<1>1. CASE Login  BY <1>1 DEF Login
<1>2. CASE Draw  BY <1>2 DEF Draw
<1>3. CASE LoadFails  BY <1>3 DEF LoadFails
<1>4. CASE Logout  BY <1>4 DEF Logout
<1>5. CASE SessionEnds  BY <1>5 DEF SessionEnds
<1>6. CASE Unauthorized  BY <1>6 DEF Unauthorized
<1>7. CASE Hide  BY <1>7 DEF Hide
<1>8. CASE Show  BY <1>8 DEF Show
<1>9. CASE Reopen
  <2>1. Closed \in [Source -> {"none", "connecting", "open", "closed"}]
    OBVIOUS
  <2>2. CASE csrf = None \/ hidden
    BY <1>9, <2>2 DEF Reopen
  <2>3. CASE csrf # None /\ ~hidden
    <3>1. Connect(Closed) /\ csrf' = csrf
      BY <1>9, <2>3 DEF Reopen
    <3>2. PICK s \in Source : link' = [Closed EXCEPT ![s] = "connecting"] /\ stream' = s
      BY <3>1
    <3>3. link' \in [Source -> {"none", "connecting", "open", "closed"}]
      BY <2>1, <3>2
    <3> QED BY <1>9, <2>3, <3>1, <3>3 DEF Reopen
  <2> QED BY <2>2, <2>3
<1>10. CASE TimerFires  BY <1>10 DEF TimerFires
<1>11. CASE WatchdogFires  BY <1>11 DEF WatchdogFires
<1>12. CASE Outage  BY <1>12 DEF Outage
<1>13. CASE Returns  BY <1>13 DEF Returns
<1>14. ASSUME NEW s \in Source, CheckAnswered(s) \/ FromSource(s)  PROVE PanelTyped'
  <2>1. CASE CheckAnswered(s)  BY <2>1 DEF CheckAnswered
  <2>2. CASE Opens(s)  BY <2>2 DEF Opens
  <2>3. CASE Refused(s)  BY <2>3 DEF Refused
  <2>4. CASE Breaks(s)  BY <2>4 DEF Breaks
  <2>5. CASE Snapshot(s)  BY <2>5 DEF Snapshot
  <2>6. CASE BadSnapshot(s)  BY <2>6 DEF BadSnapshot
  <2>7. CASE StreamError(s)  BY <2>7 DEF StreamError
  <2>8. CASE AuthRequired(s)  BY <2>8 DEF AuthRequired
  <2>9. CASE Stalls(s)  BY <2>9 DEF Stalls
  <2>10. CASE Forgotten(s)  BY <2>10 DEF Forgotten
  <2> QED BY <1>14, <2>1, <2>2, <2>3, <2>4, <2>5, <2>6, <2>7, <2>8, <2>9, <2>10 DEF FromSource
<1>15. CASE UNCHANGED vars  BY <1>15 DEF vars
<1> QED BY <1>1, <1>2, <1>3, <1>4, <1>5, <1>6, <1>7, <1>8, <1>9, <1>10, <1>11, <1>12, <1>13, <1>14, <1>15 DEF Next

\* Every step keeps what is known of sessions: none is newer than the last login.
LEMMA SessionsStep ==
  ASSUME IInv, TypeOK', [Next]_vars
  PROVE  SessionsKnown'
<1> USE LiveAssumption DEF Session, Live, network, conn, counts, Fault, Closed, Stop, Connect,
         Start, Restart, ShowLogin, Current, PutOff, Retry, Lost, Resume, Delivers
<1> USE DEF IInv, TypeOK, FlagsTyped, CountsTyped, PanelTyped, SessionsKnown
<1>1. CASE Login  BY <1>1 DEF Login
<1>2. CASE Draw  BY <1>2 DEF Draw
<1>3. CASE LoadFails  BY <1>3 DEF LoadFails
<1>4. CASE Logout  BY <1>4 DEF Logout
<1>5. CASE SessionEnds  BY <1>5 DEF SessionEnds
<1>6. CASE Unauthorized  BY <1>6 DEF Unauthorized
<1>7. CASE Hide  BY <1>7 DEF Hide
<1>8. CASE Show  BY <1>8 DEF Show
<1>9. CASE Reopen  BY <1>9 DEF Reopen
<1>10. CASE TimerFires  BY <1>10 DEF TimerFires
<1>11. CASE WatchdogFires  BY <1>11 DEF WatchdogFires
<1>12. CASE Outage  BY <1>12 DEF Outage
<1>13. CASE Returns  BY <1>13 DEF Returns
<1>14. ASSUME NEW s \in Source, CheckAnswered(s) \/ FromSource(s)  PROVE SessionsKnown'
  <2>1. CASE CheckAnswered(s)  BY <2>1 DEF CheckAnswered
  <2>2. CASE Opens(s)  BY <2>2 DEF Opens
  <2>3. CASE Refused(s)  BY <2>3 DEF Refused
  <2>4. CASE Breaks(s)  BY <2>4 DEF Breaks
  <2>5. CASE Snapshot(s)  BY <2>5 DEF Snapshot
  <2>6. CASE BadSnapshot(s)  BY <2>6 DEF BadSnapshot
  <2>7. CASE StreamError(s)  BY <2>7 DEF StreamError
  <2>8. CASE AuthRequired(s)  BY <2>8 DEF AuthRequired
  <2>9. CASE Stalls(s)  BY <2>9 DEF Stalls
  <2>10. CASE Forgotten(s)  BY <2>10 DEF Forgotten
  <2> QED BY <1>14, <2>1, <2>2, <2>3, <2>4, <2>5, <2>6, <2>7, <2>8, <2>9, <2>10 DEF FromSource
<1>15. CASE UNCHANGED vars  BY <1>15 DEF vars
<1> QED BY <1>1, <1>2, <1>3, <1>4, <1>5, <1>6, <1>7, <1>8, <1>9, <1>10, <1>11, <1>12, <1>13, <1>14, <1>15 DEF Next

\* Every step keeps the stream, its timers and its check in agreement.
LEMMA StreamStep ==
  ASSUME IInv, TypeOK', [Next]_vars
  PROVE  StreamAccounted'
<1> USE LiveAssumption DEF Session, Live, network, conn, counts, Fault, Closed, Stop, Connect,
         Start, Restart, ShowLogin, Current, PutOff, Retry, Lost, Resume, Delivers
<1> USE DEF IInv, TypeOK, FlagsTyped, CountsTyped, PanelTyped, SessionsKnown,
        StreamAccounted, OneConnection
<1>1. CASE Login  BY <1>1 DEF Login
<1>2. CASE Draw  BY <1>2 DEF Draw
<1>3. CASE LoadFails  BY <1>3 DEF LoadFails
<1>4. CASE Logout  BY <1>4 DEF Logout
<1>5. CASE SessionEnds  BY <1>5 DEF SessionEnds
<1>6. CASE Unauthorized  BY <1>6 DEF Unauthorized
<1>7. CASE Hide  BY <1>7 DEF Hide
<1>8. CASE Show  BY <1>8 DEF Show
<1>9. CASE Reopen
  <2>1. CASE csrf = None \/ hidden
    BY <1>9, <2>1 DEF Reopen
  <2>2. CASE csrf # None /\ ~hidden
    <3>1. /\ \A t \in Source : Closed[t] \notin Live
          /\ \A t \in checking : Closed[t] = "closed"
      OBVIOUS
    <3>2. /\ csrf' = csrf /\ hidden' = hidden /\ checking' = checking /\ sessions' = sessions
          /\ Connect(Closed)
      BY <1>9, <2>2 DEF Reopen
    <3> QED BY <2>2, <3>1, <3>2
  <2> QED BY <2>1, <2>2
<1>10. CASE TimerFires  BY <1>10 DEF TimerFires
<1>11. CASE WatchdogFires  BY <1>11 DEF WatchdogFires
<1>12. CASE Outage  BY <1>12 DEF Outage
<1>13. CASE Returns  BY <1>13 DEF Returns
<1>14. ASSUME NEW s \in Source, CheckAnswered(s) \/ FromSource(s)  PROVE StreamAccounted'
  <2>1. CASE CheckAnswered(s)  BY <2>1 DEF CheckAnswered
  <2>2. CASE Opens(s)  BY <2>2 DEF Opens
  <2>3. CASE Refused(s)  BY <2>3 DEF Refused
  <2>4. CASE Breaks(s)  BY <2>4 DEF Breaks
  <2>5. CASE Snapshot(s)  BY <2>5 DEF Snapshot
  <2>6. CASE BadSnapshot(s)  BY <2>6 DEF BadSnapshot
  <2>7. CASE StreamError(s)  BY <2>7 DEF StreamError
  <2>8. CASE AuthRequired(s)  BY <2>8 DEF AuthRequired
  <2>9. CASE Stalls(s)  BY <2>9 DEF Stalls
  <2>10. CASE Forgotten(s)  BY <2>10 DEF Forgotten
  <2> QED BY <1>14, <2>1, <2>2, <2>3, <2>4, <2>5, <2>6, <2>7, <2>8, <2>9, <2>10 DEF FromSource
<1>15. CASE UNCHANGED vars  BY <1>15 DEF vars
<1> QED BY <1>1, <1>2, <1>3, <1>4, <1>5, <1>6, <1>7, <1>8, <1>9, <1>10, <1>11, <1>12, <1>13, <1>14, <1>15 DEF Next

\* Every step keeps at most one connection.
LEMMA ConnectionStep ==
  ASSUME IInv, TypeOK', [Next]_vars
  PROVE  OneConnection'
<1> USE LiveAssumption DEF Session, Live, network, conn, counts, Fault, Closed, Stop, Connect,
         Start, Restart, ShowLogin, Current, PutOff, Retry, Lost, Resume, Delivers
<1> USE DEF IInv, TypeOK, FlagsTyped, CountsTyped, PanelTyped, SessionsKnown,
        StreamAccounted, OneConnection
<1>1. CASE Login  BY <1>1 DEF Login
<1>2. CASE Draw  BY <1>2 DEF Draw
<1>3. CASE LoadFails  BY <1>3 DEF LoadFails
<1>4. CASE Logout  BY <1>4 DEF Logout
<1>5. CASE SessionEnds  BY <1>5 DEF SessionEnds
<1>6. CASE Unauthorized  BY <1>6 DEF Unauthorized
<1>7. CASE Hide  BY <1>7 DEF Hide
<1>8. CASE Show  BY <1>8 DEF Show
<1>9. CASE Reopen
  <2>1. CASE csrf = None \/ hidden
    BY <1>9, <2>1 DEF Reopen
  <2>2. CASE csrf # None /\ ~hidden
    <3>1. /\ \A t \in Source : Closed[t] \notin Live
          /\ \A t \in checking : Closed[t] = "closed"
      OBVIOUS
    <3>2. /\ csrf' = csrf /\ hidden' = hidden /\ checking' = checking /\ sessions' = sessions
          /\ Connect(Closed)
      BY <1>9, <2>2 DEF Reopen
    <3> QED BY <2>2, <3>1, <3>2
  <2> QED BY <2>1, <2>2
<1>10. CASE TimerFires  BY <1>10 DEF TimerFires
<1>11. CASE WatchdogFires  BY <1>11 DEF WatchdogFires
<1>12. CASE Outage  BY <1>12 DEF Outage
<1>13. CASE Returns  BY <1>13 DEF Returns
<1>14. ASSUME NEW s \in Source, CheckAnswered(s) \/ FromSource(s)  PROVE OneConnection'
  <2>1. CASE CheckAnswered(s)  BY <2>1 DEF CheckAnswered
  <2>2. CASE Opens(s)  BY <2>2 DEF Opens
  <2>3. CASE Refused(s)  BY <2>3 DEF Refused
  <2>4. CASE Breaks(s)  BY <2>4 DEF Breaks
  <2>5. CASE Snapshot(s)  BY <2>5 DEF Snapshot
  <2>6. CASE BadSnapshot(s)  BY <2>6 DEF BadSnapshot
  <2>7. CASE StreamError(s)  BY <2>7 DEF StreamError
  <2>8. CASE AuthRequired(s)  BY <2>8 DEF AuthRequired
  <2>9. CASE Stalls(s)  BY <2>9 DEF Stalls
  <2>10. CASE Forgotten(s)  BY <2>10 DEF Forgotten
  <2> QED BY <1>14, <2>1, <2>2, <2>3, <2>4, <2>5, <2>6, <2>7, <2>8, <2>9, <2>10 DEF FromSource
<1>15. CASE UNCHANGED vars  BY <1>15 DEF vars
<1> QED BY <1>1, <1>2, <1>3, <1>4, <1>5, <1>6, <1>7, <1>8, <1>9, <1>10, <1>11, <1>12, <1>13, <1>14, <1>15 DEF Next

\* Every step keeps a shown panel with a stream or an attempt to come.
LEMMA PursuitStep ==
  ASSUME IInv, TypeOK', [Next]_vars
  PROVE  NeverGivesUp'
<1> USE LiveAssumption DEF Session, Live, network, conn, counts, Fault, Closed, Stop, Connect,
         Start, Restart, ShowLogin, Current, PutOff, Retry, Lost, Resume, Delivers
<1> USE DEF IInv, TypeOK, FlagsTyped, CountsTyped, PanelTyped, SessionsKnown,
        StreamAccounted, OneConnection, NeverGivesUp
<1>1. CASE Login  BY <1>1 DEF Login
<1>2. CASE Draw  BY <1>2 DEF Draw
<1>3. CASE LoadFails  BY <1>3 DEF LoadFails
<1>4. CASE Logout  BY <1>4 DEF Logout
<1>5. CASE SessionEnds  BY <1>5 DEF SessionEnds
<1>6. CASE Unauthorized  BY <1>6 DEF Unauthorized
<1>7. CASE Hide  BY <1>7 DEF Hide
<1>8. CASE Show  BY <1>8 DEF Show
<1>9. CASE Reopen  BY <1>9 DEF Reopen
<1>10. CASE TimerFires  BY <1>10 DEF TimerFires
<1>11. CASE WatchdogFires  BY <1>11 DEF WatchdogFires
<1>12. CASE Outage  BY <1>12 DEF Outage
<1>13. CASE Returns  BY <1>13 DEF Returns
<1>14. ASSUME NEW s \in Source, CheckAnswered(s) \/ FromSource(s)  PROVE NeverGivesUp'
  <2>1. CASE CheckAnswered(s)  BY <2>1 DEF CheckAnswered
  <2>2. CASE Opens(s)  BY <2>2 DEF Opens
  <2>3. CASE Refused(s)  BY <2>3 DEF Refused
  <2>4. CASE Breaks(s)  BY <2>4 DEF Breaks
  <2>5. CASE Snapshot(s)  BY <2>5 DEF Snapshot
  <2>6. CASE BadSnapshot(s)  BY <2>6 DEF BadSnapshot
  <2>7. CASE StreamError(s)  BY <2>7 DEF StreamError
  <2>8. CASE AuthRequired(s)  BY <2>8 DEF AuthRequired
  <2>9. CASE Stalls(s)  BY <2>9 DEF Stalls
  <2>10. CASE Forgotten(s)  BY <2>10 DEF Forgotten
  <2> QED BY <1>14, <2>1, <2>2, <2>3, <2>4, <2>5, <2>6, <2>7, <2>8, <2>9, <2>10 DEF FromSource
<1>15. CASE UNCHANGED vars  BY <1>15 DEF vars
<1> QED BY <1>1, <1>2, <1>3, <1>4, <1>5, <1>6, <1>7, <1>8, <1>9, <1>10, <1>11, <1>12, <1>13, <1>14, <1>15 DEF Next

\* dashboard.js:27-94: what every reachable state of the live connection satisfies.
THEOREM Invariance == Spec => []IInv
<1>1. IInv /\ [Next]_vars => IInv'
  BY FlagsStep, CountsStep, PanelStep, SessionsStep, StreamStep, ConnectionStep, PursuitStep
  DEF IInv, TypeOK
<1> QED BY Initially, <1>1, PTL DEF Spec

\* Every variable has its type.
THEOREM TypeCorrect == Spec => []TypeOK
<1>1. IInv => TypeOK  BY DEF IInv
<1> QED BY Invariance, <1>1, PTL

\* README.md:260 "one SSE connection": the panel holds at most one, only for a session on
\* a shown page, and never beside an attempt put off.
THEOREM OneConnectionAlways == Spec => []OneConnection
<1>1. IInv => OneConnection  BY DEF IInv
<1> QED BY Invariance, <1>1, PTL

\* The stream of the panel's session has a deadline at any time, and "live" means that it
\* is open; a stream without that is left over from an earlier session.
THEOREM LiveIsWatchedAlways == Spec => []LiveIsWatched
<1>1. IInv => LiveIsWatched
  BY LiveAssumption
  DEF IInv, TypeOK, PanelTyped, CountsTyped, Session, SessionsKnown, StreamAccounted, Leftover,
      LiveIsWatched
<1> QED BY Invariance, <1>1, PTL

\* A shown panel always has a stream or an attempt to come.
THEOREM NeverGivesUpAlways == Spec => []NeverGivesUp
<1>1. IInv => NeverGivesUp  BY DEF IInv
<1> QED BY Invariance, <1>1, PTL
=============================================================================
