----------------------------- MODULE LiveStream -----------------------------
(* The live connection of the panel: static/dashboard.js:27-94, with the parts of    *)
(* app.js that log in, log out and draw the page.                                    *)
(*                                                                                   *)
(* An EventSource is a member of Source; it is used again once nothing refers to it. *)
(* The browser delivers nothing from a source after close(), and it reports an error *)
(* in the task that finds it.  Timers run out in any order, except that the watchdog *)
(* (15 s) does not overtake a source that delivers (once a second).  How long the    *)
(* next attempt is put off (1 to 15 s) is left out.                                  *)
EXTENDS Naturals, FiniteSets

CONSTANTS
  None,
  Source,       \* EventSource objects
  MaxSession,   \* bound: logins, counted from 1
  MaxFaults,    \* bound: breaks, stalls, bad frames, refusals, outages, lost sessions
  MaxRestarts   \* bound: restarts by the administrator or a returning network

ASSUME LiveAssumption ==
  /\ None \notin Source /\ None \notin Nat
  /\ MaxSession \in Nat /\ MaxFaults \in Nat /\ MaxRestarts \in Nat

Session == 1..MaxSession
Live    == {"connecting", "open"}

VARIABLES
  \* Server and network.
  up,           \* the server answers
  valid,        \* sessions it accepts
  mute,         \* sources whose connection is there but brings nothing
  \* Browser.
  link,         \* state of each source
  hidden,       \* the page is hidden or left
  \* Panel.
  csrf,         \* session of the panel, or None
  view,         \* "login", "loading" after a login, or "panel"
  stream,       \* dashboardStream, or None
  owner,        \* the session each source was opened in
  timer,        \* dashboardRetry is armed
  watchdog,     \* dashboardWatchdog is armed
  checking,     \* sources whose retry() awaits api('session')
  status,       \* dashboardStreamState
  sessions, faults, restarts    \* counters of the bounds

network == <<up, valid, mute>>
conn    == <<link, stream, owner, timer, watchdog, status>>
counts  == <<sessions, faults, restarts>>
vars    == <<network, hidden, csrf, view, conn, checking, counts>>

FlagsTyped ==
  up \in BOOLEAN /\ hidden \in BOOLEAN /\ timer \in BOOLEAN /\ watchdog \in BOOLEAN
CountsTyped ==
  sessions \in 0..MaxSession /\ faults \in 0..MaxFaults /\ restarts \in 0..MaxRestarts
PanelTyped ==
  /\ view \in {"login", "loading", "panel"}
  /\ status \in {"connecting", "live", "reconnecting"}
  /\ link \in [Source -> {"none", "connecting", "open", "closed"}]
  /\ owner \in [Source -> Session \cup {None}]
  /\ valid \subseteq Session /\ csrf \in Session \cup {None}
  /\ stream \in Source \cup {None} /\ checking \subseteq Source /\ mute \subseteq Source

TypeOK == FlagsTyped /\ CountsTyped /\ PanelTyped

Init ==
  /\ up = TRUE /\ valid = {} /\ mute = {}
  /\ link = [s \in Source |-> "none"] /\ owner = [s \in Source |-> None]
  /\ hidden = FALSE /\ csrf = None /\ view = "login"
  /\ stream = None /\ timer = FALSE /\ watchdog = FALSE /\ checking = {}
  /\ status = "connecting"
  /\ sessions = 0 /\ faults = 0 /\ restarts = 0

Fault == faults < MaxFaults /\ faults' = faults + 1 /\ UNCHANGED <<sessions, restarts>>

(* stopDashboardStream() and startDashboardStream().                                 *)
Closed == [s \in Source |-> IF s = stream THEN "closed" ELSE link[s]]

Stop ==
  /\ link' = Closed /\ stream' = None /\ timer' = FALSE /\ watchdog' = FALSE
  /\ status' = "connecting" /\ UNCHANGED owner

\* Faulty variant of Connect: the watchdog is armed by the first snapshot only.
ConnectUnwatched(links) ==
  \E s \in Source :
    /\ links[s] = "none"
    /\ link' = [links EXCEPT ![s] = "connecting"] /\ owner' = [owner EXCEPT ![s] = csrf']
    /\ stream' = s /\ timer' = FALSE /\ watchdog' = FALSE /\ status' = "connecting"

Connect(links) ==
  \E s \in Source :
    /\ links[s] = "none"
    /\ link' = [links EXCEPT ![s] = "connecting"] /\ owner' = [owner EXCEPT ![s] = csrf']
    /\ stream' = s /\ timer' = FALSE /\ watchdog' = TRUE /\ status' = "connecting"

Start ==
  IF csrf' # None /\ ~hidden' /\ stream = None /\ ~timer
  THEN Connect(link) ELSE UNCHANGED conn

Restart == IF csrf' # None /\ ~hidden' THEN Connect(Closed) ELSE UNCHANGED conn

(* The session.  showLogin() is reached by 401, auth_required and logout.            *)
ShowLogin == csrf' = None /\ view' = "login" /\ Stop

Login ==
  /\ view = "login" /\ sessions < MaxSession
  /\ sessions' = sessions + 1 /\ csrf' = sessions' /\ valid' = valid \cup {sessions'}
  /\ view' = "loading"
  /\ UNCHANGED <<up, mute, hidden, conn, checking, faults, restarts>>

\* load() has its answer, or any later render().
Draw ==
  /\ view \in {"loading", "panel"} /\ view' = "panel"
  /\ UNCHANGED <<csrf, hidden>> /\ Start
  /\ UNCHANGED <<network, checking, counts>>

\* load() fails after a login, or at the start of the page, where showLogin() follows.
\* csrf stays as it is.
LoadFails ==
  /\ view = "loading" /\ Fault /\ view' = "login"
  /\ UNCHANGED conn \/ Stop
  /\ UNCHANGED <<network, hidden, csrf, checking>>

Logout ==
  /\ view = "panel" /\ valid' = valid \ {csrf} /\ ShowLogin
  /\ UNCHANGED <<up, mute, hidden, checking, counts>>

\* It expires, is evicted, or the password is changed elsewhere.
SessionEnds ==
  /\ csrf \in valid /\ Fault /\ valid' = valid \ {csrf}
  /\ UNCHANGED <<up, mute, hidden, csrf, view, conn, checking>>

\* Another request of the panel gets 401.
Unauthorized ==
  /\ up /\ csrf # None /\ csrf \notin valid /\ ShowLogin
  /\ UNCHANGED <<network, hidden, checking, counts>>

(* The page: visibilitychange, pagehide, pageshow, online, the refresh button.       *)
Hide ==
  /\ ~hidden /\ hidden' = TRUE /\ Stop
  /\ UNCHANGED <<network, csrf, view, checking, counts>>

Show ==
  /\ hidden /\ hidden' = FALSE /\ UNCHANGED csrf /\ Start
  /\ UNCHANGED <<network, view, checking, counts>>

Reopen ==
  /\ restarts < MaxRestarts /\ restarts' = restarts + 1
  /\ UNCHANGED <<csrf, hidden>> /\ Restart
  /\ UNCHANGED <<network, view, checking, sessions, faults>>

(* retry(), its check of the session and the next attempt.                           *)
Current(s) == stream = s /\ csrf # None /\ owner[s] = csrf

\* Faulty variant of PutOff: dashboardStream keeps the closed source.
PutOffKeeping == timer' = TRUE /\ UNCHANGED stream

PutOff == stream' = None /\ timer' = TRUE

Retry(s, check) ==
  /\ link' = [link EXCEPT ![s] = "closed"] /\ watchdog' = FALSE
  /\ status' = "reconnecting" /\ UNCHANGED owner
  /\ IF check
     THEN checking' = checking \cup {s} /\ UNCHANGED <<stream, timer>>
     ELSE PutOff /\ UNCHANGED checking

\* A source that is not current is left to the browser: it closes a refused one and
\* connects a broken one again.
Lost(s, check) ==
  IF Current(s) THEN Retry(s, check)
  ELSE /\ link' = [link EXCEPT ![s] = IF check THEN "closed" ELSE "connecting"]
       /\ UNCHANGED <<stream, owner, timer, watchdog, status, checking>>

\* Faulty variant of Resume: what happened during the await is not looked at.
ResumeAnyway(s) == PutOff /\ UNCHANGED <<link, owner, watchdog, status>>

\* The part of retry() after the await.
Resume(s) ==
  IF Current(s) THEN PutOff /\ UNCHANGED <<link, owner, watchdog, status>>
  ELSE UNCHANGED conn

\* api('session') has an answer or gives up after 5 s.  A 401 logs the panel out, whatever
\* session it has by then.
CheckAnswered(s) ==
  /\ s \in checking /\ checking' = checking \ {s}
  /\ \/ /\ up /\ owner[s] \notin valid /\ ShowLogin /\ UNCHANGED counts
     \/ /\ up /\ owner[s] \in valid /\ Resume(s) /\ UNCHANGED <<csrf, view, counts>>
     \/ /\ ~up /\ Resume(s) /\ UNCHANGED <<csrf, view, counts>>
     \/ /\ Fault /\ Resume(s) /\ UNCHANGED <<csrf, view>>
  /\ UNCHANGED <<network, hidden>>

\* Faulty variant of TimerFires: dashboardRetry is reset after startDashboardStream().
TimerFiresLate ==
  /\ timer /\ timer' = FALSE
  /\ UNCHANGED <<network, hidden, csrf, view, link, stream, owner, watchdog, status,
                 checking, counts>>

TimerFires ==
  /\ timer /\ UNCHANGED <<csrf, hidden>>
  /\ IF csrf # None /\ ~hidden /\ stream = None
     THEN Connect(link)
     ELSE timer' = FALSE /\ UNCHANGED <<link, stream, owner, watchdog, status>>
  /\ UNCHANGED <<network, view, checking, counts>>

Delivers(s) == up /\ s \notin mute

WatchdogFires ==
  /\ watchdog /\ stream # None /\ ~Delivers(stream)
  /\ IF Current(stream) THEN Retry(stream, FALSE)
     ELSE watchdog' = FALSE /\ UNCHANGED <<link, stream, owner, timer, status, checking>>
  /\ UNCHANGED <<network, hidden, csrf, view, counts>>

(* The connection.                                                                   *)
Opens(s) ==
  /\ link[s] = "connecting" /\ Delivers(s) /\ owner[s] \in valid
  /\ link' = [link EXCEPT ![s] = "open"]
  /\ UNCHANGED <<network, hidden, csrf, view, stream, owner, timer, watchdog, status,
                 checking, counts>>

\* Faulty variant of Refused: a refusal is taken for a lost connection.
RefusedUnchecked(s) ==
  /\ link[s] = "connecting" /\ up /\ Lost(s, FALSE)
  /\ IF owner[s] \in valid THEN Fault ELSE UNCHANGED counts
  /\ UNCHANGED <<network, hidden, csrf, view>>

\* 401, or 503 when all live connections are taken: the source is closed and the status
\* is not shown to the page, so retry() asks for the session.
Refused(s) ==
  /\ link[s] = "connecting" /\ up /\ Lost(s, TRUE)
  /\ IF owner[s] \in valid THEN Fault ELSE UNCHANGED counts
  /\ UNCHANGED <<network, hidden, csrf, view>>

Breaks(s) ==
  /\ link[s] \in Live /\ Lost(s, FALSE)
  /\ IF up THEN Fault ELSE UNCHANGED counts
  /\ UNCHANGED <<network, hidden, csrf, view>>

Snapshot(s) ==
  /\ link[s] = "open" /\ Delivers(s) /\ owner[s] \in valid
  /\ IF Current(s) THEN status' = "live" /\ watchdog' = TRUE ELSE UNCHANGED <<status, watchdog>>
  /\ UNCHANGED <<network, hidden, csrf, view, link, stream, owner, timer, checking, counts>>

BadSnapshot(s) ==
  /\ link[s] = "open" /\ Delivers(s) /\ owner[s] \in valid /\ Current(s) /\ Fault
  /\ Retry(s, FALSE)
  /\ UNCHANGED <<network, hidden, csrf, view>>

\* stream_error does not feed the watchdog.
StreamError(s) ==
  /\ link[s] = "open" /\ Delivers(s) /\ owner[s] \in valid /\ Fault
  /\ status' = IF Current(s) THEN "reconnecting" ELSE status
  /\ UNCHANGED <<network, hidden, csrf, view, link, stream, owner, timer, watchdog, checking>>

AuthRequired(s) ==
  /\ link[s] = "open" /\ Delivers(s) /\ owner[s] \notin valid
  /\ IF Current(s) THEN ShowLogin ELSE UNCHANGED <<csrf, view, conn>>
  /\ UNCHANGED <<network, hidden, checking, counts>>

Stalls(s) ==
  /\ link[s] \in Live /\ s \notin mute /\ Fault /\ mute' = mute \cup {s}
  /\ UNCHANGED <<up, valid, hidden, csrf, view, conn, checking>>

Forgotten(s) ==
  /\ link[s] = "closed" /\ s # stream /\ s \notin checking
  /\ link' = [link EXCEPT ![s] = "none"] /\ mute' = mute \ {s}
  /\ UNCHANGED <<up, valid, hidden, csrf, view, stream, owner, timer, watchdog, status,
                 checking, counts>>

Outage ==
  /\ up /\ Fault /\ up' = FALSE
  /\ UNCHANGED <<valid, mute, hidden, csrf, view, conn, checking>>

Returns ==
  /\ ~up /\ up' = TRUE
  /\ UNCHANGED <<valid, mute, hidden, csrf, view, conn, checking, counts>>

FromSource(s) ==
  \/ Opens(s) \/ Refused(s) \/ Breaks(s) \/ Snapshot(s) \/ BadSnapshot(s)
  \/ StreamError(s) \/ AuthRequired(s) \/ Stalls(s) \/ Forgotten(s)

Next ==
  \/ Login \/ Draw \/ LoadFails \/ Logout \/ SessionEnds \/ Unauthorized
  \/ Hide \/ Show \/ Reopen
  \/ \E s \in Source : CheckAnswered(s) \/ FromSource(s)
  \/ TimerFires \/ WatchdogFires \/ Outage \/ Returns

\* Timers run out, an abort signal ends the check, the server answers and publishes, and
\* an outage ends; nothing the administrator does and no fault is fair.
Fairness ==
  /\ WF_vars(TimerFires) /\ WF_vars(WatchdogFires) /\ WF_vars(Returns)
  /\ \A s \in Source :
       /\ WF_vars(CheckAnswered(s)) /\ WF_vars(Opens(s)) /\ WF_vars(Snapshot(s))
       /\ WF_vars(Refused(s) /\ owner[s] \notin valid) /\ WF_vars(AuthRequired(s))
       /\ WF_vars(Forgotten(s))

Spec     == Init /\ [][Next]_vars
LiveSpec == Spec /\ Fairness

\* A stream opened before the load of another login failed: its events are ignored
\* (current()), and it is not replaced.
Leftover == stream # None /\ owner[stream] # csrf

(* The inductive invariant of LiveStream_proofs.                                     *)
SessionsKnown ==
  /\ \A s \in Source : owner[s] # None => owner[s] <= sessions
  /\ csrf # None => csrf = sessions
  /\ view # "login" => csrf # None

StreamAccounted ==
  /\ \A s \in checking : link[s] = "closed"
  /\ stream # None => csrf # None /\ ~hidden /\ owner[stream] # None
  /\ stream # None /\ owner[stream] = csrf =>
       IF stream \in checking THEN ~watchdog ELSE watchdog /\ link[stream] \in Live
  /\ watchdog => stream # None /\ stream \notin checking
  /\ status = "live" => stream # None
  /\ status = "live" /\ owner[stream] = csrf => link[stream] = "open"

(* Properties.                                                                       *)

\* README.md:260 "one SSE connection", and the test "hidden pages, logout and invalid
\* sessions release the connection" (dashboard_sse.test.js:62): a connection that lives is
\* the panel's stream, on a page that is shown and has a session; an attempt put off and a
\* stream exclude each other.
OneConnection ==
  /\ \A s \in Source : link[s] \in Live => stream = s /\ csrf # None /\ ~hidden
  /\ timer => stream = None /\ csrf # None /\ ~hidden

\* The test "stalled stream is detected and reconnected" (line 54): a stream of the
\* panel's session has a deadline, the watchdog or that of its check, and "live" is shown
\* only while that stream is open and watched.  The exception is a stream left over from an
\* earlier session, and only of such a one: it may be broken and unwatched while "live" is
\* still shown (see ReconnectsAutomatically).
LiveIsWatched ==
  /\ status = "live" => stream # None
  /\ stream # None /\ ~Leftover =>
       /\ watchdog \/ stream \in checking
       /\ status = "live" => link[stream] = "open" /\ watchdog
  /\ Leftover => owner[stream] < csrf

\* The panel never gives up: while it shows the configuration, it has a stream or an
\* attempt to come (dashboard.js:42-57, 89-94).
NeverGivesUp == view = "panel" /\ ~hidden => stream # None \/ timer

Wanted == view = "panel" /\ ~hidden /\ csrf \in valid

\* dashboard.js:42-61, and the test "disconnect retries" (line 43): a shown page with a
\* session that stays accepted ends up live, whatever broke, stalled, was refused or came
\* in a bad frame before.
Recovers == <>[](Wanted /\ ~Leftover) => <>[](status = "live")

\* dashboard.js:86 "Связь с сервером потеряна. Переподключаемся автоматически" (the
\* connection is lost, reconnecting automatically): the same without the exception.
ReconnectsAutomatically == <>[]Wanted => <>[](status = "live")

\* The tests at lines 62 and 72: a panel that is shown finds out that its session ended,
\* although EventSource does not tell it the status of a refusal, unless its stream is left
\* over from an earlier one, whose events it ignores.
EndedSessionIsLeft ==
  [](view = "panel" /\ csrf \notin valid => <>(csrf = None \/ hidden \/ Leftover))

IInv ==
  TypeOK /\ SessionsKnown /\ StreamAccounted /\ OneConnection /\ NeverGivesUp
=============================================================================
