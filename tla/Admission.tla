----------------------------- MODULE Admission -----------------------------
(***************************************************************************)
(* Admission to the control plane's HTTP listener (Admission in            *)
(* ambergate/http_security.py) with the threads that use it (Server and    *)
(* Handler in ambergate/server.py).                                        *)
(*                                                                         *)
(* The accepting thread charges each connection to its peer; the thread of *)
(* the connection charges it to the client once the headers are read, and  *)
(* to a kind of request once the request is authorised.  Every operation   *)
(* is one region of the lock.  A connection serves one request.            *)
(***************************************************************************)
EXTENDS Naturals, FiniteSets

CONSTANTS
  Connection,   \* connections at a time
  Address,
  Trusted,      \* addresses in ADMIN_TRUSTED_PROXIES
  None,
  Limit,        \* connections of each kind (64, 32, 160, 16)
  ClientLimit,  \* pending connections of one client or peer (8)
  ProxyLimit    \* pending connections of one trusted peer (64)

Kind   == {"pending", "admin", "agent", "report"}
Source == {"peer", "client"} \X Address

ASSUME AdmissionAssumption ==
  /\ Trusted \subseteq Address
  /\ IsFiniteSet(Connection)
  /\ Limit \in [Kind -> Nat] /\ ClientLimit \in Nat /\ ProxyLimit \in Nat
  /\ None \notin Source \X Kind

VARIABLES
  counts,     \* connections of each kind
  sources,    \* pending connections of each source; 0 when it has no entry
  requests,   \* source and kind of each connection that was let in
  stage       \* of the thread of each connection

vars == <<counts, sources, requests, stage>>

Stage == {"none", "accepted", "reading", "handling", "serving", "closing"}

TypeOK ==
  /\ counts \in [Kind -> Nat] /\ sources \in [Source -> Nat]
  /\ requests \in [Connection -> (Source \X Kind) \cup {None}]
  /\ stage \in [Connection -> Stage]

Init ==
  /\ counts = [k \in Kind |-> 0] /\ sources = [s \in Source |-> 0]
  /\ requests = [c \in Connection |-> None]
  /\ stage = [c \in Connection |-> "none"]

----------------------------------------------------------------------------
(* The table *)

\* limit in enter(): a trusted proxy speaks for many clients.
PeerLimit(a) == IF a \in Trusted THEN ProxyLimit ELSE ClientLimit

Charge(f, x)  == [f EXCEPT ![x] = @ + 1]
Release(f, x) == [f EXCEPT ![x] = @ - 1]

SourceOf(c) == requests[c][1]
KindOf(c)   == requests[c][2]

\* Faulty variant of ReleasedSources: the kind is not looked at.
ReleasedWhateverKind(c) == Release(sources, SourceOf(c))

\* Only pending connections are charged to a source.
ReleasedSources(c) ==
  IF KindOf(c) = "pending" THEN Release(sources, SourceOf(c)) ELSE sources

To(c, s) == stage' = [stage EXCEPT ![c] = s]

----------------------------------------------------------------------------
(* process_request *)

Room(a) == counts["pending"] < Limit["pending"] /\ sources[<<"peer", a>>] < PeerLimit(a)

\* enter(): a connection is let in, or shut down at once.
Enter(c, a) ==
  /\ stage[c] = "none" /\ Room(a)
  /\ counts' = Charge(counts, "pending")
  /\ sources' = Charge(sources, <<"peer", a>>)
  /\ requests' = [requests EXCEPT ![c] = <<<<"peer", a>>, "pending">>]
  /\ To(c, "accepted")

\* leave(): whatever the connection still holds is released.
Left(c) ==
  /\ counts' = Release(counts, KindOf(c))
  /\ sources' = ReleasedSources(c)
  /\ requests' = [requests EXCEPT ![c] = None]
  /\ To(c, "none")

\* The thread cannot be started.
StartFails(c) == stage[c] = "accepted" /\ Left(c)

----------------------------------------------------------------------------
(* The thread of a connection *)

Step(c, from, to) ==
  /\ stage[c] = from /\ To(c, to)
  /\ UNCHANGED <<counts, sources, requests>>

Starts(c) == Step(c, "accepted", "reading")

\* Faulty variant of ReadFails: what is received renews the deadline.
DeadlineRenewed(c) == stage[c] = "reading" /\ UNCHANGED vars

\* The headers make no sense, or do not arrive within ten seconds.
ReadFails(c) == Step(c, "reading", "closing")

\* TrustedProxies.client(): a trusted peer may name any client, another one only itself.
ClientsOf(a) == IF a \in Trusted THEN Address ELSE {a}

\* Faulty variant of Moved: the peer keeps its charge.
MovedWithoutRelease(c, client) == Charge(sources, <<"client", client>>)

Moved(c, client) == Charge(ReleasedSources(c), <<"client", client>>)

\* identify(): the connection moves from its peer to its client.
Identify(c, client) ==
  /\ stage[c] = "reading" /\ client \in ClientsOf(SourceOf(c)[2])
  /\ sources[<<"client", client>>] < ClientLimit
  /\ sources' = Moved(c, client)
  /\ requests' = [requests EXCEPT ![c] = <<<<"client", client>>, KindOf(c)>>]
  /\ To(c, "handling")
  /\ UNCHANGED counts

\* identify(): the client has too many; 503.
IdentifyRefused(c, client) ==
  /\ stage[c] = "reading" /\ client \in ClientsOf(SourceOf(c)[2])
  /\ sources[<<"client", client>>] >= ClientLimit
  /\ Step(c, "reading", "closing")

\* Faulty variant of KindHasRoom: the comparison admits one too many.
KindHasRoomOrIsFull(k) == counts[k] <= Limit[k]

KindHasRoom(k) == counts[k] < Limit[k]

\* promote(): from then on the connection is charged to its kind only.
Promote(c, k) ==
  /\ stage[c] = "handling" /\ KindHasRoom(k)
  /\ counts' = Charge(Release(counts, KindOf(c)), k)
  /\ sources' = ReleasedSources(c)
  /\ requests' = [requests EXCEPT ![c] = <<SourceOf(c), k>>]
  /\ To(c, "serving")

\* promote(): the kind is full; 503.
PromoteRefused(c, k) == ~KindHasRoom(k) /\ Step(c, "handling", "closing")

\* A request that needs no kind: a page, a health check, a login, one without a session.
Answers(c) == Step(c, "handling", "closing")

\* The request is served; a tunnel or a stream of events may take for ever.
Serves(c) == Step(c, "serving", "closing")

\* process_request_thread() ends, however the request did.
Leave(c) == stage[c] = "closing" /\ Left(c)

----------------------------------------------------------------------------

\* What needs nothing of the client: reading has a deadline, and so has every answer.
Thread(c) == StartFails(c) \/ Starts(c) \/ ReadFails(c) \/ Answers(c) \/ Leave(c)

\* What a client may or may not bring about.
Request(c) ==
  \/ \E a \in Address : Enter(c, a) \/ Identify(c, a) \/ IdentifyRefused(c, a)
  \/ \E k \in Kind \ {"pending"} : Promote(c, k) \/ PromoteRefused(c, k)
  \/ Serves(c)

Next == \E c \in Connection : Thread(c) \/ Request(c)

Spec == Init /\ [][Next]_vars

FairSpec == Spec /\ \A c \in Connection : WF_vars(Thread(c))

----------------------------------------------------------------------------
(* Safety *)

OfKind(k)   == {c \in Connection : requests[c] # None /\ KindOf(c) = k}
OfSource(s) == {c \in OfKind("pending") : SourceOf(c) = s}

\* The counters are what they count, through every exchange of one permit for another,
\* refusal, failure and end: none is lost, none is given back twice.
PermitsAccounted ==
  /\ \A k \in Kind : counts[k] = Cardinality(OfKind(k))
  /\ \A s \in Source : sources[s] = Cardinality(OfSource(s))

\* No kind, no client and no peer ever holds more than its share, although a connection
\* is recharged twice after enter() has checked for room.
LimitsHold ==
  /\ \A k \in Kind : counts[k] <= Limit[k]
  /\ \A a \in Address : sources[<<"peer", a>>] <= PeerLimit(a)
                     /\ sources[<<"client", a>>] <= ClientLimit

\* A connection has a permit from the moment it is let in to the end of its thread.
PermitsFollowThreads == \A c \in Connection : requests[c] # None <=> stage[c] # "none"

----------------------------------------------------------------------------
(* Liveness, under FairSpec *)

\* A connection that is not being served gives its place back, even if its client sends
\* nothing: pending places cannot be held by waiting.
PendingEnds ==
  \A c \in Connection : requests[c] # None /\ KindOf(c) = "pending"
                          ~> requests[c] = None \/ KindOf(c) # "pending"
=============================================================================
