-------------------------- MODULE Admission_proofs --------------------------
(***************************************************************************)
(* Proofs about Admission, for every value of its constants.               *)
(***************************************************************************)
EXTENDS Admission, FiniteSetTheorems, TLAPS

\* What requests may hold for a connection.
Permit == (Source \X Kind) \cup {None}

\* r is a permit of kind k; r is a pending permit of source s.
Holds(r, k)   == r # None /\ r[2] = k
HoldsOf(r, s) == r # None /\ r[2] = "pending" /\ r[1] = s

\* How much a permit counts.
One(p) == IF p THEN 1 ELSE 0

\* A thread that has not been promoted holds a pending permit.
PendingStages ==
  \A c \in Connection : stage[c] \in {"accepted", "reading", "handling"} => Holds(requests[c], "pending")

\* The inductive invariant: a permit is given back only if the counts know of it, and an
\* exchange starts from a pending permit.
IInv == TypeOK /\ PermitsAccounted /\ PermitsFollowThreads /\ PendingStages

----------------------------------------------------------------------------
(* Counting *)

\* A set that loses x, gains x, both or neither.
LEMMA Recount ==
  ASSUME NEW S, IsFiniteSet(S), NEW x, NEW gain \in BOOLEAN
  PROVE  LET T == (S \ {x}) \cup (IF gain THEN {x} ELSE {})
         IN Cardinality(T) = Cardinality(S) - One(x \in S) + One(gain)
<1>1. /\ IsFiniteSet(S \ {x})
      /\ Cardinality(S \ {x}) = Cardinality(S) - One(x \in S)
  <2>1. Cardinality(S) \in Nat  BY FS_CardinalityType
  <2>2. IsFiniteSet(S \ {x}) /\ Cardinality(S \ {x}) = IF x \in S THEN Cardinality(S) - 1 ELSE Cardinality(S)
    BY FS_RemoveElement
  <2> QED  BY <2>1, <2>2 DEF One
<1>2. Cardinality(S \ {x}) \in Nat  BY <1>1, FS_CardinalityType
<1>3. CASE gain
  <2>1. x \notin S \ {x}  OBVIOUS
  <2>2. Cardinality((S \ {x}) \cup {x}) = Cardinality(S \ {x}) + 1
    BY <1>1, <2>1, FS_AddElement
  <2> QED  BY <1>1, <1>2, <1>3, <2>2 DEF One
<1>4. CASE ~gain
  <2>1. (S \ {x}) \cup {} = S \ {x}  OBVIOUS
  <2> QED  BY <1>1, <1>2, <1>4, <2>1 DEF One
<1> QED  BY <1>3, <1>4

LEMMA Finite ==
  ASSUME AdmissionAssumption
  PROVE  /\ \A k : IsFiniteSet(OfKind(k)) /\ Cardinality(OfKind(k)) \in Nat
         /\ \A s : IsFiniteSet(OfSource(s)) /\ Cardinality(OfSource(s)) \in Nat
<1>1. \A k : OfKind(k) \subseteq Connection  BY DEF OfKind
<1>2. \A s : OfSource(s) \subseteq Connection  BY DEF OfSource, OfKind
<1>3. IsFiniteSet(Connection)  BY DEF AdmissionAssumption
<1> QED  BY <1>1, <1>2, <1>3, FS_Subset, FS_CardinalityType

\* How the numbers of connections change when one of them exchanges its permit.
LEMMA Exchange ==
  ASSUME AdmissionAssumption, TypeOK, NEW c \in Connection, NEW r \in Permit,
         requests' = [requests EXCEPT ![c] = r]
  PROVE  /\ \A k \in Kind : Cardinality(OfKind(k)') =
              Cardinality(OfKind(k)) - One(Holds(requests[c], k)) + One(Holds(r, k))
         /\ \A s \in Source : Cardinality(OfSource(s)') =
              Cardinality(OfSource(s)) - One(HoldsOf(requests[c], s)) + One(HoldsOf(r, s))
<1>1. ASSUME NEW k \in Kind
      PROVE  Cardinality(OfKind(k)') =
               Cardinality(OfKind(k)) - One(Holds(requests[c], k)) + One(Holds(r, k))
  <2>1. OfKind(k)' = (OfKind(k) \ {c}) \cup (IF Holds(r, k) THEN {c} ELSE {})
    BY DEF OfKind, KindOf, Holds, TypeOK
  <2>2. (c \in OfKind(k)) = Holds(requests[c], k)
    BY DEF OfKind, KindOf, Holds
  <2>3. Holds(r, k) \in BOOLEAN  BY DEF Holds
  <2>4. IsFiniteSet(OfKind(k))  BY Finite
  <2> QED  BY <2>1, <2>2, <2>3, <2>4, Recount
<1>2. ASSUME NEW s \in Source
      PROVE  Cardinality(OfSource(s)') =
               Cardinality(OfSource(s)) - One(HoldsOf(requests[c], s)) + One(HoldsOf(r, s))
  <2>1. OfSource(s)' = (OfSource(s) \ {c}) \cup (IF HoldsOf(r, s) THEN {c} ELSE {})
    BY DEF OfSource, OfKind, KindOf, SourceOf, HoldsOf, TypeOK
  <2>2. (c \in OfSource(s)) = HoldsOf(requests[c], s)
    BY DEF OfSource, OfKind, KindOf, SourceOf, HoldsOf
  <2>3. HoldsOf(r, s) \in BOOLEAN  BY DEF HoldsOf
  <2>4. IsFiniteSet(OfSource(s))  BY Finite
  <2> QED  BY <2>1, <2>2, <2>3, <2>4, Recount
<1> QED  BY <1>1, <1>2

\* What a connection holds has been counted, so it can be given back.
LEMMA Counted ==
  ASSUME AdmissionAssumption, TypeOK, PermitsAccounted,
         NEW c \in Connection, requests[c] # None
  PROVE  /\ SourceOf(c) \in Source /\ KindOf(c) \in Kind
         /\ requests[c] = <<SourceOf(c), KindOf(c)>>
         /\ counts[KindOf(c)] > 0
         /\ KindOf(c) = "pending" => sources[SourceOf(c)] > 0
<1>1. SourceOf(c) \in Source /\ KindOf(c) \in Kind /\ requests[c] = <<SourceOf(c), KindOf(c)>>
  BY DEF TypeOK, SourceOf, KindOf
<1>2. c \in OfKind(KindOf(c))  BY DEF OfKind
<1>3. KindOf(c) = "pending" => c \in OfSource(SourceOf(c))  BY <1>2 DEF OfSource
<1>4. \A S : IsFiniteSet(S) /\ c \in S => Cardinality(S) # 0  BY FS_EmptySet
<1>5. Cardinality(OfKind(KindOf(c))) \in Nat \ {0}  BY <1>2, <1>4, Finite
<1>6. KindOf(c) = "pending" => Cardinality(OfSource(SourceOf(c))) \in Nat \ {0}
  BY <1>3, <1>4, Finite
<1> QED  BY <1>1, <1>5, <1>6 DEF PermitsAccounted

----------------------------------------------------------------------------
(* The steps *)

\* A connection exchanges its permit for r: the counts follow if each releases what was
\* held and charges what r holds.
LEMMA Exchanged ==
  ASSUME AdmissionAssumption, IInv, NEW c \in Connection, NEW r \in Permit,
         requests' = [requests EXCEPT ![c] = r],
         counts' \in [Kind -> Nat], sources' \in [Source -> Nat],
         \A k \in Kind : counts'[k] = counts[k] - One(Holds(requests[c], k)) + One(Holds(r, k)),
         \A s \in Source : sources'[s] =
           sources[s] - One(HoldsOf(requests[c], s)) + One(HoldsOf(r, s))
  PROVE  PermitsAccounted'
<1>1. TypeOK  BY DEF IInv
<1>2. \A k \in Kind : counts[k] = Cardinality(OfKind(k))  BY DEF IInv, PermitsAccounted
<1>3. \A s \in Source : sources[s] = Cardinality(OfSource(s))  BY DEF IInv, PermitsAccounted
<1>4. /\ \A k \in Kind : Cardinality(OfKind(k)') =
           Cardinality(OfKind(k)) - One(Holds(requests[c], k)) + One(Holds(r, k))
      /\ \A s \in Source : Cardinality(OfSource(s)') =
           Cardinality(OfSource(s)) - One(HoldsOf(requests[c], s)) + One(HoldsOf(r, s))
  BY <1>1, Exchange
<1> QED  BY <1>2, <1>3, <1>4 DEF PermitsAccounted

LEMMA EnterStep ==
  ASSUME AdmissionAssumption, IInv, NEW c \in Connection, NEW a \in Address, Enter(c, a)
  PROVE  IInv'
<1> DEFINE r == <<<<"peer", a>>, "pending">>
<1>1. TypeOK /\ PermitsFollowThreads /\ PendingStages  BY DEF IInv
<1>2. requests[c] = None  BY <1>1 DEF PermitsFollowThreads, Enter
<1>3. r \in Source \X Kind /\ r # None  BY DEF Source, Kind, AdmissionAssumption
<1>4. TypeOK'
  BY <1>1, <1>3 DEF TypeOK, Enter, Charge, To, Stage, Kind, Source
<1>5. PermitsAccounted'
  <2>1. \A k \in Kind : counts'[k] = counts[k] - One(Holds(requests[c], k)) + One(Holds(r, k))
    BY <1>1, <1>2, <1>3 DEF Enter, Charge, Holds, One, TypeOK, Kind
  <2>2. \A s \in Source : sources'[s] = sources[s] - One(HoldsOf(requests[c], s)) + One(HoldsOf(r, s))
    BY <1>1, <1>2, <1>3 DEF Enter, Charge, HoldsOf, One, TypeOK, Source
  <2>3. requests' = [requests EXCEPT ![c] = r]  BY DEF Enter
  <2> HIDE DEF r
  <2> QED  BY <1>3, <1>4, <2>1, <2>2, <2>3, Exchanged DEF Permit, TypeOK
<1>6. PermitsFollowThreads'
  BY <1>1, <1>3 DEF PermitsFollowThreads, Enter, To, TypeOK
<1>7. PendingStages'
  BY <1>1, <1>3 DEF PendingStages, Enter, To, TypeOK, Holds
<1> QED  BY <1>4, <1>5, <1>6, <1>7 DEF IInv

\* leave(), when the thread could not be started and when it ends.
LEMMA LeftStep ==
  ASSUME AdmissionAssumption, IInv, NEW c \in Connection, stage[c] # "none", Left(c)
  PROVE  IInv'
<1>1. TypeOK /\ PermitsAccounted /\ PermitsFollowThreads /\ PendingStages  BY DEF IInv
<1>2. requests[c] # None  BY <1>1 DEF PermitsFollowThreads
<1>3. /\ SourceOf(c) \in Source /\ KindOf(c) \in Kind
      /\ counts[KindOf(c)] > 0 /\ (KindOf(c) = "pending" => sources[SourceOf(c)] > 0)
  BY <1>1, <1>2, Counted
<1>4. TypeOK'
  BY <1>1, <1>3 DEF TypeOK, Left, Release, ReleasedSources, To, Stage
<1>5. PermitsAccounted'
  <2>1. \A k \in Kind : counts'[k] = counts[k] - One(Holds(requests[c], k)) + One(Holds(None, k))
    BY <1>1, <1>2, <1>3 DEF Left, Release, Holds, One, TypeOK, KindOf
  <2>2. \A s \in Source :
          sources'[s] = sources[s] - One(HoldsOf(requests[c], s)) + One(HoldsOf(None, s))
    BY <1>1, <1>2, <1>3 DEF Left, ReleasedSources, Release, HoldsOf, One, TypeOK, KindOf, SourceOf
  <2>3. requests' = [requests EXCEPT ![c] = None]  BY DEF Left
  <2> QED  BY <1>4, <2>1, <2>2, <2>3, Exchanged DEF Permit, TypeOK
<1>6. PermitsFollowThreads'
  BY <1>1 DEF PermitsFollowThreads, Left, To, TypeOK
<1>7. PendingStages'
  BY <1>1 DEF PendingStages, Left, To, TypeOK
<1> QED  BY <1>4, <1>5, <1>6, <1>7 DEF IInv

\* The thread goes on without an exchange.
LEMMA StepStep ==
  ASSUME IInv, NEW c \in Connection, NEW from, NEW to \in Stage \ {"none"}, from # "none",
         to \in {"accepted", "reading", "handling"} => from \in {"accepted", "reading", "handling"},
         Step(c, from, to)
  PROVE  IInv'
<1>1. TypeOK /\ PermitsAccounted /\ PermitsFollowThreads /\ PendingStages  BY DEF IInv
<1>2. TypeOK'  BY <1>1 DEF TypeOK, Step, To
<1>3. PermitsAccounted'
  BY <1>1 DEF PermitsAccounted, OfSource, OfKind, SourceOf, KindOf, Step
<1>4. PermitsFollowThreads'  BY <1>1 DEF PermitsFollowThreads, Step, To, TypeOK
<1>5. PendingStages'  BY <1>1 DEF PendingStages, Step, To, TypeOK
<1> QED  BY <1>2, <1>3, <1>4, <1>5 DEF IInv

LEMMA IdentifyStep ==
  ASSUME AdmissionAssumption, IInv, NEW c \in Connection, NEW a \in Address, Identify(c, a)
  PROVE  IInv'
<1> DEFINE t == <<"client", a>>
           r == <<t, KindOf(c)>>
<1>1. TypeOK /\ PermitsAccounted /\ PermitsFollowThreads /\ PendingStages  BY DEF IInv
<1>2. requests[c] # None /\ KindOf(c) = "pending"
  BY <1>1 DEF PendingStages, Holds, KindOf, Identify
<1>3. SourceOf(c) \in Source /\ sources[SourceOf(c)] > 0
  BY <1>1, <1>2, Counted
<1>4. t \in Source /\ r \in Source \X Kind /\ r # None
  BY <1>2 DEF Source, Kind, AdmissionAssumption
<1>5. sources' = Charge(Release(sources, SourceOf(c)), t) /\ counts' = counts
  BY <1>2 DEF Identify, Moved, ReleasedSources
<1>6. requests' = [requests EXCEPT ![c] = r] /\ stage' = [stage EXCEPT ![c] = "handling"]
  BY DEF Identify, To
<1> HIDE DEF t
<1>7. sources' \in [Source -> Nat]
  BY <1>1, <1>3, <1>4, <1>5 DEF TypeOK, Charge, Release
<1>8. TypeOK'
  BY <1>1, <1>4, <1>5, <1>6, <1>7 DEF TypeOK, Stage
<1>9. PermitsAccounted'
  <2>1. \A k \in Kind : counts'[k] = counts[k] - One(Holds(requests[c], k)) + One(Holds(r, k))
    BY <1>1, <1>2, <1>4, <1>5 DEF Holds, One, TypeOK, KindOf
  <2>2. \A s \in Source : sources'[s] = sources[s] - One(HoldsOf(requests[c], s)) + One(HoldsOf(r, s))
    BY <1>1, <1>2, <1>3, <1>4, <1>5 DEF Charge, Release, HoldsOf, One, TypeOK, KindOf, SourceOf
  <2>3. r \in Permit  BY <1>4 DEF Permit
  <2>4. requests' = [requests EXCEPT ![c] = r]  BY <1>6
  <2>5. counts' \in [Kind -> Nat]  BY <1>8 DEF TypeOK
  <2> HIDE DEF r
  <2> QED  BY <1>7, <2>1, <2>2, <2>3, <2>4, <2>5, Exchanged
<1>10. PermitsFollowThreads'
  BY <1>1, <1>4, <1>6 DEF PermitsFollowThreads, Identify, TypeOK
<1>11. PendingStages'
  BY <1>1, <1>2, <1>4, <1>6 DEF PendingStages, TypeOK, Holds
<1> QED  BY <1>8, <1>9, <1>10, <1>11 DEF IInv

LEMMA PromoteStep ==
  ASSUME AdmissionAssumption, IInv, NEW c \in Connection, NEW k \in Kind \ {"pending"},
         Promote(c, k)
  PROVE  IInv'
<1> DEFINE r == <<SourceOf(c), k>>
<1>1. TypeOK /\ PermitsAccounted /\ PermitsFollowThreads /\ PendingStages  BY DEF IInv
<1>2. requests[c] # None /\ KindOf(c) = "pending"
  BY <1>1 DEF PendingStages, Holds, KindOf, Promote
<1>3. SourceOf(c) \in Source /\ sources[SourceOf(c)] > 0 /\ counts["pending"] > 0
  BY <1>1, <1>2, Counted
<1>4. r \in Source \X Kind /\ r # None /\ "pending" \in Kind
  BY <1>3 DEF Kind, AdmissionAssumption
<1>5. /\ sources' = Release(sources, SourceOf(c))
      /\ counts' = Charge(Release(counts, "pending"), k)
  BY <1>2 DEF Promote, ReleasedSources
<1>6. requests' = [requests EXCEPT ![c] = r] /\ stage' = [stage EXCEPT ![c] = "serving"]
  BY DEF Promote, To
<1>7. counts' \in [Kind -> Nat] /\ sources' \in [Source -> Nat]
  BY <1>1, <1>3, <1>4, <1>5 DEF TypeOK, Charge, Release
<1>8. TypeOK'
  BY <1>1, <1>4, <1>6, <1>7 DEF TypeOK, Stage
<1>9. PermitsAccounted'
  <2>1. \A j \in Kind : counts'[j] = counts[j] - One(Holds(requests[c], j)) + One(Holds(r, j))
    BY <1>1, <1>2, <1>4, <1>5 DEF Charge, Release, Holds, One, TypeOK, KindOf
  <2>2. \A s \in Source : sources'[s] = sources[s] - One(HoldsOf(requests[c], s)) + One(HoldsOf(r, s))
    BY <1>1, <1>2, <1>3, <1>4, <1>5 DEF Release, HoldsOf, One, TypeOK, KindOf, SourceOf
  <2>3. r \in Permit  BY <1>4 DEF Permit
  <2>4. requests' = [requests EXCEPT ![c] = r]  BY <1>6
  <2> HIDE DEF r
  <2> QED  BY <1>7, <2>1, <2>2, <2>3, <2>4, Exchanged
<1>10. PermitsFollowThreads'
  BY <1>1, <1>4, <1>6 DEF PermitsFollowThreads, Promote, TypeOK
<1>11. PendingStages'
  BY <1>1, <1>6 DEF PendingStages, TypeOK
<1> QED  BY <1>8, <1>9, <1>10, <1>11 DEF IInv

----------------------------------------------------------------------------
(* The specification *)

LEMMA Start ==
  ASSUME AdmissionAssumption, Init
  PROVE  IInv
<1>1. TypeOK  BY DEF Init, TypeOK, Stage, Kind, Source
<1>2. \A k : OfKind(k) = {}  BY DEF Init, OfKind
<1>3. \A s : OfSource(s) = {}  BY <1>2 DEF OfSource
<1>4. Cardinality({}) = 0  BY FS_EmptySet
<1>5. PermitsAccounted  BY <1>2, <1>3, <1>4 DEF Init, PermitsAccounted
<1>6. PermitsFollowThreads /\ PendingStages
  BY DEF Init, PermitsFollowThreads, PendingStages
<1> QED  BY <1>1, <1>5, <1>6 DEF IInv

LEMMA Kept ==
  ASSUME AdmissionAssumption, IInv, [Next]_vars
  PROVE  IInv'
<1>1. CASE UNCHANGED vars
  BY <1>1 DEF vars, IInv, TypeOK, PermitsAccounted, PermitsFollowThreads, PendingStages,
              OfSource, OfKind, SourceOf, KindOf, Holds
<1>2. ASSUME NEW c \in Connection, Thread(c)  PROVE IInv'
  <2>1. CASE StartFails(c)  BY <2>1, LeftStep DEF StartFails
  <2>2. CASE Starts(c)      BY <2>2, StepStep DEF Starts, Stage
  <2>3. CASE ReadFails(c)   BY <2>3, StepStep DEF ReadFails, Stage
  <2>4. CASE Answers(c)     BY <2>4, StepStep DEF Answers, Stage
  <2>5. CASE Leave(c)       BY <2>5, LeftStep DEF Leave
  <2> QED  BY <1>2, <2>1, <2>2, <2>3, <2>4, <2>5 DEF Thread
<1>3. ASSUME NEW c \in Connection, Request(c)  PROVE IInv'
  <2>1. ASSUME NEW a \in Address, Enter(c, a)  PROVE IInv'
    BY <2>1, EnterStep
  <2>2. ASSUME NEW a \in Address, Identify(c, a)  PROVE IInv'
    BY <2>2, IdentifyStep
  <2>3. ASSUME NEW a \in Address, IdentifyRefused(c, a)  PROVE IInv'
    BY <2>3, StepStep DEF IdentifyRefused, Stage
  <2>4. ASSUME NEW k \in Kind \ {"pending"}, Promote(c, k)  PROVE IInv'
    BY <2>4, PromoteStep
  <2>5. ASSUME NEW k \in Kind \ {"pending"}, PromoteRefused(c, k)  PROVE IInv'
    BY <2>5, StepStep DEF PromoteRefused, Stage
  <2>6. CASE Serves(c)
    BY <2>6, StepStep DEF Serves, Stage
  <2> QED  BY <1>3, <2>1, <2>2, <2>3, <2>4, <2>5, <2>6 DEF Request
<1> QED  BY <1>1, <1>2, <1>3 DEF Next

\* The counts of the table are the numbers of connections that hold a permit of each
\* kind and source, whatever enter(), identify(), promote() and leave() did in any order.
THEOREM AccountedAlways == Spec => []PermitsAccounted
<1>1. Init => IInv  BY Start, AdmissionAssumption
<1>2. IInv /\ [Next]_vars => IInv'  BY Kept, AdmissionAssumption
<1>3. IInv => PermitsAccounted  BY DEF IInv
<1> QED  BY <1>1, <1>2, <1>3, PTL DEF Spec

\* The counters never go below zero and the table holds nothing but permits.
THEOREM TypesAlways == Spec => []TypeOK
<1>1. Init => IInv  BY Start, AdmissionAssumption
<1>2. IInv /\ [Next]_vars => IInv'  BY Kept, AdmissionAssumption
<1>3. IInv => TypeOK  BY DEF IInv
<1> QED  BY <1>1, <1>2, <1>3, PTL DEF Spec

\* A connection has a permit exactly while it has a thread: none outlives its connection.
THEOREM FollowAlways == Spec => []PermitsFollowThreads
<1>1. Init => IInv  BY Start, AdmissionAssumption
<1>2. IInv /\ [Next]_vars => IInv'  BY Kept, AdmissionAssumption
<1>3. IInv => PermitsFollowThreads  BY DEF IInv
<1> QED  BY <1>1, <1>2, <1>3, PTL DEF Spec

----------------------------------------------------------------------------
(* The limits *)

LEMMA LimitsKept ==
  ASSUME AdmissionAssumption, IInv, LimitsHold, [Next]_vars
  PROVE  LimitsHold'
<1>1. TypeOK /\ PermitsAccounted /\ PermitsFollowThreads /\ PendingStages  BY DEF IInv
<1>2. Limit \in [Kind -> Nat] /\ ClientLimit \in Nat /\ \A a : PeerLimit(a) \in Nat
  BY DEF AdmissionAssumption, PeerLimit
<1>3. \A a \in Address : <<"peer", a>> \in Source /\ <<"client", a>> \in Source
  BY DEF Source
<1>4. ASSUME UNCHANGED <<counts, sources>>  PROVE LimitsHold'
  BY <1>4 DEF LimitsHold
<1>5. ASSUME NEW c \in Connection, stage[c] # "none", Left(c)  PROVE LimitsHold'
  <2>1. requests[c] # None  BY <1>1, <1>5 DEF PermitsFollowThreads
  <2>2. KindOf(c) \in Kind /\ SourceOf(c) \in Source  BY <1>1, <2>1, Counted
  <2>3. \A k \in Kind : counts'[k] <= Limit[k]
    BY <1>1, <1>2, <1>5, <2>2 DEF LimitsHold, Left, Release, TypeOK
  <2>4. \A s \in Source : sources'[s] <= sources[s]
    BY <1>1, <1>5, <2>2 DEF Left, ReleasedSources, Release, TypeOK
  <2>5. sources' \in [Source -> Int]
    BY <1>1, <1>5, <2>2 DEF Left, ReleasedSources, Release, TypeOK
  <2> QED  BY <1>1, <1>2, <1>3, <2>3, <2>4, <2>5 DEF LimitsHold, TypeOK
<1>6. ASSUME NEW c \in Connection, NEW a \in Address, Enter(c, a)  PROVE LimitsHold'
  <2>1. \A k \in Kind : counts'[k] <= Limit[k]
    BY <1>1, <1>2, <1>6 DEF LimitsHold, Enter, Room, Charge, TypeOK, Kind
  <2>2. \A s \in Source : sources'[s] = IF s = <<"peer", a>> THEN sources[s] + 1 ELSE sources[s]
    BY <1>1, <1>6 DEF Enter, Charge, TypeOK
  <2>3. sources[<<"peer", a>>] < PeerLimit(a)  BY <1>6 DEF Enter, Room
  <2> QED  BY <1>1, <1>2, <1>3, <2>1, <2>2, <2>3 DEF LimitsHold, TypeOK
<1>7. ASSUME NEW c \in Connection, NEW a \in Address, Identify(c, a)  PROVE LimitsHold'
  <2> DEFINE t == <<"client", a>>
  <2>1. requests[c] # None /\ KindOf(c) = "pending"
    BY <1>1, <1>7 DEF PendingStages, Holds, KindOf, Identify
  <2>2. SourceOf(c) \in Source  BY <1>1, <2>1, Counted
  <2>3. sources' = Charge(Release(sources, SourceOf(c)), t) /\ counts' = counts
    BY <1>7, <2>1 DEF Identify, Moved, ReleasedSources
  <2>4. /\ sources' \in [Source -> Int]
        /\ \A s \in Source : sources'[s] <= IF s = t THEN sources[s] + 1 ELSE sources[s]
    <3>1. t \in Source  BY <1>3
    <3> HIDE DEF t
    <3> QED  BY <1>1, <2>2, <2>3, <3>1 DEF Charge, Release, TypeOK
  <2>5. sources[t] < ClientLimit  BY <1>7 DEF Identify
  <2> QED  BY <1>1, <1>2, <1>3, <2>3, <2>4, <2>5 DEF LimitsHold, TypeOK
<1>8. ASSUME NEW c \in Connection, NEW k \in Kind \ {"pending"}, Promote(c, k)
      PROVE  LimitsHold'
  <2>1. requests[c] # None /\ KindOf(c) = "pending" /\ "pending" \in Kind
    BY <1>1, <1>8 DEF PendingStages, Holds, KindOf, Promote, Kind
  <2>2. SourceOf(c) \in Source  BY <1>1, <2>1, Counted
  <2>3. counts' = Charge(Release(counts, "pending"), k) /\ counts[k] < Limit[k]
    BY <1>8, <2>1 DEF Promote, KindHasRoom
  <2>4. sources' = Release(sources, SourceOf(c))
    BY <1>8, <2>1 DEF Promote, ReleasedSources
  <2>5. \A j \in Kind : counts'[j] <= Limit[j]
    BY <1>1, <1>2, <2>1, <2>3 DEF LimitsHold, Charge, Release, TypeOK
  <2>6. \A s \in Source : sources'[s] <= sources[s]
    BY <1>1, <2>2, <2>4 DEF Release, TypeOK
  <2>7. sources' \in [Source -> Int]
    BY <1>1, <2>2, <2>4 DEF Release, TypeOK
  <2> QED  BY <1>1, <1>2, <1>3, <2>5, <2>6, <2>7 DEF LimitsHold, TypeOK
<1>9. CASE Next
  <2>1. ASSUME NEW c \in Connection, Thread(c)  PROVE LimitsHold'
    BY <2>1, <1>4, <1>5 DEF Thread, StartFails, Starts, ReadFails, Answers, Leave, Step
  <2>2. ASSUME NEW c \in Connection, Request(c)  PROVE LimitsHold'
    BY <2>2, <1>4, <1>6, <1>7, <1>8 DEF Request, IdentifyRefused, PromoteRefused, Serves, Step
  <2> QED  BY <1>9, <2>1, <2>2 DEF Next
<1> QED  BY <1>4, <1>9 DEF vars

\* However many connections there are and whatever clients they speak for, no kind, client
\* or peer exceeds its limit: a place taken over from another kind was free.
THEOREM LimitsAlways == Spec => []LimitsHold
<1>1. Init => IInv /\ LimitsHold
  <2> SUFFICES ASSUME Init PROVE LimitsHold  BY Start, AdmissionAssumption
  <2>1. \A a : PeerLimit(a) \in Nat  BY AdmissionAssumption DEF AdmissionAssumption, PeerLimit
  <2>2. \A k \in Kind : counts[k] <= Limit[k]
    BY AdmissionAssumption DEF Init, AdmissionAssumption
  <2>3. \A a \in Address : sources[<<"peer", a>>] = 0 /\ sources[<<"client", a>>] = 0
    BY DEF Init, Source
  <2> QED  BY <2>1, <2>2, <2>3, AdmissionAssumption DEF LimitsHold, AdmissionAssumption
<1>2. IInv /\ LimitsHold /\ [Next]_vars => (IInv /\ LimitsHold)'
  BY Kept, LimitsKept, AdmissionAssumption
<1> QED  BY <1>1, <1>2, PTL DEF Spec

=============================================================================
