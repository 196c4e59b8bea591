----------------------------- MODULE PanelPages -----------------------------
(* The pages of agents and those of Docker, side by side: a behaviour is one of      *)
(* AgentPanel or one of DockerPanel, and leaves the other's variables alone.         *)
(* The theorems of the two sides hold of the pair as well.                           *)
EXTENDS AgentPanel_proofs, Sequences

CONSTANTS
  Lists, Offered, Published, Route, Limit, DockerOps   \* those of DockerPanel

VARIABLES
  side,     \* "agents" or "docker", for the whole behaviour
  dKept, dOffers, dValid, dCsrf, dPage, dData, dDraft, dForm, dModal, dPicker, dSource,
  dNet, dOps, dEvents, dSessions, dMeant

D == INSTANCE DockerPanel_proofs WITH
       MaxOps <- DockerOps,
       kept <- dKept, offers <- dOffers, valid <- dValid, csrf <- dCsrf, page <- dPage,
       data <- dData, draft <- dDraft, form <- dForm, modal <- dModal, picker <- dPicker,
       source <- dSource, net <- dNet, ops <- dOps, events <- dEvents,
       sessions <- dSessions, meant <- dMeant

ASSUME PanelPagesAssumption == D!DockerAssumption

dockerVars == <<dKept, dOffers, dValid, dCsrf, dPage, dData, dDraft, dForm, dModal, dPicker,
                dSource, dNet, dOps, dEvents, dSessions, dMeant>>

PagesInit ==
  /\ Init /\ D!Init
  /\ \/ side = "agents" /\ dPage = "docker" /\ dSource = "local"
     \/ side = "docker" /\ page = "agents"
PagesNext ==
  \/ side = "agents" /\ Next /\ UNCHANGED <<side, dockerVars>>
  \/ side = "docker" /\ D!Next /\ UNCHANGED <<side, vars>>
PagesSpec == PagesInit /\ [][PagesNext]_<<side, vars, dockerVars>> /\ Fairness

\* The targets of an agent land in the editor they were chosen for (docker.js:260-266).
TargetsLandWhereMeant == D!TargetsLandWhereMeant

\* A refresh of the picker keeps what was chosen (docker.js:166-211).
ChosenIsMeant == D!ChosenIsMeant

-----------------------------------------------------------------------------
\* A behaviour of the pair is one of the pages of Docker (docker.js).
LEMMA DockerSide == PagesSpec => D!Spec
<1>1. PagesInit => D!Init BY DEF PagesInit
<1>2. [PagesNext]_<<side, vars, dockerVars>> => [D!Next]_(D!vars)
  BY DEF PagesNext, dockerVars, D!vars, D!server, D!lists, D!choice, D!counts
<1> QED BY <1>1, <1>2, PTL DEF PagesSpec, D!Spec

\* However refreshes of the picker, answers and changes of the containers interleave, the
\* chosen row is the endpoint that the administrator chose (docker.js:166-211).
THEOREM ChosenOnPages == PagesSpec => []ChosenIsMeant
<1>1. D!Spec => []D!ChosenIsMeant BY D!ChosenAlways, PanelPagesAssumption
<1> QED BY <1>1, DockerSide, PTL DEF ChosenIsMeant

\* The answer for an agent's ports goes into the editor of the route it was chosen for and
\* takes away nothing typed there meanwhile (docker.js:260-266).
THEOREM TargetsOnPages == PagesSpec => TargetsLandWhereMeant
<1>1. D!Spec => D!TargetsLandWhereMeant BY D!TargetsAlways, PanelPagesAssumption
<1> QED BY <1>1, DockerSide DEF TargetsLandWhereMeant
=============================================================================
