---------------------------- MODULE MCTunnelHub ----------------------------
(* Instances of TunnelHub for TLC. *)
EXTENDS TunnelHub, TLC

CONSTANTS
  MaxActors,   \* bound: agents, streams, control sessions and new tokens in one behaviour
  MaxPairs     \* bound: pairs of a stream and a control session

Symmetric == Permutations(Agent) \cup Permutations(Stream) \cup Permutations(Session)

FewActors ==
  LET Streams  == {s \in Stream : forward[s] # "none"}
      Sessions == {n \in Session : session[n].ws # "new"}
      Tokens   == UNION {{a} \X (2..token[a]) : a \in Agent}
      Agents   == {owner[s] : s \in Streams} \cup {session[n].agent : n \in Sessions}
  IN  /\ Cardinality(Agents \ {None}) + Cardinality(Streams) + Cardinality(Sessions)
           + Cardinality(Tokens) <= MaxActors
      /\ Cardinality(Streams) * Cardinality(Sessions) <= MaxPairs

BoundedSpec == Init /\ [][Next /\ FewActors']_vars
=============================================================================
