--------------------------- MODULE ConfigPromotion ---------------------------
(***************************************************************************)
(* What Store promises its callers, without files, symlinks or nginx: a    *)
(* draft that anyone may edit, one committed configuration that survives   *)
(* every failure, and at most one promotion of the draft at a time, which  *)
(* commits as a whole or leaves no trace.                                  *)
(***************************************************************************)
CONSTANTS Config, Default, NoConfig

VARIABLES
  draft,      \* the configuration being edited
  pending,    \* the configuration an apply is promoting, or NoConfig
  committed   \* the configuration a restart would serve

vars == <<draft, pending, committed>>

Init == draft = Default /\ pending = NoConfig /\ committed = Default

\* The draft changes only between promotions.
Edit ==
  /\ pending = NoConfig
  /\ draft' \in Config
  /\ UNCHANGED <<pending, committed>>

Begin ==
  /\ pending = NoConfig
  /\ pending' = draft
  /\ UNCHANGED <<draft, committed>>

Commit ==
  /\ pending # NoConfig
  /\ committed' = pending /\ pending' = NoConfig
  /\ UNCHANGED draft

Abort ==
  /\ pending # NoConfig
  /\ pending' = NoConfig
  /\ UNCHANGED <<draft, committed>>

Next == Edit \/ Begin \/ Commit \/ Abort

Spec == Init /\ [][Next]_vars
=============================================================================
