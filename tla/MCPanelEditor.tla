--------------------------- MODULE MCPanelEditor ---------------------------
(* PanelEditor with two values for each part of the configuration; the others   *)
(* save, and the history and the files hold, one that differs in both parts.    *)
EXTENDS PanelEditor

CONSTANTS v0, v1
MCValue     == {v0, v1}
MCElsewhere == {[p \in Part |-> v1]}
=============================================================================
