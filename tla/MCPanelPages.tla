---------------------------- MODULE MCPanelPages ----------------------------
(* An instance of PanelPages for TLC. *)
EXTENDS PanelPages

CONSTANTS v0, v1, a1, a2, e1, e2, r1, r2

MCValue     == {v0, v1}
MCAddress   == {Unset, a1, a2}
MCRoute     == {r1, r2}
MCPublished == {e2}
MCOffered   == [local |-> <<e1, e2>>, agent |-> <<e1>>]
MCLists     == [local |-> {<<e1, e2>>, <<e2, e1>>, <<e2>>}, agent |-> {<<e1>>, <<>>}]
=============================================================================
