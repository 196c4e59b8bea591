--------------------------- MODULE MCRevisionStore ---------------------------
(* Instances of RevisionStore for TLC: a default, a good and a rejected configuration. *)
EXTENDS RevisionStore_proofs

CONSTANTS home, shop, broken

MCConfig == {home, shop, broken}
MCGood   == {home, shop}
=============================================================================
