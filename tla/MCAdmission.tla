---------------------------- MODULE MCAdmission ----------------------------
(* Instances of Admission for TLC: a trusted proxy and one other address. *)
EXTENDS Admission

MCLimit == [pending |-> 2, admin |-> 1, agent |-> 2, report |-> 1]
=============================================================================
