---------------------------- MODULE MCAdmission ----------------------------
(* Small instances of Admission. *)
EXTENDS Admission

CONSTANTS c1, c2, c3, c4

MCConns == {c1, c2, c3, c4}
=============================================================================
