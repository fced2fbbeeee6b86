----------------------------- MODULE MCAuditLog -----------------------------
(* Small instances of AuditLog. *)
EXTENDS AuditLog

CONSTANTS p1, r1

On(file) == [wanted |-> TRUE, file |-> file]

\* A log file, and no audit at all.
MCOnOff   == {On(p1), [wanted |-> FALSE, file |-> NoFile]}
MCOneFile == {On(p1)}
=============================================================================
