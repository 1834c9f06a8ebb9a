----------------------------- MODULE MCMigrator -----------------------------
(***************************************************************************)
(* Storage for TLC: two daemons started on one database file.              *)
(***************************************************************************)
EXTENDS Storage

CONSTANTS p1, p2

TwoProcesses == {p1, p2}
=============================================================================
