---------------------------- MODULE SchemaUpgrade ----------------------------
(***************************************************************************)
(* What the migrations promise whatever process runs them and whenever it  *)
(* dies: the database goes from one version to the next, in order, each    *)
(* migration once, its tables and its row in schema_migrations together.   *)
(* Migrator implements it.                                                 *)
(***************************************************************************)
EXTENDS Naturals

CONSTANT Count   \* migrations there are

VARIABLES
  tables,  \* the migrations whose tables exist
  recorded \* the migrations schema_migrations lists

Init == tables = {} /\ recorded = {}

Upgrade ==
  \E n \in 1..Count :
    /\ recorded = 1..(n - 1)
    /\ recorded' = 1..n
    /\ tables' = 1..n

Next == Upgrade

Spec == Init /\ [][Next]_<<tables, recorded>>
=============================================================================
