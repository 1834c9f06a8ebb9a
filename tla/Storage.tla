------------------------------- MODULE Storage -------------------------------
(***************************************************************************)
(* The database file: Migrator makes its tables, and a daemon whose        *)
(* migrate() has returned uses them by the statements of ReadModel.  Every *)
(* statement commits by itself, so that a later start finds the rows as    *)
(* they are; starts after the first statement are left out.                *)
(***************************************************************************)
EXTENDS Migrator, ReadModel

Used == \E t \in DOMAIN Schema : HasRow(t)

\* bound: the statements come after a start without faults, of a process that is alone.
Ready ==
  /\ faults = 0
  /\ \E p \in Processes :
       /\ At(p, "upToDate")
       /\ Alone(p)

StorageInit == Init /\ ReadModelInit

Unused(A) == ~Used /\ A /\ UNCHANGED readModelVars

StorageNext ==
  \/ Unused(Next)
  \/ Ready /\ ReadModelNext /\ UNCHANGED vars

storageVars == <<vars, readModelVars>>

StorageSpec == StorageInit /\ [][StorageNext]_storageVars

\* The scheduler runs a process that is in migrate(); nothing starts one.
StorageFairSpec ==
  StorageSpec /\ \A p \in Processes : WF_storageVars(Unused(Migrate(p)))
=============================================================================
