------------------------------ MODULE Migrator ------------------------------
(***************************************************************************)
(* SchemaMigrator: every start of the daemon makes schema_migrations if it *)
(* is not there, reads which migrations it lists and runs the embedded     *)
(* ones it does not list, each in a transaction of its own.  Processes die *)
(* at any step and are started again; nothing keeps two of them off one    *)
(* database file.                                                          *)
(*                                                                         *)
(* The file is locked as SQLite does it with a rollback journal, and       *)
(* without a busy timeout a lock that is not free is refused at once.  A   *)
(* statement reads under a shared lock, of which there may be many, and    *)
(* writes under the reserved lock, of which there is one and beside which  *)
(* others read; a commit makes it pending, which lets no new reader in,    *)
(* and succeeds when no reader is left.  What was written is seen by       *)
(* others when it is committed and gone when its process dies.             *)
(***************************************************************************)
EXTENDS Naturals, FiniteSets

CONSTANTS
  Processes, \* daemons that are started on one database file
  Count,     \* migrations embedded in the program, 1..Count
  MaxFaults  \* bound: crashes, and statements that fail

ASSUME CountAssumption == Count \in Nat
ASSUME FaultsAssumption == MaxFaults \in Nat

VARIABLES
  exists,  \* committed: there is a table schema_migrations
  tables,  \* committed: the migrations whose tables exist
  listed,  \* committed: the rows of schema_migrations
  lock,    \* what each process holds of the file
  pc,      \* where each process is
  applied, \* the set each process has read from schema_migrations
  next,    \* the migration each process looks at
  faults   \* how many of MaxFaults have happened

database == <<exists, tables, listed>>
vars     == <<database, lock, pc, applied, next, faults>>

NotRunning  == {"down", "upToDate", "failed"}
Uncommitted == {"created", "executed", "inserted"}

At(p, place)   == pc[p] = place
Goto(p, place) == pc' = [pc EXCEPT ![p] = place]

\* migrate() is left, or its process dies: what it knew is gone, and every lock free.
Leave(p, place) ==
  /\ Goto(p, place)
  /\ lock' = [lock EXCEPT ![p] = "none"]
  /\ applied' = [applied EXCEPT ![p] = {}]
  /\ next' = [next EXCEPT ![p] = 1]

\* No other start runs, nor a daemon after its start.
Alone(p) == \A q \in Processes \ {p} : At(q, "down")

\* The next migration is one to run.
ToRun(p) == At(p, "looping") /\ next[p] \in 1..Count \ applied[p]

-----------------------------------------------------------------------------
(* The locks of SQLite.                                                    *)

Hold(p, level) == lock' = [lock EXCEPT ![p] = level]

IsWriter(p)     == lock[p] \in {"reserved", "pending"}
OtherWriter(p)  == \E q \in Processes \ {p} : IsWriter(q)
OtherReader(p)  == \E q \in Processes \ {p} : lock[q] = "shared"
OtherPending(p) == \E q \in Processes \ {p} : lock[q] = "pending"

\* Where the next statement takes its lock, and where it will want to write.
WantsToRead(p) ==
  At(p, "bootstrapping") \/ At(p, "creating") \/ At(p, "reading") \/ ToRun(p)
WantsToWrite(p) == At(p, "creating") \/ ToRun(p)

Share(p) ==
  /\ WantsToRead(p)
  /\ lock[p] = "none"
  /\ ~OtherPending(p)
  /\ Hold(p, "shared")
  /\ UNCHANGED <<database, pc, applied, next, faults>>

\* What a reader needs to write.
MayReserve(p) ==
  /\ lock[p] = "shared"
  /\ ~OtherWriter(p)

\* COMMIT, or the end of a statement outside a transaction: no new readers.
Pend(p) ==
  /\ At(p, "created") \/ At(p, "inserted")
  /\ lock[p] = "reserved"
  /\ Hold(p, "pending")
  /\ UNCHANGED <<database, pc, applied, next, faults>>

\* What SQLite refuses a process: to read while another commits, to write while
\* another writes, and to commit while another reads.
Refused(p) ==
  \/ WantsToRead(p) /\ lock[p] = "none" /\ OtherPending(p)
  \/ WantsToWrite(p) /\ lock[p] = "shared" /\ OtherWriter(p)
  \/ (At(p, "created") \/ At(p, "inserted")) /\ OtherReader(p)

\* SQLITE_BUSY is thrown.  A reader has its lock no more, but what a transaction
\* holds it holds until it is rolled back.
Refuse(p) ==
  /\ Refused(p)
  /\ Goto(p, "unwinding")
  /\ Hold(p, IF lock[p] = "shared" THEN "none" ELSE lock[p])
  /\ UNCHANGED <<database, applied, next, faults>>

-----------------------------------------------------------------------------
(* A start.                                                                *)

\* The file is opened, which takes no lock; bootstrap() comes next.
Open(p) ==
  /\ At(p, "down")
  /\ Goto(p, "bootstrapping")
  /\ UNCHANGED <<database, lock, applied, next, faults>>

\* CREATE TABLE IF NOT EXISTS is compiled for the schema there is: with the table
\* it does nothing, without it it will write.
LookForTable(p) ==
  /\ At(p, "bootstrapping")
  /\ lock[p] = "shared"
  /\ Goto(p, IF exists THEN "reading" ELSE "creating")
  /\ Hold(p, "none")
  /\ UNCHANGED <<database, applied, next, faults>>

\* It runs; when another has made the table meanwhile it is compiled again.
CreateTable(p) ==
  /\ At(p, "creating")
  /\ MayReserve(p)
  /\ Goto(p, IF exists THEN "reading" ELSE "created")
  /\ Hold(p, IF exists THEN "none" ELSE "reserved")
  /\ UNCHANGED <<database, applied, next, faults>>

CommitTable(p) ==
  /\ At(p, "created")
  /\ lock[p] = "pending"
  /\ ~OtherReader(p)
  /\ exists' = TRUE
  /\ Goto(p, "reading")
  /\ Hold(p, "none")
  /\ UNCHANGED <<tables, listed, applied, next, faults>>

\* Mutant: the versions are assumed to be those of the last start.
ReadNothing(p) ==
  /\ At(p, "reading")
  /\ lock[p] = "shared"
  /\ Goto(p, "looping")
  /\ Hold(p, "none")
  /\ applied' = [applied EXCEPT ![p] = {}]
  /\ next' = [next EXCEPT ![p] = 1]
  /\ UNCHANGED <<database, faults>>

\* The SELECT of migrate() is stepped to its end, which gives the lock back.
ReadApplied(p) ==
  /\ At(p, "reading")
  /\ lock[p] = "shared"
  /\ Goto(p, "looping")
  /\ Hold(p, "none")
  /\ applied' = [applied EXCEPT ![p] = listed]
  /\ next' = [next EXCEPT ![p] = 1]
  /\ UNCHANGED <<database, faults>>

\* Mutant: the loop does not advance past a migration that is listed.
SkipNothing(p) ==
  /\ At(p, "looping")
  /\ next[p] \in applied[p]
  /\ UNCHANGED vars

Skip(p) ==
  /\ At(p, "looping")
  /\ next[p] \in applied[p]
  /\ next' = [next EXCEPT ![p] = @ + 1]
  /\ UNCHANGED <<database, lock, pc, applied, faults>>

\* BEGIN and the migration's script, whose tables must not be there: it finds out
\* under the lock.
Execute(p) ==
  /\ ToRun(p)
  /\ MayReserve(p)
  /\ Goto(p, IF next[p] \in tables THEN "unwinding" ELSE "executed")
  /\ Hold(p, "reserved")
  /\ UNCHANGED <<database, applied, next, faults>>

\* Mutant: the script and the row are committed one by one.
CommitTables(p) ==
  /\ At(p, "executed")
  /\ tables' = tables \cup {next[p]}
  /\ Goto(p, "inserted")
  /\ UNCHANGED <<exists, listed, lock, applied, next, faults>>

Insert(p) ==
  /\ At(p, "executed")
  /\ next[p] \notin listed
  /\ Goto(p, "inserted")
  /\ UNCHANGED <<database, lock, applied, next, faults>>

Commit(p) ==
  /\ At(p, "inserted")
  /\ lock[p] = "pending"
  /\ ~OtherReader(p)
  /\ tables' = tables \cup {next[p]}
  /\ listed' = listed \cup {next[p]}
  /\ next' = [next EXCEPT ![p] = @ + 1]
  /\ Goto(p, "looping")
  /\ Hold(p, "none")
  /\ UNCHANGED <<exists, applied, faults>>

\* Mutant: the loop ends one migration early.
FinishEarly(p) ==
  /\ At(p, "looping")
  /\ next[p] \in {Count, Count + 1}
  /\ Leave(p, "upToDate")
  /\ UNCHANGED <<database, faults>>

Finish(p) ==
  /\ At(p, "looping")
  /\ next[p] = Count + 1
  /\ Leave(p, "upToDate")
  /\ UNCHANGED <<database, faults>>

-----------------------------------------------------------------------------
(* Failures.                                                               *)

\* Mutant: a migration that fails is logged and passed over.
PassOver(p) ==
  /\ pc[p] \notin NotRunning \cup {"unwinding"}
  /\ faults < MaxFaults
  /\ faults' = faults + 1
  /\ Goto(p, "looping")
  /\ next' = [next EXCEPT ![p] = IF @ < Count THEN @ + 1 ELSE @]
  /\ Hold(p, "none")
  /\ UNCHANGED <<database, applied>>

\* A statement fails for a reason of its own (disk full, I/O): rethrown.
Fail(p) ==
  /\ pc[p] \notin NotRunning \cup {"unwinding"}
  /\ faults < MaxFaults
  /\ faults' = faults + 1
  /\ Goto(p, "unwinding")
  /\ UNCHANGED <<database, lock, applied, next>>

\* The exception passes the transaction, which rolls back, and ends the start.
Unwind(p) ==
  /\ At(p, "unwinding")
  /\ Leave(p, "failed")
  /\ UNCHANGED <<database, faults>>

Crash(p) ==
  /\ pc[p] # "down"
  /\ faults < MaxFaults
  /\ faults' = faults + 1
  /\ Leave(p, "down")
  /\ UNCHANGED database

\* The daemon of a start that failed exits with 1; it may be started again.
Exit(p) ==
  /\ At(p, "failed")
  /\ Goto(p, "down")
  /\ UNCHANGED <<database, lock, applied, next, faults>>

-----------------------------------------------------------------------------

Init ==
  /\ exists = FALSE
  /\ tables = {}
  /\ listed = {}
  /\ lock = [p \in Processes |-> "none"]
  /\ pc = [p \in Processes |-> "down"]
  /\ applied = [p \in Processes |-> {}]
  /\ next = [p \in Processes |-> 1]
  /\ faults = 0

Bootstrap(p) == LookForTable(p) \/ CreateTable(p) \/ CommitTable(p)

\* A start that is under way, in the constructor or in migrate().
Migrate(p) ==
  \/ Share(p) \/ Pend(p) \/ Refuse(p) \/ Unwind(p)
  \/ Bootstrap(p)
  \/ ReadApplied(p) \/ Skip(p) \/ Execute(p) \/ Insert(p) \/ Commit(p) \/ Finish(p)

Next ==
  \E p \in Processes : Open(p) \/ Migrate(p) \/ Fail(p) \/ Crash(p) \/ Exit(p)

Spec == Init /\ [][Next]_vars

\* The scheduler runs a process that is in migrate(); nothing starts one.
FairSpec == Spec /\ \A p \in Processes : WF_vars(Migrate(p))

-----------------------------------------------------------------------------
(* Properties.                                                             *)

Places == {"bootstrapping", "creating", "reading", "looping", "unwinding"}
            \cup Uncommitted \cup NotRunning

\* Every variable has its type (the only type invariant of the module).
TypeOK ==
  /\ exists \in BOOLEAN
  /\ tables \subseteq 1..Count
  /\ listed \subseteq 1..Count
  /\ lock \in [Processes -> {"none", "shared", "reserved", "pending"}]
  /\ pc \in [Processes -> Places]
  /\ applied \in [Processes -> SUBSET (1..Count)]
  /\ next \in [Processes -> 1..(Count + 1)]
  /\ faults \in 0..MaxFaults

\* One process writes, and what it holds is given back with the last place where it
\* has something uncommitted or to roll back.
LockOK ==
  /\ \A p \in Processes :
       /\ pc[p] \in Uncommitted => IsWriter(p)
       /\ IsWriter(p) => pc[p] \in Uncommitted \cup {"unwinding"}
       /\ pc[p] \in NotRunning => lock[p] = "none"
  /\ \A p, q \in Processes : IsWriter(p) /\ IsWriter(q) => p = q

\* What a process has read is out of date at most by what others have added, and
\* below the migration it looks at everything is in the database.
ProgressOK ==
  \A p \in Processes :
    /\ applied[p] \subseteq listed
    /\ pc[p] \in {"reading", "looping", "executed", "inserted", "upToDate"} => exists
    /\ pc[p] \in {"looping", "executed", "inserted"}
         => 1..(next[p] - 1) \subseteq listed
    /\ pc[p] \in {"executed", "inserted"}
         => next[p] \in 1..Count /\ next[p] \notin tables

\* The committed migrations are the first ones, tables and rows alike.
CommittedIsPrefix ==
  /\ tables = listed
  /\ \A n \in listed : 1..n \subseteq listed

\* A daemon that goes on after migrate() finds every table it will use, also when
\* another process migrated in between or died half way.
UpToDateIsComplete ==
  \A p \in Processes : pc[p] = "upToDate" => tables = 1..Count

\* What every step preserves.
IInv ==
  /\ TypeOK
  /\ LockOK
  /\ ProgressOK
  /\ CommittedIsPrefix
  /\ UpToDateIsComplete

Upgrading == INSTANCE SchemaUpgrade WITH recorded <- listed

\* The database goes through the versions one by one and never back.
ImplementsSchemaUpgrade == Upgrading!Spec

\* A start ends, one way or the other.
StartEnds == \A p \in Processes : pc[p] = "bootstrapping" ~> pc[p] \in NotRunning

\* Two starts at once may refuse each other, both of them: what is sure is that a
\* start beside which no other runs ends up to date, whatever the ones before it have
\* left behind by dying, failing or being refused at any statement.
LoneStartCompletes ==
  \A p \in Processes : \A n \in 0..MaxFaults :
    pc[p] = "bootstrapping" /\ Alone(p) /\ faults = n
      ~> pc[p] = "upToDate" \/ ~Alone(p) \/ faults > n
=============================================================================
