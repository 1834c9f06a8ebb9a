--------------------------- MODULE Migrator_proofs ---------------------------
(***************************************************************************)
(* For any number of processes, migrations and crashes: the invariant of   *)
(* Migrator, that a start which ends well finds every table, that nothing  *)
(* but a fault stops a start that is alone, and that Migrator implements   *)
(* SchemaUpgrade.                                                          *)
(***************************************************************************)
EXTENDS Migrator, TLAPS

USE CountAssumption, FaultsAssumption

\* Nothing is committed and no process runs.
LEMMA InitIInv == Init => IInv
  <1> SUFFICES ASSUME Init PROVE IInv
    OBVIOUS
  <1>1. TypeOK
    <2>1. pc \in [Processes -> Places]
      BY DEF Init, Places, NotRunning
    <2>2. next \in [Processes -> 1..(Count + 1)] /\ faults \in 0..MaxFaults
      BY DEF Init
    <2> QED BY <2>1, <2>2 DEF Init, TypeOK
  <1>2. LockOK
    BY DEF Init, LockOK, IsWriter, Uncommitted
  <1>3. ProgressOK /\ CommittedIsPrefix /\ UpToDateIsComplete
    BY DEF Init, ProgressOK, CommittedIsPrefix, UpToDateIsComplete
  <1> QED BY <1>1, <1>2, <1>3 DEF IInv

\* The part of the invariant about the database when it does not change.
LEMMA SameDatabase ==
  ASSUME IInv, UNCHANGED <<tables, listed>>
  PROVE  CommittedIsPrefix'
  BY DEF IInv, CommittedIsPrefix

\* Opening the file, the locks of SQLite, and being refused one: the process p holds
\* at most what is free, and looks at nothing.
LEMMA LockSteps ==
  ASSUME IInv, NEW p \in Processes, Open(p) \/ Share(p) \/ Pend(p) \/ Refuse(p)
  PROVE  IInv'
  <1>1. TypeOK'
    BY DEF IInv, TypeOK, Open, Share, Pend, Refuse, Goto, Hold, database, Places
  <1>2. LockOK'
    <2>1. CASE Open(p)
      BY <2>1 DEF IInv, TypeOK, LockOK, Open, At, Goto, IsWriter, Uncommitted,
                  NotRunning
    <2>2. CASE Share(p)
      BY <2>2 DEF IInv, TypeOK, LockOK, Share, WantsToRead, ToRun, At, Hold, IsWriter,
                  Uncommitted, NotRunning
    <2>3. CASE Pend(p)
      BY <2>3 DEF IInv, TypeOK, LockOK, Pend, At, Hold, IsWriter, Uncommitted,
                  NotRunning
    <2>4. CASE Refuse(p)
      BY <2>4 DEF IInv, TypeOK, LockOK, Refuse, Goto, Hold, IsWriter, Uncommitted,
                  NotRunning
    <2> QED BY <2>1, <2>2, <2>3, <2>4
  <1>3. ProgressOK'
    BY DEF IInv, TypeOK, ProgressOK, Open, Share, Pend, Refuse, Goto, database
  <1>4. UpToDateIsComplete'
    BY DEF IInv, TypeOK, UpToDateIsComplete, Open, Share, Pend, Refuse, Goto, database
  <1>5. CommittedIsPrefix'
    BY SameDatabase DEF Open, Share, Pend, Refuse, database
  <1> QED BY <1>1, <1>2, <1>3, <1>4, <1>5 DEF IInv

\* bootstrap(): the table is there afterwards, and nothing else has changed.
LEMMA BootstrapSteps ==
  ASSUME IInv, NEW p \in Processes, Bootstrap(p)
  PROVE  IInv'
  <1>1. TypeOK'
    BY DEF IInv, TypeOK, Bootstrap, LookForTable, CreateTable, CommitTable, Goto, Hold,
           database, Places, Uncommitted
  <1>2. LockOK'
    <2>1. CASE LookForTable(p) \/ CommitTable(p)
      BY <2>1 DEF IInv, TypeOK, LockOK, LookForTable, CommitTable, Goto, Hold, IsWriter,
                  Uncommitted, NotRunning
    <2>2. CASE CreateTable(p)
      BY <2>2 DEF IInv, TypeOK, LockOK, CreateTable, MayReserve, OtherWriter, Goto, Hold,
                  IsWriter, Uncommitted, NotRunning
    <2> QED BY <2>1, <2>2 DEF Bootstrap
  <1>3. ProgressOK'
    BY DEF IInv, TypeOK, ProgressOK, Bootstrap, LookForTable, CreateTable, CommitTable,
           Goto, database
  <1>4. UpToDateIsComplete'
    BY DEF IInv, TypeOK, UpToDateIsComplete, Bootstrap, LookForTable, CreateTable,
           CommitTable, Goto, database
  <1>5. CommittedIsPrefix'
    BY SameDatabase DEF Bootstrap, LookForTable, CreateTable, CommitTable, database
  <1> QED BY <1>1, <1>2, <1>3, <1>4, <1>5 DEF IInv

\* Reading, and passing over a listed migration: the process p moves on without a
\* lock and the database stays.
LEMMA ReadingSteps ==
  ASSUME IInv, NEW p \in Processes, ReadApplied(p) \/ Skip(p)
  PROVE  IInv'
  <1>1. TypeOK'
    <2>1. CASE ReadApplied(p)
      <3>1. 1 \in 1..(Count + 1)
        OBVIOUS
      <3>2. next' \in [Processes -> 1..(Count + 1)]
        BY <2>1, <3>1 DEF IInv, TypeOK, ReadApplied
      <3>3. applied' \in [Processes -> SUBSET (1..Count)]
        BY <2>1 DEF IInv, TypeOK, ReadApplied
      <3> QED BY <2>1, <3>2, <3>3 DEF IInv, TypeOK, ReadApplied, Goto, Hold, database,
                                      Places
    <2>2. CASE Skip(p)
      <3>1. next[p] + 1 \in 1..(Count + 1)
        BY <2>2 DEF IInv, TypeOK, Skip
      <3>2. next' \in [Processes -> 1..(Count + 1)]
        BY <2>2, <3>1 DEF IInv, TypeOK, Skip
      <3> QED BY <2>2, <3>2 DEF IInv, TypeOK, Skip, database
    <2> QED BY <2>1, <2>2
  <1>2. LockOK'
    BY DEF IInv, TypeOK, LockOK, ReadApplied, Skip, At, Goto, Hold, IsWriter,
           Uncommitted, NotRunning, database
  <1>3. ProgressOK'
    <2>1. CASE ReadApplied(p)
      BY <2>1 DEF IInv, TypeOK, ProgressOK, ReadApplied, At, Goto, database
    <2>2. CASE Skip(p)
      <3>1. next[p] \in listed /\ next[p] \in 1..Count
        BY <2>2 DEF IInv, TypeOK, ProgressOK, Skip, At
      <3>2. 1..((next[p] + 1) - 1) \subseteq listed
        BY <3>1 DEF IInv, CommittedIsPrefix
      <3> QED BY <2>2, <3>2 DEF IInv, TypeOK, ProgressOK, Skip, At, database
    <2> QED BY <2>1, <2>2
  <1>4. UpToDateIsComplete'
    BY DEF IInv, TypeOK, UpToDateIsComplete, ReadApplied, Skip, At, Goto, database
  <1>5. CommittedIsPrefix'
    BY SameDatabase DEF ReadApplied, Skip, database
  <1> QED BY <1>1, <1>2, <1>3, <1>4, <1>5 DEF IInv

\* The script and the row of a migration, before the commit.
LEMMA WritingSteps ==
  ASSUME IInv, NEW p \in Processes, Execute(p) \/ Insert(p)
  PROVE  IInv'
  <1>1. TypeOK'
    BY DEF IInv, TypeOK, Execute, Insert, Goto, Hold, database, Places, Uncommitted
  <1>2. LockOK'
    BY DEF IInv, TypeOK, LockOK, Execute, Insert, MayReserve, OtherWriter, At, Goto, Hold,
           IsWriter, Uncommitted, NotRunning
  <1>3. ProgressOK'
    BY DEF IInv, TypeOK, ProgressOK, Execute, Insert, ToRun, At, Goto, database
  <1>4. UpToDateIsComplete'
    BY DEF IInv, TypeOK, UpToDateIsComplete, Execute, Insert, At, Goto, database
  <1>5. CommittedIsPrefix'
    BY SameDatabase DEF Execute, Insert, database
  <1> QED BY <1>1, <1>2, <1>3, <1>4, <1>5 DEF IInv

\* What a commit finds and leaves: the next version of the database.
LEMMA CommitUpgrades ==
  ASSUME IInv, NEW p \in Processes, Commit(p)
  PROVE  /\ next[p] \in 1..Count
         /\ listed = 1..(next[p] - 1)
         /\ tables = listed
         /\ tables' = 1..next[p]
         /\ listed' = 1..next[p]
  <1>1. next[p] \in 1..Count /\ next[p] \notin tables /\ 1..(next[p] - 1) \subseteq listed
    BY DEF IInv, ProgressOK, Commit, At
  <1>2. tables = listed /\ listed \subseteq 1..Count /\ \A n \in listed : 1..n \subseteq listed
    BY DEF IInv, TypeOK, CommittedIsPrefix
  <1>3. \A n \in listed : n < next[p]
    <2> SUFFICES ASSUME NEW n \in listed, n >= next[p] PROVE FALSE
      BY <1>1, <1>2
    <2>1. next[p] \in 1..n
      BY <1>1, <1>2
    <2> QED BY <2>1, <1>1, <1>2
  <1>4. listed = 1..(next[p] - 1)
    <2>1. \A n \in listed : n \in 1..(next[p] - 1)
      BY <1>1, <1>2, <1>3
    <2> QED BY <2>1, <1>1
  <1> QED BY <1>1, <1>2, <1>4 DEF Commit

\* A commit: the tables and the row appear together and the lock is free.
LEMMA CommitStep ==
  ASSUME IInv, NEW p \in Processes, Commit(p)
  PROVE  IInv'
  <1>1. TypeOK'
    <2>1. next[p] + 1 \in 1..(Count + 1)
      BY CommitUpgrades
    <2>2. next' \in [Processes -> 1..(Count + 1)]
      BY <2>1 DEF IInv, TypeOK, Commit
    <2>3. tables' \subseteq 1..Count /\ listed' \subseteq 1..Count
      BY CommitUpgrades
    <2>4. pc' \in [Processes -> Places]
      BY DEF IInv, TypeOK, Commit, Goto, Places
    <2> QED BY <2>2, <2>3, <2>4 DEF IInv, TypeOK, Commit, Hold
  <1>2. LockOK'
    BY DEF IInv, TypeOK, LockOK, Commit, Goto, Hold, IsWriter, Uncommitted, NotRunning
  <1>3. ProgressOK'
    <2> SUFFICES ASSUME NEW q \in Processes
                 PROVE  /\ applied'[q] \subseteq listed'
                        /\ pc'[q] \in {"reading", "looping", "executed", "inserted",
                                       "upToDate"} => exists'
                        /\ pc'[q] \in {"looping", "executed", "inserted"}
                             => 1..(next'[q] - 1) \subseteq listed'
                        /\ pc'[q] \in {"executed", "inserted"}
                             => next'[q] \in 1..Count /\ next'[q] \notin tables'
      BY DEF ProgressOK
    <2>1. listed \subseteq listed'
      BY CommitUpgrades DEF Commit
    <2>2. CASE q = p
      <3>1. pc'[q] = "looping" /\ next'[q] = next[p] + 1 /\ applied'[q] = applied[p]
        BY <2>2 DEF IInv, TypeOK, Commit, Goto
      <3>2. (next[p] + 1) - 1 = next[p]
        BY CommitUpgrades
      <3>3. applied[p] \subseteq listed /\ exists'
        BY DEF IInv, ProgressOK, Commit, At
      <3> QED BY <2>2, <3>1, <3>2, <3>3, <2>1, CommitUpgrades
    <2>3. CASE q # p
      <3>1. pc'[q] = pc[q] /\ next'[q] = next[q] /\ applied'[q] = applied[q]
        BY <2>3 DEF IInv, TypeOK, Commit, Goto
      <3>2. pc[q] \notin {"executed", "inserted"} /\ UNCHANGED exists
        BY <2>3 DEF IInv, LockOK, Commit, IsWriter, Uncommitted
      <3> QED BY <3>1, <3>2, <2>1 DEF IInv, ProgressOK
    <2> QED BY <2>2, <2>3
  <1>4. UpToDateIsComplete'
    <2>1. ASSUME NEW q \in Processes, pc'[q] = "upToDate" PROVE FALSE
      <3>1. q # p /\ pc[q] = "upToDate"
        BY <2>1 DEF IInv, TypeOK, Commit, Goto
      <3>2. tables = 1..Count
        BY <3>1 DEF IInv, UpToDateIsComplete
      <3> QED BY <3>2, CommitUpgrades
    <2> QED BY <2>1 DEF UpToDateIsComplete
  <1>5. CommittedIsPrefix'
    BY CommitUpgrades DEF CommittedIsPrefix
  <1> QED BY <1>1, <1>2, <1>3, <1>4, <1>5 DEF IInv

\* A start that fails, dies or is over: nothing of it is left but what is committed.
LEMMA EndingSteps ==
  ASSUME IInv, NEW p \in Processes, Fail(p) \/ Unwind(p) \/ Crash(p) \/ Exit(p)
  PROVE  IInv'
  <1>0. UNCHANGED database
    BY DEF Fail, Unwind, Crash, Exit
  <1>1. TypeOK'
    <2>1. faults' \in 0..MaxFaults
      BY DEF IInv, TypeOK, Fail, Unwind, Crash, Exit
    <2>2. 1 \in 1..(Count + 1)
      OBVIOUS
    <2> QED BY <1>0, <2>1, <2>2 DEF IInv, TypeOK, Fail, Unwind, Crash, Exit, Leave, Goto,
                                    database, Places, NotRunning
  <1>2. LockOK'
    BY DEF IInv, TypeOK, LockOK, Fail, Unwind, Crash, Exit, Leave, At, Goto, IsWriter,
           Uncommitted, NotRunning
  <1>3. ProgressOK'
    BY <1>0 DEF IInv, TypeOK, ProgressOK, Fail, Unwind, Crash, Exit, Leave, Goto, database
  <1>4. UpToDateIsComplete'
    BY <1>0 DEF IInv, TypeOK, UpToDateIsComplete, Fail, Unwind, Crash, Exit, Leave, Goto,
                database
  <1>5. CommittedIsPrefix'
    BY <1>0, SameDatabase DEF database
  <1> QED BY <1>1, <1>2, <1>3, <1>4, <1>5 DEF IInv

\* A start that ends well has seen every migration listed.
LEMMA FinishStep ==
  ASSUME IInv, NEW p \in Processes, Finish(p)
  PROVE  IInv'
  <1>1. TypeOK'
    <2>1. 1 \in 1..(Count + 1)
      OBVIOUS
    <2> QED BY <2>1 DEF IInv, TypeOK, Finish, Leave, Goto, database, Places, NotRunning
  <1>2. LockOK'
    BY DEF IInv, TypeOK, LockOK, Finish, Leave, Goto, IsWriter, Uncommitted, NotRunning
  <1>3. ProgressOK'
    BY DEF IInv, TypeOK, ProgressOK, Finish, Leave, At, Goto, database
  <1>4. UpToDateIsComplete'
    <2>1. 1..Count \subseteq listed
      BY DEF IInv, TypeOK, ProgressOK, Finish, At
    <2>2. tables = 1..Count
      BY <2>1 DEF IInv, TypeOK, CommittedIsPrefix
    <2> QED BY <2>2 DEF UpToDateIsComplete, Finish, database
  <1>5. CommittedIsPrefix'
    BY SameDatabase DEF Finish, database
  <1> QED BY <1>1, <1>2, <1>3, <1>4, <1>5 DEF IInv

LEMMA NextIInv == IInv /\ [Next]_vars => IInv'
  <1> SUFFICES ASSUME IInv, [Next]_vars PROVE IInv'
    OBVIOUS
  <1>1. CASE UNCHANGED vars
    BY <1>1 DEF IInv, TypeOK, LockOK, ProgressOK, CommittedIsPrefix,
                UpToDateIsComplete, IsWriter, vars, database
  <1>2. ASSUME NEW p \in Processes,
               Open(p) \/ Migrate(p) \/ Fail(p) \/ Crash(p) \/ Exit(p)
        PROVE  IInv'
    BY <1>2, LockSteps, BootstrapSteps, ReadingSteps, WritingSteps, CommitStep,
       EndingSteps, FinishStep DEF Migrate
  <1> QED BY <1>1, <1>2 DEF Next

\* The invariant of Migrator holds in every reachable state.
THEOREM Invariance == Spec => []IInv
  BY InitIInv, NextIInv, PTL DEF Spec

\* A daemon that goes on after migrate() finds every table it will use.
THEOREM UpToDate == Spec => []UpToDateIsComplete
  <1>1. IInv => UpToDateIsComplete
    BY DEF IInv
  <1> QED BY <1>1, Invariance, PTL

-----------------------------------------------------------------------------
(* A start that is alone.                                                  *)

\* Nothing stands in the way of process p: what it knows is not out of date.
OnItsWay(p) ==
  \/ pc[p] \in {"bootstrapping", "creating", "created", "reading", "upToDate"}
  \/ /\ pc[p] \in {"looping", "executed", "inserted"}
     /\ listed \subseteq applied[p] \cup 1..(next[p] - 1)

\* A start that is alone is on its way until another one begins or there is a fault,
\* so that it is not refused: a lock is refused for another process only, and no table
\* is there that is not listed.
LoneStartGoesOn ==
  [][\A p \in Processes :
       OnItsWay(p) /\ Alone(p) => OnItsWay(p)' \/ ~Alone(p)' \/ faults' > faults]_vars

\* Nobody else holds a lock, and so nothing is refused.
LEMMA AloneIsNotRefused ==
  ASSUME IInv, NEW p \in Processes, Alone(p)
  PROVE  ~Refused(p)
  <1>1. \A q \in Processes \ {p} : lock[q] = "none"
    BY DEF Alone, At, IInv, LockOK, NotRunning
  <1> QED BY <1>1 DEF Refused, OtherPending, OtherWriter, OtherReader, IsWriter

\* What it runs is not there.
LEMMA KnownIsAbsent ==
  ASSUME IInv, NEW p \in Processes, OnItsWay(p), ToRun(p)
  PROVE  next[p] \notin tables
  <1>1. /\ listed \subseteq applied[p] \cup 1..(next[p] - 1)
        /\ next[p] \in 1..Count
        /\ next[p] \notin applied[p]
        /\ next[p] \notin 1..(next[p] - 1)
    BY DEF OnItsWay, ToRun, At
  <1>2. tables = listed
    BY DEF IInv, CommittedIsPrefix
  <1> QED BY <1>1, <1>2

\* The steps of the start itself.
LEMMA OwnSteps ==
  ASSUME IInv, NEW p \in Processes, Alone(p), OnItsWay(p), Migrate(p)
  PROVE  OnItsWay(p)'
  <1>1. CASE Share(p) \/ Pend(p)
    BY <1>1 DEF Share, Pend, OnItsWay, database
  <1>2. CASE Refuse(p)
    BY <1>2, AloneIsNotRefused DEF Refuse
  <1>3. CASE Unwind(p)
    BY <1>3 DEF Unwind, At, OnItsWay
  <1>4. CASE Bootstrap(p)
    BY <1>4 DEF Bootstrap, LookForTable, CreateTable, CommitTable, Goto, OnItsWay, IInv,
                TypeOK
  <1>5. CASE ReadApplied(p)
    BY <1>5 DEF ReadApplied, Goto, OnItsWay, IInv, TypeOK, database
  <1>6. CASE Skip(p)
    <2>1. /\ pc'[p] = "looping" /\ applied'[p] = applied[p]
          /\ next'[p] = next[p] + 1
          /\ next[p] \in Nat
          /\ listed' = listed
          /\ listed \subseteq applied[p] \cup 1..(next[p] - 1)
      BY <1>6 DEF Skip, At, OnItsWay, IInv, TypeOK, database
    <2>2. 1..(next[p] - 1) \subseteq 1..((next[p] + 1) - 1)
      BY <2>1
    <2> QED BY <2>1, <2>2 DEF OnItsWay
  <1>7. CASE Execute(p)
    <2>1. next[p] \notin tables
      BY <1>7, KnownIsAbsent DEF Execute
    <2> QED BY <1>7, <2>1 DEF Execute, ToRun, At, Goto, OnItsWay, IInv, TypeOK, database
  <1>8. CASE Insert(p)
    BY <1>8 DEF Insert, At, Goto, OnItsWay, IInv, TypeOK, database
  <1>9. CASE Commit(p)
    <2>1. pc'[p] = "looping" /\ next'[p] = next[p] + 1 /\ listed' = 1..next[p]
      BY <1>9, CommitUpgrades DEF IInv, TypeOK, Commit, Goto
    <2>2. (next[p] + 1) - 1 = next[p]
      BY <1>9, CommitUpgrades
    <2> QED BY <2>1, <2>2 DEF OnItsWay
  <1>10. CASE Finish(p)
    BY <1>10 DEF Finish, Leave, Goto, OnItsWay, IInv, TypeOK
  <1> QED BY <1>1, <1>2, <1>3, <1>4, <1>5, <1>6, <1>7, <1>8, <1>9, <1>10 DEF Migrate

\* A process that is down does nothing but open the file.
LEMMA DownOnlyOpens ==
  ASSUME IInv, NEW q \in Processes, pc[q] = "down"
  PROVE  ~Migrate(q) /\ ~Fail(q) /\ ~Crash(q) /\ ~Exit(q)
  BY DEF Migrate, Share, Pend, Refuse, Refused, Unwind, Bootstrap, LookForTable,
         CreateTable, CommitTable, ReadApplied, Skip, Execute, Insert, Commit, Finish,
         WantsToRead, WantsToWrite, ToRun, At, Fail, Crash, Exit, NotRunning

LEMMA NextGoesOn ==
  IInv /\ [Next]_vars =>
    [\A p \in Processes :
       OnItsWay(p) /\ Alone(p) => OnItsWay(p)' \/ ~Alone(p)' \/ faults' > faults]_vars
  <1> SUFFICES ASSUME IInv, Next, NEW p \in Processes, OnItsWay(p), Alone(p)
               PROVE  OnItsWay(p)' \/ ~Alone(p)' \/ faults' > faults
    OBVIOUS
  <1>1. PICK q \in Processes : Open(q) \/ Migrate(q) \/ Fail(q) \/ Crash(q) \/ Exit(q)
    BY DEF Next
  <1>2. CASE q # p
    <2>1. Open(q)
      BY <1>1, <1>2, DownOnlyOpens DEF Alone, At
    <2>2. pc'[q] = "bootstrapping"
      BY <2>1 DEF Open, Goto, IInv, TypeOK
    <2> QED BY <1>2, <2>2 DEF Alone, At
  <1>3. CASE q = p
    <2>1. CASE Open(p) \/ Exit(p)
      BY <2>1 DEF Open, Exit, At, OnItsWay
    <2>2. CASE Migrate(p)
      BY <2>2, OwnSteps
    <2>3. CASE Fail(p) \/ Crash(p)
      BY <2>3 DEF Fail, Crash, IInv, TypeOK
    <2> QED BY <1>1, <1>3, <2>1, <2>2, <2>3
  <1> QED BY <1>2, <1>3

\* Whatever earlier starts have left behind, a start that is alone is never refused, for
\* any number of migrations and of faults before it.
THEOREM LoneStart == Spec => LoneStartGoesOn
  BY NextGoesOn, Invariance, PTL DEF Spec, LoneStartGoesOn

-----------------------------------------------------------------------------
(* Refinement.                                                             *)

\* A commit is an upgrade by one, every other step leaves the database alone.
LEMMA StepUpgrades ==
  IInv /\ [Next]_vars => [Upgrading!Next]_<<tables, listed>>
  <1> SUFFICES ASSUME IInv, [Next]_vars
               PROVE  Upgrading!Next \/ UNCHANGED <<tables, listed>>
    OBVIOUS
  <1>1. ASSUME NEW p \in Processes, Commit(p) PROVE Upgrading!Next
    BY <1>1, CommitUpgrades DEF Upgrading!Next, Upgrading!Upgrade
  <1>2. ASSUME NEW p \in Processes,
               Open(p) \/ Migrate(p) \/ Fail(p) \/ Crash(p) \/ Exit(p), ~Commit(p)
        PROVE  UNCHANGED <<tables, listed>>
    BY <1>2 DEF Open, Migrate, Share, Pend, Refuse, Unwind, Bootstrap, LookForTable,
                CreateTable, CommitTable, ReadApplied, Skip, Execute, Insert, Finish,
                Fail, Crash, Exit, database
  <1> QED BY <1>1, <1>2 DEF Next, vars, database

\* Migrator implements SchemaUpgrade: one version after the other, each whole.
THEOREM Refinement == Spec => ImplementsSchemaUpgrade
  <1>1. Init => Upgrading!Init
    BY DEF Init, Upgrading!Init
  <1> QED BY <1>1, StepUpgrades, Invariance, PTL
          DEF Spec, ImplementsSchemaUpgrade, Upgrading!Spec
=============================================================================
