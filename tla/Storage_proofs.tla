---------------------------- MODULE Storage_proofs ----------------------------
(***************************************************************************)
(* What holds of the rows for every number of statements: constraints are  *)
(* kept, no row is torn, neither a projection nor an edit touches what it  *)
(* should not, and the order of the topics does not matter.  What the      *)
(* proofs need of the statements is WellFormed and Independent, which are  *)
(* checked for them once, column by column.  At the end the migrations     *)
(* are put under the rows: what Migrator_proofs says holds of the file.    *)
(***************************************************************************)
EXTENDS Storage, Migrator_proofs, TLAPS

Tables == {"robots", "orders", "instant_actions", "maps"}

Columns(t) == Schema[t].columns

\* A statement binds what its table requires, updates what it binds, all of a group
\* or nothing of it, and nothing of the management.
WellFormed(s) ==
  /\ s.table \in Tables
  /\ Schema[s.table].required \subseteq (s.bound \cup s.fixed) \ s.optional
  /\ s.updated \subseteq s.bound \ s.fixed
  /\ "last_updated_at" \in s.updated \ s.optional
  /\ s.updated \cap (Management(s.table) \cup {"created_at"}) = {}
  /\ \A g \in Groups :
       g \cap Columns(s.table) \subseteq s.updated \/ g \cap s.updated = {}

\* What is required of a table: its timestamps, and that no group has any of them
\* or of the management.
TableOK(t) ==
  /\ Schema[t].required \subseteq Columns(t)
  /\ "last_updated_at" \in Columns(t)
  /\ "absent" \notin Columns(t)
  /\ "last_updated_at" \notin Management(t)
  /\ "created_at" \notin Management(t)
  /\ Management(t) \subseteq Columns(t)
  /\ \A g \in Groups : g \cap Columns(t) \cap (Management(t) \cup Timestamps) = {}

LEMMA SchemaTables == DOMAIN Schema = Tables
  BY DEF Schema, Tables

LEMMA EveryTable == \A t \in Tables : TableOK(t)
  <1>1. TableOK("robots")
    BY DEF TableOK, Columns, Schema, Robots, Table, Management, Groups, StateColumns,
           OrderColumns, ActionColumns, Timestamps
  <1>2. TableOK("orders")
    BY DEF TableOK, Columns, Schema, Orders, Table, Management, Groups, StateColumns,
           OrderColumns, ActionColumns, Timestamps
  <1>3. TableOK("instant_actions")
    <2>1. /\ Columns("instant_actions") = InstantActions.columns
          /\ Schema["instant_actions"].required = InstantActions.required
          /\ Management("instant_actions") =
               {"retriable", "action_result", "site_id", "archived"}
      BY DEF Columns, Schema, Management
    <2>2. /\ InstantActions.required \subseteq InstantActions.columns
          /\ {"last_updated_at", "retriable", "action_result", "site_id",
              "archived"} \subseteq InstantActions.columns
          /\ "absent" \notin InstantActions.columns
      BY DEF InstantActions, Table
    <2>3. \A g \in Groups :
            g \cap (Management("instant_actions") \cup Timestamps) = {}
      BY <2>1 DEF Groups, StateColumns, OrderColumns, ActionColumns, Timestamps
    <2> QED BY <2>1, <2>2, <2>3 DEF TableOK
  <1>4. TableOK("maps")
    BY DEF TableOK, Columns, Schema, Maps, Table, Management, Groups, StateColumns,
           OrderColumns, ActionColumns, Timestamps
  <1> QED BY <1>1, <1>2, <1>3, <1>4 DEF Tables

\* A row tells which table it is of.
LEMMA ColumnsTellTables ==
  \A t, u \in Tables : Columns(t) = Columns(u) => t = u
  <1>1. \A t \in Tables :
          /\ "battery_level" \in Columns(t) <=> t = "robots"
          /\ "nodes" \in Columns(t) <=> t = "orders"
          /\ "action_type" \in Columns(t) <=> t = "instant_actions"
          /\ "map_version" \in Columns(t) <=> t = "maps"
    BY DEF Tables, Columns, Schema, Robots, Orders, InstantActions, Maps, Table
  <1> QED BY <1>1 DEF Tables

LEMMA EveryStatement == \A s \in Projections : WellFormed(s)
  <1>1. WellFormed(upsertConnection)
    BY DEF WellFormed, Tables, Columns, Schema, Robots, Table, Management, Groups,
           StateColumns, OrderColumns, ActionColumns, Timestamps, Statement,
           upsertConnection
  <1>2. WellFormed(upsertState)
    BY DEF WellFormed, Tables, Columns, Schema, Robots, Table, Management, Groups,
           StateColumns, OrderColumns, ActionColumns, Timestamps, Statement,
           upsertState
  <1>3. WellFormed(upsertFactsheet)
    BY DEF WellFormed, Tables, Columns, Schema, Robots, Table, Management, Groups,
           StateColumns, OrderColumns, ActionColumns, Timestamps, Statement,
           upsertFactsheet
  <1>4. WellFormed(upsertFromOrder)
    BY DEF WellFormed, Tables, Columns, Schema, Orders, Table, Management, Groups,
           StateColumns, OrderColumns, ActionColumns, Timestamps, Statement,
           upsertFromOrder
  <1>5. WellFormed(upsertFromAction)
    BY DEF WellFormed, Tables, Columns, Schema, InstantActions, Table, Management,
           Groups, StateColumns, OrderColumns, ActionColumns, Timestamps, Statement,
           upsertFromAction
  <1>6. WellFormed(upsertFromResponse)
    BY DEF WellFormed, Tables, Columns, Schema, InstantActions, Table, Management,
           Groups, StateColumns, OrderColumns, ActionColumns, Timestamps, Statement,
           upsertFromResponse
  <1> QED BY <1>1, <1>2, <1>3, <1>4, <1>5, <1>6 DEF Projections

-----------------------------------------------------------------------------
(* Rows.                                                                   *)

\* A row of table t whose values came with statement n at the latest.
RowOK(t, row, n) ==
  /\ row = [c \in Columns(t) |-> row[c]]
  /\ \A c \in Columns(t) : row[c] \in 0..n
  /\ \A c \in Schema[t].required : row[c] # Initial
  /\ \A g \in Groups : \A c, d \in g \cap Columns(t) :
       row[c] \in {Initial, Placeholder, row[d]} \/ row[d] \in {Initial, Placeholder}

\* What the caller holds is a row of table t.
HeldFrom(t) == DOMAIN held = Columns(t)

\* What was read is older than the row, or the row itself.
HeldOK(t) ==
  /\ RowOK(t, held, statements + 1)
  /\ HasRow(t)
  /\ held["last_updated_at"] = rows[t]["last_updated_at"] => held = rows[t]

\* What every statement preserves.
RowsIInv ==
  /\ statements \in Nat
  /\ DOMAIN rows = Tables
  /\ \A t \in Tables : HasRow(t) => RowOK(t, rows[t], statements + 1)
  /\ \A t \in Tables : HeldFrom(t) => HeldOK(t)

LEMMA InitRows == StorageInit => RowsIInv
  <1> SUFFICES ASSUME ReadModelInit PROVE RowsIInv
    BY DEF StorageInit
  <1>1. statements \in Nat /\ DOMAIN rows = Tables
    BY SchemaTables DEF ReadModelInit
  <1>2. \A t \in Tables : ~HasRow(t)
    BY SchemaTables DEF ReadModelInit, HasRow
  <1>3. ASSUME NEW t \in Tables, HeldFrom(t) PROVE FALSE
    <2>1. DOMAIN held = {"absent"}
      BY DEF ReadModelInit, NoRow
    <2> QED BY <1>3, <2>1, EveryTable DEF HeldFrom, TableOK
  <1> QED BY <1>1, <1>2, <1>3 DEF RowsIInv

\* A row stays one, whatever comes later.
LEMMA RowsAge ==
  ASSUME NEW t, NEW row, NEW n \in Nat, NEW m \in Nat, n <= m, RowOK(t, row, n)
  PROVE  RowOK(t, row, m)
  <1>1. \A c \in Columns(t) : row[c] \in 0..m
    BY DEF RowOK
  <1> QED BY <1>1 DEF RowOK

\* The statement of a projection makes a row, or keeps one.
LEMMA AfterIsRow ==
  ASSUME NEW s \in Projections, NEW missing \in SUBSET s.optional,
         NEW n \in Nat, n > 1, NEW row,
         row = NoRow \/ RowOK(s.table, row, n)
  PROVE  RowOK(s.table, After(s, missing, n, row), n)
  <1> DEFINE t == s.table
             values == Values(s, missing, n)
             new == After(s, missing, n, row)
  <1>1. WellFormed(s) /\ t \in Tables /\ TableOK(t)
    BY EveryStatement, EveryTable DEF WellFormed
  <1>2. /\ DOMAIN values = s.bound \cup s.fixed
        /\ \A c \in s.bound \cup s.fixed : values[c] \in {Initial, Placeholder, n}
        /\ \A c \in (s.bound \cup s.fixed) \ s.optional : values[c] # Initial
    BY DEF Values, Initial, Placeholder
  <1>3. new = Upserted(row, Columns(t), values, s.updated)
    BY DEF After, Columns
  <1> HIDE DEF values
  <1>4. CASE row = NoRow
    <2>1. new = [c \in Columns(t) |-> IF c \in DOMAIN values THEN values[c] ELSE Initial]
      BY <1>3, <1>4 DEF Upserted
    <2>2. \A c \in Columns(t) : new[c] \in {Initial, Placeholder, n}
      BY <1>2, <2>1
    <2>3. \A c \in Schema[t].required : new[c] # Initial
      BY <1>1, <1>2, <2>1 DEF WellFormed, TableOK
    <2>4. new = [c \in Columns(t) |-> new[c]]
      BY <2>1
    <2>5. \A c \in Columns(t) : new[c] \in 0..n
      BY <2>2 DEF Initial, Placeholder
    <2> HIDE DEF new, t
    <2> QED BY <2>2, <2>3, <2>4, <2>5 DEF RowOK, t, new
  <1>5. CASE row # NoRow
    <2>1. new = [c \in Columns(t) |-> IF c \in s.updated THEN values[c] ELSE row[c]]
      BY <1>3, <1>5 DEF Upserted
    <2>2. RowOK(t, row, n)
      BY <1>5
    <2>3. new = [c \in Columns(t) |-> new[c]]
      BY <2>1
    <2>4. \A c \in Columns(t) :
            /\ c \in s.updated => new[c] \in {Initial, Placeholder, n}
            /\ c \notin s.updated => new[c] = row[c]
      BY <1>1, <1>2, <2>1 DEF WellFormed
    <2>5. \A c \in Schema[t].required : new[c] # Initial
      BY <1>1, <1>2, <2>1, <2>2 DEF WellFormed, TableOK, RowOK
    <2> HIDE DEF new
    <2>6. \A c \in Columns(t) : new[c] \in 0..n
      BY <2>2, <2>4 DEF RowOK, Initial, Placeholder
    <2>7. ASSUME NEW g \in Groups, NEW c \in g \cap Columns(t), NEW d \in g \cap Columns(t)
          PROVE  \/ new[c] \in {Initial, Placeholder, new[d]}
                 \/ new[d] \in {Initial, Placeholder}
      <3>1. CASE g \cap Columns(t) \subseteq s.updated
        BY <2>4, <3>1
      <3>2. CASE g \cap s.updated = {}
        <4>1. new[c] = row[c] /\ new[d] = row[d]
          BY <2>4, <3>2
        <4> QED BY <2>2, <4>1 DEF RowOK
      <3> QED BY <1>1, <3>1, <3>2 DEF WellFormed
    <2> HIDE DEF t
    <2> QED BY <2>3, <2>5, <2>6, <2>7 DEF RowOK, t, new
  <1> QED BY <1>4, <1>5

\* A statement on one table writes a row with its own number in last_updated_at.
Writes(t, new) ==
  /\ rows' = [rows EXCEPT ![t] = new]
  /\ statements' = statements + 1
  /\ RowOK(t, new, statements + 2)
  /\ new["last_updated_at"] = statements + 2
  /\ \A u \in Tables \ {t} : ~HasRow(u)

LEMMA WritesKeep ==
  ASSUME RowsIInv, NEW t \in Tables, NEW new, Writes(t, new),
         held' = held \/ held' = NoRow
  PROVE  RowsIInv'
  <1>1. statements' \in Nat /\ DOMAIN rows' = Tables /\ rows'[t] = new
    BY DEF RowsIInv, Writes
  <1>2. ASSUME NEW u \in Tables, HasRow(u)' PROVE RowOK(u, rows[u], statements + 1)'
    <2>1. u = t
      BY <1>2 DEF Writes, HasRow, RowsIInv
    <2>2. RowOK(t, new, (statements + 1) + 1)
      BY DEF Writes, RowsIInv
    <2> QED BY <1>1, <2>1, <2>2 DEF Writes, RowOK
  <1>3. ASSUME NEW u \in Tables, HeldFrom(u)' PROVE HeldOK(u)'
    <2>1. held' # NoRow
      <3>1. DOMAIN NoRow = {"absent"}
        BY DEF NoRow
      <3> QED BY <1>3, <3>1, EveryTable DEF HeldFrom, TableOK
    <2>2. HeldOK(u) /\ held' = held
      BY <1>3, <2>1 DEF HeldFrom, RowsIInv
    <2>3. u = t
      BY <2>2 DEF HeldOK, Writes
    <2>4. RowOK(u, held, statements + 2)
      BY <2>2, RowsAge DEF HeldOK, RowsIInv
    <2>5. held["last_updated_at"] \in 0..(statements + 1)
      BY <2>2, EveryTable DEF HeldOK, RowOK, TableOK
    <2>6. held["last_updated_at"] # rows'[t]["last_updated_at"]
      BY <1>1, <2>5 DEF Writes, RowsIInv
    <2>7. HasRow(t)'
      <3>1. "last_updated_at" \in DOMAIN new
        BY EveryTable DEF Writes, RowOK, TableOK
      <3>2. "last_updated_at" \notin DOMAIN NoRow
        BY DEF NoRow
      <3> QED BY <1>1, <3>1, <3>2 DEF HasRow
    <2>8. RowOK(u, held', statements' + 1)
      <3>1. statements' + 1 = statements + 2
        BY DEF Writes, RowsIInv
      <3> QED BY <2>2, <2>4, <3>1
    <2> QED BY <2>2, <2>3, <2>6, <2>7, <2>8 DEF HeldOK, RowOK, HasRow
  <1> QED BY <1>1, <1>2, <1>3 DEF RowsIInv

LEMMA ProjectWrites ==
  ASSUME RowsIInv, NEW s \in Projections, Project(s)
  PROVE  /\ s.table \in Tables
         /\ \E new : Writes(s.table, new)
         /\ HasRow(s.table) =>
              \A c \in Columns(s.table) \ s.updated :
                rows'[s.table][c] = rows[s.table][c]
         /\ held' = held
  <1> DEFINE t == s.table
  <1>1. WellFormed(s) /\ t \in Tables /\ TableOK(t)
    BY EveryStatement, EveryTable DEF WellFormed
  <1>2. PICK missing \in SUBSET s.optional :
          rows' = [rows EXCEPT ![t] = After(s, missing, Number, rows[t])]
    BY DEF Project
  <1> DEFINE new == After(s, missing, Number, rows[t])
  <1>3. Number = statements + 2 /\ Number \in Nat /\ Number > 1
    BY DEF Number, RowsIInv
  <1>4. rows[t] = NoRow \/ RowOK(t, rows[t], Number)
    <2>1. rows[t] # NoRow => RowOK(t, rows[t], statements + 1)
      BY <1>1 DEF RowsIInv, HasRow
    <2> QED BY <1>3, <2>1, RowsAge DEF RowsIInv
  <1>5. RowOK(t, new, statements + 2)
    BY <1>3, <1>4, AfterIsRow
  <1>6. /\ new["last_updated_at"] = Number
        /\ rows[t] # NoRow => \A c \in Columns(t) \ s.updated : new[c] = rows[t][c]
    <2>1. /\ "last_updated_at" \in Columns(t)
          /\ "last_updated_at" \in s.updated
          /\ "last_updated_at" \in (s.bound \cup s.fixed) \ s.optional
          /\ "last_updated_at" \notin s.fixed
      BY <1>1 DEF WellFormed, TableOK
    <2>2. Values(s, missing, Number)["last_updated_at"] = Number
      BY <2>1 DEF Values
    <2>3. DOMAIN Values(s, missing, Number) = s.bound \cup s.fixed
      BY DEF Values
    <2> QED BY <2>1, <2>2, <2>3 DEF After, Upserted, Columns
  <1>7. /\ statements' = statements + 1
        /\ \A u \in Tables \ {t} : ~HasRow(u)
        /\ held' = held
    BY SchemaTables DEF Project, OnTable, HasRow
  <1>8. Writes(t, new)
    BY <1>2, <1>3, <1>5, <1>6, <1>7 DEF Writes
  <1>9. rows'[t] = new
    BY <1>1, <1>2 DEF RowsIInv
  <1> HIDE DEF new
  <1> QED BY <1>1, <1>6, <1>7, <1>8, <1>9 DEF HasRow

LEMMA WriteBackWrites ==
  ASSUME RowsIInv, NEW t \in Tables, WriteBack(t)
  PROVE  /\ \E new : Writes(t, new)
         /\ held' = NoRow
         /\ HeldOK(t)
         /\ \E edited \in Management(t) :
              \A c \in Columns(t) \ {edited, "last_updated_at"} :
                rows'[t][c] \in {held[c], rows[t][c]}
  <1>1. HeldOK(t) /\ TableOK(t) /\ DOMAIN held = Columns(t)
    BY EveryTable DEF WriteBack, RowsIInv, HeldFrom, Columns
  <1>2. PICK edited \in Management(t) :
          rows' = [rows EXCEPT ![t] =
                     Upserted(rows[t], DOMAIN held,
                              [held EXCEPT ![edited] = Number,
                                           !["last_updated_at"] = Number],
                              Updated(t))]
    BY DEF WriteBack
  <1> DEFINE values == [held EXCEPT ![edited] = Number, !["last_updated_at"] = Number]
             new == Upserted(rows[t], Columns(t), values, Updated(t))
  <1>3. Number = statements + 2 /\ Number \in Nat /\ Number > 1
    BY DEF Number, RowsIInv
  <1>4. /\ edited \in Columns(t) \ {"last_updated_at", "created_at"}
        /\ "last_updated_at" \in Columns(t) \ {"created_at"}
    BY <1>1 DEF TableOK
  <1>5. /\ values[edited] = Number
        /\ values["last_updated_at"] = Number
        /\ \A c \in Columns(t) \ {edited, "last_updated_at"} : values[c] = held[c]
    BY <1>1, <1>4
  <1> HIDE DEF values
  <1>6. rows[t] # NoRow /\ RowOK(t, rows[t], statements + 1)
    BY <1>1 DEF HeldOK, HasRow, RowsIInv
  <1>7. new = [c \in Columns(t) |-> IF c \in Updated(t) THEN values[c] ELSE rows[t][c]]
    BY <1>6 DEF Upserted
  <1>8. Updated(t) = Columns(t) \ {"created_at"}
    BY DEF Updated, Columns
  <1>9. /\ new = [c \in Columns(t) |-> new[c]]
        /\ new[edited] = Number
        /\ new["last_updated_at"] = Number
        /\ \A c \in Columns(t) \ {edited, "last_updated_at"} :
             new[c] = IF c = "created_at" THEN rows[t][c] ELSE held[c]
    BY <1>4, <1>5, <1>7, <1>8
  <1> HIDE DEF new
  <1>10. RowOK(t, new, statements + 2)
    <2>1. RowOK(t, held, statements + 1)
      BY <1>1 DEF HeldOK
    <2>2. \A c \in Columns(t) : new[c] \in 0..(statements + 2)
      <3>1. ASSUME NEW c \in Columns(t) PROVE new[c] \in 0..(statements + 1) \cup {Number}
        BY <1>6, <1>9, <2>1 DEF RowOK
      <3> QED BY <1>3, <3>1 DEF RowsIInv
    <2>3. \A c \in Schema[t].required : new[c] # Initial
      <3>1. ASSUME NEW c \in Schema[t].required PROVE new[c] # Initial
        <4>1. c \in Columns(t) /\ held[c] # Initial /\ rows[t][c] # Initial
          BY <1>1, <1>6, <2>1 DEF RowOK, TableOK
        <4>2. Number # Initial
          BY <1>3 DEF Initial
        <4> QED BY <1>9, <4>1, <4>2
      <3> QED BY <3>1
    <2>4. ASSUME NEW g \in Groups, NEW c \in g \cap Columns(t), NEW d \in g \cap Columns(t)
          PROVE  \/ new[c] \in {Initial, Placeholder, new[d]}
                 \/ new[d] \in {Initial, Placeholder}
      <3>1. /\ c \notin {edited, "last_updated_at", "created_at"}
            /\ d \notin {edited, "last_updated_at", "created_at"}
        BY <1>1 DEF TableOK, Timestamps
      <3>2. new[c] = held[c] /\ new[d] = held[d]
        BY <1>9, <3>1
      <3> QED BY <2>1, <3>2 DEF RowOK
    <2> QED BY <1>9, <2>2, <2>3, <2>4 DEF RowOK
  <1>11. /\ statements' = statements + 1
         /\ \A u \in Tables \ {t} : ~HasRow(u)
         /\ held' = NoRow
    BY SchemaTables DEF WriteBack, OnTable, HasRow
  <1>12. rows' = [rows EXCEPT ![t] = new] /\ rows'[t] = new
    BY <1>1, <1>2 DEF RowsIInv, new, values
  <1>13. Writes(t, new)
    BY <1>3, <1>9, <1>10, <1>11, <1>12 DEF Writes
  <1>14. \A c \in Columns(t) \ {edited, "last_updated_at"} :
           rows'[t][c] \in {held[c], rows[t][c]}
    BY <1>9, <1>12
  <1> QED BY <1>1, <1>11, <1>13, <1>14

LEMMA WriteNewWrites ==
  ASSUME RowsIInv, NEW t \in Tables, WriteNew(t)
  PROVE  (\E new : Writes(t, new)) /\ held' = held
  <1> DEFINE new == Upserted(rows[t], Columns(t), [c \in Columns(t) |-> Number], Updated(t))
  <1>1. TableOK(t) /\ Number = statements + 2 /\ Number \in Nat /\ Number > 1
    BY EveryTable DEF Number, RowsIInv
  <1>2. Updated(t) = Columns(t) \ {"created_at"}
    BY DEF Updated, Columns
  <1>3. HasRow(t) => RowOK(t, rows[t], statements + 1)
    BY DEF RowsIInv
  <1>4. /\ new = [c \in Columns(t) |-> new[c]]
        /\ \A c \in Columns(t) \ {"created_at"} : new[c] = Number
        /\ \A c \in Columns(t) : new[c] = Number \/ (HasRow(t) /\ new[c] = rows[t][c])
    <2>1. CASE HasRow(t)
      <3>1. new = [c \in Columns(t) |-> IF c \in Updated(t) THEN Number ELSE rows[t][c]]
        BY <2>1 DEF Upserted, HasRow
      <3> HIDE DEF new
      <3> QED BY <1>2, <2>1, <3>1
    <2>2. CASE ~HasRow(t)
      <3>1. new = [c \in Columns(t) |-> Number]
        BY <2>2 DEF Upserted, HasRow
      <3> HIDE DEF new
      <3> QED BY <3>1
    <2> QED BY <2>1, <2>2
  <1>5. rows' = [rows EXCEPT ![t] = new]
    BY DEF WriteNew, Columns
  <1> HIDE DEF new
  <1>6. RowOK(t, new, statements + 2)
    <2>1. \A c \in Columns(t) : new[c] \in 0..(statements + 2)
      BY <1>1, <1>3, <1>4 DEF RowOK, RowsIInv
    <2>2. \A c \in Schema[t].required : new[c] # Initial
      BY <1>1, <1>3, <1>4 DEF RowOK, TableOK, Initial
    <2>3. ASSUME NEW g \in Groups, NEW c \in g \cap Columns(t), NEW d \in g \cap Columns(t)
          PROVE  new[c] = new[d]
      <3>1. c # "created_at" /\ d # "created_at"
        BY <1>1 DEF TableOK, Timestamps
      <3> QED BY <1>4, <3>1
    <2> QED BY <1>4, <2>1, <2>2, <2>3 DEF RowOK
  <1>7. new["last_updated_at"] = statements + 2
    BY <1>1, <1>4 DEF TableOK
  <1>8. /\ statements' = statements + 1
        /\ \A u \in Tables \ {t} : ~HasRow(u)
        /\ held' = held
    BY SchemaTables DEF WriteNew, OnTable, HasRow
  <1>9. Writes(t, new)
    BY <1>5, <1>6, <1>7, <1>8 DEF Writes
  <1> QED BY <1>8, <1>9

LEMMA ReadKeeps ==
  ASSUME RowsIInv, NEW t \in Tables, Read(t)
  PROVE  RowsIInv'
  <1>1. /\ rows[t] # NoRow /\ held' = rows[t]
        /\ rows' = rows /\ statements' = statements
    BY DEF Read, Found
  <1>2. RowOK(t, rows[t], statements + 1)
    BY <1>1 DEF RowsIInv, HasRow
  <1>3. ASSUME NEW u \in Tables, HeldFrom(u)' PROVE HeldOK(u)'
    <2>1. Columns(u) = Columns(t)
      BY <1>1, <1>2, <1>3 DEF HeldFrom, RowOK
    <2>2. u = t
      BY <2>1, ColumnsTellTables
    <2> QED BY <1>1, <1>2, <2>2 DEF HeldOK, RowOK, HasRow
  <1>4. \A u \in Tables : HasRow(u)' => RowOK(u, rows[u], statements + 1)'
    BY <1>1 DEF RowsIInv, RowOK, HasRow
  <1> QED BY <1>1, <1>3, <1>4 DEF RowsIInv

LEMMA NextRows == RowsIInv /\ [StorageNext]_storageVars => RowsIInv'
  <1> SUFFICES ASSUME RowsIInv, [StorageNext]_storageVars PROVE RowsIInv'
    OBVIOUS
  <1>1. CASE UNCHANGED readModelVars
    BY <1>1 DEF RowsIInv, readModelVars, HasRow, HeldFrom, HeldOK, RowOK
  <1>2. ASSUME NEW s \in Projections, Project(s) PROVE RowsIInv'
    BY <1>2, ProjectWrites, WritesKeep
  <1>3. ASSUME NEW t \in Tables, WriteBack(t) PROVE RowsIInv'
    BY <1>3, WriteBackWrites, WritesKeep
  <1>4. ASSUME NEW t \in Tables, WriteNew(t) PROVE RowsIInv'
    BY <1>4, WriteNewWrites, WritesKeep
  <1>5. ASSUME NEW t \in Tables, Read(t) PROVE RowsIInv'
    BY <1>5, ReadKeeps
  <1> QED BY <1>1, <1>2, <1>3, <1>4, <1>5, SchemaTables
          DEF StorageNext, Unused, ReadModelNext, Projecting, WritingBack, storageVars

-----------------------------------------------------------------------------

\* The inductive invariant of the rows.
THEOREM RowsInvariance == StorageSpec => []RowsIInv
  BY InitRows, NextRows, PTL DEF StorageSpec

\* SQLite refuses none of the statements, in any order and number of them.
THEOREM RowsFit == StorageSpec => []RowsFitTheirTables
  <1>1. RowsIInv => RowsFitTheirTables
    <2>1. ASSUME NEW t \in Tables, NEW row, NEW n, RowOK(t, row, n)
          PROVE  DOMAIN row = Schema[t].columns
      BY <2>1 DEF RowOK, Columns
    <2> QED BY <2>1, SchemaTables DEF RowsIInv, RowsFitTheirTables, RowOK
  <1> QED BY <1>1, RowsInvariance, PTL

\* No row ever shows parts of two messages.
THEOREM RowsAreWhole == StorageSpec => []NoRowIsTorn
  <1>1. RowsIInv => NoRowIsTorn
    BY SchemaTables DEF RowsIInv, NoRowIsTorn, RowOK, Columns
  <1> QED BY <1>1, RowsInvariance, PTL

\* No projection undoes what the management of the fleet has set.
THEOREM ManagementIsSafe == StorageSpec => MessagesLeaveManagementAlone
  <1> DEFINE A == Projecting =>
               \A t \in DOMAIN Schema : HasRow(t) =>
                 \A c \in (Management(t) \cup {"created_at"}) \cap Schema[t].columns :
                   rows'[t][c] = rows[t][c]
  <1>1. RowsIInv => A
    <2> SUFFICES ASSUME RowsIInv, NEW s \in Projections, Project(s),
                        NEW t \in Tables, HasRow(t),
                        NEW c \in (Management(t) \cup {"created_at"}) \cap Columns(t)
                 PROVE  rows'[t][c] = rows[t][c]
      BY SchemaTables DEF Projecting, Columns
    <2>1. WellFormed(s)
      BY EveryStatement
    <2>2. t = s.table
      BY ProjectWrites DEF Writes
    <2>3. c \notin s.updated
      BY <2>1, <2>2 DEF WellFormed
    <2> QED BY <2>2, <2>3, ProjectWrites
  <1> QED BY <1>1, RowsInvariance, PTL DEF MessagesLeaveManagementAlone

\* Who edits a row that no message has touched since it was read changes one column.
THEOREM EditsStayLocal == StorageSpec => EditsAreLocal
  <1> DEFINE A == WritingBack =>
               \A t \in DOMAIN Schema :
                 HasRow(t) /\ held["last_updated_at"] = rows[t]["last_updated_at"] =>
                   \E edited \in Management(t) :
                     \A c \in DOMAIN rows[t] \ {edited, "last_updated_at"} :
                       rows'[t][c] = rows[t][c]
  <1>1. RowsIInv => A
    <2> SUFFICES ASSUME RowsIInv, NEW u \in Tables, WriteBack(u),
                        NEW t \in Tables, HasRow(t),
                        held["last_updated_at"] = rows[t]["last_updated_at"]
                 PROVE  \E edited \in Management(t) :
                          \A c \in DOMAIN rows[t] \ {edited, "last_updated_at"} :
                            rows'[t][c] = rows[t][c]
      BY SchemaTables DEF WritingBack
    <2>1. t = u
      BY WriteBackWrites DEF Writes
    <2>2. held = rows[t] /\ DOMAIN rows[t] = Columns(t)
      <3>1. HeldOK(t) /\ RowOK(t, held, statements + 1)
        BY <2>1, WriteBackWrites DEF HeldOK
      <3>2. held = rows[t]
        BY <3>1 DEF HeldOK
      <3>3. DOMAIN held = Columns(t)
        BY <3>1 DEF RowOK
      <3> QED BY <3>2, <3>3
    <2> QED BY <2>1, <2>2, WriteBackWrites
  <1> QED BY <1>1, RowsInvariance, PTL DEF EditsAreLocal

-----------------------------------------------------------------------------
(* The order of the topics.                                                *)

Shared == Timestamps \cup {"manufacturer", "serial_number"}

\* Two statements update different columns, and what one of them only inserts the
\* other one updates.
Independent(s, u) ==
  \A c \in Columns(s.table) \ Shared :
    /\ c \notin s.updated \cap u.updated
    /\ c \in s.bound \cup s.fixed \cup u.bound \cup u.fixed => c \in s.updated \cup u.updated

LEMMA StatementsOfOneRow ==
  \A s, u \in Projections : s.table = u.table /\ s # u => Independent(s, u)
  <1>1. /\ upsertConnection.table = "robots"
        /\ upsertState.table = "robots"
        /\ upsertFactsheet.table = "robots"
        /\ upsertFromOrder.table = "orders"
        /\ upsertFromAction.table = "instant_actions"
        /\ upsertFromResponse.table = "instant_actions"
    BY DEF Statement, upsertConnection, upsertState, upsertFactsheet, upsertFromOrder,
           upsertFromAction, upsertFromResponse
  <1>2. \A s, u : Independent(s, u) /\ s.table = u.table => Independent(u, s)
    BY DEF Independent
  <1>3. Independent(upsertConnection, upsertState)
    BY DEF Independent, Shared, Timestamps, Statement, upsertConnection, upsertState,
           StateColumns
  <1>4. Independent(upsertConnection, upsertFactsheet)
    BY DEF Independent, Shared, Timestamps, Statement, upsertConnection, upsertFactsheet
  <1>5. Independent(upsertState, upsertFactsheet)
    BY DEF Independent, Shared, Timestamps, Statement, upsertState, upsertFactsheet,
           StateColumns
  <1>6. Independent(upsertFromAction, upsertFromResponse)
    BY DEF Independent, Shared, Timestamps, Statement, upsertFromAction,
           upsertFromResponse, ActionColumns
  <1> QED BY <1>1, <1>2, <1>3, <1>4, <1>5, <1>6 DEF Projections

\* One statement after the other, column by column.
LEMMA TwoStatements ==
  ASSUME NEW s \in Projections, NEW u \in Projections, s.table = u.table,
         Independent(s, u), NEW m, NEW n, NEW row,
         NEW c \in Columns(s.table) \ Shared
  PROVE  After(u, {}, n, After(s, {}, m, row))[c] =
           IF c \in s.updated THEN Values(s, {}, m)[c]
           ELSE IF c \in u.updated THEN Values(u, {}, n)[c]
           ELSE IF row = NoRow THEN Initial ELSE row[c]
  <1> DEFINE t == s.table
             v == Values(s, {}, m)
             w == Values(u, {}, n)
             first == After(s, {}, m, row)
  <1>1. WellFormed(s) /\ WellFormed(u) /\ TableOK(t)
    BY EveryStatement, EveryTable DEF WellFormed
  <1>2. DOMAIN v = s.bound \cup s.fixed /\ DOMAIN w = u.bound \cup u.fixed
    BY DEF Values
  <1>3. first = Upserted(row, Columns(t), v, s.updated)
    BY DEF After, Columns
  <1>4. After(u, {}, n, first) = Upserted(first, Columns(t), w, u.updated)
    BY DEF After, Columns
  <1> HIDE DEF v, w, first
  <1>5. /\ DOMAIN first = Columns(t)
        /\ first[c] = IF row = NoRow
                        THEN IF c \in DOMAIN v THEN v[c] ELSE Initial
                        ELSE IF c \in s.updated THEN v[c] ELSE row[c]
    BY <1>3 DEF Upserted
  <1>6. first # NoRow
    <2>1. "absent" \in DOMAIN NoRow
      BY DEF NoRow
    <2> QED BY <1>1, <1>5, <2>1 DEF TableOK
  <1>7. After(u, {}, n, first)[c] = IF c \in u.updated THEN w[c] ELSE first[c]
    BY <1>4, <1>6 DEF Upserted
  <1>8. /\ c \in s.updated => c \notin u.updated /\ c \in DOMAIN v
        /\ c \notin s.updated \cup u.updated => c \notin DOMAIN v
    BY <1>1, <1>2 DEF Independent, WellFormed
  <1>9. After(u, {}, n, first)[c] =
          IF c \in s.updated THEN v[c]
          ELSE IF c \in u.updated THEN w[c]
          ELSE IF row = NoRow THEN Initial ELSE row[c]
    BY <1>5, <1>7, <1>8
  <1> QED BY <1>9 DEF first, v, w

\* Whichever topic is projected first, the row is the same.
THEOREM TopicsInAnyOrder == StorageSpec => []TopicsCommute
  <1>1. TopicsCommute
    <2> SUFFICES ASSUME NEW s \in Projections, NEW u \in Projections,
                        s.table = u.table, s # u,
                        NEW c \in Columns(s.table) \ Shared
                 PROVE  After(u, {}, 2, After(s, {}, 1, rows[s.table]))[c] =
                          After(s, {}, 1, After(u, {}, 2, rows[s.table]))[c]
      BY DEF TopicsCommute, Columns, Shared
    <2>1. Independent(s, u) /\ Independent(u, s)
      BY StatementsOfOneRow
    <2>2. c \notin s.updated \cap u.updated
      BY <2>1 DEF Independent
    <2>3. After(u, {}, 2, After(s, {}, 1, rows[s.table]))[c] =
            IF c \in s.updated THEN Values(s, {}, 1)[c]
            ELSE IF c \in u.updated THEN Values(u, {}, 2)[c]
            ELSE IF rows[s.table] = NoRow THEN Initial ELSE rows[s.table][c]
      BY <2>1, TwoStatements
    <2>4. After(s, {}, 1, After(u, {}, 2, rows[s.table]))[c] =
            IF c \in u.updated THEN Values(u, {}, 2)[c]
            ELSE IF c \in s.updated THEN Values(s, {}, 1)[c]
            ELSE IF rows[s.table] = NoRow THEN Initial ELSE rows[s.table][c]
      BY <2>1, TwoStatements
    <2> QED BY <2>2, <2>3, <2>4
  <1> QED BY <1>1, PTL

-----------------------------------------------------------------------------
(* What EventProjection takes an upsert for.                               *)

Identity == {"manufacturer", "serial_number", "robot_id", "assigned_robot_id"}

\* What a column shows: a literal of an INSERT says as little as no row.
Shown(t, c) == IF HasRow(t) /\ rows[t][c] # Placeholder THEN rows[t][c] ELSE Initial

\* A statement on a row, or on none, does what Upsert of EventProjection does with a
\* topic as one cell: it writes the columns of its topic and last_updated_at, and
\* created_at when it inserts; what the columns of the other topics and of the
\* management show stays.
ProjectionsAreUpserts ==
  [][\A s \in Projections : Project(s) =>
       /\ \A c \in Columns(s.table) \ (Timestamps \cup Identity) :
            IF c \in s.updated
              THEN \/ Shown(s.table, c)' = Number
                   \/ c \in s.optional /\ Shown(s.table, c)' = Initial
              ELSE Shown(s.table, c)' = Shown(s.table, c)
       /\ Shown(s.table, "last_updated_at")' = Number
       /\ Shown(s.table, "created_at")' =
            IF HasRow(s.table) THEN Shown(s.table, "created_at") ELSE Number]_rows

\* A statement knows when the row was made, and inserts without updating only
\* literals and whose row it is.
OwnColumns(s) ==
  /\ "created_at" \in (s.bound \ s.fixed) \ s.optional
  /\ "created_at" \in Schema[s.table].required
  /\ (s.bound \cup s.fixed) \ s.updated \subseteq s.fixed \cup Timestamps \cup Identity

LEMMA EveryOwnColumns == \A s \in Projections : OwnColumns(s)
  <1>1. /\ "created_at" \in Schema["robots"].required
        /\ "created_at" \in Schema["orders"].required
        /\ "created_at" \in Schema["instant_actions"].required
    BY DEF Schema, Robots, Orders, InstantActions, Table
  <1>2. OwnColumns(upsertConnection)
    BY <1>1 DEF OwnColumns, Identity, Timestamps, Statement, upsertConnection
  <1>3. OwnColumns(upsertState)
    BY <1>1 DEF OwnColumns, Identity, Timestamps, Statement, upsertState, StateColumns
  <1>4. OwnColumns(upsertFactsheet)
    BY <1>1 DEF OwnColumns, Identity, Timestamps, Statement, upsertFactsheet
  <1>5. OwnColumns(upsertFromOrder)
    BY <1>1 DEF OwnColumns, Identity, Timestamps, Statement, upsertFromOrder, OrderColumns
  <1>6. OwnColumns(upsertFromAction)
    BY <1>1 DEF OwnColumns, Identity, Timestamps, Statement, upsertFromAction, ActionColumns
  <1>7. OwnColumns(upsertFromResponse)
    BY <1>1 DEF OwnColumns, Identity, Timestamps, Statement, upsertFromResponse
  <1> QED BY <1>2, <1>3, <1>4, <1>5, <1>6, <1>7 DEF Projections

\* Two topics about one row have their columns to themselves: EventProjection may
\* take each for one cell.
THEOREM TopicsOwnTheirColumns ==
  \A s, u \in Projections :
    s.table = u.table /\ s # u =>
      s.updated \cap u.updated \cap Columns(s.table) \subseteq Timestamps \cup Identity
  BY StatementsOfOneRow DEF Independent, Shared, Identity

LEMMA ProjectUpserts ==
  ASSUME RowsIInv, NEW s \in Projections, Project(s)
  PROVE  /\ \A c \in Columns(s.table) \ (Timestamps \cup Identity) :
              IF c \in s.updated
                THEN \/ Shown(s.table, c)' = Number
                     \/ c \in s.optional /\ Shown(s.table, c)' = Initial
                ELSE Shown(s.table, c)' = Shown(s.table, c)
         /\ Shown(s.table, "last_updated_at")' = Number
         /\ Shown(s.table, "created_at")' =
              IF HasRow(s.table) THEN Shown(s.table, "created_at") ELSE Number
  <1> DEFINE t == s.table
             row == rows[t]
  <1>1. WellFormed(s) /\ OwnColumns(s) /\ t \in Tables /\ TableOK(t)
    BY EveryStatement, EveryOwnColumns, EveryTable DEF WellFormed
  <1>2. PICK missing \in SUBSET s.optional :
          rows' = [rows EXCEPT ![t] = After(s, missing, Number, rows[t])]
    BY DEF Project
  <1> DEFINE values == Values(s, missing, Number)
             new == After(s, missing, Number, row)
  <1>3. Number = statements + 2 /\ Number \notin {Initial, Placeholder}
    BY DEF Number, RowsIInv, Initial, Placeholder
  <1>4. /\ DOMAIN values = s.bound \cup s.fixed
        /\ \A c \in s.bound \ s.fixed :
             values[c] = IF c \in missing THEN Initial ELSE Number
        /\ \A c \in s.fixed : values[c] \in {Initial, Placeholder}
    BY DEF Values
  <1>5. new = Upserted(row, Columns(t), values, s.updated)
    BY DEF After, Columns
  <1>6. rows'[t] = new
    BY <1>1, <1>2 DEF RowsIInv
  <1> HIDE DEF values, new
  <1>7. /\ DOMAIN new = Columns(t)
        /\ \A c \in Columns(t) :
             new[c] = IF row = NoRow
                        THEN IF c \in DOMAIN values THEN values[c] ELSE Initial
                        ELSE IF c \in s.updated THEN values[c] ELSE row[c]
    BY <1>5 DEF Upserted
  <1>8. HasRow(t)'
    <2>1. "absent" \in DOMAIN NoRow
      BY DEF NoRow
    <2> QED BY <1>1, <1>6, <1>7, <2>1 DEF HasRow, TableOK
  <1>9. \A c : Shown(t, c)' = IF new[c] # Placeholder THEN new[c] ELSE Initial
    BY <1>6, <1>8 DEF Shown
  <1>10. ASSUME NEW c \in s.updated, c \in Columns(t)
         PROVE  /\ c \notin missing => Shown(t, c)' = Number
                /\ c \in missing => Shown(t, c)' = Initial
    <2>1. c \in s.bound \ s.fixed
      BY <1>1 DEF WellFormed
    <2>2. new[c] = IF c \in missing THEN Initial ELSE Number
      BY <1>4, <1>7, <1>10, <2>1
    <2> QED BY <1>3, <1>9, <2>2 DEF Initial, Placeholder
  <1>11. ASSUME NEW c \in Columns(t) \ s.updated, c \notin Timestamps \cup Identity
         PROVE  Shown(t, c)' = Shown(t, c)
    <2>1. CASE HasRow(t)
      BY <1>7, <1>9, <1>11, <2>1 DEF HasRow, Shown
    <2>2. CASE ~HasRow(t)
      <3>1. c \in DOMAIN values => c \in s.fixed
        BY <1>1, <1>4, <1>11 DEF OwnColumns
      <3>2. new[c] \in {Initial, Placeholder}
        BY <1>4, <1>7, <2>2, <3>1 DEF HasRow
      <3> QED BY <1>9, <2>2, <3>2 DEF Shown
    <2> QED BY <2>1, <2>2
  <1>12. Shown(t, "last_updated_at")' = Number
    BY <1>1, <1>10 DEF WellFormed, TableOK
  <1>13. Shown(t, "created_at")' = IF HasRow(t) THEN Shown(t, "created_at") ELSE Number
    <2>1. "created_at" \in Columns(t) /\ "created_at" \notin s.updated
      BY <1>1 DEF WellFormed, OwnColumns, TableOK
    <2>2. CASE HasRow(t)
      BY <1>7, <1>9, <2>1, <2>2 DEF HasRow, Shown
    <2>3. CASE ~HasRow(t)
      <3>1. new["created_at"] = Number
        BY <1>1, <1>4, <1>7, <2>1, <2>3 DEF HasRow, OwnColumns
      <3> QED BY <1>3, <1>9, <2>3, <3>1
    <2> QED BY <2>2, <2>3
  <1> QED BY <1>10, <1>11, <1>12, <1>13

\* Whatever has happened to a row before, EventProjection has the effect of every
\* projection on it right.
THEOREM ProjectionsUpsert == StorageSpec => ProjectionsAreUpserts
  <1> DEFINE A == \A s \in Projections : Project(s) =>
               /\ \A c \in Columns(s.table) \ (Timestamps \cup Identity) :
                    IF c \in s.updated
                      THEN \/ Shown(s.table, c)' = Number
                           \/ c \in s.optional /\ Shown(s.table, c)' = Initial
                      ELSE Shown(s.table, c)' = Shown(s.table, c)
               /\ Shown(s.table, "last_updated_at")' = Number
               /\ Shown(s.table, "created_at")' =
                    IF HasRow(s.table) THEN Shown(s.table, "created_at") ELSE Number
  <1>1. RowsIInv => A
    BY ProjectUpserts
  <1> QED BY <1>1, RowsInvariance, PTL DEF ProjectionsAreUpserts

-----------------------------------------------------------------------------
(* The migrations under the rows.                                          *)

\* Until the first statement a step of the storage is one of the migrations; from
\* then on it leaves them alone.
LEMMA StorageSteps == [StorageNext]_storageVars => [Next]_vars
  BY DEF StorageNext, Unused, storageVars

\* With the statements of the repositories beside them, the starts are those of
\* Migrator: what is proved of it holds of the database file the daemon works on.
THEOREM StorageMigrates == StorageSpec => Spec
  <1>1. StorageInit => Init
    BY DEF StorageInit
  <1> QED BY <1>1, StorageSteps, PTL DEF StorageSpec, Spec

\* The invariant of the migrations holds of the file that is used.
THEOREM StorageInvariance == StorageSpec => []IInv
  BY StorageMigrates, Invariance, PTL

\* A daemon that goes on after migrate() finds every table, and the file is used.
THEOREM StorageUpToDate == StorageSpec => []UpToDateIsComplete
  BY StorageMigrates, UpToDate, PTL

\* A start that is alone is never refused, and the file is used.
THEOREM StorageLoneStart == StorageSpec => LoneStartGoesOn
  BY StorageMigrates, LoneStart, PTL

\* The file that is used goes from version to version, each whole.
THEOREM StorageRefinement == StorageSpec => ImplementsSchemaUpgrade
  BY StorageMigrates, Refinement, PTL

\* A row is in a database whose every migration is committed, tables and list: no
\* statement of a repository meets a table that is missing or half changed.
UsedIsMigrated == Used => tables = 1..Count /\ listed = 1..Count

LEMMA InitUsed == StorageInit => UsedIsMigrated
  BY SchemaTables DEF StorageInit, ReadModelInit, UsedIsMigrated, Used, HasRow

LEMMA NextUsed ==
  IInv /\ UsedIsMigrated /\ [StorageNext]_storageVars => UsedIsMigrated'
  <1> SUFFICES ASSUME IInv, UsedIsMigrated, [StorageNext]_storageVars
               PROVE  UsedIsMigrated'
    OBVIOUS
  <1>1. CASE UNCHANGED storageVars
    BY <1>1 DEF UsedIsMigrated, Used, HasRow, storageVars, vars, database, readModelVars
  <1>2. CASE Unused(Next)
    BY <1>2 DEF UsedIsMigrated, Unused, Used, HasRow, readModelVars
  <1>3. CASE Ready /\ UNCHANGED vars
    <2>1. tables = 1..Count
      BY <1>3 DEF Ready, At, IInv, UpToDateIsComplete
    <2>2. listed = tables
      BY DEF IInv, CommittedIsPrefix
    <2> QED BY <1>3, <2>1, <2>2 DEF UsedIsMigrated, vars, database
  <1> QED BY <1>1, <1>2, <1>3 DEF StorageNext

\* Whatever the number of migrations, starts, crashes and statements: rows are only
\* in tables that are migrated to the end.
THEOREM UsedMigrated == StorageSpec => []UsedIsMigrated
  BY InitUsed, NextUsed, StorageInvariance, PTL DEF StorageSpec
=============================================================================
