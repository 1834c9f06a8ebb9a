------------------------------ MODULE ReadModel ------------------------------
(***************************************************************************)
(* The columns of the read tables and the statements of the repositories.  *)
(* EventProjection has when the projectors run and what they read; here is *)
(* what one statement does to a row that is there or is not, and to the    *)
(* columns that belong to another topic or to the management of the fleet. *)
(* The statements of whole rows, findById and listAll have no caller in    *)
(* the daemon yet; a caller reads a row, edits it and writes it back.      *)
(*                                                                         *)
(* A table has one key.  A cell is the number of the statement its value   *)
(* came with; Initial is what the column is declared with.                 *)
(***************************************************************************)
EXTENDS Naturals

CONSTANT MaxStatements   \* bound: statements, on one table

ASSUME StatementsAssumption == MaxStatements \in Nat

VARIABLES
  rows,      \* the row of each table, or NoRow
  held,      \* what the caller has read last, or NoRow
  statements \* how many of MaxStatements there have been

readModelVars == <<rows, held, statements>>

Initial     == 0
Placeholder == 1
NoRow       == [absent |-> TRUE]

-----------------------------------------------------------------------------
(* The tables.  A required column is NOT NULL and has no default.          *)

Table(required, others) == [required |-> required, columns |-> required \cup others]

Robots ==
  Table({"manufacturer", "serial_number", "last_updated_at", "created_at"},
        {"site_id", "display_name", "connection_state", "operating_mode", "driving",
         "paused", "battery_level", "charging", "suspended", "archived", "factsheet"})

Orders ==
  Table({"assigned_robot_id", "site_id", "nodes", "edges", "created_at",
         "last_updated_at"},
        {"order_update_id", "order_description", "status", "archived"})

InstantActions ==
  Table({"action_type", "robot_id", "created_at", "last_updated_at"},
        {"action_descriptor", "blocking_type", "action_parameters", "retriable",
         "action_status", "action_result", "site_id", "archived"})

Maps ==
  Table({"map_version", "last_updated_at"},
        {"map_descriptor", "map_status", "graph_source", "zone_set_source"})

Schema ==
  [robots |-> Robots, orders |-> Orders, instant_actions |-> InstantActions, maps |-> Maps]

-----------------------------------------------------------------------------
(* The statements: INSERT of the bound columns, with ON CONFLICT DO UPDATE *)
(* SET of some of them.  Optional ones are bound to NULL when the message  *)
(* has nothing for them; fixed ones to a literal.                          *)

Timestamps == {"last_updated_at", "created_at"}

Statement(table, bound, optional, fixed, updated) ==
  [table |-> table, bound |-> bound \cup Timestamps, optional |-> optional,
   fixed |-> fixed, updated |-> updated \cup {"last_updated_at"}]

upsertConnection ==
  Statement("robots", {"manufacturer", "serial_number", "connection_state"}, {}, {},
            {"connection_state"})

StateColumns == {"operating_mode", "driving", "paused", "battery_level", "charging"}

\* Mutant: the charging flag is inserted and not updated.
upsertStateHalf ==
  Statement("robots", {"manufacturer", "serial_number"} \cup StateColumns, {}, {},
            StateColumns \ {"charging"})

upsertState ==
  Statement("robots", {"manufacturer", "serial_number"} \cup StateColumns, {}, {},
            StateColumns)

\* Mutant: the columns of the state come along.
upsertFactsheetWidely ==
  Statement("robots", {"manufacturer", "serial_number", "factsheet"} \cup StateColumns,
            {}, {}, {"factsheet"} \cup StateColumns)

upsertFactsheet ==
  Statement("robots", {"manufacturer", "serial_number", "factsheet"}, {}, {},
            {"factsheet"})

OrderColumns == {"order_update_id", "order_description", "nodes", "edges"}

\* Mutants: without the site; with the site updated.
upsertFromOrderBare ==
  Statement("orders", {"assigned_robot_id"} \cup OrderColumns, {"order_description"}, {},
            {"assigned_robot_id"} \cup OrderColumns)

upsertFromOrderSite ==
  Statement("orders", {"assigned_robot_id"} \cup OrderColumns, {"order_description"},
            {"site_id"}, {"assigned_robot_id", "site_id"} \cup OrderColumns)

\* The site is not known from the message: it is the empty text.
upsertFromOrder ==
  Statement("orders", {"assigned_robot_id"} \cup OrderColumns, {"order_description"},
            {"site_id"}, {"assigned_robot_id"} \cup OrderColumns)

ActionColumns == {"action_type", "action_descriptor", "blocking_type", "action_parameters"}

upsertFromAction ==
  Statement("instant_actions", {"robot_id"} \cup ActionColumns,
            {"action_descriptor", "action_parameters"}, {}, {"robot_id"} \cup ActionColumns)

\* The answer to a request nobody has recorded as an action is a "zoneRequest".
upsertFromResponse ==
  Statement("instant_actions", {"robot_id", "action_status"}, {}, {"action_type"},
            {"action_status"})

Projections ==
  {upsertConnection, upsertState, upsertFactsheet, upsertFromOrder, upsertFromAction,
   upsertFromResponse}

\* What the statement of a whole row updates.
Updated(table) == Schema[table].columns \ {"created_at"}

-----------------------------------------------------------------------------
(* What a statement makes of a row.                                        *)

Upserted(row, columns, values, updated) ==
  IF row = NoRow
    THEN [c \in columns |-> IF c \in DOMAIN values THEN values[c] ELSE Initial]
    ELSE [c \in columns |-> IF c \in updated THEN values[c] ELSE row[c]]

\* The values of statement number n, where the message has nothing for missing.
Values(s, missing, n) ==
  [c \in s.bound \cup s.fixed |->
     CASE c \in missing -> Initial
       [] c \in s.fixed -> Placeholder
       [] OTHER         -> n]

After(s, missing, n, row) ==
  Upserted(row, Schema[s.table].columns, Values(s, missing, n), s.updated)

-----------------------------------------------------------------------------

\* Tables have nothing to do with each other: one of them is in use.
OnTable(table) ==
  /\ \A t \in DOMAIN Schema \ {table} : rows[t] = NoRow
  /\ statements < MaxStatements
  /\ statements' = statements + 1

Number == statements + 2

Project(s) ==
  /\ OnTable(s.table)
  /\ \E missing \in SUBSET s.optional :
       rows' = [rows EXCEPT ![s.table] = After(s, missing, Number, @)]
  /\ UNCHANGED held

\* Mutant: two flags change places on the way.
FoundSwapped(row) ==
  [c \in DOMAIN row |-> CASE c = "archived" /\ "paused" \in DOMAIN row -> row["paused"]
                          [] c = "paused"   -> row["archived"]
                          [] OTHER          -> row[c]]

\* findById, and listAll for each row: fromRow reads the columns one by one.
Found(row) == row

Read(table) ==
  /\ rows[table] # NoRow
  /\ held' = Found(rows[table])
  /\ UNCHANGED <<rows, statements>>

\* What belongs to the management of the fleet, and to no message.
Management(table) ==
  CASE table = "robots"          -> {"site_id", "display_name", "suspended", "archived"}
    [] table = "orders"          -> {"status", "site_id", "archived"}
    [] table = "instant_actions" -> {"retriable", "action_result", "site_id", "archived"}
    [] table = "maps"            -> {"map_status", "graph_source", "zone_set_source"}

\* upsert() of a row that was read, with a management column edited.
WriteBack(table) ==
  /\ OnTable(table)
  /\ DOMAIN held = Schema[table].columns
  /\ \E c \in Management(table) :
       rows' = [rows EXCEPT ![table] =
                  Upserted(@, DOMAIN held,
                           [held EXCEPT ![c] = Number, !["last_updated_at"] = Number],
                           Updated(table))]
  /\ held' = NoRow

\* upsert() of a row made up by the caller.
WriteNew(table) ==
  /\ OnTable(table)
  /\ LET columns == Schema[table].columns IN
     rows' = [rows EXCEPT ![table] =
                Upserted(@, columns, [c \in columns |-> Number], Updated(table))]
  /\ UNCHANGED held

ReadModelInit ==
  /\ rows = [t \in DOMAIN Schema |-> NoRow]
  /\ held = NoRow
  /\ statements = 0

Projecting == \E s \in Projections : Project(s)

WritingBack == \E t \in DOMAIN Schema : WriteBack(t)

ReadModelNext ==
  \/ Projecting
  \/ WritingBack
  \/ \E t \in DOMAIN Schema : Read(t) \/ WriteNew(t)

-----------------------------------------------------------------------------
(* Properties.                                                             *)

HasRow(t) == rows[t] # NoRow

\* No statement breaks a constraint of its table: every row has the columns of the
\* table and a value in those that are NOT NULL without a default.  SQLite would
\* refuse it, the projector would log that, and the message would never arrive.
RowsFitTheirTables ==
  \A t \in DOMAIN Schema : HasRow(t) =>
    /\ DOMAIN rows[t] = Schema[t].columns
    /\ \A c \in Schema[t].required : rows[t][c] # Initial

\* The columns that come from one message.
Groups == {StateColumns, OrderColumns, ActionColumns}

\* No row shows a part of one message and a part of another, also after a row that
\* was read before has been written back.
NoRowIsTorn ==
  \A t \in DOMAIN Schema : HasRow(t) =>
    \A g \in Groups : \A c, d \in g \cap Schema[t].columns :
      rows[t][c] \in {Initial, Placeholder, rows[t][d]} \/ rows[t][d] \in {Initial, Placeholder}

\* The topics about a row reach it in any order, and again in every cycle: two of
\* them leave the same row whichever comes first, but for its timestamps and the
\* columns that say whose row it is.
TopicsCommute ==
  \A s, u \in Projections :
    s.table = u.table /\ s # u =>
      LET Both(a, b) == After(b, {}, IF b = s THEN 1 ELSE 2,
                              After(a, {}, IF a = s THEN 1 ELSE 2, rows[s.table]))
          identity == {"manufacturer", "serial_number"}
      IN  \A c \in Schema[s.table].columns \ (Timestamps \cup identity) :
            Both(s, u)[c] = Both(u, s)[c]

\* What management has set is safe from the messages, and so is the time a row was
\* made: a robot that is archived or suspended, or an order's site, is not brought
\* back by the next projection.
MessagesLeaveManagementAlone ==
  [][Projecting =>
       \A t \in DOMAIN Schema : HasRow(t) =>
         \A c \in (Management(t) \cup {"created_at"}) \cap Schema[t].columns :
           rows'[t][c] = rows[t][c]]_rows

\* Reading a row, editing it and writing it back changes what was edited and
\* nothing else, unless a message has come in between.
EditsAreLocal ==
  [][WritingBack =>
       \A t \in DOMAIN Schema :
         HasRow(t) /\ held["last_updated_at"] = rows[t]["last_updated_at"] =>
           \E edited \in Management(t) :
             \A c \in DOMAIN rows[t] \ {edited, "last_updated_at"} :
               rows'[t][c] = rows[t][c]]_rows
=============================================================================
