--------------------------- MODULE EventProjection ---------------------------
(***************************************************************************)
(* The write side and the read side of the daemon's database: the MQTT     *)
(* threads append rows to vda5050_events (Vda5050EventRecorder), the       *)
(* projection thread copies the latest row of every item into the read     *)
(* tables robots, orders and instant_actions (ProjectionEngine, the        *)
(* projectors, the repositories), the process crashes, stops and starts.   *)
(*                                                                         *)
(* The steps are those between which another thread or a crash can come:   *)
(* one INSERT, one SELECT, one upsert.  The recorder's INSERT takes no     *)
(* lock, each statement commits by itself, and findLatestByTopic computes  *)
(* its set of MAX(id) rows within its first sqlite3_step.                  *)
(*                                                                         *)
(* Data are versions: the version of a message is the id of the first row  *)
(* recorded for it, a cell of a read table holds the version of the        *)
(* message it was last written from, 0 standing for the column's default.  *)
(***************************************************************************)
EXTENDS Naturals, Sequences, FiniteSets, Functions

CONSTANTS
  Robots,      \* robot_id values, "{manufacturer}.{serialNumber}"
  OrderIds,    \* orderId values
  ActionIds,   \* actionId and requestId values: the keys of instant_actions
  ZoneSetIds,  \* zoneSetId values
  TopicsSent,  \* bound: the topics messages arrive on
  MaxEvents,   \* bound: rows of vda5050_events
  MaxEntities, \* bound: entities in one instantActions or responses message
  MaxFaults    \* bound: failed statements and crashes

VARIABLES
  events,      \* vda5050_events, the row with id n at position n
  message,     \* version of the collection message the cloud thread records
  unrecorded,  \* the entities of that message that have no row yet
  readModel,   \* the rows of robots, orders and instant_actions, by key
  running,     \* ProjectionEngine::running_
  phase,       \* where the projection thread is, or "down" without a process
  topic,       \* index in Projectors of the topic being projected
  batch,       \* rows findLatestByTopic returned and not yet projected
  current,     \* id of the row inside project(), or 0
  position,    \* index of the entity project() upserts next
  faults       \* how many of MaxFaults have happened

recorder == <<events, message, unrecorded>>
thread   == <<phase, topic, batch, current, position>>
vars     == <<recorder, readModel, running, thread, faults>>

(***************************************************************************)
(* Topics.  The projection queries the names its projectors give; the      *)
(* recorder writes the names of its insertEvent calls.                     *)
(***************************************************************************)
UplinkTopics     == {"state", "visualization", "connection", "factsheet"}
CollectionTopics == {"instantActions", "responses"}
RecordedTopics   == UplinkTopics \cup {"order", "zoneSet"} \cup CollectionTopics

Projectors == <<"connection", "state", "factsheet", "order",
                "instant_actions", "responses">>

ProjectedTopics == {"connection", "state", "factsheet", "order",
                    "instant_actions", "responses"}

\* One column group per projector, and the two timestamps every upsert names.
Columns == ProjectedTopics \cup {"last_updated_at", "created_at"}

TableKeys == Robots \cup OrderIds \cup ActionIds

\* What the messages of a topic are about.
Subjects(t) ==
  CASE t \in UplinkTopics                              -> Robots
    [] t = "order"                                     -> OrderIds
    [] t = "zoneSet"                                   -> ZoneSetIds
    [] t \in CollectionTopics \cup {"instant_actions"} -> ActionIds

EntityLists == UNION {[1..n -> ActionIds] : n \in 1..MaxEntities}

ASSUME TopicsAssumption == TopicsSent \subseteq RecordedTopics

ASSUME BoundsAssumption ==
  /\ MaxEvents \in Nat
  /\ MaxEntities \in Nat
  /\ MaxFaults \in Nat

Processing == phase # "down"

-----------------------------------------------------------------------------
(* The recorder, on the local and the cloud MQTT thread.                   *)

Row(t, item, version, entities) ==
  [topic |-> t, item |-> item, version |-> version, entities |-> entities]

NextId == Len(events) + 1

\* The INSERT of a message about one subject.  A failed one changes nothing.
RecordMessage(t, x) ==
  /\ Processing
  /\ t \in TopicsSent
  /\ NextId <= MaxEvents
  /\ events' = Append(events, Row(t, x, NextId, <<x>>))
  /\ UNCHANGED <<readModel, running, thread, faults>>

\* Mutant: both threads note the message they record in one shared member.
RecordUplinkShared(t, robot) ==
  /\ RecordMessage(t, robot)
  /\ message' = NextId
  /\ UNCHANGED unrecorded

\* State, visualization, connection or factsheet, on the local thread.
RecordUplink(t, robot) ==
  /\ RecordMessage(t, robot)
  /\ UNCHANGED <<message, unrecorded>>

\* An order or a zone set, on the cloud thread, which must be free.
RecordDownlink(t, x) ==
  /\ unrecorded = <<>>
  /\ RecordMessage(t, x)
  /\ UNCHANGED <<message, unrecorded>>

\* The first row of a collection message; every row carries the whole payload.
RecordFirstRow(t, entities) ==
  /\ Processing
  /\ t \in TopicsSent
  /\ unrecorded = <<>>
  /\ NextId <= MaxEvents
  /\ events' = Append(events, Row(t, entities[1], NextId, entities))
  /\ message' = NextId
  /\ unrecorded' = Tail(entities)
  /\ UNCHANGED <<readModel, running, thread, faults>>

RecordNextRow ==
  /\ Processing
  /\ unrecorded # <<>>
  /\ NextId <= MaxEvents
  /\ events' = Append(events, [events[message] EXCEPT !.item = Head(unrecorded)])
  /\ unrecorded' = Tail(unrecorded)
  /\ UNCHANGED <<message, readModel, running, thread, faults>>

\* insert() throws: the loop over the entities ends, dispatch() logs.
RecordRowFails ==
  /\ Processing
  /\ unrecorded # <<>>
  /\ faults < MaxFaults
  /\ faults' = faults + 1
  /\ unrecorded' = <<>>
  /\ UNCHANGED <<events, message, readModel, running, thread>>

-----------------------------------------------------------------------------
(* The projection thread, ProjectionEngine::run().                         *)

WakeUp ==
  /\ phase = "asleep"
  /\ running
  /\ phase' = "querying"
  /\ topic' = 1
  /\ UNCHANGED <<recorder, readModel, running, batch, current, position, faults>>

LeaveLoop ==
  /\ phase = "asleep"
  /\ ~running
  /\ phase' = "exited"
  /\ UNCHANGED <<recorder, readModel, running, topic, batch, current, position,
                 faults>>

\* Mutants: all rows of the topic; the one row with the greatest id of the topic.
EveryRow(t) == {e \in DOMAIN events : events[e].topic = t}
LatestRow(t) ==
  {e \in EveryRow(t) : \A f \in EveryRow(t) : f <= e}

\* The rows with the greatest id of their item.
LatestByTopic(t) ==
  {e \in DOMAIN events :
     /\ events[e].topic = t
     /\ \A f \in DOMAIN events :
          events[f].topic = t /\ events[f].item = events[e].item => f <= e}

FindLatest ==
  /\ phase = "querying"
  /\ phase' = "projecting"
  /\ batch' = LatestByTopic(Projectors[topic])
  /\ UNCHANGED <<recorder, readModel, running, topic, current, position, faults>>

\* The query throws: the rest of the cycle is skipped.
QueryFails ==
  /\ phase = "querying"
  /\ faults < MaxFaults
  /\ faults' = faults + 1
  /\ phase' = "asleep"
  /\ UNCHANGED <<recorder, readModel, running, topic, batch, current, position>>

\* The SELECT has no ORDER BY: the rows come in any order.
TakeEvent ==
  /\ phase = "projecting"
  /\ current = 0
  /\ \E e \in batch :
       /\ current' = e
       /\ batch' = batch \ {e}
  /\ position' = 1
  /\ UNCHANGED <<recorder, readModel, running, phase, topic, faults>>

\* Mutant: the upsert of a connection also writes the columns of the state.
UpsertWidely(x, t, version, id) ==
  readModel' = [readModel EXCEPT ![x] =
    [c \in Columns |->
       CASE c = t                                          -> version
         [] c = "state" /\ t = "connection"                  -> version
         [] c = "last_updated_at"                          -> id
         [] c = "created_at" /\ readModel[x]["created_at"] = 0 -> id
         [] OTHER                                          -> readModel[x][c]]]

\* INSERT ... ON CONFLICT DO UPDATE: the topic's columns and last_updated_at
\* are written, created_at only by the insert.
Upsert(x, t, version, id) ==
  readModel' = [readModel EXCEPT ![x] =
    [c \in Columns |->
       CASE c = t                                          -> version
         [] c = "last_updated_at"                          -> id
         [] c = "created_at" /\ readModel[x]["created_at"] = 0 -> id
         [] OTHER                                          -> readModel[x][c]]]

\* project() upserts every entity of the payload, one statement each.
ProjectEntity ==
  /\ phase = "projecting"
  /\ current # 0
  /\ LET row == events[current] IN
       /\ Upsert(row.entities[position], row.topic, row.version, current)
       /\ IF position < Len(row.entities)
            THEN position' = position + 1 /\ current' = current
            ELSE position' = 1 /\ current' = 0
  /\ UNCHANGED <<recorder, running, phase, topic, batch, faults>>

\* project() throws: the event is skipped, the next one is taken.
ProjectFails ==
  /\ phase = "projecting"
  /\ current # 0
  /\ faults < MaxFaults
  /\ faults' = faults + 1
  /\ current' = 0
  /\ position' = 1
  /\ UNCHANGED <<recorder, readModel, running, phase, topic, batch>>

\* Mutant: the loop over the projectors runs one too far.
NextTopicUnbounded ==
  /\ phase = "projecting"
  /\ current = 0
  /\ batch = {}
  /\ topic' = topic + 1
  /\ phase' = IF topic > Len(Projectors) THEN "asleep" ELSE "querying"
  /\ UNCHANGED <<recorder, readModel, running, batch, current, position, faults>>

NextTopic ==
  /\ phase = "projecting"
  /\ current = 0
  /\ batch = {}
  /\ IF topic < Len(Projectors)
       THEN topic' = topic + 1 /\ phase' = "querying"
       ELSE topic' = topic /\ phase' = "asleep"
  /\ UNCHANGED <<recorder, readModel, running, batch, current, position, faults>>

-----------------------------------------------------------------------------
(* The process: stop(), exit, crash and start.  The tables survive.        *)

Stop ==
  /\ Processing
  /\ running
  /\ running' = FALSE
  /\ UNCHANGED <<recorder, readModel, thread, faults>>

Down ==
  /\ phase' = "down"
  /\ running' = FALSE
  /\ unrecorded' = <<>>
  /\ batch' = {}
  /\ current' = 0
  /\ position' = 1
  /\ UNCHANGED <<events, message, readModel, topic>>

\* The process ends after stop() has joined the thread.
Exit ==
  /\ phase = "exited"
  /\ Down
  /\ UNCHANGED faults

Crash ==
  /\ Processing
  /\ faults < MaxFaults
  /\ Down
  /\ faults' = faults + 1

\* Mutant: the read tables are created anew, to be filled by the next cycle.
StartEmpty ==
  /\ phase = "down"
  /\ phase' = "asleep"
  /\ running' = TRUE
  /\ readModel' = [x \in TableKeys |-> [c \in Columns |-> 0]]
  /\ UNCHANGED <<recorder, topic, batch, current, position, faults>>

Start ==
  /\ phase = "down"
  /\ phase' = "asleep"
  /\ running' = TRUE
  /\ UNCHANGED <<recorder, readModel, topic, batch, current, position, faults>>

-----------------------------------------------------------------------------

Init ==
  /\ events = <<>>
  /\ message = 0
  /\ unrecorded = <<>>
  /\ readModel = [x \in TableKeys |-> [c \in Columns |-> 0]]
  /\ running = TRUE
  /\ phase = "asleep"
  /\ topic = 1
  /\ batch = {}
  /\ current = 0
  /\ position = 1
  /\ faults = 0

Record ==
  \/ \E t \in UplinkTopics, robot \in Robots : RecordUplink(t, robot)
  \/ \E order \in OrderIds : RecordDownlink("order", order)
  \/ \E zones \in ZoneSetIds : RecordDownlink("zoneSet", zones)
  \/ \E t \in CollectionTopics, entities \in EntityLists :
       RecordFirstRow(t, entities)
  \/ RecordNextRow
  \/ RecordRowFails

\* What the projection thread does by itself, statement failures apart.
Projection ==
  \/ WakeUp
  \/ LeaveLoop
  \/ FindLatest
  \/ TakeEvent
  \/ ProjectEntity
  \/ NextTopic

Next ==
  \/ Record
  \/ Projection
  \/ QueryFails
  \/ ProjectFails
  \/ Stop
  \/ Exit
  \/ Crash
  \/ Start

Spec == Init /\ [][Next]_vars

\* The scheduler runs the projection thread and sleep_for returns.
FairSpec == Spec /\ WF_vars(Projection)

-----------------------------------------------------------------------------
(* Properties.                                                             *)

Message == [topic : RecordedTopics, item : TableKeys \cup ZoneSetIds,
            version : Nat, entities : Seq(TableKeys \cup ZoneSetIds)]

\* Every variable has its type (the only type invariant of the module).
TypeOK ==
  /\ events \in Seq(Message)
  /\ message \in Nat
  /\ unrecorded \in Seq(ActionIds)
  /\ readModel \in [TableKeys -> [Columns -> Nat]]
  /\ running \in BOOLEAN
  /\ phase \in {"asleep", "querying", "projecting", "exited", "down"}
  /\ topic \in DOMAIN Projectors
  /\ batch \subseteq Nat
  /\ current \in Nat
  /\ position \in Nat
  /\ faults \in 0..MaxFaults

\* No cell of a read table invents a value: it holds its default or the version
\* of a message recorded on that very topic whose payload names that very key,
\* through crashes, failed statements and half recorded messages.
CellsHaveProvenance ==
  \A x \in TableKeys, t \in ProjectedTopics :
    LET v == readModel[x][t] IN
    v # 0 => /\ v \in DOMAIN events
             /\ events[v].topic = t
             /\ events[v].version = v
             /\ x \in Range(events[v].entities)

\* The rows of one collection message are its entities in payload order and
\* without a gap, whatever the local thread inserted between them and wherever
\* a failure or a crash cut the loop short.
RecordedRowsArePrefix ==
  \A v \in DOMAIN events :
    LET rows == {e \in DOMAIN events : events[e].version = v} IN
    \A e \in rows :
      LET n == Cardinality({f \in rows : f <= e}) IN
      n \in DOMAIN events[v].entities /\ events[e].item = events[v].entities[n]

\* Every message of topic t that names x names nothing else: always so on the
\* topics whose messages have one subject, and on a collection topic for an
\* entity that travels alone.
TravelsAlone(x, t) ==
  \A e \in DOMAIN events :
    events[e].topic = t /\ x \in Range(events[e].entities)
      => Len(events[e].entities) = 1

\* What the read model shows of such an entity never goes back to an older
\* message: not when rows are recorded between the SELECT and the upserts, when
\* an upsert fails, when the process dies in the middle of a cycle or restarts.
NeverRegresses ==
  [][\A x \in TableKeys, t \in ProjectedTopics :
       TravelsAlone(x, t)' => readModel[x][t] <= readModel'[x][t]]_vars

-----------------------------------------------------------------------------
(* The inductive invariant.                                                *)

\* A row belongs to the message whose first row has the row's version as id.
LogOK ==
  \A e \in DOMAIN events :
    LET row == events[e] IN
    /\ row.item \in Range(row.entities)
    /\ Range(row.entities) \subseteq Subjects(row.topic)
    /\ Len(row.entities) > 0
    /\ row.version \in DOMAIN events
    /\ events[row.version].version = row.version
    /\ events[row.version].topic = row.topic
    /\ events[row.version].entities = row.entities
    /\ Len(row.entities) = 1 => row.version = e
    /\ row.topic \notin CollectionTopics => Len(row.entities) = 1

\* While a collection message is being recorded its first row is in the log.
InFlightOK ==
  unrecorded # <<>> =>
    /\ message \in DOMAIN events
    /\ events[message].version = message
    /\ Len(events[message].entities) > 1
    /\ Range(unrecorded) \subseteq Range(events[message].entities)

\* The rows of this topic's query that are not projected to the end yet.
Remaining == batch \cup ({current} \ {0})

BatchOK ==
  /\ phase # "projecting" => batch = {} /\ current = 0
  /\ \A e \in Remaining :
       e \in DOMAIN events /\ events[e].topic = Projectors[topic]
  /\ \A e, f \in Remaining : events[e].item = events[f].item => e = f
  /\ current # 0 => /\ current \notin batch
                    /\ position \in DOMAIN events[current].entities

\* A row still to be projected is as new as what the read model shows.
BatchIsFresh ==
  \A e \in Remaining : \A x \in Range(events[e].entities) :
    TravelsAlone(x, events[e].topic)
      => readModel[x][events[e].topic] <= events[e].version

\* What every step preserves.
IInv ==
  /\ TypeOK
  /\ LogOK
  /\ InFlightOK
  /\ BatchOK
  /\ BatchIsFresh
  /\ CellsHaveProvenance

-----------------------------------------------------------------------------
(* What the read model promises, and what the documents say of it.         *)

\* The items whose messages have one subject, as the keys of LatestView.
ViewKeys == (Robots \X {"connection", "state", "factsheet"})
              \cup (OrderIds \X {"order"})

View == INSTANCE LatestView WITH
  Keys     <- ViewKeys,
  Versions <- 1..MaxEvents,
  recorded <- [k \in ViewKeys |->
                 {e \in DOMAIN events :
                    events[e].topic = k[2] /\ events[e].item = k[1]}],
  shown    <- [k \in ViewKeys |-> readModel[k[1]][k[2]]]

\* The event log and the projection implement LatestView: what is shown is
\* always a recorded version, and it is only ever replaced by one as new.
ImplementsLatestView == View!Spec

\* Every recorded message about one subject reaches the read model, or a newer
\* one does, unless the projection is stopped or the process dies first.
RecordedIsProjected ==
  \A id \in 1..MaxEvents :
    LET Stale == /\ id \in DOMAIN events
                 /\ events[id].topic \in ProjectedTopics \ CollectionTopics
                 /\ readModel[events[id].item][events[id].topic] < id
    IN  Stale ~> (~Stale \/ ~running)

\* docs/CQRS_DESIGN.md: collection topics have "each entity independently
\* tracked by its latest version".
EntityStatusTracksLatest ==
  [][\A x \in ActionIds :
       readModel[x]["responses"] <= readModel'[x]["responses"]]_vars

\* docs/CQRS_DESIGN.md: the topic instant_actions "maps to read table"
\* instant_actions.
InstantActionsAreProjected ==
  \A id \in 1..MaxEvents :
    LET Missing == /\ id \in DOMAIN events
                   /\ events[id].topic = "instantActions"
                   /\ \A t \in ProjectedTopics :
                        readModel[events[id].item][t] = 0
    IN  Missing ~> (~Missing \/ ~running)
=============================================================================
