----------------------- MODULE EventProjection_proofs -----------------------
(***************************************************************************)
(* Proofs about EventProjection, for every set of robots, orders and       *)
(* actions and every bound.                                                *)
(***************************************************************************)
EXTENDS EventProjection, TLAPS, SequenceTheorems, FiniteSetTheorems

-----------------------------------------------------------------------------
(* Facts about the lists the recorder handles.                             *)

\* The entities of a collection message are a non-empty sequence of action keys.
LEMMA EntityListType ==
  ASSUME NEW entities \in EntityLists
  PROVE  /\ entities \in Seq(ActionIds)
         /\ Len(entities) >= 1
         /\ entities[1] \in ActionIds
<1>1. PICK n \in 1..MaxEntities : entities \in [1..n -> ActionIds]
  BY DEF EntityLists
<1>2. n \in Nat /\ n >= 1
  BY <1>1, BoundsAssumption DEF BoundsAssumption
<1>3. entities \in Seq(ActionIds)
  BY <1>1, <1>2, SeqDef
<1>4. Len(entities) = n
  BY <1>1, <1>2, <1>3
<1> QED
  BY <1>1, <1>2, <1>3, <1>4

\* A row built by insertEvent() is a row of vda5050_events.
LEMMA RowType ==
  ASSUME NEW t \in RecordedTopics, NEW item \in TableKeys \cup ZoneSetIds,
         NEW version \in Nat, NEW entities \in Seq(TableKeys \cup ZoneSetIds)
  PROVE  Row(t, item, version, entities) \in Message
BY DEF Row, Message

\* One upsert keeps the shape of the tables and names the one cell it writes.
LEMMA UpsertEffect ==
  ASSUME TypeOK, NEW x \in TableKeys, NEW t \in ProjectedTopics,
         NEW version \in Nat, NEW id \in Nat, Upsert(x, t, version, id)
  PROVE  /\ readModel' \in [TableKeys -> [Columns -> Nat]]
         /\ \A y \in TableKeys, c \in ProjectedTopics :
              readModel'[y][c] = IF y = x /\ c = t THEN version
                                                   ELSE readModel[y][c]
<1>1. readModel \in [TableKeys -> [Columns -> Nat]]
  BY DEF TypeOK
<1> DEFINE cells == [c \in Columns |->
       CASE c = t                                          -> version
         [] c = "last_updated_at"                          -> id
         [] c = "created_at" /\ readModel[x]["created_at"] = 0 -> id
         [] OTHER                                          -> readModel[x][c]]
<1>2. readModel' = [readModel EXCEPT ![x] = cells]
  BY DEF Upsert
<1>3. cells \in [Columns -> Nat]
  BY <1>1
<1>4. \A c \in ProjectedTopics :
        cells[c] = IF c = t THEN version ELSE readModel[x][c]
  BY DEF Columns, ProjectedTopics
<1> HIDE DEF cells
<1> QED
  BY <1>1, <1>2, <1>3, <1>4

\* A row belongs to the topic's subjects and to a message the log knows.
Fits(row) ==
  /\ row \in Message
  /\ row.item \in Range(row.entities)
  /\ Range(row.entities) \subseteq Subjects(row.topic)
  /\ Len(row.entities) > 0
  /\ row.topic \notin CollectionTopics => Len(row.entities) = 1
  /\ \/ row.version = NextId
     \/ /\ row.version \in DOMAIN events
        /\ events[row.version].version = row.version
        /\ events[row.version].topic = row.topic
        /\ events[row.version].entities = row.entities
        /\ Len(row.entities) > 1

\* Appending a row leaves the rows before it alone.
LEMMA AppendEffect ==
  ASSUME TypeOK, NEW row \in Message, events' = Append(events, row)
  PROVE  /\ events' \in Seq(Message)
         /\ Len(events') = NextId
         /\ NextId \in Nat
         /\ NextId \notin DOMAIN events
         /\ DOMAIN events' = DOMAIN events \cup {NextId}
         /\ \A e \in DOMAIN events : events'[e] = events[e]
         /\ events'[NextId] = row
BY DEF TypeOK, NextId

\* An INSERT beside the projection thread keeps everything it relies on.
LEMMA AppendPreserves ==
  ASSUME IInv, NEW row, Fits(row), events' = Append(events, row),
         UNCHANGED <<readModel, thread>>
  PROVE  /\ LogOK'
         /\ BatchOK'
         /\ BatchIsFresh'
         /\ CellsHaveProvenance'
<1>1. row \in Message
  BY DEF Fits
<1>2. /\ NextId \in Nat
      /\ NextId \notin DOMAIN events
      /\ DOMAIN events' = DOMAIN events \cup {NextId}
      /\ \A e \in DOMAIN events : events'[e] = events[e]
      /\ events'[NextId] = row
  BY <1>1, AppendEffect DEF IInv
<1>3. LogOK'
  <2> SUFFICES ASSUME NEW e \in DOMAIN events'
               PROVE  LET r == events'[e] IN
                      /\ r.item \in Range(r.entities)
                      /\ Range(r.entities) \subseteq Subjects(r.topic)
                      /\ Len(r.entities) > 0
                      /\ r.version \in DOMAIN events'
                      /\ events'[r.version].version = r.version
                      /\ events'[r.version].topic = r.topic
                      /\ events'[r.version].entities = r.entities
                      /\ Len(r.entities) = 1 => r.version = e
                      /\ r.topic \notin CollectionTopics => Len(r.entities) = 1
    BY DEF LogOK
  <2>1. CASE e \in DOMAIN events
    BY <1>2, <2>1 DEF IInv, LogOK
  <2>2. CASE e = NextId
    <3>1. events'[e] = row /\ Len(row.entities) \in Nat
      BY <1>1, <1>2, <2>2 DEF Message
    <3>2. CASE row.version = NextId
      BY <1>2, <2>2, <3>1, <3>2 DEF Fits
    <3>3. CASE row.version # NextId
      <4>1. row.version \in DOMAIN events /\ Len(row.entities) > 1
        BY <3>3 DEF Fits
      <4>2. events'[row.version] = events[row.version]
        BY <1>2, <4>1
      <4>3. /\ events[row.version].version = row.version
            /\ events[row.version].topic = row.topic
            /\ events[row.version].entities = row.entities
            /\ row.version \in DOMAIN events'
        BY <1>2, <3>3 DEF Fits
      <4> QED
        <5>1. /\ row.item \in Range(row.entities)
              /\ Range(row.entities) \subseteq Subjects(row.topic)
              /\ Len(row.entities) > 0
              /\ row.topic \notin CollectionTopics => Len(row.entities) = 1
          BY DEF Fits
        <5>2. Len(row.entities) = 1 => row.version = e
          BY <3>1, <4>1
        <5> QED
          BY <3>1, <4>2, <4>3, <5>1, <5>2
    <3> QED
      BY <3>2, <3>3
  <2> QED
    BY <1>2, <2>1, <2>2
<1>4. Remaining' = Remaining /\ Remaining \subseteq DOMAIN events
  BY DEF Remaining, thread, IInv, BatchOK
<1>5. BatchOK'
  BY <1>2, <1>4 DEF IInv, BatchOK, Remaining, thread
<1>6. \A x, t : TravelsAlone(x, t)' => TravelsAlone(x, t)
  BY <1>2 DEF TravelsAlone
<1>7. BatchIsFresh'
  BY <1>2, <1>4, <1>6 DEF IInv, BatchIsFresh
<1>8. CellsHaveProvenance'
  BY <1>2 DEF IInv, CellsHaveProvenance
<1> QED
  BY <1>3, <1>5, <1>7, <1>8

-----------------------------------------------------------------------------
(* The recorder's actions.                                                 *)

LEMMA SubjectsAreKeys ==
  /\ \A t \in RecordedTopics : Subjects(t) \subseteq TableKeys \cup ZoneSetIds
  /\ \A t \in RecordedTopics \cap ProjectedTopics : Subjects(t) \subseteq TableKeys
  /\ \A t \in CollectionTopics : Subjects(t) = ActionIds
BY DEF RecordedTopics, ProjectedTopics, CollectionTopics, UplinkTopics, Subjects,
       TableKeys

\* The recorder never touches what the projection thread owns.
LEMMA RecordMessagePreserves ==
  ASSUME IInv, NEW t \in RecordedTopics \ CollectionTopics,
         NEW x \in Subjects(t), RecordMessage(t, x),
         UNCHANGED <<message, unrecorded>>
  PROVE  IInv'
<1> DEFINE row == Row(t, x, NextId, <<x>>)
<1>1. TypeOK
  BY DEF IInv
<1>2. x \in TableKeys \cup ZoneSetIds /\ NextId \in Nat
  BY <1>1, SubjectsAreKeys DEF TypeOK, NextId
<1>3. row \in Message
  <2>1. <<x>> \in Seq(TableKeys \cup ZoneSetIds)
    BY <1>2
  <2> QED
    BY <1>2, <2>1, RowType
<1>4. Fits(row)
  <2>1. Len(<<x>>) = 1 /\ DOMAIN <<x>> = 1..1 /\ <<x>>[1] = x
    OBVIOUS
  <2>2. Range(<<x>>) = {x}
    BY <2>1 DEF Range
  <2>3. /\ row.topic = t /\ row.item = x
        /\ row.version = NextId /\ row.entities = <<x>>
    BY DEF Row
  <2> HIDE DEF row
  <2> QED
    BY <1>3, <2>1, <2>2, <2>3 DEF Fits
<1>5. events' = Append(events, row) /\ UNCHANGED <<readModel, thread>>
  BY DEF RecordMessage
<1> HIDE DEF row
<1>6. LogOK' /\ BatchOK' /\ BatchIsFresh' /\ CellsHaveProvenance'
  BY <1>4, <1>5, AppendPreserves
<1>7. TypeOK'
  BY <1>1, <1>3, <1>5, AppendEffect DEF TypeOK, RecordMessage, thread
<1>8. InFlightOK'
  BY <1>1, <1>3, <1>5, AppendEffect DEF InFlightOK, IInv
<1> QED
  BY <1>6, <1>7, <1>8 DEF IInv

LEMMA RecordFirstRowPreserves ==
  ASSUME IInv, NEW t \in CollectionTopics, NEW entities \in EntityLists,
         RecordFirstRow(t, entities)
  PROVE  IInv'
<1> DEFINE row == Row(t, entities[1], NextId, entities)
<1>1. TypeOK
  BY DEF IInv
<1>2. /\ entities \in Seq(ActionIds)
      /\ Len(entities) \in Nat /\ Len(entities) >= 1
      /\ entities[1] \in ActionIds
      /\ entities \in Seq(TableKeys \cup ZoneSetIds)
  BY EntityListType DEF TableKeys
<1>3. NextId \in Nat /\ t \in RecordedTopics
  BY <1>1 DEF TypeOK, NextId, RecordedTopics
<1>4. row \in Message
  BY <1>2, <1>3, RowType DEF TableKeys
<1>5. Range(entities) \subseteq ActionIds /\ entities[1] \in Range(entities)
  BY <1>2 DEF Range
<1>6. Fits(row)
  BY <1>2, <1>4, <1>5, SubjectsAreKeys DEF Fits, Row
<1>7. events' = Append(events, row) /\ UNCHANGED <<readModel, thread>>
  BY DEF RecordFirstRow
<1>8. row.version = NextId /\ row.entities = entities
  BY DEF Row
<1> HIDE DEF row
<1>9. LogOK' /\ BatchOK' /\ BatchIsFresh' /\ CellsHaveProvenance'
  BY <1>6, <1>7, AppendPreserves
<1>10. /\ Tail(entities) \in Seq(ActionIds)
       /\ Tail(entities) # <<>> => Len(entities) > 1
       /\ Range(Tail(entities)) \subseteq Range(entities)
  BY <1>2 DEF Range
<1>11. TypeOK'
  BY <1>1, <1>3, <1>4, <1>7, <1>10, AppendEffect DEF TypeOK, RecordFirstRow, thread
<1>12. InFlightOK'
  BY <1>1, <1>4, <1>7, <1>8, <1>10, AppendEffect DEF InFlightOK, RecordFirstRow
<1> QED
  BY <1>9, <1>11, <1>12 DEF IInv

LEMMA RecordNextRowPreserves ==
  ASSUME IInv, RecordNextRow
  PROVE  IInv'
<1> DEFINE row == [events[message] EXCEPT !.item = Head(unrecorded)]
<1>1. TypeOK
  BY DEF IInv
<1>2. /\ unrecorded # <<>>
      /\ unrecorded \in Seq(ActionIds)
      /\ message \in DOMAIN events
      /\ events[message] \in Message
  BY <1>1 DEF RecordNextRow, TypeOK, IInv, InFlightOK
<1>3. /\ Head(unrecorded) \in ActionIds
      /\ Head(unrecorded) \in Range(unrecorded)
      /\ Tail(unrecorded) \in Seq(ActionIds)
      /\ Range(Tail(unrecorded)) \subseteq Range(unrecorded)
  BY <1>2 DEF Range
<1>4. /\ row.topic = events[message].topic
      /\ row.version = events[message].version
      /\ row.entities = events[message].entities
      /\ row.item = Head(unrecorded)
      /\ row \in Message
  BY <1>2, <1>3 DEF Message, TableKeys
<1> HIDE DEF row
<1>5. /\ events[message].version = message
      /\ Len(events[message].entities) > 1
      /\ Range(unrecorded) \subseteq Range(events[message].entities)
  BY <1>2 DEF IInv, InFlightOK
<1>6. /\ Range(events[message].entities) \subseteq Subjects(events[message].topic)
      /\ events[message].topic \notin CollectionTopics
           => Len(events[message].entities) = 1
      /\ Len(events[message].entities) > 0
  BY <1>2 DEF IInv, LogOK
<1>7. Fits(row)
  BY <1>2, <1>3, <1>4, <1>5, <1>6 DEF Fits
<1>8. events' = Append(events, row) /\ UNCHANGED <<readModel, thread>>
  BY DEF RecordNextRow, row
<1>9. LogOK' /\ BatchOK' /\ BatchIsFresh' /\ CellsHaveProvenance'
  BY <1>7, <1>8, AppendPreserves
<1>10. TypeOK'
  BY <1>1, <1>3, <1>4, <1>8, AppendEffect DEF TypeOK, RecordNextRow, thread
<1>11. InFlightOK'
  BY <1>1, <1>2, <1>3, <1>4, <1>5, <1>8, AppendEffect DEF InFlightOK, RecordNextRow
<1> QED
  BY <1>9, <1>10, <1>11 DEF IInv

-----------------------------------------------------------------------------
(* The projection thread's actions and the process's.                      *)

\* A step that changes no table keeps what is said of the tables.
LEMMA TablesUnchanged ==
  ASSUME IInv, UNCHANGED <<events, message, readModel>>,
         unrecorded' = unrecorded \/ unrecorded' = <<>>
  PROVE  /\ LogOK' /\ InFlightOK' /\ CellsHaveProvenance'
         /\ \A x, t : TravelsAlone(x, t)' <=> TravelsAlone(x, t)
<1>1. LogOK'
  BY DEF IInv, LogOK
<1>2. InFlightOK'
  BY DEF IInv, InFlightOK
<1>3. CellsHaveProvenance'
  BY DEF IInv, CellsHaveProvenance
<1>4. \A x, t : TravelsAlone(x, t)' <=> TravelsAlone(x, t)
  BY DEF TravelsAlone
<1> QED
  BY <1>1, <1>2, <1>3, <1>4

\* A step after which no row remains to be projected.
LEMMA NothingRemains ==
  ASSUME TypeOK', batch' = {}, current' = 0
  PROVE  BatchOK' /\ BatchIsFresh'
BY DEF BatchOK, BatchIsFresh, Remaining

\* Waking up, leaving the loop, a failed query, the next topic: no row remains.
LEMMA LoopPreserves ==
  ASSUME IInv, WakeUp \/ LeaveLoop \/ QueryFails \/ NextTopic
  PROVE  IInv'
<1>1. /\ UNCHANGED <<events, message, unrecorded, readModel>>
      /\ batch' = {} /\ current' = 0
  BY DEF WakeUp, LeaveLoop, QueryFails, NextTopic, recorder, IInv, BatchOK
<1>2. TypeOK'
  <2> USE DEF TypeOK, IInv, recorder
  <2>1. CASE WakeUp
    BY <2>1 DEF WakeUp, Projectors
  <2>2. CASE LeaveLoop
    BY <2>2 DEF LeaveLoop
  <2>3. CASE QueryFails
    BY <2>3, BoundsAssumption DEF QueryFails, BoundsAssumption
  <2>4. CASE NextTopic
    BY <2>4 DEF NextTopic, Projectors
  <2> QED
    BY <2>1, <2>2, <2>3, <2>4
<1> QED
  BY <1>1, <1>2, TablesUnchanged, NothingRemains DEF IInv

\* A process that stops being told to run, dies or starts.
LEMMA ProcessPreserves ==
  ASSUME IInv, Stop \/ Exit \/ Crash \/ Start
  PROVE  IInv'
<1>1. CASE Stop
  <2>1. TypeOK'
    BY <1>1 DEF Stop, IInv, TypeOK, recorder, thread
  <2>2. LogOK' /\ InFlightOK' /\ CellsHaveProvenance'
    BY <1>1, TablesUnchanged DEF Stop, recorder
  <2>3. BatchOK' /\ BatchIsFresh'
    BY <1>1 DEF Stop, IInv, BatchOK, BatchIsFresh, Remaining, TravelsAlone,
                recorder, thread
  <2> QED
    BY <2>1, <2>2, <2>3 DEF IInv
<1>2. CASE Exit \/ Crash \/ Start
  <2>1. TypeOK'
    <3> USE DEF IInv, TypeOK, recorder
    <3>0. <<>> \in Seq(ActionIds)
      OBVIOUS
    <3>1. CASE Exit
      BY <3>0, <3>1 DEF Exit, Down
    <3>2. CASE Crash
      <4>1. faults' \in 0..MaxFaults
        BY <3>2, BoundsAssumption DEF Crash, BoundsAssumption
      <4> QED
        BY <3>0, <3>2, <4>1 DEF Crash, Down
    <3>3. CASE Start
      BY <3>3 DEF Start
    <3> QED
      BY <1>2, <3>1, <3>2, <3>3
  <2>2. LogOK' /\ InFlightOK' /\ CellsHaveProvenance'
    BY <1>2, TablesUnchanged DEF Exit, Crash, Start, Down, recorder
  <2>3. batch' = {} /\ current' = 0
    BY <1>2 DEF Exit, Crash, Start, Down, IInv, BatchOK
  <2> QED
    BY <2>1, <2>2, <2>3, NothingRemains DEF IInv
<1> QED
  BY <1>1, <1>2

\* A failed INSERT in the loop over a collection message's entities.
LEMMA RecordRowFailsPreserves ==
  ASSUME IInv, RecordRowFails
  PROVE  IInv'
<1>1. TypeOK'
  BY BoundsAssumption DEF RecordRowFails, IInv, TypeOK, thread, BoundsAssumption
<1>2. LogOK' /\ InFlightOK' /\ CellsHaveProvenance'
  BY TablesUnchanged DEF RecordRowFails
<1>3. BatchOK' /\ BatchIsFresh'
  BY DEF RecordRowFails, IInv, BatchOK, BatchIsFresh, Remaining, TravelsAlone,
         thread
<1> QED
  BY <1>1, <1>2, <1>3 DEF IInv

\* The rows findLatestByTopic returns are as new as what their keys show: a
\* shown version is a recorded one, and of an entity that travels alone every
\* row has that entity as its item, so none is newer than the item's latest.
LEMMA FindLatestPreserves ==
  ASSUME IInv, FindLatest
  PROVE  IInv'
<1> DEFINE t == Projectors[topic]
<1>1. TypeOK /\ LogOK /\ CellsHaveProvenance
  BY DEF IInv
<1>2. /\ UNCHANGED <<events, message, unrecorded, readModel, topic>>
      /\ batch' = LatestByTopic(t)
      /\ current = 0 /\ current' = 0
      /\ phase' = "projecting"
  BY DEF FindLatest, recorder, IInv, BatchOK
<1>3. Remaining' = LatestByTopic(t)
  BY <1>2 DEF Remaining
<1>4. t \in ProjectedTopics /\ DOMAIN events \subseteq Nat
  BY <1>1 DEF TypeOK, Projectors, ProjectedTopics
<1> HIDE DEF t
<1>5. \A e \in LatestByTopic(t) :
        /\ e \in DOMAIN events
        /\ e \in Nat
        /\ events[e].topic = t
        /\ \A f \in DOMAIN events :
             events[f].topic = t /\ events[f].item = events[e].item => f <= e
  BY <1>4 DEF LatestByTopic
<1>6. \A e, f \in LatestByTopic(t) : events[e].item = events[f].item => e = f
  BY <1>5
<1>7. BatchOK'
  BY <1>2, <1>3, <1>5, <1>6 DEF BatchOK, t
<1>8. TypeOK'
  BY <1>1, <1>2, <1>5 DEF TypeOK, FindLatest
<1>9. ASSUME NEW e \in LatestByTopic(t), NEW x \in Range(events[e].entities),
             TravelsAlone(x, t)
      PROVE  readModel[x][t] <= events[e].version
  <2>1. \A f \in DOMAIN events :
          events[f].topic = t /\ x \in Range(events[f].entities)
            => events[f].item = x /\ events[f].version = f
    <3> SUFFICES ASSUME NEW f \in DOMAIN events, events[f].topic = t,
                        x \in Range(events[f].entities)
                 PROVE  events[f].item = x /\ events[f].version = f
      OBVIOUS
    <3>1. Len(events[f].entities) = 1 /\ events[f] \in Message
      BY <1>1, <1>9 DEF TravelsAlone, TypeOK
    <3>2. DOMAIN events[f].entities = 1..1
      BY <3>1 DEF Message
    <3>3. events[f].item \in Range(events[f].entities) /\ events[f].version = f
      BY <1>1, <3>1 DEF LogOK
    <3> QED
      BY <3>2, <3>3 DEF Range
  <2>2. events[e].version = e /\ events[e].item = x
    BY <1>5, <2>1
  <2>3. x \in TableKeys
    <3>1. events[e].topic \in RecordedTopics \cap ProjectedTopics
      <4>1. events[e] \in Message
        BY <1>1, <1>5 DEF TypeOK
      <4> QED
        BY <1>4, <1>5, <4>1 DEF Message
    <3>2. x \in Subjects(events[e].topic)
      BY <1>1, <1>5 DEF LogOK
    <3> QED
      BY <3>1, <3>2, SubjectsAreKeys
  <2>4. CASE readModel[x][t] = 0
    BY <1>5, <2>2, <2>4
  <2>5. CASE readModel[x][t] # 0
    <3>1. /\ readModel[x][t] \in DOMAIN events
          /\ events[readModel[x][t]].topic = t
          /\ x \in Range(events[readModel[x][t]].entities)
      BY <1>1, <1>4, <2>3, <2>5 DEF CellsHaveProvenance
    <3>2. events[readModel[x][t]].item = x
      BY <2>1, <3>1
    <3> QED
      BY <1>5, <2>2, <3>1, <3>2
  <2> QED
    BY <2>4, <2>5
<1>10. BatchIsFresh'
  BY <1>2, <1>3, <1>5, <1>9 DEF BatchIsFresh, TravelsAlone
<1> QED
  BY <1>2, <1>7, <1>8, <1>10, TablesUnchanged DEF IInv

\* Taking a row, or giving it up, leaves only rows that remained before.
LEMMA TakeOrSkipPreserves ==
  ASSUME IInv, TakeEvent \/ ProjectFails
  PROVE  IInv'
<1>1. TypeOK /\ LogOK /\ BatchOK /\ BatchIsFresh
  BY DEF IInv
<1>2. UNCHANGED <<events, message, unrecorded, readModel, phase, topic>>
  BY DEF TakeEvent, ProjectFails, recorder
<1>3. phase = "projecting" /\ Remaining' \subseteq Remaining
  BY DEF TakeEvent, ProjectFails, Remaining
<1>4. TypeOK'
  <2>1. CASE TakeEvent
    BY <1>1, <1>2, <2>1 DEF TypeOK, TakeEvent
  <2>2. CASE ProjectFails
    BY <1>1, <1>2, <2>2, BoundsAssumption DEF TypeOK, ProjectFails, BoundsAssumption
  <2> QED
    BY <2>1, <2>2
<1>5. BatchIsFresh'
  BY <1>1, <1>2, <1>3 DEF BatchIsFresh, TravelsAlone
<1>6. /\ \A e \in Remaining' :
           e \in DOMAIN events' /\ events'[e].topic = Projectors[topic']
      /\ \A e, f \in Remaining' : events'[e].item = events'[f].item => e = f
  BY <1>1, <1>2, <1>3 DEF BatchOK
<1>7. current' # 0 => /\ current' \notin batch'
                      /\ position' \in DOMAIN events'[current'].entities
  <2>1. CASE TakeEvent
    <3>1. /\ current' \in batch /\ batch' = batch \ {current'} /\ position' = 1
      BY <2>1 DEF TakeEvent
    <3>2. current' \in DOMAIN events
      BY <1>1, <3>1 DEF BatchOK, Remaining
    <3>3. events[current'].entities \in Seq(TableKeys \cup ZoneSetIds)
      <4>1. events[current'] \in Message
        BY <1>1, <3>2 DEF TypeOK
      <4> QED
        BY <4>1 DEF Message
    <3>4. Len(events[current'].entities) > 0
      BY <1>1, <3>2 DEF LogOK
    <3> QED
      BY <1>2, <3>1, <3>3, <3>4
  <2>2. CASE ProjectFails
    BY <2>2 DEF ProjectFails
  <2> QED
    BY <2>1, <2>2
<1>8. BatchOK'
  BY <1>2, <1>3, <1>6, <1>7 DEF BatchOK
<1> QED
  BY <1>2, <1>4, <1>5, <1>8, TablesUnchanged DEF IInv

\* The row being projected, the entity upserted next and the message it is from.
LEMMA ProjectEntityFacts ==
  ASSUME IInv, ProjectEntity
  PROVE  LET row == events[current]
             x   == row.entities[position]
         IN /\ current \in DOMAIN events /\ current \in Remaining
            /\ row \in Message
            /\ row.topic = Projectors[topic]
            /\ row.topic \in ProjectedTopics
            /\ x \in Range(row.entities)
            /\ x \in TableKeys
            /\ row.version \in DOMAIN events
            /\ \A y \in TableKeys, c \in ProjectedTopics :
                 readModel'[y][c] = IF y = x /\ c = row.topic
                                    THEN row.version ELSE readModel[y][c]
            /\ readModel' \in [TableKeys -> [Columns -> Nat]]
<1> DEFINE row == events[current]
           x   == row.entities[position]
<1>1. TypeOK /\ LogOK /\ BatchOK
  BY DEF IInv
<1>2. current # 0 /\ Upsert(x, row.topic, row.version, current)
  BY DEF ProjectEntity
<1>3. /\ current \in Remaining /\ current \in DOMAIN events
      /\ row.topic = Projectors[topic]
      /\ position \in DOMAIN row.entities
  BY <1>1, <1>2 DEF BatchOK, Remaining
<1>4. row \in Message
  BY <1>1, <1>3 DEF TypeOK
<1>5. row.topic \in ProjectedTopics
  BY <1>1, <1>3 DEF TypeOK, Projectors, ProjectedTopics
<1>6. x \in Range(row.entities) /\ x \in TableKeys
  <2>1. row.topic \in RecordedTopics
    BY <1>4 DEF Message
  <2>2. x \in Range(row.entities)
    BY <1>3 DEF Range
  <2>3. Range(row.entities) \subseteq Subjects(row.topic)
    BY <1>1, <1>3 DEF LogOK
  <2> QED
    BY <1>5, <2>1, <2>2, <2>3, SubjectsAreKeys
<1>7. row.version \in DOMAIN events
  BY <1>1, <1>3 DEF LogOK
<1>8. row.version \in Nat /\ current \in Nat
  BY <1>1, <1>4 DEF TypeOK, Message
<1> HIDE DEF row, x
<1>9. /\ readModel' \in [TableKeys -> [Columns -> Nat]]
      /\ \A y \in TableKeys, c \in ProjectedTopics :
           readModel'[y][c] = IF y = x /\ c = row.topic
                              THEN row.version ELSE readModel[y][c]
  BY <1>1, <1>2, <1>5, <1>6, <1>8, UpsertEffect
<1> USE DEF row, x
<1> QED
  BY <1>3, <1>4, <1>5, <1>6, <1>7, <1>9

LEMMA ProjectEntityPreserves ==
  ASSUME IInv, ProjectEntity
  PROVE  IInv'
<1> DEFINE row == events[current]
           x   == row.entities[position]
           t   == row.topic
<1>1. TypeOK /\ LogOK /\ BatchOK /\ BatchIsFresh /\ InFlightOK
      /\ CellsHaveProvenance
  BY DEF IInv
<1>2. /\ current \in DOMAIN events /\ current \in Remaining
      /\ row \in Message
      /\ t = Projectors[topic]
      /\ t \in ProjectedTopics
      /\ x \in Range(row.entities)
      /\ x \in TableKeys
      /\ row.version \in DOMAIN events
      /\ \A y \in TableKeys, c \in ProjectedTopics :
           readModel'[y][c] = IF y = x /\ c = t
                              THEN row.version ELSE readModel[y][c]
      /\ readModel' \in [TableKeys -> [Columns -> Nat]]
  BY ProjectEntityFacts
<1>3. /\ UNCHANGED <<events, message, unrecorded, running, phase, topic, batch,
                      faults>>
      /\ phase = "projecting" /\ current # 0
      /\ \/ /\ position < Len(row.entities)
            /\ position' = position + 1 /\ current' = current
         \/ position' = 1 /\ current' = 0
  BY DEF ProjectEntity, recorder
<1>4. TypeOK'
  BY <1>1, <1>2, <1>3 DEF TypeOK
<1>5. LogOK' /\ InFlightOK'
  BY <1>1, <1>3 DEF LogOK, InFlightOK
<1>6. Remaining' \subseteq Remaining
  BY <1>3 DEF Remaining
<1>7. BatchOK'
  <2>1. /\ \A e \in Remaining' :
             e \in DOMAIN events' /\ events'[e].topic = Projectors[topic']
        /\ \A e, f \in Remaining' : events'[e].item = events'[f].item => e = f
    BY <1>1, <1>3, <1>6 DEF BatchOK
  <2>2. current' # 0 => /\ current' \notin batch'
                        /\ position' \in DOMAIN events'[current'].entities
    <3>1. row.entities \in Seq(TableKeys \cup ZoneSetIds)
      BY <1>2 DEF Message
    <3>2. position \in DOMAIN row.entities /\ current \notin batch
      BY <1>1, <1>3 DEF BatchOK
    <3> QED
      BY <1>3, <3>1, <3>2
  <2> QED
    BY <1>3, <2>1, <2>2 DEF BatchOK
<1>8. CellsHaveProvenance'
  <2>1. /\ events[row.version].topic = t
        /\ events[row.version].version = row.version
        /\ events[row.version].entities = row.entities
    BY <1>1, <1>2 DEF LogOK
  <2> SUFFICES ASSUME NEW y \in TableKeys, NEW c \in ProjectedTopics,
                      readModel'[y][c] # 0
               PROVE  LET v == readModel'[y][c] IN
                      /\ v \in DOMAIN events'
                      /\ events'[v].topic = c
                      /\ events'[v].version = v
                      /\ y \in Range(events'[v].entities)
    BY DEF CellsHaveProvenance
  <2>2. CASE y = x /\ c = t
    BY <1>2, <1>3, <2>1, <2>2
  <2>3. CASE ~(y = x /\ c = t)
    BY <1>1, <1>2, <1>3, <2>3 DEF CellsHaveProvenance
  <2> QED
    BY <2>2, <2>3
<1>9. BatchIsFresh'
  <2> SUFFICES ASSUME NEW e \in Remaining', NEW y \in Range(events[e].entities),
                      TravelsAlone(y, t)
               PROVE  readModel'[y][t] <= events[e].version
    BY <1>1, <1>2, <1>3, <1>6 DEF BatchIsFresh, BatchOK, TravelsAlone
  <2>1. e \in Remaining /\ e \in DOMAIN events /\ events[e].topic = t
    BY <1>1, <1>2, <1>6 DEF BatchOK
  <2>2. readModel[y][t] <= events[e].version
    BY <1>1, <2>1 DEF BatchIsFresh
  <2>3. y \in TableKeys
    <3>1. events[e] \in Message
      BY <1>1, <2>1 DEF TypeOK
    <3>2. t \in RecordedTopics \cap ProjectedTopics
      BY <1>2, <2>1, <3>1 DEF Message
    <3>3. y \in Subjects(t)
      BY <1>1, <2>1 DEF LogOK
    <3> QED
      BY <3>2, <3>3, SubjectsAreKeys
  <2>4. CASE y = x
    <3>1. ASSUME NEW f \in DOMAIN events, events[f].topic = t,
                 x \in Range(events[f].entities)
          PROVE  events[f].item = x
      <4>1. Len(events[f].entities) = 1 /\ events[f] \in Message
        BY <1>1, <2>4, <3>1 DEF TravelsAlone, TypeOK
      <4>2. DOMAIN events[f].entities = 1..1
        BY <4>1 DEF Message
      <4>3. events[f].item \in Range(events[f].entities)
        BY <1>1 DEF LogOK
      <4> QED
        BY <3>1, <4>2, <4>3 DEF Range
    <3>2. events[e].item = events[current].item
      BY <1>2, <2>1, <2>4, <3>1
    <3>3. e = current
      BY <1>1, <1>2, <2>1, <3>2 DEF BatchOK
    <3>4. row.version \in Nat /\ events[e].version = row.version
      BY <1>2, <3>3 DEF Message
    <3> QED
      BY <1>2, <2>3, <2>4, <3>4
  <2>5. CASE y # x
    BY <1>2, <2>2, <2>3, <2>5
  <2> QED
    BY <2>4, <2>5
<1> QED
  BY <1>4, <1>5, <1>7, <1>8, <1>9 DEF IInv

-----------------------------------------------------------------------------
(* The invariant and what follows from it.                                 *)

\* An empty database and a thread that has not woken up yet.
LEMMA InitIInv == Init => IInv
<1> SUFFICES ASSUME Init PROVE IInv
  OBVIOUS
<1>1. events = <<>> /\ DOMAIN events = {} /\ batch = {} /\ current = 0
  BY DEF Init
<1>2. TypeOK
  BY BoundsAssumption DEF Init, TypeOK, Projectors, BoundsAssumption
<1>3. LogOK
  BY <1>1 DEF LogOK
<1>4. InFlightOK
  BY DEF Init, InFlightOK
<1>5. BatchOK /\ BatchIsFresh
  BY <1>1 DEF BatchOK, BatchIsFresh, Remaining
<1>6. CellsHaveProvenance
  BY DEF Init, CellsHaveProvenance, Columns
<1> QED
  BY <1>2, <1>3, <1>4, <1>5, <1>6 DEF IInv

\* The recorder records on its own topics, about their subjects.
LEMMA RecordPreserves ==
  ASSUME IInv, Record
  PROVE  IInv'
<1>1. ASSUME NEW t \in UplinkTopics, NEW robot \in Robots, RecordUplink(t, robot)
      PROVE  IInv'
  <2>1. t \in RecordedTopics \ CollectionTopics /\ robot \in Subjects(t)
    BY DEF RecordedTopics, CollectionTopics, UplinkTopics, Subjects
  <2> QED
    BY <1>1, <2>1, RecordMessagePreserves DEF RecordUplink
<1>2. ASSUME NEW order \in OrderIds, RecordDownlink("order", order)
      PROVE  IInv'
  <2>1. /\ "order" \in RecordedTopics \ CollectionTopics
        /\ order \in Subjects("order")
    BY DEF RecordedTopics, CollectionTopics, UplinkTopics, Subjects
  <2> QED
    BY <1>2, <2>1, RecordMessagePreserves DEF RecordDownlink
<1>3. ASSUME NEW zones \in ZoneSetIds, RecordDownlink("zoneSet", zones)
      PROVE  IInv'
  <2>1. /\ "zoneSet" \in RecordedTopics \ CollectionTopics
        /\ zones \in Subjects("zoneSet")
    BY DEF RecordedTopics, CollectionTopics, UplinkTopics, Subjects
  <2> QED
    BY <1>3, <2>1, RecordMessagePreserves DEF RecordDownlink
<1>4. ASSUME NEW t \in CollectionTopics, NEW entities \in EntityLists,
             RecordFirstRow(t, entities)
      PROVE  IInv'
  BY <1>4, RecordFirstRowPreserves
<1> QED
  BY <1>1, <1>2, <1>3, <1>4, RecordNextRowPreserves, RecordRowFailsPreserves
  DEF Record

\* Every step of every thread, and of the process, keeps the invariant.
LEMMA NextIInv ==
  ASSUME IInv, [Next]_vars
  PROVE  IInv'
<1>1. CASE Record
  BY <1>1, RecordPreserves
<1>2. CASE Projection
  BY <1>2, LoopPreserves, FindLatestPreserves, TakeOrSkipPreserves,
     ProjectEntityPreserves DEF Projection
<1>3. CASE QueryFails \/ ProjectFails
  BY <1>3, LoopPreserves, TakeOrSkipPreserves
<1>4. CASE Stop \/ Exit \/ Crash \/ Start
  BY <1>4, ProcessPreserves
<1>5. CASE UNCHANGED vars
  <2>1. TypeOK'
    BY <1>5 DEF vars, recorder, thread, IInv, TypeOK
  <2>2. LogOK' /\ InFlightOK' /\ CellsHaveProvenance'
    BY <1>5, TablesUnchanged DEF vars, recorder
  <2>3. BatchOK' /\ BatchIsFresh'
    BY <1>5 DEF vars, recorder, thread, IInv, BatchOK, BatchIsFresh, Remaining,
                TravelsAlone
  <2> QED
    BY <2>1, <2>2, <2>3 DEF IInv
<1> QED
  BY <1>1, <1>2, <1>3, <1>4, <1>5 DEF Next

\* What the projection thread relies on holds in every reachable state.
THEOREM Invariance == Spec => []IInv
BY InitIInv, NextIInv, PTL DEF Spec

\* Every variable keeps its type.
THEOREM TypeCorrect == Spec => []TypeOK
<1>1. IInv => TypeOK
  BY DEF IInv
<1> QED
  BY <1>1, Invariance, PTL

\* The read model never shows a value no recorded message of that topic carried
\* for that key, whatever fails and wherever the process dies.
THEOREM Provenance == Spec => []CellsHaveProvenance
<1>1. IInv => CellsHaveProvenance
  BY DEF IInv
<1> QED
  BY <1>1, Invariance, PTL

\* Only ProjectEntity writes the read model.
LEMMA OnlyProjectionWrites ==
  ASSUME [Next]_vars, ~ProjectEntity
  PROVE  readModel' = readModel
BY DEF Next, vars, recorder, Record, RecordUplink, RecordDownlink, RecordMessage,
       RecordFirstRow, RecordNextRow, RecordRowFails, Projection, WakeUp, LeaveLoop,
       FindLatest, TakeEvent, NextTopic, QueryFails, ProjectFails, Stop, Exit,
       Crash, Start, Down

\* An entity that travels alone is never shown from an older message again.
THEOREM Monotonicity == Spec => NeverRegresses
<1> DEFINE Step == \A x \in TableKeys, t \in ProjectedTopics :
                     TravelsAlone(x, t)' => readModel[x][t] <= readModel'[x][t]
<1>1. ASSUME IInv, [Next]_vars
      PROVE  [Step]_vars
  <2> SUFFICES ASSUME NEW x \in TableKeys, NEW t \in ProjectedTopics,
                      TravelsAlone(x, t)'
               PROVE  readModel[x][t] <= readModel'[x][t]
    OBVIOUS
  <2>1. readModel[x][t] \in Nat
    BY <1>1 DEF IInv, TypeOK, Columns
  <2>2. CASE ~ProjectEntity
    BY <1>1, <2>1, <2>2, OnlyProjectionWrites
  <2>3. CASE ProjectEntity
    <3> DEFINE row == events[current]
               y   == row.entities[position]
    <3>1. /\ current \in Remaining
          /\ y \in Range(row.entities)
          /\ readModel'[x][t] = IF x = y /\ t = row.topic
                                THEN row.version ELSE readModel[x][t]
      BY <1>1, <2>3, ProjectEntityFacts
    <3>2. TravelsAlone(x, t)
      BY <2>3 DEF TravelsAlone, ProjectEntity, recorder
    <3>3. CASE x = y /\ t = row.topic
      BY <1>1, <3>1, <3>2, <3>3 DEF IInv, BatchIsFresh
    <3>4. CASE ~(x = y /\ t = row.topic)
      BY <2>1, <3>1, <3>4
    <3> QED
      BY <3>3, <3>4
  <2> QED
    BY <2>2, <2>3
<1> QED
  BY <1>1, Invariance, PTL DEF Spec, NeverRegresses

-----------------------------------------------------------------------------
(* The rows of a collection message.                                       *)

\* The rows of a log that are recorded for message v.
RowsOf(log, v) == {e \in DOMAIN log : log[e].version = v}

\* What is not recorded yet is the rest of the entities behind the rows there are.
UnrecordedIsRest ==
  unrecorded # <<>> =>
    LET entities == events[message].entities
        recorded == Cardinality(RowsOf(events, message))
    IN  /\ Len(entities) = recorded + Len(unrecorded)
        /\ \A i \in DOMAIN unrecorded : unrecorded[i] = entities[recorded + i]

PrefixIInv == IInv /\ RecordedRowsArePrefix /\ UnrecordedIsRest

LEMMA RowsAreFinite ==
  ASSUME TypeOK, NEW v
  PROVE  IsFiniteSet(RowsOf(events, v)) /\ Cardinality(RowsOf(events, v)) \in Nat
<1>1. DOMAIN events = 1..Len(events) /\ Len(events) \in Nat
  BY DEF TypeOK
<1>2. IsFiniteSet(1..Len(events))
  BY <1>1, FS_Interval
<1>3. RowsOf(events, v) \in SUBSET (1..Len(events))
  BY <1>1 DEF RowsOf
<1>4. IsFiniteSet(RowsOf(events, v))
  BY <1>2, <1>3, FS_Subset
<1> QED
  BY <1>4, FS_CardinalityType

\* A row whose item is the next entity of its message keeps the order.
LEMMA NextRowInOrder ==
  ASSUME IInv, RecordedRowsArePrefix, NEW row \in Message,
         events' = Append(events, row),
         \/ row.version = NextId
         \/ /\ row.version \in DOMAIN events
            /\ events[row.version].entities = row.entities,
         Cardinality(RowsOf(events, row.version)) + 1 \in DOMAIN row.entities,
         row.item = row.entities[Cardinality(RowsOf(events, row.version)) + 1]
  PROVE  /\ RecordedRowsArePrefix'
         /\ \A v : v # row.version => RowsOf(events', v) = RowsOf(events, v)
         /\ Cardinality(RowsOf(events', row.version)) = Cardinality(RowsOf(events, row.version)) + 1
<1> DEFINE w == row.version
<1>1. TypeOK
  BY DEF IInv
<1>2. /\ NextId \in Nat
      /\ NextId \notin DOMAIN events
      /\ DOMAIN events' = DOMAIN events \cup {NextId}
      /\ \A e \in DOMAIN events : events'[e] = events[e]
      /\ events'[NextId] = row
  BY <1>1, AppendEffect
<1>3. \A e \in DOMAIN events : e \in Nat /\ e < NextId
  BY <1>1 DEF TypeOK, NextId
<1>4. /\ RowsOf(events', w) = RowsOf(events, w) \cup {NextId}
      /\ \A v : v # w => RowsOf(events', v) = RowsOf(events, v)
  BY <1>2 DEF RowsOf
<1>5. Cardinality(RowsOf(events', w)) = Cardinality(RowsOf(events, w)) + 1
  <2>1. IsFiniteSet(RowsOf(events, w)) /\ NextId \notin RowsOf(events, w)
    BY <1>1, <1>2, RowsAreFinite DEF RowsOf
  <2> QED
    BY <1>4, <2>1, FS_AddElement
<1>6. ASSUME NEW v \in DOMAIN events', NEW e \in RowsOf(events', v)
      PROVE  LET n == Cardinality({f \in RowsOf(events', v) : f <= e}) IN
             /\ n \in DOMAIN events'[v].entities
             /\ events'[e].item = events'[v].entities[n]
  <2>1. CASE e \in DOMAIN events
    <3>1. events'[e] = events[e] /\ e \in RowsOf(events, v)
      BY <1>2, <1>6, <2>1 DEF RowsOf
    <3>2. v \in DOMAIN events /\ events'[v] = events[v]
      BY <1>2, <2>1, <3>1 DEF IInv, LogOK, RowsOf
    <3>3. {f \in RowsOf(events', v) : f <= e} = {f \in RowsOf(events, v) : f <= e}
      <4>1. ~(NextId <= e)
        BY <1>2, <1>3, <2>1
      <4>2. RowsOf(events', v) = RowsOf(events, v) \/ RowsOf(events', v) = RowsOf(events, v) \cup {NextId}
        BY <1>4
      <4> QED
        BY <4>1, <4>2
    <3>4. LET n == Cardinality({f \in RowsOf(events, v) : f <= e}) IN
          n \in DOMAIN events[v].entities /\ events[e].item = events[v].entities[n]
      BY <3>1, <3>2 DEF RecordedRowsArePrefix, RowsOf
    <3> QED
      BY <3>1, <3>2, <3>3, <3>4
  <2>2. CASE e = NextId
    <3>1. events'[e] = row /\ v = w
      BY <1>2, <1>6, <2>2 DEF RowsOf
    <3>2. events'[v].entities = row.entities
      BY <1>2, <3>1
    <3>3. {f \in RowsOf(events', v) : f <= e} = RowsOf(events', v)
      <4>1. \A f \in RowsOf(events', v) : f \in DOMAIN events \/ f = NextId
        BY <1>2 DEF RowsOf
      <4>2. \A f \in RowsOf(events', v) : f <= NextId
        BY <1>2, <1>3, <4>1
      <4> QED
        BY <2>2, <4>2
    <3> QED
      BY <1>5, <3>1, <3>2, <3>3
  <2> QED
    BY <1>2, <1>6, <2>1, <2>2 DEF RowsOf
<1>7. RecordedRowsArePrefix'
  BY <1>6 DEF RecordedRowsArePrefix, RowsOf
<1> QED
  BY <1>4, <1>5, <1>7

\* The first row of a message is the first of its rows.
LEMMA FirstRowInOrder ==
  ASSUME IInv, RecordedRowsArePrefix, NEW row \in Message,
         events' = Append(events, row), row.version = NextId,
         Len(row.entities) > 0, row.item = row.entities[1]
  PROVE  /\ RecordedRowsArePrefix'
         /\ \A v : v # NextId => RowsOf(events', v) = RowsOf(events, v)
         /\ Cardinality(RowsOf(events', NextId)) = 1
<1>1. RowsOf(events, NextId) = {}
  <2>1. NextId \notin DOMAIN events
    BY AppendEffect DEF IInv
  <2> QED
    BY <2>1 DEF IInv, LogOK, RowsOf
<1>2. Cardinality(RowsOf(events, row.version)) = 0
  BY <1>1, FS_EmptySet
<1>3. 1 \in DOMAIN row.entities
  BY DEF Message
<1>4. /\ Cardinality(RowsOf(events, row.version)) + 1 \in DOMAIN row.entities
      /\ row.item = row.entities[Cardinality(RowsOf(events, row.version)) + 1]
  BY <1>2, <1>3
<1> QED
  BY <1>2, <1>4, NextRowInOrder

LEMMA RecordMessageInOrder ==
  ASSUME PrefixIInv, NEW t \in RecordedTopics \ CollectionTopics,
         NEW x \in Subjects(t), RecordMessage(t, x),
         UNCHANGED <<message, unrecorded>>
  PROVE  RecordedRowsArePrefix' /\ UnrecordedIsRest'
<1> DEFINE row == Row(t, x, NextId, <<x>>)
<1>1. TypeOK /\ IInv
  BY DEF PrefixIInv, IInv
<1>2. x \in TableKeys \cup ZoneSetIds /\ NextId \in Nat
  BY <1>1, SubjectsAreKeys DEF TypeOK, NextId
<1>3. /\ row \in Message /\ row.version = NextId
      /\ row.entities = <<x>> /\ row.item = x
  <2>1. <<x>> \in Seq(TableKeys \cup ZoneSetIds)
    BY <1>2
  <2> QED
    BY <1>2, <2>1, RowType DEF Row
<1>4. events' = Append(events, row)
  BY DEF RecordMessage
<1>5. Len(<<x>>) > 0 /\ <<x>>[1] = x
  OBVIOUS
<1> HIDE DEF row
<1>6. /\ RecordedRowsArePrefix'
      /\ \A v : v # NextId => RowsOf(events', v) = RowsOf(events, v)
  BY <1>1, <1>3, <1>4, <1>5, FirstRowInOrder DEF PrefixIInv
<1>7. UnrecordedIsRest'
  <2> SUFFICES ASSUME unrecorded # <<>>
               PROVE  UnrecordedIsRest'
    BY DEF UnrecordedIsRest
  <2>1. message \in DOMAIN events /\ message # NextId
    BY <1>1, <1>3, <1>4, AppendEffect DEF IInv, InFlightOK
  <2>2. events'[message] = events[message] /\ RowsOf(events', message) = RowsOf(events, message)
    BY <1>1, <1>3, <1>4, <1>6, <2>1, AppendEffect
  <2> QED
    BY <2>2 DEF PrefixIInv, UnrecordedIsRest
<1> QED
  BY <1>6, <1>7

LEMMA RecordFirstRowInOrder ==
  ASSUME PrefixIInv, NEW t \in CollectionTopics, NEW entities \in EntityLists,
         RecordFirstRow(t, entities)
  PROVE  RecordedRowsArePrefix' /\ UnrecordedIsRest'
<1> DEFINE row == Row(t, entities[1], NextId, entities)
<1>1. TypeOK /\ IInv
  BY DEF PrefixIInv, IInv
<1>2. /\ entities \in Seq(ActionIds)
      /\ Len(entities) \in Nat /\ Len(entities) >= 1
      /\ entities[1] \in ActionIds
      /\ entities \in Seq(TableKeys \cup ZoneSetIds)
  BY EntityListType DEF TableKeys
<1>3. NextId \in Nat /\ t \in RecordedTopics
  BY <1>1 DEF TypeOK, NextId, RecordedTopics
<1>4. /\ row \in Message /\ row.version = NextId
      /\ row.entities = entities /\ row.item = entities[1]
  BY <1>2, <1>3, RowType DEF TableKeys, Row
<1>5. events' = Append(events, row) /\ message' = NextId /\ unrecorded' = Tail(entities)
  BY DEF RecordFirstRow
<1> HIDE DEF row
<1>6. RecordedRowsArePrefix' /\ Cardinality(RowsOf(events', NextId)) = 1
  BY <1>1, <1>2, <1>4, <1>5, FirstRowInOrder DEF PrefixIInv
<1>7. events'[NextId].entities = entities
  BY <1>1, <1>4, <1>5, AppendEffect
<1>8. /\ Len(entities) = 1 + Len(Tail(entities))
      /\ \A i \in DOMAIN Tail(entities) : Tail(entities)[i] = entities[1 + i]
  BY <1>2
<1>9. UnrecordedIsRest'
  BY <1>5, <1>6, <1>7, <1>8 DEF UnrecordedIsRest
<1> QED
  BY <1>6, <1>9

LEMMA RecordNextRowInOrder ==
  ASSUME PrefixIInv, RecordNextRow
  PROVE  RecordedRowsArePrefix' /\ UnrecordedIsRest'
<1> DEFINE row == [events[message] EXCEPT !.item = Head(unrecorded)]
           r == Cardinality(RowsOf(events, message))
           entities == events[message].entities
<1>1. TypeOK /\ IInv /\ RecordedRowsArePrefix
  BY DEF PrefixIInv, IInv
<1>2. /\ unrecorded # <<>>
      /\ unrecorded \in Seq(ActionIds)
      /\ message \in DOMAIN events
      /\ events[message] \in Message
      /\ events[message].version = message
  BY <1>1 DEF RecordNextRow, TypeOK, IInv, InFlightOK
<1>3. /\ row.version = message
      /\ row.entities = entities
      /\ row.item = Head(unrecorded)
      /\ row \in Message
  BY <1>2 DEF Message, TableKeys
<1>4. /\ events' = Append(events, row)
      /\ message' = message /\ unrecorded' = Tail(unrecorded)
  BY DEF RecordNextRow
<1>5. /\ Len(entities) = r + Len(unrecorded)
      /\ \A i \in DOMAIN unrecorded : unrecorded[i] = entities[r + i]
  BY <1>2 DEF PrefixIInv, UnrecordedIsRest
<1>6. r \in Nat
  BY <1>1, RowsAreFinite
<1>7. entities \in Seq(TableKeys \cup ZoneSetIds)
  BY <1>2 DEF Message
<1> HIDE DEF row, r, entities
<1>8. /\ Len(unrecorded) \in Nat \ {0} /\ 1 \in DOMAIN unrecorded
      /\ Head(unrecorded) = unrecorded[1]
  BY <1>2
<1>9. r + 1 \in DOMAIN entities /\ Head(unrecorded) = entities[r + 1]
  BY <1>5, <1>6, <1>7, <1>8
<1>10. /\ RecordedRowsArePrefix'
       /\ Cardinality(RowsOf(events', message)) = r + 1
  <2>1. /\ Cardinality(RowsOf(events, row.version)) + 1 \in DOMAIN row.entities
        /\ row.item = row.entities[Cardinality(RowsOf(events, row.version)) + 1]
    BY <1>3, <1>9 DEF r
  <2>2. row.version \in DOMAIN events /\ events[row.version].entities = row.entities
    BY <1>2, <1>3 DEF entities
  <2> QED
    BY <1>1, <1>3, <1>4, <2>1, <2>2, NextRowInOrder DEF r
<1>11. events'[message].entities = entities
  BY <1>1, <1>2, <1>3, <1>4, AppendEffect DEF entities
<1>12. /\ Len(unrecorded) = 1 + Len(Tail(unrecorded))
       /\ Len(Tail(unrecorded)) \in Nat
       /\ \A i \in DOMAIN Tail(unrecorded) :
            /\ i \in Nat /\ i + 1 \in DOMAIN unrecorded
            /\ Tail(unrecorded)[i] = unrecorded[i + 1]
  BY <1>2
<1>13. /\ Len(entities) = (r + 1) + Len(Tail(unrecorded))
       /\ \A i \in DOMAIN Tail(unrecorded) : Tail(unrecorded)[i] = entities[(r + 1) + i]
  <2>1. Len(entities) = (r + 1) + Len(Tail(unrecorded))
    <3>1. \A k, l \in Nat : k + (1 + l) = (k + 1) + l
      OBVIOUS
    <3>2. Len(entities) = r + (1 + Len(Tail(unrecorded)))
      BY <1>5, <1>12, Zenon
    <3> QED
      BY <1>6, <1>12, <3>1, <3>2, Zenon
  <2>2. ASSUME NEW i \in DOMAIN Tail(unrecorded)
        PROVE  Tail(unrecorded)[i] = entities[(r + 1) + i]
    <3>1. r + (i + 1) = (r + 1) + i
      BY <1>6, <1>12
    <3>2. Tail(unrecorded)[i] = entities[r + (i + 1)]
      BY <1>5, <1>12
    <3> QED
      BY <3>1, <3>2
  <2> QED
    BY <2>1, <2>2
<1>14. UnrecordedIsRest'
  BY <1>4, <1>10, <1>11, <1>13 DEF UnrecordedIsRest
<1> QED
  BY <1>10, <1>14

\* A step that records nothing.
LEMMA NothingRecorded ==
  ASSUME PrefixIInv, UNCHANGED <<events, message>>,
         unrecorded' = unrecorded \/ unrecorded' = <<>>
  PROVE  RecordedRowsArePrefix' /\ UnrecordedIsRest'
<1>2. RecordedRowsArePrefix'
  BY DEF PrefixIInv, RecordedRowsArePrefix
<1>3. UnrecordedIsRest'
  BY DEF PrefixIInv, UnrecordedIsRest
<1> QED
  BY <1>2, <1>3

LEMMA NextPrefixIInv ==
  PrefixIInv /\ [Next]_vars => PrefixIInv'
<1> SUFFICES ASSUME PrefixIInv, [Next]_vars
             PROVE  PrefixIInv'
  OBVIOUS
<1>1. IInv'
  BY NextIInv DEF PrefixIInv
<1>2. CASE Record
  <2>1. ASSUME NEW t \in UplinkTopics, NEW robot \in Robots, RecordUplink(t, robot)
        PROVE  RecordedRowsArePrefix' /\ UnrecordedIsRest'
    <3>1. t \in RecordedTopics \ CollectionTopics /\ robot \in Subjects(t)
      BY DEF UplinkTopics, RecordedTopics, CollectionTopics, Subjects
    <3> QED
      BY <2>1, <3>1, RecordMessageInOrder DEF RecordUplink
  <2>2. ASSUME NEW order \in OrderIds, RecordDownlink("order", order)
        PROVE  RecordedRowsArePrefix' /\ UnrecordedIsRest'
    <3>1. "order" \in RecordedTopics \ CollectionTopics /\ order \in Subjects("order")
      BY DEF UplinkTopics, RecordedTopics, CollectionTopics, Subjects
    <3> QED
      BY <2>2, <3>1, RecordMessageInOrder DEF RecordDownlink
  <2>3. ASSUME NEW zones \in ZoneSetIds, RecordDownlink("zoneSet", zones)
        PROVE  RecordedRowsArePrefix' /\ UnrecordedIsRest'
    <3>1. "zoneSet" \in RecordedTopics \ CollectionTopics /\ zones \in Subjects("zoneSet")
      BY DEF UplinkTopics, RecordedTopics, CollectionTopics, Subjects
    <3> QED
      BY <2>3, <3>1, RecordMessageInOrder DEF RecordDownlink
  <2>4. ASSUME NEW t \in CollectionTopics, NEW entities \in EntityLists,
               RecordFirstRow(t, entities)
        PROVE  RecordedRowsArePrefix' /\ UnrecordedIsRest'
    BY <2>4, RecordFirstRowInOrder
  <2>5. CASE RecordRowFails
    <3>1. unrecorded' = <<>> /\ events' = events /\ message' = message
      BY <2>5 DEF RecordRowFails
    <3>2. RecordedRowsArePrefix' /\ UnrecordedIsRest'
      BY <3>1, NothingRecorded
    <3> QED
      BY <1>1, <3>2 DEF PrefixIInv
  <2> QED
    BY <1>1, <1>2, <2>1, <2>2, <2>3, <2>4, <2>5, RecordNextRowInOrder
       DEF Record, PrefixIInv
<1>3. CASE ~Record
  <2>1. /\ UNCHANGED <<events, message>>
        /\ unrecorded' = unrecorded \/ unrecorded' = <<>>
    BY <1>3 DEF Next, Projection, WakeUp, LeaveLoop, FindLatest, TakeEvent,
                ProjectEntity, NextTopic, QueryFails, ProjectFails, Stop, Exit, Crash,
                Start, Down, recorder, vars
  <2> QED
    BY <1>1, <2>1, NothingRecorded DEF PrefixIInv
<1> QED
  BY <1>2, <1>3

\* The rows of a message are a prefix of its entities, in order and without a gap,
\* for any number of entities, failures and crashes.
THEOREM RowsArePrefix == Spec => []RecordedRowsArePrefix
<1>1. Init => PrefixIInv
  BY InitIInv DEF Init, PrefixIInv, RecordedRowsArePrefix, UnrecordedIsRest
<1>2. PrefixIInv => RecordedRowsArePrefix
  BY DEF PrefixIInv
<1> QED
  BY <1>1, <1>2, NextPrefixIInv, PTL DEF Spec
=============================================================================
