---------------------- MODULE EventProjection_refinement ----------------------
(***************************************************************************)
(* EventProjection implements LatestView: the log and the read model, seen *)
(* one key at a time, only record newer versions and only refresh to a     *)
(* recorded version that is not older than the one shown.                  *)
(***************************************************************************)
EXTENDS EventProjection_proofs

\* The refinement mapping.
RecordedView == [k \in ViewKeys |->
                   {e \in DOMAIN events :
                      events[e].topic = k[2] /\ events[e].item = k[1]}]

ShownView == [k \in ViewKeys |-> readModel[k[1]][k[2]]]

\* The keys of the view are the subjects of four topics.
LEMMA ViewKeysType ==
  /\ \A k \in ViewKeys :
       /\ k = <<k[1], k[2]>>
       /\ k[1] \in TableKeys
       /\ k[2] \in ProjectedTopics
       /\ k[2] \in RecordedTopics \ CollectionTopics
       /\ k[2] # "visualization" /\ k[2] # "zoneSet"
  /\ \A t \in RecordedTopics \ CollectionTopics : \A x \in Subjects(t) :
       t \in ProjectedTopics => <<x, t>> \in ViewKeys
<1>1. ASSUME NEW k \in ViewKeys
      PROVE  /\ k = <<k[1], k[2]>>
             /\ k[1] \in Robots \cup OrderIds
             /\ k[2] \in {"connection", "state", "factsheet", "order"}
  BY DEF ViewKeys
<1>2. ASSUME NEW t \in RecordedTopics \ CollectionTopics, NEW x \in Subjects(t),
             t \in ProjectedTopics
      PROVE  <<x, t>> \in ViewKeys
  <2>1. t \in {"connection", "state", "factsheet", "order"}
    BY <1>2 DEF ProjectedTopics, RecordedTopics, CollectionTopics, UplinkTopics
  <2>2. CASE t = "order"
    BY <2>2 DEF ViewKeys, Subjects, UplinkTopics
  <2>3. CASE t # "order"
    BY <2>1, <2>3 DEF ViewKeys, Subjects, UplinkTopics
  <2> QED
    BY <2>2, <2>3
<1> QED
  BY <1>1, <1>2
  DEF TableKeys, ProjectedTopics, RecordedTopics, CollectionTopics, UplinkTopics

\* A row of another topic than the key's, or about another item, is not seen.
LEMMA UnseenRow ==
  ASSUME TypeOK, NEW row \in Message, events' = Append(events, row),
         \A k \in ViewKeys : ~(row.topic = k[2] /\ row.item = k[1])
  PROVE  RecordedView' = RecordedView
<1>1. /\ NextId \notin DOMAIN events
      /\ DOMAIN events' = DOMAIN events \cup {NextId}
      /\ \A e \in DOMAIN events : events'[e] = events[e]
      /\ events'[NextId] = row
  BY AppendEffect
<1>2. ASSUME NEW k \in ViewKeys
      PROVE  {e \in DOMAIN events' : events'[e].topic = k[2] /\ events'[e].item = k[1]}
               = {e \in DOMAIN events : events[e].topic = k[2] /\ events[e].item = k[1]}
  BY <1>1
<1> QED
  BY <1>2 DEF RecordedView

\* A step that touches neither the log nor the tables is a stutter of the view.
LEMMA NothingSeen ==
  ASSUME UNCHANGED <<events, readModel>>
  PROVE  UNCHANGED <<RecordedView, ShownView>>
BY DEF RecordedView, ShownView

\* The row of a state, connection, factsheet or order message is a new version.
LEMMA RecordIsSeen ==
  ASSUME IInv, NEW t \in RecordedTopics \ CollectionTopics, NEW x \in Subjects(t),
         RecordMessage(t, x)
  PROVE  \/ \E k \in ViewKeys : View!Record(k)
         \/ UNCHANGED <<RecordedView, ShownView>>
<1> DEFINE row == Row(t, x, NextId, <<x>>)
<1>1. TypeOK
  BY DEF IInv
<1>2. /\ row \in Message
      /\ row.topic = t /\ row.item = x
      /\ events' = Append(events, row)
  <2>1. x \in TableKeys \cup ZoneSetIds /\ NextId \in Nat
    BY <1>1, SubjectsAreKeys DEF TypeOK, NextId
  <2>2. <<x>> \in Seq(TableKeys \cup ZoneSetIds)
    BY <2>1
  <2>3. row.topic = t /\ row.item = x
    BY DEF Row
  <2> QED
    BY <2>1, <2>2, <2>3, RowType DEF RecordMessage
<1> HIDE DEF row
<1>3. ShownView' = ShownView
  BY DEF RecordMessage, ShownView
<1>4. CASE t \in ProjectedTopics
  <2> DEFINE k == <<x, t>>
  <2>1. k \in ViewKeys
    BY <1>4, ViewKeysType
  <2>2. /\ NextId \in Nat
        /\ NextId \notin DOMAIN events
        /\ DOMAIN events' = DOMAIN events \cup {NextId}
        /\ \A e \in DOMAIN events : events'[e] = events[e]
        /\ events'[NextId] = row
    BY <1>1, <1>2, AppendEffect
  <2>3. NextId \in 1..MaxEvents /\ \A e \in DOMAIN events : e < NextId
    BY <1>1, BoundsAssumption DEF RecordMessage, NextId, TypeOK, BoundsAssumption
  <2>4. ASSUME NEW j \in ViewKeys
        PROVE  {e \in DOMAIN events' : events'[e].topic = j[2] /\ events'[e].item = j[1]}
                 = IF j = k
                     THEN {e \in DOMAIN events :
                             events[e].topic = j[2] /\ events[e].item = j[1]}
                            \cup {NextId}
                     ELSE {e \in DOMAIN events :
                             events[e].topic = j[2] /\ events[e].item = j[1]}
    <3>1. j = k <=> (row.topic = j[2] /\ row.item = j[1])
      BY <1>2, ViewKeysType
    <3> QED
      BY <2>2, <3>1
  <2> HIDE DEF k
  <2>5. RecordedView' = [RecordedView EXCEPT ![k] = @ \cup {NextId}]
    BY <2>1, <2>4 DEF RecordedView
  <2>6. \A w \in RecordedView[k] : w < NextId
    BY <2>1, <2>3 DEF RecordedView
  <2>7. View!Record(k)
    BY <1>3, <2>3, <2>5, <2>6 DEF View!Record, RecordedView, ShownView
  <2> QED
    BY <2>1, <2>7
<1>5. CASE t \notin ProjectedTopics
  BY <1>1, <1>2, <1>3, <1>5, UnseenRow, ViewKeysType
<1> QED
  BY <1>4, <1>5

\* The rows of a collection message are not items of the view.
LEMMA CollectionIsUnseen ==
  ASSUME IInv, \/ RecordNextRow
               \/ \E t \in CollectionTopics, entities \in EntityLists :
                    RecordFirstRow(t, entities)
  PROVE  UNCHANGED <<RecordedView, ShownView>>
<1>1. TypeOK
  BY DEF IInv
<1>2. ShownView' = ShownView
  BY DEF RecordNextRow, RecordFirstRow, ShownView
<1>3. CASE RecordNextRow
  <2> DEFINE row == [events[message] EXCEPT !.item = Head(unrecorded)]
  <2>1. /\ message \in DOMAIN events /\ unrecorded # <<>>
        /\ unrecorded \in Seq(ActionIds)
        /\ Len(events[message].entities) > 1
    BY <1>1, <1>3 DEF RecordNextRow, IInv, InFlightOK, TypeOK
  <2>2. events[message] \in Message /\ Head(unrecorded) \in ActionIds
    BY <1>1, <2>1 DEF TypeOK
  <2>3. events[message].topic \in CollectionTopics
    <3>1. events[message].topic \notin CollectionTopics
            => Len(events[message].entities) = 1
      BY <2>1 DEF IInv, LogOK
    <3>2. events[message].entities \in Seq(TableKeys \cup ZoneSetIds)
      BY <2>2 DEF Message
    <3>3. Len(events[message].entities) # 1
      <4> DEFINE n == Len(events[message].entities)
      <4>1. n \in Nat
        BY <3>2
      <4>2. n > 1
        BY <2>1
      <4> HIDE DEF n
      <4>3. n # 1
        BY <4>1, <4>2
      <4> QED
        BY <4>3 DEF n
    <3> QED
      BY <3>1, <3>3
  <2>4. row \in Message /\ row.topic \in CollectionTopics
    BY <2>2, <2>3 DEF Message, TableKeys
  <2>5. events' = Append(events, row)
    BY <1>3 DEF RecordNextRow
  <2> HIDE DEF row
  <2> QED
    BY <1>1, <1>2, <2>4, <2>5, UnseenRow, ViewKeysType
<1>4. ASSUME NEW t \in CollectionTopics, NEW entities \in EntityLists,
             RecordFirstRow(t, entities)
      PROVE  UNCHANGED <<RecordedView, ShownView>>
  <2> DEFINE row == Row(t, entities[1], NextId, entities)
  <2>1. /\ entities \in Seq(TableKeys \cup ZoneSetIds)
        /\ entities[1] \in TableKeys \cup ZoneSetIds
    BY EntityListType DEF TableKeys
  <2>2. NextId \in Nat /\ t \in RecordedTopics
    BY <1>1 DEF TypeOK, NextId, RecordedTopics
  <2>3. row \in Message
    BY <2>1, <2>2, RowType
  <2>4. row.topic \in CollectionTopics /\ events' = Append(events, row)
    BY <1>4 DEF Row, RecordFirstRow
  <2> HIDE DEF row
  <2> QED
    BY <1>1, <1>2, <2>3, <2>4, UnseenRow, ViewKeysType
<1> QED
  BY <1>3, <1>4

\* Showing a recorded version that is as new is the abstract step.
LEMMA RefreshIsSeen ==
  ASSUME NEW key \in ViewKeys, NEW v \in RecordedView[key],
         RecordedView' = RecordedView,
         ShownView' = [ShownView EXCEPT ![key] = v],
         ShownView[key] <= v
  PROVE  \E k \in ViewKeys : View!Refresh(k)
<1>1. View!Refresh(key)
  BY DEF View!Refresh, RecordedView, ShownView
<1> QED
  BY <1>1

\* An upsert refreshes one key, or a cell the view does not show.
LEMMA ProjectionIsSeen ==
  ASSUME IInv, ProjectEntity
  PROVE  \/ \E k \in ViewKeys : View!Refresh(k)
         \/ UNCHANGED <<RecordedView, ShownView>>
<1> DEFINE row == events[current]
           x   == row.entities[position]
           t   == row.topic
           k   == <<x, t>>
<1>1. /\ current \in DOMAIN events /\ current \in Remaining
      /\ row \in Message
      /\ t \in ProjectedTopics
      /\ x \in Range(row.entities)
      /\ x \in TableKeys
      /\ \A y \in TableKeys, c \in ProjectedTopics :
           readModel'[y][c] = IF y = x /\ c = t THEN row.version
                                                ELSE readModel[y][c]
  BY ProjectEntityFacts
<1>2. RecordedView' = RecordedView
  BY DEF ProjectEntity, recorder, RecordedView
<1>3. TypeOK /\ LogOK /\ BatchIsFresh
  BY DEF IInv
<1>4. ASSUME NEW j \in ViewKeys
      PROVE  readModel'[j[1]][j[2]] = IF j = k THEN row.version
                                               ELSE readModel[j[1]][j[2]]
  BY <1>1, ViewKeysType
<1>5. CASE t \in CollectionTopics
  <2>1. k \notin ViewKeys
    BY <1>5, ViewKeysType
  <2>2. ShownView' = ShownView
    BY <1>4, <2>1 DEF ShownView
  <2> QED
    BY <1>2, <2>2
<1>6. CASE t \notin CollectionTopics
  <2>1. /\ t \in RecordedTopics \ CollectionTopics
        /\ Len(row.entities) = 1
        /\ row.entities \in Seq(TableKeys \cup ZoneSetIds)
        /\ row.version = current
        /\ x \in Subjects(t)
        /\ row.item \in Range(row.entities)
    BY <1>1, <1>3, <1>6 DEF LogOK, Message
  <2>2. k \in ViewKeys
    BY <1>1, <2>1, ViewKeysType
  <2>3. row.item = x
    <3>1. DOMAIN row.entities = 1..1
      BY <2>1
    <3> QED
      BY <1>1, <2>1, <3>1 DEF Range
  <2>4. TravelsAlone(x, t)
    BY <1>3, <1>6 DEF TravelsAlone, LogOK
  <2>5. readModel[x][t] <= current
    BY <1>1, <1>3, <2>1, <2>4 DEF BatchIsFresh
  <2>6. current \in RecordedView[k]
    BY <1>1, <2>2, <2>3 DEF RecordedView
  <2>7. ShownView' = [ShownView EXCEPT ![k] = current]
    <3> HIDE DEF k
    <3> QED
      BY <1>4, <2>1, <2>2 DEF ShownView
  <2>8. ShownView[k] <= current
    BY <2>2, <2>5 DEF ShownView
  <2> HIDE DEF row, x, t, k
  <2> QED
    BY <1>2, <2>2, <2>6, <2>7, <2>8, RefreshIsSeen
<1> QED
  BY <1>5, <1>6

\* Every behaviour of the log and the read model is one of LatestView.
THEOREM Refinement == Spec => ImplementsLatestView
<1>1. Init => View!Init
  <2> SUFFICES ASSUME Init PROVE View!Init
    OBVIOUS
  <2>1. RecordedView = [k \in ViewKeys |-> {}]
    BY DEF Init, RecordedView
  <2>2. ShownView = [k \in ViewKeys |-> 0]
    BY ViewKeysType DEF Init, ShownView, Columns
  <2> QED
    BY <2>1, <2>2 DEF View!Init, RecordedView, ShownView
<1>2. ASSUME IInv, [Next]_vars
      PROVE  [View!Next]_<<RecordedView, ShownView>>
  <2>1. CASE Record
    <3>1. ASSUME NEW t \in UplinkTopics, NEW robot \in Robots, RecordUplink(t, robot)
          PROVE  [View!Next]_<<RecordedView, ShownView>>
      <4>1. t \in RecordedTopics \ CollectionTopics /\ robot \in Subjects(t)
        BY DEF RecordedTopics, CollectionTopics, UplinkTopics, Subjects
      <4> QED
        BY <1>2, <3>1, <4>1, RecordIsSeen DEF RecordUplink, View!Next
    <3>2. ASSUME NEW t \in {"order", "zoneSet"}, NEW x \in Subjects(t),
                 RecordDownlink(t, x)
          PROVE  [View!Next]_<<RecordedView, ShownView>>
      <4>1. t \in RecordedTopics \ CollectionTopics
        BY DEF RecordedTopics, CollectionTopics
      <4> QED
        BY <1>2, <3>2, <4>1, RecordIsSeen DEF RecordDownlink, View!Next
    <3>3. CASE RecordRowFails
      BY <3>3, NothingSeen DEF RecordRowFails
    <3>4. Subjects("order") = OrderIds /\ Subjects("zoneSet") = ZoneSetIds
      <4>1. "order" \notin UplinkTopics /\ "zoneSet" \notin UplinkTopics
        BY DEF UplinkTopics
      <4>2. "zoneSet" # "order"
        OBVIOUS
      <4>3. /\ "order" \notin CollectionTopics \cup {"instant_actions"}
            /\ "zoneSet" \notin CollectionTopics \cup {"instant_actions"}
        BY DEF CollectionTopics
      <4> QED
        BY <4>1, <4>2, <4>3, Zenon DEF Subjects
    <3> QED
      BY <1>2, <2>1, <3>1, <3>2, <3>3, <3>4, CollectionIsUnseen DEF Record
  <2>2. CASE ProjectEntity
    BY <1>2, <2>2, ProjectionIsSeen DEF View!Next
  <2>3. CASE ~Record /\ ~ProjectEntity
    <3>1. UNCHANGED <<events, readModel>>
      BY <1>2, <2>3
      DEF Next, vars, recorder, Projection, WakeUp, LeaveLoop, FindLatest, TakeEvent,
          NextTopic, QueryFails, ProjectFails, Stop, Exit, Crash, Start, Down
    <3> QED
      BY <3>1, NothingSeen
  <2> QED
    BY <2>1, <2>2, <2>3
<1>3. [View!Next]_<<RecordedView, ShownView>>
        <=> [View!Next]_<<[k \in ViewKeys |->
                             {e \in DOMAIN events :
                                events[e].topic = k[2] /\ events[e].item = k[1]}],
                          [k \in ViewKeys |-> readModel[k[1]][k[2]]]>>
  BY DEF RecordedView, ShownView
<1> QED
  BY <1>1, <1>2, <1>3, Invariance, PTL DEF Spec, ImplementsLatestView, View!Spec
=============================================================================
