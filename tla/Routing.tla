------------------------------- MODULE Routing -------------------------------
(***************************************************************************)
(* The way of a message through the daemon: from a broker by a filter to   *)
(* TypedSubscriber, which reads the payload, to VDA5050Subscriber, which   *)
(* reads the topic, from there to the recorder and to the endpoint of the  *)
(* other side, whose publishers write topic and payload anew.  Proxy has   *)
(* the threads and the connections, here both endpoints are set up and     *)
(* both handlers are registered.                                           *)
(*                                                                         *)
(* A topic is the sequence of its levels, a level a sequence of            *)
(* characters, of which ".", "+" and "#" have a meaning; a suffix like     *)
(* "state" is one character.  A payload is read and written by the schema  *)
(* of the suffix, as Conversion has it.                                    *)
(***************************************************************************)
EXTENDS Conversion

CONSTANTS
  Prefixes,    \* values of mqtt_topic_prefix
  Traffic,     \* bound: what others publish: side, topic and payload
  LoneTraffic, \* bound: what others publish as their only message
  MaxMessages, \* bound: messages others publish
  MaxFaults    \* bound: messages lost, failed INSERTs and failed publishes

ASSUME BoundsAssumption == MaxMessages \in Nat /\ MaxFaults \in Nat

\* The setting is split at "/", whatever is written in it.
ASSUME PrefixesAssumption == Prefixes \subseteq Seq(Seq(STRING))

VARIABLES
  prefix,    \* mqtt_topic_prefix
  started,   \* "no", "yes" or "refused": what start() has come to
  published, \* what was published at each broker, in order
  inbox,     \* positions in it of what the client of that side has received
  rows,      \* what insertEvent was called with, once for the entities of a message
  faults     \* how many of MaxFaults have happened

vars == <<prefix, started, published, inbox, rows, faults>>

Sides == {"local", "cloud"}

Other(s) == IF s = "local" THEN "cloud" ELSE "local"

\* A broker accepts no topic with a wildcard in it, and none without a level.  What
\* the payload is does not matter to it.
ASSUME TrafficAssumption ==
  /\ Traffic \cap LoneTraffic = {}
  /\ \A x \in Traffic \cup LoneTraffic :
       /\ x.side \in Sides
       /\ x.topic \in Seq(Seq(STRING)) \ {<<>>}
       /\ \A n \in DOMAIN x.topic : \A c \in DOMAIN x.topic[n] :
            x.topic[n][c] \notin {"+", "#"}
       /\ IsPayload(x.payload)

\* Mutant: the cloud endpoint subscribes the states as well.
SuffixesShared(s) ==
  {<<"state">>} \cup (IF s = "local" THEN {<<"connection">>} ELSE {<<"order">>})

\* The topics an endpoint subscribes and has handlers for, which are those its
\* opposite may publish.
Suffixes(s) ==
  IF s = "local"
    THEN {<<"state">>, <<"visualization">>, <<"connection">>, <<"factsheet">>}
    ELSE {<<"order">>, <<"instantActions">>, <<"responses">>, <<"zoneSet">>}

-----------------------------------------------------------------------------
(* Topics.                                                                 *)

PrefixParses == Len(prefix) = 2 /\ prefix[1] # <<>> /\ prefix[2] # <<>>

AnyLevel == <<"+">>

Filter(suffix) == prefix \o <<AnyLevel, AnyLevel, suffix>>

\* The library refuses a wildcard that is not a level, and "#" before the end.
FilterValid(filter) ==
  \A n \in DOMAIN filter :
    filter[n] = AnyLevel \/ \A c \in DOMAIN filter[n] : filter[n][c] \notin {"+", "#"}

Matches(filter, topic) ==
  /\ DOMAIN topic = DOMAIN filter
  /\ \A n \in DOMAIN filter : filter[n] = AnyLevel \/ filter[n] = topic[n]

\* Mutant: empty levels are taken for names.
TopicParsesLoosely(topic, suffix) ==
  Len(topic) = 5 /\ SubSeq(topic, 1, 2) = prefix /\ topic[5] = suffix

\* parseTopicContext: the prefix as it is written, two names, the suffix.
TopicParses(topic, suffix) ==
  /\ Len(topic) = 5
  /\ SubSeq(topic, 1, 2) = prefix
  /\ topic[3] # <<>>
  /\ topic[4] # <<>>
  /\ topic[5] = suffix

Context(topic) == [manufacturer |-> topic[3], serialNumber |-> topic[4]]

\* Mutant: the two names change places.
TopicSwapped(context, suffix) ==
  prefix \o <<context.serialNumber, context.manufacturer, suffix>>

Topic(context, suffix) ==
  prefix \o <<context.manufacturer, context.serialNumber, suffix>>

\* Mutant: the names run into each other.
RobotIdJoined(context) == context.manufacturer \o context.serialNumber

RobotId(context) == context.manufacturer \o <<".">> \o context.serialNumber

-----------------------------------------------------------------------------

Message(topic, payload, source) ==
  [topic |-> topic, payload |-> payload, source |-> source]

Subscribed(s, topic) ==
  started = "yes" /\ \E x \in Suffixes(s) : Matches(Filter(x), topic)

\* What a publish at the broker of s does to an inbox of that side.
Received(s, topic, pending) ==
  IF Subscribed(s, topic) THEN Append(pending, Len(published[s]) + 1) ELSE pending

\* A prefix that does not parse, or makes no filter, ends the start.
Start ==
  /\ started = "no"
  /\ started' = IF PrefixParses
                     /\ \A s \in Sides : \A x \in Suffixes(s) : FilterValid(Filter(x))
                  THEN "yes" ELSE "refused"
  /\ UNCHANGED <<prefix, published, inbox, rows, faults>>

FromOthers(s) == {n \in DOMAIN published[s] : published[s][n].source = 0}

PublishedByOthers ==
  Cardinality(FromOthers("local")) + Cardinality(FromOthers("cloud"))

\* A message that is not of Traffic comes alone.
LonePublished ==
  \E s \in Sides : \E n \in FromOthers(s) :
    [side |-> s, topic |-> published[s][n].topic, payload |-> published[s][n].payload]
      \notin Traffic

\* A robot, the fleet control or anybody else publishes; source 0 says so.
Publish(x) ==
  /\ started = "yes"
  /\ published' =
       [published EXCEPT ![x.side] = Append(@, Message(x.topic, x.payload, 0))]
  /\ inbox' = [inbox EXCEPT ![x.side] = Received(x.side, x.topic, @)]
  /\ UNCHANGED <<prefix, started, rows, faults>>

OtherPublishes ==
  /\ PublishedByOthers < MaxMessages
  /\ ~LonePublished
  /\ \E x \in Traffic : Publish(x)

OtherPublishesOnce ==
  /\ PublishedByOthers = 0
  /\ \E x \in LoneTraffic : Publish(x)

\* Quality of service 0.
Lose(s) ==
  /\ inbox[s] # <<>>
  /\ faults < MaxFaults
  /\ faults' = faults + 1
  /\ inbox' = [inbox EXCEPT ![s] = Tail(@)]
  /\ UNCHANGED <<prefix, started, published, rows>>

\* The handlers are called for a message whose payload and topic can be read.
Accepted(s, m) ==
  /\ PayloadParses(m.payload)
  /\ \E x \in Suffixes(s) : Matches(Filter(x), m.topic) /\ TopicParses(m.topic, x)

\* The recorder inserts a row for each entity of a message that was read: none for a
\* list of actions or responses that is empty, or missing in an empty message.
HasEntities(p) ==
  /\ p.value = Empty =>
       <<p.struct, p.field>> \notin {<<"InstantActions", "actions">>,
                                    <<"Responses", "responses">>}
  /\ p.value.is = "blankObject" =>
       <<p.struct, p.field>> \notin {<<"Payload", "instantActions">>,
                                    <<"Payload", "responses">>}

\* What the two handlers do with the message at position n of side s, where an
\* INSERT or a publish that fails is logged and does not keep off the other.  One row
\* stands for those of all its entities, which differ in the entity only.
Handlers(s, n, pending, isRecorded, isSent) ==
  LET m == published[s][n]
      context == Context(m.topic)
      topic == Topic(context, m.topic[5])
      row == [side |-> s, source |-> n, context |-> context,
              robotId |-> RobotId(context), payload |-> Parsed(m.payload)]
      copy == Message(topic, Pruned(Parsed(m.payload)), n)
  IN
  /\ rows' = IF isRecorded /\ HasEntities(row.payload) THEN Append(rows, row) ELSE rows
  /\ published' = IF isSent THEN [published EXCEPT ![Other(s)] = Append(@, copy)]
                            ELSE published
  /\ inbox' = [inbox EXCEPT ![s] = pending,
                            ![Other(s)] = IF isSent THEN Received(Other(s), topic, @)
                                                    ELSE @]

\* One message is taken out of the inbox and handled, or dropped.
HandleOne(s, n, pending) ==
  /\ IF Accepted(s, published[s][n])
       THEN Handlers(s, n, pending, TRUE, TRUE)
       ELSE /\ inbox' = [inbox EXCEPT ![s] = pending]
            /\ UNCHANGED <<rows, published>>
  /\ UNCHANGED <<prefix, started, faults>>

\* Mutant: messages are handled as they are stacked, the last one first.
HandleLast(s) ==
  /\ inbox[s] # <<>>
  /\ HandleOne(s, inbox[s][Len(inbox[s])], SubSeq(inbox[s], 1, Len(inbox[s]) - 1))

Handle(s) ==
  /\ inbox[s] # <<>>
  /\ HandleOne(s, Head(inbox[s]), Tail(inbox[s]))

\* Mutant: the exception gets as far as the loop of the client, and the messages
\* behind this one are gone with the connection.
HandleFailsForAll(s) ==
  /\ inbox[s] # <<>>
  /\ faults < MaxFaults
  /\ Accepted(s, published[s][Head(inbox[s])])
  /\ Handlers(s, Head(inbox[s]), <<>>, FALSE, FALSE)
  /\ faults' = faults + 1
  /\ UNCHANGED <<prefix, started>>

\* An INSERT throws, the publish fails, or both.
HandleFails(s) ==
  /\ inbox[s] # <<>>
  /\ faults < MaxFaults
  /\ Accepted(s, published[s][Head(inbox[s])])
  /\ \E isRecorded, isSent \in BOOLEAN :
       /\ ~(isRecorded /\ isSent)
       /\ isRecorded \/ HasEntities(Parsed(published[s][Head(inbox[s])].payload))
       /\ Handlers(s, Head(inbox[s]), Tail(inbox[s]), isRecorded, isSent)
  /\ faults' = faults + 1
  /\ UNCHANGED <<prefix, started>>

-----------------------------------------------------------------------------

Init ==
  /\ prefix \in Prefixes
  /\ started = "no"
  /\ published = [s \in Sides |-> <<>>]
  /\ inbox = [s \in Sides |-> <<>>]
  /\ rows = <<>>
  /\ faults = 0

Next ==
  \/ Start
  \/ OtherPublishes
  \/ OtherPublishesOnce
  \/ \E s \in Sides : Lose(s) \/ Handle(s) \/ HandleFails(s)

Spec == Init /\ [][Next]_vars

\* The scheduler runs the thread of each client.
FairSpec == Spec /\ \A s \in Sides : WF_vars(Handle(s))

-----------------------------------------------------------------------------
(* Properties.                                                             *)

\* Every variable has its type (the only type invariant of the module).
TypeOK ==
  /\ prefix \in Prefixes
  /\ started \in {"no", "yes", "refused"}
  /\ \A s \in Sides :
       /\ \A n \in DOMAIN published[s] :
            /\ published[s][n].source \in 0..Len(published[Other(s)])
            /\ Len(published[s][n].topic) > 0
       /\ \A n \in DOMAIN inbox[s] : inbox[s][n] \in DOMAIN published[s]
  /\ \A n \in DOMAIN rows :
       /\ rows[n].source \in DOMAIN published[rows[n].side]
       /\ rows[n].context.manufacturer # <<>>
       /\ rows[n].context.serialNumber # <<>>
  /\ faults \in 0..MaxFaults

\* The positions at the broker of s of what the daemon has forwarded there.
Forwarded(s) == DOMAIN published[s] \ FromOthers(s)

Original(s, n) == published[Other(s)][published[s][n].source]

\* Topic and payload are read and written again on the way, by different classes:
\* what the daemon forwards is on the topic it came on, comes from the side it
\* should, and says to a reader with the same schema what the original said,
\* except that an optional list that is empty is gone: a second daemon behind
\* this one, or the robot with this code, does not see the difference.
ForwardedAsPublished ==
  \A s \in Sides : \A n \in Forwarded(s) :
    LET copy == published[s][n]
        was == Parsed(Original(s, n).payload)
    IN
    /\ copy.topic = Original(s, n).topic
    /\ copy.topic[5] \in Suffixes(Other(s))
    /\ PayloadParses(copy.payload)
    /\ \/ Parsed(copy.payload) = was
       \/ was.value = Empty /\ Parsed(copy.payload).value = Scalar("null")

\* A value of the standard is forwarded as it was written, in every field of every
\* message; the copy differs only in what says the same: a null inside for an
\* optional field that is missing, nothing for an empty list at the top, and a
\* decimal point.  No name of an enum becomes another one, no number a text.
ConformingIsForwarded ==
  \A s \in Sides : \A n \in Forwarded(s) :
    LET original == Original(s, n).payload
        copy == published[s][n].payload
    IN
    Conforms(original) =>
      \/ copy.value = original.value
      \/ original.value.is = "absent" /\ copy.value.is = "null"
      \/ original.value = Empty /\ copy.value.is = "absent"
      \/ KindOf(original).type = "double" /\ "float" \in {copy.value.is, copy.value.of}

\* The recorder writes JSON the projectors read later, with the same functions:
\* every row can be read, and is what the message was when it was recorded.  No row
\* stops its projector for good.
RecordedReadsBack ==
  \A n \in DOMAIN rows :
    /\ PayloadParses(rows[n].payload)
    /\ Parsed(rows[n].payload) = rows[n].payload

\* Both endpoints subscribe and publish names under one prefix, and yet a message
\* crosses the daemon once: no copy is forwarded back, none is sent twice, and
\* two messages of one side do not overtake each other.
CrossesOnceInOrder ==
  \A s \in Sides : \A n \in Forwarded(s) :
    /\ published[Other(s)][published[s][n].source].source = 0
    /\ \A m \in Forwarded(s) : m < n => published[s][m].source < published[s][n].source

\* robot_id is the key of the read tables.  Rows of two robots have the same one
\* only when a manufacturer's name has a "." in it.
RobotIdTellsApart ==
  \A m, n \in DOMAIN rows :
    rows[m].robotId = rows[n].robotId =>
      \/ rows[m].context = rows[n].context
      \/ \E k \in {m, n} : \E c \in DOMAIN rows[k].context.manufacturer :
           rows[k].context.manufacturer[c] = "."

\* What the daemon should record and forward: a message of the standard on a topic
\* of the standard.  The array of actionParameters the standard has is not read,
\* and the whole order, instant action or zone set is dropped for it.
IsExpected(m) ==
  /\ Conforms(m.payload)
  /\ ~(IsParameters(m.payload) /\ m.payload.value.is = "array")
  /\ SubSeq(m.topic, 1, 2) = prefix
  /\ <<>> \notin {m.topic[l] : l \in DOMAIN m.topic}

Recorded(s, n) == \E k \in DOMAIN rows : rows[k].side = s /\ rows[k].source = n
Copied(s, n) ==
  \E k \in DOMAIN published[Other(s)] : published[Other(s)][k].source = n

\* Forwarded, and recorded unless there is nothing to record.
Done(s, n) ==
  /\ Copied(s, n)
  /\ HasEntities(Parsed(published[s][n].payload)) => Recorded(s, n)

Pending(s, n) == \E k \in DOMAIN inbox[s] : inbox[s][k] = n

\* What others have sent that is neither waiting nor done.
Missed(s) ==
  {n \in FromOthers(s) : /\ IsExpected(published[s][n])
                         /\ Subscribed(s, published[s][n].topic)
                         /\ ~Pending(s, n)
                         /\ ~Done(s, n)}

\* An INSERT that throws, a publish that fails, or a message the network loses costs
\* that one message: no more are missed than there were failures.
FailuresCostOneMessage ==
  Cardinality(Missed("local")) + Cardinality(Missed("cloud")) <= faults

\* A message the client received and the daemon should forward is forwarded and, if it
\* has an entity, recorded: the reading on the way refuses none.
ReceivedIsForwarded ==
  \A s \in Sides : \A n \in 1..MaxMessages :
    Pending(s, n) /\ IsExpected(published[s][n])
      ~> Done(s, n) \/ faults > 0
=============================================================================
