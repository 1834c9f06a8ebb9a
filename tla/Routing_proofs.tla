---------------------------- MODULE Routing_proofs ----------------------------
(***************************************************************************)
(* What holds of Routing for every prefix, every traffic and any number of *)
(* messages and failures: its types, that a message crosses the daemon at  *)
(* most once and in order, when two robots share a robot_id, what copies   *)
(* and rows say, and that a failure costs one message.                     *)
(*                                                                         *)
(* The crossing follows from InboxInOrder: what waits on one side is from  *)
(* others and behind all that was forwarded from that side.  A copy never  *)
(* gets into an inbox, for it keeps its topic (TopicRoundTrip) and the     *)
(* suffixes of the two endpoints differ (SuffixesDiffer).                  *)
(*                                                                         *)
(* Contents says what copies and rows are made of; what a reader makes of  *)
(* them is then in Conversion_proofs.  What is missed grows by the message *)
(* a step takes out of an inbox, and not by that when it is handled, since *)
(* what the daemon should forward it accepts (WantedIsAccepted).           *)
(***************************************************************************)
EXTENDS Routing, Conversion_proofs, SequenceTheorems, FiniteSetTheorems, TLAPS

\* A sequence, of whatever is in it.
IsSequence(q) == q \in Seq({q[n] : n \in DOMAIN q})

LEMMA SequenceFacts ==
  ASSUME NEW q, IsSequence(q)
  PROVE  /\ Len(q) \in Nat
         /\ DOMAIN q = 1..Len(q)
  BY DEF IsSequence

LEMMA AnySequence ==
  ASSUME NEW S, NEW q \in Seq(S)
  PROVE  IsSequence(q)
  <1>1. Len(q) \in Nat /\ DOMAIN q = 1..Len(q)
    OBVIOUS
  <1> DEFINE T == {q[n] : n \in DOMAIN q}
  <1>2. \A n \in 1..Len(q) : q[n] \in T
    BY <1>1
  <1> HIDE DEF T
  <1>3. q \in Seq(T)
    BY <1>1, <1>2
  <1> QED BY <1>3 DEF IsSequence, T

LEMMA SameElements ==
  ASSUME NEW q, IsSequence(q), NEW r, IsSequence(r), Len(q) = Len(r),
         \A n \in 1..Len(q) : q[n] = r[n]
  PROVE  q = r
  <1> DEFINE S == {q[n] : n \in DOMAIN q} \cup {r[n] : n \in DOMAIN r}
  <1>1. q \in Seq(S) /\ r \in Seq(S)
    BY SeqMonotonic DEF IsSequence
  <1> HIDE DEF S
  <1> QED BY <1>1, SeqEqual

LEMMA AppendFacts ==
  ASSUME NEW q, IsSequence(q), NEW m
  PROVE  /\ IsSequence(Append(q, m))
         /\ Len(Append(q, m)) = Len(q) + 1
         /\ Append(q, m)[Len(q) + 1] = m
         /\ \A n \in DOMAIN q : Append(q, m)[n] = q[n]
         /\ DOMAIN Append(q, m) = DOMAIN q \cup {Len(q) + 1}
  <1> DEFINE S == {q[n] : n \in DOMAIN q} \cup {m}
             d == Append(q, m)
  <1>1. q \in Seq(S)
    BY DEF IsSequence
  <1>2. /\ d \in Seq(S)
        /\ Len(d) = Len(q) + 1
        /\ d[Len(q) + 1] = m
        /\ \A n \in 1..Len(q) : d[n] = q[n]
        /\ Len(q) \in Nat
        /\ DOMAIN q = 1..Len(q)
        /\ DOMAIN d = 1..(Len(q) + 1)
    BY <1>1
  <1>3. DOMAIN d = DOMAIN q \cup {Len(q) + 1}
    BY <1>2
  <1>4. d \in Seq({d[n] : n \in DOMAIN d})
    BY <1>2
  <1> QED BY <1>2, <1>3, <1>4 DEF IsSequence

LEMMA TailFacts ==
  ASSUME NEW q \in Seq(Nat), q # <<>>
  PROVE  /\ Tail(q) \in Seq(Nat)
         /\ Head(q) = q[1]
         /\ 1 \in DOMAIN q
         /\ \A k \in DOMAIN Tail(q) :
              k + 1 \in DOMAIN q /\ 1 < k + 1 /\ Tail(q)[k] = q[k + 1]
  <1>1. Len(q) \in Nat \ {0} /\ DOMAIN q = 1..Len(q) /\ Head(q) = q[1]
    OBVIOUS
  <1>2. /\ Tail(q) \in Seq(Nat)
        /\ DOMAIN Tail(q) = 1..(Len(q) - 1)
        /\ \A k \in 1..(Len(q) - 1) : Tail(q)[k] = q[k + 1]
    BY <1>1
  <1> QED BY <1>1, <1>2

-----------------------------------------------------------------------------
(* Topics.                                                                 *)

IsName(l) == IsSequence(l) /\ l # <<>>

IsTopic(t) ==
  /\ IsSequence(t)
  /\ t # <<>>
  /\ \A n \in DOMAIN t : IsSequence(t[n])

LEMMA Opposites ==
  ASSUME NEW s \in Sides
  PROVE  Other(s) \in Sides \ {s} /\ Other(Other(s)) = s
  BY DEF Sides, Other

\* The lists of the two endpoints have nothing in common.
LEMMA SuffixesDiffer ==
  ASSUME NEW s \in Sides
  PROVE  Suffixes(s) \cap Suffixes(Other(s)) = {} /\ AnyLevel \notin Suffixes(s)
  <1>1. \A x, y \in STRING : <<x>> = <<y>> => x = y
    <2> SUFFICES ASSUME NEW x \in STRING, NEW y \in STRING, <<x>> = <<y>> PROVE x = y
      OBVIOUS
    <2>1. <<x>>[1] = x /\ <<y>>[1] = y
      OBVIOUS
    <2> QED BY <2>1
  <1> QED BY <1>1 DEF Suffixes, AnyLevel, Sides, Other

\* Three levels behind a prefix of two.
IsMadeOf(u, p, a, b, c) == u = p \o <<a, b, c>>

LEMMA FiveLevels ==
  ASSUME NEW p, IsSequence(p), Len(p) = 2, NEW a, NEW b, NEW c,
         NEW u, IsMadeOf(u, p, a, b, c)
  PROVE  /\ IsSequence(u)
         /\ Len(u) = 5
         /\ u[1] = p[1] /\ u[2] = p[2] /\ u[3] = a /\ u[4] = b /\ u[5] = c
  <1> DEFINE S == {p[n] : n \in DOMAIN p} \cup {a, b, c}
             e == <<a, b, c>>
  <1>1. p \in Seq(S)
    BY SeqMonotonic DEF IsSequence
  <1>2. e \in Seq(S) /\ Len(e) = 3 /\ e[1] = a /\ e[2] = b /\ e[3] = c
    OBVIOUS
  <1> HIDE DEF e, S
  <1>3. /\ p \o e \in Seq(S)
        /\ Len(p \o e) = Len(p) + Len(e)
        /\ \A i \in 1..(Len(p) + Len(e)) :
             (p \o e)[i] = IF i <= Len(p) THEN p[i] ELSE e[i - Len(p)]
    BY <1>1, <1>2, ConcatProperties
  <1>4. u = p \o e
    BY DEF e, IsMadeOf
  <1>5. /\ Len(u) = 5
        /\ \A i \in 1..5 : u[i] = IF i <= 2 THEN p[i] ELSE e[i - 2]
    BY <1>2, <1>3, <1>4
  <1>6. u[1] = p[1] /\ u[2] = p[2] /\ u[3] = e[1] /\ u[4] = e[2] /\ u[5] = e[3]
    BY <1>5
  <1>7. IsSequence(u)
    BY <1>3, <1>4, AnySequence
  <1> QED BY <1>2, <1>5, <1>6, <1>7

\* A sequence of five is its first two levels and the other three.
LEMMA TwoAndThree ==
  ASSUME NEW t, IsSequence(t), Len(t) = 5,
         NEW p, IsSequence(p), Len(p) = 2, p[1] = t[1], p[2] = t[2]
  PROVE  p \o <<t[3], t[4], t[5]>> = t
  <1> DEFINE a == t[3]
             b == t[4]
             c == t[5]
             u == p \o <<a, b, c>>
  <1>1. IsMadeOf(u, p, a, b, c)
    BY DEF IsMadeOf
  <1> HIDE DEF a, b, c, u
  <1>2. /\ IsSequence(u) /\ Len(u) = 5 /\ u[1] = p[1] /\ u[2] = p[2]
        /\ u[3] = a /\ u[4] = b /\ u[5] = c
    BY <1>1, FiveLevels
  <1>3. \A n \in 1..5 : u[n] = t[n]
    <2>1. /\ u[1] = t[1] /\ u[2] = t[2] /\ u[3] = t[3]
          /\ u[4] = t[4] /\ u[5] = t[5]
      BY <1>2 DEF a, b, c
    <2> QED BY <2>1
  <1>4. u = t
    BY <1>2, <1>3, SameElements
  <1> QED BY <1>4 DEF u, a, b, c

\* What SubSeq takes off the front of a topic.
LEMMA FirstTwo ==
  ASSUME NEW t, IsSequence(t), Len(t) = 5, NEW p, p = SubSeq(t, 1, 2)
  PROVE  IsSequence(p) /\ Len(p) = 2 /\ p[1] = t[1] /\ p[2] = t[2]
  <1> DEFINE S == {t[n] : n \in DOMAIN t}
  <1>1. t \in Seq(S)
    BY DEF IsSequence
  <1> HIDE DEF S
  <1>2. \A i \in 1..2 : t[i] \in S
    BY <1>1, ElementOfSeq
  <1>3. /\ p \in Seq(S)
        /\ Len(p) = IF 1 <= 2 THEN 2 - 1 + 1 ELSE 0
        /\ \A i \in 1..(2 - 1 + 1) : p[i] = t[1 + i - 1]
    BY <1>2, SubSeqProperties
  <1>4. IsSequence(p)
    BY <1>3, AnySequence
  <1>5. Len(p) = 2 /\ p[1] = t[1] /\ p[2] = t[2]
    BY <1>3
  <1> QED BY <1>4, <1>5

\* A topic that parses is written again as it was.
LEMMA TopicRoundTrip ==
  ASSUME NEW t, IsTopic(t), NEW x, TopicParses(t, x)
  PROVE  /\ Topic(Context(t), t[5]) = t
         /\ IsName(Context(t).manufacturer)
         /\ IsName(Context(t).serialNumber)
  <1>1. Len(t) = 5 /\ prefix = SubSeq(t, 1, 2) /\ t[3] # <<>> /\ t[4] # <<>>
    BY DEF TopicParses
  <1>2. prefix \o <<t[3], t[4], t[5]>> = t
    BY <1>1, FirstTwo, TwoAndThree DEF IsTopic
  <1>3. 3 \in DOMAIN t /\ 4 \in DOMAIN t
    <2>1. DOMAIN t = 1..Len(t)
      BY SequenceFacts DEF IsTopic
    <2> QED BY <1>1, <2>1
  <1>4. IsName(t[3]) /\ IsName(t[4])
    BY <1>1, <1>3 DEF IsTopic, IsName
  <1>5. Context(t).manufacturer = t[3] /\ Context(t).serialNumber = t[4]
    BY DEF Context
  <1> QED BY <1>2, <1>4, <1>5 DEF Topic

\* The other side is not subscribed to what this side accepts: no copy comes back.
LEMMA CopyIsNotReceived ==
  ASSUME NEW s \in Sides, NEW m, IsTopic(m.topic), Accepted(s, m)
  PROVE  ~Subscribed(Other(s), m.topic)
  <1>1. PICK x \in Suffixes(s) : TopicParses(m.topic, x)
    BY DEF Accepted
  <1>2. Len(m.topic) = 5 /\ prefix = SubSeq(m.topic, 1, 2) /\ m.topic[5] = x
    BY <1>1 DEF TopicParses
  <1>3. IsSequence(prefix) /\ Len(prefix) = 2
    BY <1>2, FirstTwo DEF IsTopic
  <1>4. ASSUME NEW y \in Suffixes(Other(s)), Matches(Filter(y), m.topic)
        PROVE  FALSE
    <2>1. Len(Filter(y)) = 5 /\ Filter(y)[5] = y /\ IsSequence(Filter(y))
      <3>1. Filter(y) = prefix \o <<AnyLevel, AnyLevel, y>>
        BY DEF Filter
      <3>2. IsMadeOf(Filter(y), prefix, AnyLevel, AnyLevel, y)
        BY <3>1 DEF IsMadeOf
      <3> QED BY <1>3, <3>2, FiveLevels
    <2>2. 5 \in DOMAIN Filter(y)
      BY <2>1, SequenceFacts
    <2>3. y = AnyLevel \/ y = m.topic[5]
      BY <1>4, <2>1, <2>2 DEF Matches
    <2> QED BY <1>2, <2>3, SuffixesDiffer, Opposites
  <1> QED BY <1>4 DEF Subscribed

-----------------------------------------------------------------------------
(* The invariant.                                                          *)

\* The two logs and the two inboxes, which are positions in them.
LogsOK ==
  /\ published = [s \in Sides |-> published[s]]
  /\ \A s \in Sides :
       /\ IsSequence(published[s])
       /\ \A n \in DOMAIN published[s] :
            /\ published[s][n].source \in 0..Len(published[Other(s)])
            /\ IsTopic(published[s][n].topic)
  /\ inbox \in [Sides -> Seq(Nat)]
  /\ \A s \in Sides : \A k \in DOMAIN inbox[s] : inbox[s][k] \in DOMAIN published[s]

\* A row is about a message, and its robot_id is made of two names.
RowsOK ==
  /\ IsSequence(rows)
  /\ \A n \in DOMAIN rows :
       /\ rows[n].side \in Sides
       /\ rows[n].source \in DOMAIN published[rows[n].side]
       /\ \E t : rows[n].context = Context(t)
       /\ IsName(rows[n].context.manufacturer)
       /\ IsName(rows[n].context.serialNumber)
       /\ rows[n].robotId = RobotId(rows[n].context)

\* An inbox has what others have sent, in order, and none of it is forwarded yet.
InboxInOrder ==
  \A s \in Sides :
    /\ \A k, l \in DOMAIN inbox[s] : k < l => inbox[s][k] < inbox[s][l]
    /\ \A k \in DOMAIN inbox[s] :
         /\ published[s][inbox[s][k]].source = 0
         /\ \A n \in Forwarded(Other(s)) : published[Other(s)][n].source < inbox[s][k]

RestOK ==
  /\ prefix \in Prefixes
  /\ started \in {"no", "yes", "refused"}
  /\ faults \in 0..MaxFaults

Ordered == InboxInOrder /\ CrossesOnceInOrder

\* What every step preserves.
IInv == RestOK /\ LogsOK /\ RowsOK /\ Ordered

LEMMA ForwardedFacts ==
  ASSUME NEW s
  PROVE  \A n : n \in Forwarded(s) <=> n \in DOMAIN published[s] /\ published[s][n].source # 0
  BY DEF Forwarded, FromOthers

LEMMA TrafficFacts ==
  ASSUME NEW x \in Traffic \cup LoneTraffic
  PROVE  x.side \in Sides /\ IsTopic(x.topic)
  <1>1. x.side \in Sides /\ x.topic \in Seq(Seq(STRING)) /\ x.topic # <<>>
    BY TrafficAssumption
  <1>2. IsSequence(x.topic)
    BY <1>1, AnySequence
  <1>3. ASSUME NEW n \in DOMAIN x.topic PROVE IsSequence(x.topic[n])
    <2>1. n \in 1..Len(x.topic)
      BY <1>2, SequenceFacts
    <2>2. x.topic[n] \in Seq(STRING)
      BY <1>1, <2>1, ElementOfSeq
    <2> QED BY <2>2, AnySequence
  <1> QED BY <1>1, <1>2, <1>3 DEF IsTopic

\* One message more at the broker of s.
LEMMA OneMore ==
  ASSUME LogsOK, NEW s \in Sides, NEW m, IsTopic(m.topic),
         m.source \in 0..Len(published[Other(s)]),
         published' = [published EXCEPT ![s] = Append(@, m)]
  PROVE  /\ published' = [z \in Sides |-> published'[z]]
         /\ published'[Other(s)] = published[Other(s)]
         /\ published'[s][Len(published[s]) + 1] = m
         /\ \A n \in DOMAIN published[s] : published'[s][n] = published[s][n]
         /\ DOMAIN published'[s] = DOMAIN published[s] \cup {Len(published[s]) + 1}
         /\ DOMAIN published[s] = 1..Len(published[s])
         /\ Len(published[s]) \in Nat
         /\ \A z \in Sides :
              /\ IsSequence(published'[z])
              /\ \A n \in DOMAIN published'[z] :
                   /\ published'[z][n].source \in 0..Len(published'[Other(z)])
                   /\ IsTopic(published'[z][n].topic)
  <1> DEFINE o == Other(s)
  <1>1. o \in Sides /\ o # s /\ Other(o) = s /\ \A z \in Sides : z = s \/ z = o
    BY Opposites DEF Sides, Other
  <1> HIDE DEF o
  <1>2. /\ published' = [z \in Sides |-> published'[z]]
        /\ published'[s] = Append(published[s], m)
        /\ published'[o] = published[o]
    BY <1>1 DEF LogsOK
  <1>3. IsSequence(published[s]) /\ IsSequence(published[o])
    BY <1>1 DEF LogsOK
  <1>4. /\ IsSequence(published'[s])
        /\ Len(published'[s]) = Len(published[s]) + 1
        /\ published'[s][Len(published[s]) + 1] = m
        /\ \A n \in DOMAIN published[s] : published'[s][n] = published[s][n]
        /\ DOMAIN published'[s] = DOMAIN published[s] \cup {Len(published[s]) + 1}
    BY <1>2, <1>3, AppendFacts
  <1>5. /\ Len(published[s]) \in Nat
        /\ DOMAIN published[s] = 1..Len(published[s])
    BY <1>3, SequenceFacts
  <1>6. \A n \in DOMAIN published'[s] :
          /\ published'[s][n].source \in 0..Len(published'[o])
          /\ IsTopic(published'[s][n].topic)
    BY <1>2, <1>4 DEF LogsOK, o
  <1>7. \A n \in DOMAIN published'[o] :
          /\ published'[o][n].source \in 0..Len(published'[s])
          /\ IsTopic(published'[o][n].topic)
    <2> SUFFICES ASSUME NEW n \in DOMAIN published[o]
                 PROVE  /\ published[o][n].source \in 0..(Len(published[s]) + 1)
                        /\ IsTopic(published[o][n].topic)
      BY <1>2, <1>4
    <2>1. /\ published[o][n].source \in 0..Len(published[s])
          /\ IsTopic(published[o][n].topic)
      BY <1>1 DEF LogsOK
    <2> QED BY <1>5, <2>1
  <1>8. \A z \in Sides :
          /\ IsSequence(published'[z])
          /\ \A n \in DOMAIN published'[z] :
               /\ published'[z][n].source \in 0..Len(published'[Other(z)])
               /\ IsTopic(published'[z][n].topic)
    <2> SUFFICES ASSUME NEW z \in Sides
                 PROVE  /\ IsSequence(published'[z])
                        /\ \A n \in DOMAIN published'[z] :
                             /\ published'[z][n].source \in 0..Len(published'[Other(z)])
                             /\ IsTopic(published'[z][n].topic)
      OBVIOUS
    <2>1. CASE z = s
      BY <1>4, <1>6, <2>1 DEF o
    <2>2. CASE z = o
      BY <1>1, <1>2, <1>3, <1>7, <2>2
    <2> QED BY <1>1, <2>1, <2>2
  <1> QED BY <1>2, <1>4, <1>5, <1>8 DEF o

-----------------------------------------------------------------------------
(* What a step does to the logs and the inboxes.                           *)

\* The first message of an inbox is taken out of it.
Taken(s) ==
  /\ inbox' \in [Sides -> Seq(Nat)]
  /\ inbox'[s] = Tail(inbox[s])
  /\ inbox'[Other(s)] = inbox[Other(s)]

\* A copy of it is published on the other side.
Sent(s) ==
  \E c : /\ IsTopic(c.topic)
         /\ c.source = Head(inbox[s])
         /\ published' = [published EXCEPT ![Other(s)] = Append(@, c)]

LEMMA FirstInInbox ==
  ASSUME LogsOK, Ordered, NEW s \in Sides, inbox[s] # <<>>
  PROVE  /\ Head(inbox[s]) \in DOMAIN published[s]
         /\ Head(inbox[s]) \in 1..Len(published[s])
         /\ published[s][Head(inbox[s])].source = 0
         /\ Head(inbox[s]) # 0
         /\ \A n \in Forwarded(Other(s)) : published[Other(s)][n].source < Head(inbox[s])
         /\ inbox[s] \in Seq(Nat)
         /\ \A k \in DOMAIN Tail(inbox[s]) :
              /\ k + 1 \in DOMAIN inbox[s]
              /\ Tail(inbox[s])[k] = inbox[s][k + 1]
              /\ Head(inbox[s]) < Tail(inbox[s])[k]
         /\ \A k, l \in DOMAIN Tail(inbox[s]) :
              k < l => Tail(inbox[s])[k] < Tail(inbox[s])[l]
  <1>1. inbox[s] \in Seq(Nat)
    BY DEF LogsOK
  <1>2. /\ Head(inbox[s]) = inbox[s][1]
        /\ 1 \in DOMAIN inbox[s]
        /\ \A k \in DOMAIN Tail(inbox[s]) :
             k + 1 \in DOMAIN inbox[s] /\ 1 < k + 1 /\ Tail(inbox[s])[k] = inbox[s][k + 1]
        /\ Tail(inbox[s]) \in Seq(Nat)
    BY <1>1, TailFacts
  <1>3. DOMAIN published[s] = 1..Len(published[s]) /\ Len(published[s]) \in Nat
    BY SequenceFacts DEF LogsOK
  <1>4. /\ Head(inbox[s]) \in DOMAIN published[s]
        /\ published[s][Head(inbox[s])].source = 0
        /\ \A n \in Forwarded(Other(s)) : published[Other(s)][n].source < Head(inbox[s])
    BY <1>2 DEF LogsOK, Ordered, InboxInOrder
  <1>5. \A k \in DOMAIN Tail(inbox[s]) : Head(inbox[s]) < Tail(inbox[s])[k]
    BY <1>2 DEF Ordered, InboxInOrder
  <1>6. \A k \in DOMAIN Tail(inbox[s]) : k \in Nat
    BY <1>2
  <1>7. \A k, l \in DOMAIN Tail(inbox[s]) :
          k < l => Tail(inbox[s])[k] < Tail(inbox[s])[l]
    <2> SUFFICES ASSUME NEW k \in DOMAIN Tail(inbox[s]), NEW l \in DOMAIN Tail(inbox[s]),
                        k < l
                 PROVE  inbox[s][k + 1] < inbox[s][l + 1]
      BY <1>2
    <2>1. k + 1 \in DOMAIN inbox[s] /\ l + 1 \in DOMAIN inbox[s] /\ k + 1 < l + 1
      BY <1>2, <1>6
    <2> QED BY <2>1 DEF Ordered, InboxInOrder
  <1> QED BY <1>1, <1>2, <1>3, <1>4, <1>5, <1>7

\* A message is lost, dropped or only recorded.
LEMMA TakenOnly ==
  ASSUME LogsOK, Ordered, NEW s \in Sides, inbox[s] # <<>>, Taken(s),
         published' = published
  PROVE  LogsOK' /\ Ordered'
  <1>1. \A z \in Sides : z = s \/ z = Other(s)
    BY DEF Sides, Other
  <1>2. LogsOK'
    <2>1. \A z \in Sides : \A k \in DOMAIN inbox'[z] : inbox'[z][k] \in DOMAIN published[z]
      <3> SUFFICES ASSUME NEW z \in Sides, NEW k \in DOMAIN inbox'[z]
                   PROVE  inbox'[z][k] \in DOMAIN published[z]
        OBVIOUS
      <3>1. CASE z = s
        BY <3>1, FirstInInbox DEF Taken, LogsOK
      <3>2. CASE z = Other(s)
        BY <3>2 DEF Taken, LogsOK
      <3> QED BY <1>1, <3>1, <3>2
    <2> QED BY <2>1 DEF LogsOK, Taken
  <1>3. Forwarded(s)' = Forwarded(s) /\ Forwarded(Other(s))' = Forwarded(Other(s))
    BY DEF Forwarded, FromOthers
  <1>4. InboxInOrder'
    <2> SUFFICES ASSUME NEW z \in Sides
                 PROVE  /\ \A k, l \in DOMAIN inbox'[z] : k < l => inbox'[z][k] < inbox'[z][l]
                        /\ \A k \in DOMAIN inbox'[z] :
                             /\ published[z][inbox'[z][k]].source = 0
                             /\ \A n \in Forwarded(Other(z)) :
                                  published[Other(z)][n].source < inbox'[z][k]
      BY <1>1, <1>3, Opposites DEF InboxInOrder
    <2>1. CASE z = s
      <3>1. inbox'[z] = Tail(inbox[s])
        BY <2>1 DEF Taken
      <3>2. \A k \in DOMAIN Tail(inbox[s]) :
              /\ published[s][Tail(inbox[s])[k]].source = 0
              /\ \A n \in Forwarded(Other(s)) :
                   published[Other(s)][n].source < Tail(inbox[s])[k]
        BY FirstInInbox DEF Ordered, InboxInOrder
      <3> QED BY <2>1, <3>1, <3>2, FirstInInbox
    <2>2. CASE z = Other(s)
      BY <2>2, Opposites DEF Taken, Ordered, InboxInOrder
    <2> QED BY <1>1, <2>1, <2>2
  <1>5. CrossesOnceInOrder'
    BY <1>1, <1>3, Opposites DEF Ordered, CrossesOnceInOrder
  <1> QED BY <1>2, <1>4, <1>5 DEF Ordered

\* A message is forwarded.
LEMMA TakenAndSent ==
  ASSUME LogsOK, Ordered, NEW s \in Sides, inbox[s] # <<>>, Taken(s), Sent(s)
  PROVE  /\ LogsOK' /\ Ordered'
         /\ \A z \in Sides : DOMAIN published[z] \subseteq DOMAIN published'[z]
  <1> DEFINE o == Other(s)
             h == Head(inbox[s])
             N == Len(published[o]) + 1
  <1>1. /\ o \in Sides /\ o # s /\ Other(o) = s /\ \A z \in Sides : z = s \/ z = o
    BY Opposites DEF Sides, Other
  <1>o. Other(s) = o
    OBVIOUS
  <1>h. Head(inbox[s]) = h
    OBVIOUS
  <1>n. Len(published[o]) + 1 = N
    OBVIOUS
  <1>2. PICK c : /\ IsTopic(c.topic)
                 /\ c.source = h
                 /\ published' = [published EXCEPT ![o] = Append(@, c)]
    BY DEF Sent
  <1> HIDE DEF o, h, N
  <1>3. /\ h \in DOMAIN published[s]
        /\ h \in 1..Len(published[s])
        /\ published[s][h].source = 0
        /\ h # 0
        /\ \A n \in Forwarded(o) : published[o][n].source < h
        /\ \A k \in DOMAIN Tail(inbox[s]) :
             /\ k + 1 \in DOMAIN inbox[s]
             /\ Tail(inbox[s])[k] = inbox[s][k + 1]
             /\ h < Tail(inbox[s])[k]
        /\ \A k, l \in DOMAIN Tail(inbox[s]) :
             k < l => Tail(inbox[s])[k] < Tail(inbox[s])[l]
    BY <1>o, <1>h, FirstInInbox
  <1>4. c.source \in 0..Len(published[s])
    BY <1>2, <1>3
  <1>5. /\ published' = [z \in Sides |-> published'[z]]
        /\ published'[s] = published[s]
        /\ published'[o][N] = c
        /\ \A n \in DOMAIN published[o] : published'[o][n] = published[o][n]
        /\ DOMAIN published'[o] = DOMAIN published[o] \cup {N}
        /\ DOMAIN published[o] = 1..Len(published[o])
        /\ Len(published[o]) \in Nat
        /\ \A z \in Sides :
             /\ IsSequence(published'[z])
             /\ \A n \in DOMAIN published'[z] :
                  /\ published'[z][n].source \in 0..Len(published'[Other(z)])
                  /\ IsTopic(published'[z][n].topic)
    BY <1>1, <1>2, <1>4, OneMore DEF N
  <1>6. \A z \in Sides : DOMAIN published[z] \subseteq DOMAIN published'[z]
    BY <1>1, <1>5
  <1>7. /\ inbox' \in [Sides -> Seq(Nat)]
        /\ inbox'[s] = Tail(inbox[s])
        /\ inbox'[o] = inbox[o]
    BY <1>o DEF Taken
  <1>8. LogsOK'
    <2>1. ASSUME NEW z \in Sides, NEW k \in DOMAIN inbox'[z]
          PROVE  inbox'[z][k] \in DOMAIN published'[z]
      <3>1. CASE z = s
        BY <1>3, <1>5, <1>7, <3>1 DEF LogsOK
      <3>2. CASE z = o
        BY <1>6, <1>7, <3>2 DEF LogsOK
      <3> QED BY <1>1, <3>1, <3>2
    <2> QED BY <1>5, <1>7, <2>1 DEF LogsOK
  <1>9. /\ \A n : n \in Forwarded(s)' <=> n \in Forwarded(s)
        /\ \A n : n \in Forwarded(o)' <=> n \in Forwarded(o) \/ n = N
        /\ N \notin DOMAIN published[o]
        /\ \A n \in Forwarded(o) : n < N /\ published'[o][n] = published[o][n]
    <2>1. N \notin DOMAIN published[o] /\ \A n \in DOMAIN published[o] : n < N
      BY <1>5 DEF N
    <2>2. /\ \A n : n \in Forwarded(s)' <=>
               n \in DOMAIN published[s] /\ published[s][n].source # 0
          /\ \A n : n \in Forwarded(o)' <=>
               n \in DOMAIN published'[o] /\ published'[o][n].source # 0
      BY <1>5 DEF Forwarded, FromOthers
    <2>3. /\ \A n : n \in Forwarded(s) <=>
               n \in DOMAIN published[s] /\ published[s][n].source # 0
          /\ \A n : n \in Forwarded(o) <=>
               n \in DOMAIN published[o] /\ published[o][n].source # 0
      BY ForwardedFacts
    <2> QED BY <1>2, <1>3, <1>5, <2>1, <2>2, <2>3
  <1>10. InboxInOrder'
    <2> SUFFICES ASSUME NEW z \in Sides
                 PROVE  /\ \A k, l \in DOMAIN inbox'[z] : k < l => inbox'[z][k] < inbox'[z][l]
                        /\ \A k \in DOMAIN inbox'[z] :
                             /\ published'[z][inbox'[z][k]].source = 0
                             /\ \A n \in Forwarded(Other(z))' :
                                  published'[Other(z)][n].source < inbox'[z][k]
      BY DEF InboxInOrder
    <2>1. CASE z = s
      <3>1. \A k \in DOMAIN Tail(inbox[s]) :
              /\ published[s][Tail(inbox[s])[k]].source = 0
              /\ \A n \in Forwarded(o) : published[o][n].source < Tail(inbox[s])[k]
        BY <1>3, <1>o DEF Ordered, InboxInOrder
      <3>2. \A k \in DOMAIN Tail(inbox[s]) : \A n \in Forwarded(o)' :
              published'[o][n].source < Tail(inbox[s])[k]
        BY <1>2, <1>3, <1>5, <1>9, <3>1
      <3> QED BY <1>3, <1>5, <1>7, <1>o, <2>1, <3>1, <3>2
    <2>2. CASE z = o
      <3>1. /\ \A k, l \in DOMAIN inbox[o] : k < l => inbox[o][k] < inbox[o][l]
            /\ \A k \in DOMAIN inbox[o] :
                 /\ published[o][inbox[o][k]].source = 0
                 /\ \A n \in Forwarded(s) : published[s][n].source < inbox[o][k]
        BY <1>1 DEF Ordered, InboxInOrder
      <3>2. \A k \in DOMAIN inbox[o] : published'[o][inbox[o][k]] = published[o][inbox[o][k]]
        BY <1>1, <1>5 DEF LogsOK
      <3>3. /\ \A k, l \in DOMAIN inbox'[o] : k < l => inbox'[o][k] < inbox'[o][l]
            /\ \A k \in DOMAIN inbox'[o] :
                 /\ published'[o][inbox'[o][k]].source = 0
                 /\ \A n \in Forwarded(s)' : published'[s][n].source < inbox'[o][k]
        <4>1. \A n \in Forwarded(s)' : n \in Forwarded(s) /\ published'[s][n] = published[s][n]
          BY <1>5, <1>9
        <4>2. \A k \in DOMAIN inbox[o] : published'[o][inbox[o][k]].source = 0
          BY <3>1, <3>2
        <4>3. \A k \in DOMAIN inbox[o] : \A n \in Forwarded(s)' :
                published'[s][n].source < inbox[o][k]
          BY <3>1, <4>1
        <4> QED BY <1>7, <3>1, <4>2, <4>3
      <3>4. Other(z) = s
        BY <1>1, <2>2
      <3> QED BY <2>2, <3>3, <3>4
    <2> QED BY <1>1, <2>1, <2>2
  <1>11. CrossesOnceInOrder'
    <2> SUFFICES ASSUME NEW z \in Sides, NEW n \in Forwarded(z)'
                 PROVE  /\ published'[Other(z)][published'[z][n].source].source = 0
                        /\ \A m \in Forwarded(z)' :
                             m < n => published'[z][m].source < published'[z][n].source
      BY DEF CrossesOnceInOrder
    <2>1. CASE z = s
      <3>1. published[s][n].source \in DOMAIN published[o]
        <4>1. n \in DOMAIN published[s] /\ published[s][n].source # 0
          BY <1>9, <2>1, ForwardedFacts
        <4>2. published[s][n].source \in 0..Len(published[o])
          BY <1>o, <4>1 DEF LogsOK
        <4> QED BY <1>5, <4>1, <4>2
      <3>2. /\ published[o][published[s][n].source].source = 0
            /\ \A m \in Forwarded(s) : m < n => published[s][m].source < published[s][n].source
        BY <1>9, <1>o, <2>1 DEF Ordered, CrossesOnceInOrder
      <3> QED BY <1>5, <1>9, <1>o, <2>1, <3>1, <3>2
    <2>2. CASE z = o /\ n = N
      <3>1. published'[o][n].source = h
        BY <1>2, <1>5, <2>2
      <3>2. \A m \in Forwarded(o)' : m < n => published'[o][m].source < h
        <4>1. \A m \in Forwarded(o) : published'[o][m].source < h
          BY <1>3, <1>9
        <4>2. ~(N < N)
          BY <1>5 DEF N
        <4> QED BY <1>9, <2>2, <4>1, <4>2
      <3> QED BY <1>1, <1>3, <1>5, <2>2, <3>1, <3>2
    <2>3. CASE z = o /\ n # N
      <3>1. n \in Forwarded(o) /\ n < N
        BY <1>9, <2>3
      <3>2. /\ published[s][published[o][n].source].source = 0
            /\ \A m \in Forwarded(o) : m < n => published[o][m].source < published[o][n].source
        BY <1>1, <3>1 DEF Ordered, CrossesOnceInOrder
      <3>3. \A m \in Forwarded(o)' : m < n => m \in Forwarded(o)
        <4>1. n \in Nat /\ N \in Nat
          BY <1>5, <3>1, ForwardedFacts DEF N
        <4> QED BY <1>9, <3>1, <4>1
      <3>4. /\ published'[o][n] = published[o][n]
            /\ \A m \in Forwarded(o) : published'[o][m] = published[o][m]
        BY <1>9, <3>1
      <3>5. published'[s][published'[o][n].source].source = 0
        BY <1>5, <3>2, <3>4
      <3>6. \A m \in Forwarded(o)' :
              m < n => published'[o][m].source < published'[o][n].source
        BY <3>2, <3>3, <3>4
      <3> QED BY <1>1, <2>3, <3>5, <3>6
    <2> QED BY <1>1, <2>1, <2>2, <2>3
  <1> QED BY <1>6, <1>8, <1>10, <1>11 DEF Ordered

\* Others publish at the broker of s, and the endpoint may be subscribed to it.
LEMMA PublishedThere ==
  ASSUME LogsOK, Ordered, NEW s \in Sides, NEW m, IsTopic(m.topic), m.source = 0,
         published' = [published EXCEPT ![s] = Append(@, m)],
         NEW q, q = inbox[s] \/ q = Append(inbox[s], Len(published[s]) + 1),
         inbox' = [inbox EXCEPT ![s] = q]
  PROVE  /\ LogsOK' /\ Ordered'
         /\ \A z \in Sides : DOMAIN published[z] \subseteq DOMAIN published'[z]
  <1> DEFINE o == Other(s)
             N == Len(published[s]) + 1
  <1>1. /\ o \in Sides /\ o # s /\ Other(o) = s /\ \A z \in Sides : z = s \/ z = o
    BY Opposites DEF Sides, Other
  <1>o. Other(s) = o
    OBVIOUS
  <1>n. Len(published[s]) + 1 = N
    OBVIOUS
  <1> HIDE DEF o, N
  <1>2. 0 \in 0..Len(published[o])
    <2>1. Len(published[o]) \in Nat
      BY <1>1, SequenceFacts DEF LogsOK
    <2> QED BY <2>1
  <1>3. /\ published' = [z \in Sides |-> published'[z]]
        /\ published'[o] = published[o]
        /\ published'[s][N] = m
        /\ \A n \in DOMAIN published[s] : published'[s][n] = published[s][n]
        /\ DOMAIN published'[s] = DOMAIN published[s] \cup {N}
        /\ DOMAIN published[s] = 1..Len(published[s])
        /\ Len(published[s]) \in Nat
        /\ \A z \in Sides :
             /\ IsSequence(published'[z])
             /\ \A n \in DOMAIN published'[z] :
                  /\ published'[z][n].source \in 0..Len(published'[Other(z)])
                  /\ IsTopic(published'[z][n].topic)
    BY <1>2, <1>o, OneMore DEF N
  <1>4. \A z \in Sides : DOMAIN published[z] \subseteq DOMAIN published'[z]
    BY <1>1, <1>3
  <1>5. N \in Nat /\ \A n \in DOMAIN published[s] : n < N
    BY <1>3 DEF N
  <1>6. /\ inbox[s] \in Seq(Nat) /\ inbox[o] \in Seq(Nat)
        /\ \A k \in DOMAIN inbox[s] : inbox[s][k] \in DOMAIN published[s]
        /\ \A k \in DOMAIN inbox[o] : inbox[o][k] \in DOMAIN published[o]
    BY <1>1 DEF LogsOK
  <1> DEFINE L == Len(inbox[s]) + 1
  <1>7. /\ q \in Seq(Nat)
        /\ \A k \in DOMAIN q : \/ k \in DOMAIN inbox[s] /\ q[k] = inbox[s][k]
                               \/ k = L /\ q[k] = N
        /\ L \in Nat /\ \A k \in DOMAIN inbox[s] : k \in Nat /\ k < L
    <2>1. N \in Nat
      BY <1>5
    <2>2. /\ L \in Nat
          /\ DOMAIN inbox[s] = 1..Len(inbox[s])
          /\ Len(inbox[s]) \in Nat
      BY <1>6
    <2> DEFINE p == Append(inbox[s], N)
    <2>3. /\ p \in Seq(Nat)
          /\ DOMAIN p = 1..L
          /\ p[L] = N
          /\ \A k \in 1..Len(inbox[s]) : p[k] = inbox[s][k]
      BY <1>6, <2>1
    <2>4. q = inbox[s] \/ q = p
      BY <1>n
    <2> HIDE DEF p, L
    <2>5. /\ L = Len(inbox[s]) + 1
          /\ \A k \in DOMAIN inbox[s] : k \in Nat /\ k < L
          /\ \A k \in 1..L : k \in DOMAIN inbox[s] \/ k = L
      BY <2>2 DEF L
    <2>6. CASE q = inbox[s]
      BY <1>6, <2>2, <2>5, <2>6
    <2>7. CASE q = p
      BY <2>2, <2>3, <2>5, <2>7
    <2> QED BY <2>4, <2>6, <2>7
  <1> HIDE DEF L
  <1>8. /\ inbox' \in [Sides -> Seq(Nat)]
        /\ inbox'[s] = q
        /\ inbox'[o] = inbox[o]
    BY <1>1, <1>7 DEF LogsOK
  <1>9. LogsOK'
    <2>1. ASSUME NEW z \in Sides, NEW k \in DOMAIN inbox'[z]
          PROVE  inbox'[z][k] \in DOMAIN published'[z]
      <3>1. CASE z = s
        BY <1>3, <1>6, <1>7, <1>8, <3>1
      <3>2. CASE z = o
        BY <1>3, <1>6, <1>8, <3>2
      <3> QED BY <1>1, <3>1, <3>2
    <2> QED BY <1>3, <1>8, <2>1 DEF LogsOK
  <1>10. \A z \in Sides : \A n : n \in Forwarded(z)' <=> n \in Forwarded(z)
    <2>1. /\ \A n : n \in Forwarded(s)' <=>
               n \in DOMAIN published'[s] /\ published'[s][n].source # 0
          /\ \A n : n \in Forwarded(o)' <=>
               n \in DOMAIN published[o] /\ published[o][n].source # 0
      BY <1>3 DEF Forwarded, FromOthers
    <2>2. /\ \A n : n \in Forwarded(s) <=>
               n \in DOMAIN published[s] /\ published[s][n].source # 0
          /\ \A n : n \in Forwarded(o) <=>
               n \in DOMAIN published[o] /\ published[o][n].source # 0
      BY ForwardedFacts
    <2>3. \A n : n \in Forwarded(s)' <=> n \in Forwarded(s)
      BY <1>3, <1>5, <2>1, <2>2
    <2>4. \A n : n \in Forwarded(o)' <=> n \in Forwarded(o)
      BY <2>1, <2>2
    <2> QED BY <1>1, <2>3, <2>4
  <1>11. \A z \in Sides : \A n \in DOMAIN published[z] : published'[z][n] = published[z][n]
    BY <1>1, <1>3
  <1>12. /\ \A z \in Sides : \A n \in Forwarded(z) :
              /\ n \in DOMAIN published[z]
              /\ published'[z][n] = published[z][n]
              /\ published[z][n].source \in DOMAIN published[Other(z)]
    <2> SUFFICES ASSUME NEW z \in Sides, NEW n \in Forwarded(z)
                 PROVE  /\ n \in DOMAIN published[z]
                        /\ published'[z][n] = published[z][n]
                        /\ published[z][n].source \in DOMAIN published[Other(z)]
      OBVIOUS
    <2>1. n \in DOMAIN published[z] /\ published[z][n].source # 0
      BY ForwardedFacts
    <2>2. /\ Len(published[Other(z)]) \in Nat
          /\ DOMAIN published[Other(z)] = 1..Len(published[Other(z)])
      BY Opposites, SequenceFacts DEF LogsOK
    <2>3. published[z][n].source \in 0..Len(published[Other(z)])
      BY <2>1 DEF LogsOK
    <2> QED BY <1>11, <2>1, <2>2, <2>3
  <1>13. InboxInOrder'
    <2> SUFFICES ASSUME NEW z \in Sides
                 PROVE  /\ \A k, l \in DOMAIN inbox'[z] : k < l => inbox'[z][k] < inbox'[z][l]
                        /\ \A k \in DOMAIN inbox'[z] :
                             /\ published'[z][inbox'[z][k]].source = 0
                             /\ \A n \in Forwarded(Other(z))' :
                                  published'[Other(z)][n].source < inbox'[z][k]
      BY DEF InboxInOrder
    <2>1. CASE z = s
      <3>1. /\ \A k, l \in DOMAIN inbox[s] : k < l => inbox[s][k] < inbox[s][l]
            /\ \A k \in DOMAIN inbox[s] :
                 /\ published[s][inbox[s][k]].source = 0
                 /\ \A n \in Forwarded(o) : published[o][n].source < inbox[s][k]
        BY <1>o DEF Ordered, InboxInOrder
      <3>2. \A n \in Forwarded(o)' :
              /\ n \in Forwarded(o)
              /\ published'[o][n] = published[o][n]
              /\ published[o][n].source < N
        BY <1>1, <1>3, <1>5, <1>10, <1>12
      <3>3. \A k, l \in DOMAIN q : k < l => q[k] < q[l]
        <4> SUFFICES ASSUME NEW k \in DOMAIN q, NEW l \in DOMAIN q, k < l
                     PROVE  q[k] < q[l]
          OBVIOUS
        <4>1. k \in DOMAIN inbox[s] /\ q[k] = inbox[s][k]
          BY <1>7
        <4>2. inbox[s][k] < N
          BY <1>5, <1>6, <4>1
        <4>3. CASE l \in DOMAIN inbox[s] /\ q[l] = inbox[s][l]
          BY <3>1, <4>1, <4>3
        <4>4. CASE q[l] = N
          BY <4>1, <4>2, <4>4
        <4> QED BY <1>7, <4>3, <4>4
      <3>4. \A k \in DOMAIN q : published'[s][q[k]].source = 0
        BY <1>3, <1>6, <1>7, <3>1
      <3>5. \A k \in DOMAIN q : \A n \in Forwarded(o)' : published'[o][n].source < q[k]
        BY <1>7, <3>1, <3>2
      <3> QED BY <1>8, <1>o, <2>1, <3>3, <3>4, <3>5
    <2>2. CASE z = o
      <3>1. /\ \A k, l \in DOMAIN inbox[o] : k < l => inbox[o][k] < inbox[o][l]
            /\ \A k \in DOMAIN inbox[o] :
                 /\ published[o][inbox[o][k]].source = 0
                 /\ \A n \in Forwarded(s) : published[s][n].source < inbox[o][k]
        BY <1>1 DEF Ordered, InboxInOrder
      <3>2. \A n \in Forwarded(s)' : n \in Forwarded(s) /\ published'[s][n] = published[s][n]
        BY <1>10, <1>12
      <3>3. \A k \in DOMAIN inbox[o] : \A n \in Forwarded(s)' :
              published'[s][n].source < inbox[o][k]
        BY <3>1, <3>2
      <3>4. Other(z) = s
        BY <1>1, <2>2
      <3>5. \A k \in DOMAIN inbox'[o] :
              /\ published'[o][inbox'[o][k]].source = 0
              /\ \A n \in Forwarded(s)' : published'[s][n].source < inbox'[o][k]
        BY <1>3, <1>8, <3>1, <3>3
      <3>6. \A k, l \in DOMAIN inbox'[o] : k < l => inbox'[o][k] < inbox'[o][l]
        BY <1>8, <3>1
      <3> QED BY <2>2, <3>4, <3>5, <3>6
    <2> QED BY <1>1, <2>1, <2>2
  <1>14. CrossesOnceInOrder'
    <2> SUFFICES ASSUME NEW z \in Sides, NEW n \in Forwarded(z)'
                 PROVE  /\ published'[Other(z)][published'[z][n].source].source = 0
                        /\ \A k \in Forwarded(z)' :
                             k < n => published'[z][k].source < published'[z][n].source
      BY DEF CrossesOnceInOrder
    <2>1. n \in Forwarded(z) /\ \A k \in Forwarded(z)' : k \in Forwarded(z)
      BY <1>10
    <2>2. /\ published[Other(z)][published[z][n].source].source = 0
          /\ \A k \in Forwarded(z) : k < n => published[z][k].source < published[z][n].source
      BY <2>1 DEF Ordered, CrossesOnceInOrder
    <2>3. \A k \in Forwarded(z) : published'[z][k] = published[z][k]
      BY <1>12
    <2>4. published'[Other(z)][published'[z][n].source].source = 0
      <3>1. published[z][n].source \in DOMAIN published[Other(z)]
        BY <1>12, <2>1
      <3>2. published'[Other(z)][published[z][n].source]
              = published[Other(z)][published[z][n].source]
        BY <1>11, <3>1, Opposites
      <3> QED BY <2>1, <2>2, <2>3, <3>2
    <2>5. \A k \in Forwarded(z)' :
            k < n => published'[z][k].source < published'[z][n].source
      BY <2>1, <2>2, <2>3
    <2> QED BY <2>4, <2>5
  <1> QED BY <1>4, <1>9, <1>13, <1>14 DEF Ordered

\* The recorder adds a row about the message, or none.
LEMMA RowsStayOK ==
  ASSUME RowsOK, \A z \in Sides : DOMAIN published[z] \subseteq DOMAIN published'[z],
         rows' = rows
  PROVE  RowsOK'
  BY DEF RowsOK

LEMMA RowAdded ==
  ASSUME RowsOK, \A z \in Sides : DOMAIN published[z] \subseteq DOMAIN published'[z],
         NEW r, rows' = Append(rows, r),
         r.side \in Sides, r.source \in DOMAIN published[r.side],
         \E t : r.context = Context(t),
         IsName(r.context.manufacturer), IsName(r.context.serialNumber),
         r.robotId = RobotId(r.context)
  PROVE  RowsOK'
  <1>1. /\ IsSequence(rows')
        /\ DOMAIN rows' = DOMAIN rows \cup {Len(rows) + 1}
        /\ rows'[Len(rows) + 1] = r
        /\ \A n \in DOMAIN rows : rows'[n] = rows[n]
    BY AppendFacts DEF RowsOK
  <1>2. ASSUME NEW n \in DOMAIN rows'
        PROVE  /\ rows'[n].side \in Sides
               /\ rows'[n].source \in DOMAIN published'[rows'[n].side]
               /\ \E t : rows'[n].context = Context(t)
               /\ IsName(rows'[n].context.manufacturer)
               /\ IsName(rows'[n].context.serialNumber)
               /\ rows'[n].robotId = RobotId(rows'[n].context)
    <2>1. CASE n \in DOMAIN rows
      <3>1. rows'[n] = rows[n]
        BY <1>1, <2>1
      <3>2. /\ rows[n].side \in Sides
            /\ rows[n].source \in DOMAIN published[rows[n].side]
            /\ \E t : rows[n].context = Context(t)
            /\ IsName(rows[n].context.manufacturer)
            /\ IsName(rows[n].context.serialNumber)
            /\ rows[n].robotId = RobotId(rows[n].context)
        BY <2>1 DEF RowsOK
      <3>3. rows[n].source \in DOMAIN published'[rows[n].side]
        BY <3>2
      <3> QED BY <3>1, <3>2, <3>3, Zenon
    <2>2. CASE n = Len(rows) + 1
      <3>1. rows'[n] = r
        BY <1>1, <2>2
      <3> QED BY <3>1, Zenon
    <2> QED BY <1>1, <2>1, <2>2
  <1> QED BY <1>1, <1>2, Zenon DEF RowsOK

\* A message at the broker of s that is what has become of another one.
IsCopy(copy, original, s) ==
  /\ copy.topic = original.topic
  /\ copy.topic[5] \in Suffixes(Other(s))
  /\ PayloadParses(original.payload)
  /\ copy.payload = Pruned(Parsed(original.payload))

\* A row that says what the message says, and whose it is.
IsRowOf(row, m) ==
  m.source = 0 /\ PayloadParses(m.payload) /\ row.payload = Parsed(m.payload)

IsNamed(row) ==
  /\ \E t : row.context = Context(t)
  /\ IsName(row.context.manufacturer)
  /\ IsName(row.context.serialNumber)
  /\ row.robotId = RobotId(row.context)

\* What the handlers do with the first message of an inbox, and whether there is
\* something to record in it.
Records(s) == HasEntities(Parsed(published[s][Head(inbox[s])].payload))

RowWritten(s) ==
  \E r : /\ rows' = Append(rows, r)
         /\ r.side = s /\ r.source = Head(inbox[s])
         /\ IsNamed(r)
         /\ IsRowOf(r, published[s][Head(inbox[s])])

CopySent(s) ==
  \E c : /\ IsTopic(c.topic)
         /\ c.source = Head(inbox[s])
         /\ IsCopy(c, published[s][Head(inbox[s])], Other(s))
         /\ published' = [published EXCEPT ![Other(s)] = Append(@, c)]

\* The copy keeps its topic, and the endpoint it is published by does not receive it.
LEMMA HandlersDo ==
  ASSUME IInv, NEW s \in Sides, inbox[s] # <<>>,
         Accepted(s, published[s][Head(inbox[s])]),
         NEW isRecorded \in BOOLEAN, NEW isSent \in BOOLEAN,
         Handlers(s, Head(inbox[s]), Tail(inbox[s]), isRecorded, isSent)
  PROVE  /\ Taken(s)
         /\ IF isRecorded /\ Records(s) THEN RowWritten(s) ELSE rows' = rows
         /\ IF isSent THEN CopySent(s) ELSE published' = published
  <1> DEFINE n == Head(inbox[s])
             m == published[s][n]
             context == Context(m.topic)
             topic == Topic(context, m.topic[5])
             row == [side |-> s, source |-> n, context |-> context,
                     robotId |-> RobotId(context), payload |-> Parsed(m.payload)]
             copy == Message(topic, Pruned(Parsed(m.payload)), n)
  <1>1. LogsOK /\ RowsOK /\ Ordered
    BY DEF IInv
  <1>2. /\ rows' = IF isRecorded /\ Records(s) THEN Append(rows, row) ELSE rows
        /\ published' = IF isSent THEN [published EXCEPT ![Other(s)] = Append(@, copy)]
                                  ELSE published
        /\ inbox' = [inbox EXCEPT ![s] = Tail(inbox[s]),
                                  ![Other(s)] = IF isSent THEN Received(Other(s), topic, @)
                                                          ELSE @]
    BY DEF Handlers, Records
  <1>3. n \in DOMAIN published[s] /\ m.source = 0
    BY <1>1, FirstInInbox
  <1>4. IsTopic(m.topic)
    BY <1>1, <1>3 DEF LogsOK
  <1>5. PICK x \in Suffixes(s) : TopicParses(m.topic, x)
    BY DEF Accepted
  <1>6. topic = m.topic /\ IsName(context.manufacturer) /\ IsName(context.serialNumber)
    BY <1>4, <1>5, TopicRoundTrip
  <1>7. ~Subscribed(Other(s), topic)
    BY <1>4, <1>6, CopyIsNotReceived
  <1>8. Taken(s)
    <2>1. inbox' = [inbox EXCEPT ![s] = Tail(inbox[s]), ![Other(s)] = @]
      BY <1>2, <1>7 DEF Received
    <2>2. inbox \in [Sides -> Seq(Nat)]
      BY <1>1 DEF LogsOK
    <2>3. inbox[s] \in Seq(Nat)
      BY <2>2
    <2>4. Tail(inbox[s]) \in Seq(Nat)
      BY <2>3, TailFacts
    <2> QED BY <2>1, <2>2, <2>4, Opposites DEF Taken
  <1>9. m.topic[5] \in Suffixes(s) /\ PayloadParses(m.payload)
    BY <1>5 DEF TopicParses, Accepted
  <1>10. ASSUME isRecorded, Records(s) PROVE RowWritten(s)
    <2>1. /\ row.side = s /\ row.source = n /\ row.payload = Parsed(m.payload)
          /\ row.context = context /\ row.robotId = RobotId(context)
      OBVIOUS
    <2>2. rows' = Append(rows, row)
      BY <1>2, <1>10
    <2> HIDE DEF row
    <2>3. IsRowOf(row, m)
      BY <1>3, <1>9, <2>1 DEF IsRowOf
    <2>4. IsNamed(row)
      <3>1. \E t : row.context = Context(t)
        BY <2>1
      <3> HIDE DEF context
      <3> QED BY <1>6, <2>1, <3>1 DEF IsNamed
    <2> QED BY <2>1, <2>2, <2>3, <2>4 DEF RowWritten
  <1>11. ASSUME isSent PROVE CopySent(s)
    <2>1. /\ copy.topic = topic /\ copy.source = n
          /\ copy.payload = Pruned(Parsed(m.payload))
      BY DEF Message
    <2>2. published' = [published EXCEPT ![Other(s)] = Append(@, copy)]
      BY <1>2, <1>11
    <2> HIDE DEF copy, topic
    <2>3. IsCopy(copy, m, Other(s))
      BY <1>6, <1>9, <2>1, Opposites DEF IsCopy
    <2> QED BY <1>4, <1>6, <2>1, <2>2, <2>3 DEF CopySent
  <1> QED BY <1>2, <1>8, <1>10, <1>11

\* A message is recorded, forwarded, both or neither.
LEMMA HandlersKeep ==
  ASSUME IInv, NEW s \in Sides, inbox[s] # <<>>,
         Accepted(s, published[s][Head(inbox[s])]),
         NEW isRecorded \in BOOLEAN, NEW isSent \in BOOLEAN,
         Handlers(s, Head(inbox[s]), Tail(inbox[s]), isRecorded, isSent)
  PROVE  LogsOK' /\ RowsOK' /\ Ordered'
  <1>1. LogsOK /\ RowsOK /\ Ordered
    BY DEF IInv
  <1>2. /\ Taken(s)
        /\ IF isRecorded /\ Records(s) THEN RowWritten(s) ELSE rows' = rows
        /\ IF isSent THEN CopySent(s) ELSE published' = published
    BY HandlersDo
  <1>3. /\ LogsOK' /\ Ordered'
        /\ \A z \in Sides : DOMAIN published[z] \subseteq DOMAIN published'[z]
    <2>1. CASE isSent
      <3>1. Sent(s)
        BY <1>2, <2>1 DEF CopySent, Sent
      <3> QED BY <1>1, <1>2, <3>1, TakenAndSent
    <2>2. CASE ~isSent
      BY <1>1, <1>2, <2>2, TakenOnly
    <2> QED BY <2>1, <2>2
  <1>4. RowsOK'
    <2>1. CASE isRecorded /\ Records(s)
      <3>1. PICK r : /\ rows' = Append(rows, r)
                     /\ r.side = s /\ r.source = Head(inbox[s])
                     /\ IsNamed(r)
        BY <1>2, <2>1 DEF RowWritten
      <3>2. r.side \in Sides /\ r.source \in DOMAIN published[r.side]
        BY <1>1, <3>1, FirstInInbox
      <3> QED BY <1>1, <1>3, <3>1, <3>2, RowAdded DEF IsNamed
    <2>2. CASE ~(isRecorded /\ Records(s))
      BY <1>1, <1>2, <1>3, <2>2, RowsStayOK
    <2> QED BY <2>1, <2>2
  <1> QED BY <1>3, <1>4

-----------------------------------------------------------------------------
(* The steps.                                                              *)

LEMMA InitIInv == Init => IInv
  <1> SUFFICES ASSUME Init PROVE IInv
    OBVIOUS
  <1>1. \A s \in Sides : published[s] = <<>> /\ inbox[s] = <<>>
    BY DEF Init
  <1>2. \A s : Other(s) \in Sides
    BY DEF Other, Sides
  <1>3. IsSequence(<<>>)
    <2>1. <<>> \in Seq({})
      OBVIOUS
    <2> QED BY <2>1, AnySequence
  <1>4. DOMAIN <<>> = {}
    OBVIOUS
  <1>5. RestOK
    BY BoundsAssumption DEF Init, RestOK
  <1>6. LogsOK
    <2>1. inbox \in [Sides -> Seq(Nat)]
      BY DEF Init
    <2>2. published = [s \in Sides |-> published[s]]
      BY DEF Init
    <2> QED BY <1>1, <1>3, <1>4, <2>1, <2>2 DEF LogsOK
  <1>7. RowsOK
    BY <1>3, <1>4 DEF Init, RowsOK
  <1>8. \A s \in Sides : Forwarded(s) = {}
    BY <1>1, <1>4 DEF Forwarded
  <1>9. Ordered
    BY <1>1, <1>2, <1>4, <1>8 DEF Ordered, InboxInOrder, CrossesOnceInOrder
  <1> QED BY <1>5, <1>6, <1>7, <1>9 DEF IInv

LEMMA UnchangedLogs ==
  ASSUME LogsOK, RowsOK, Ordered, UNCHANGED <<published, inbox, rows>>
  PROVE  LogsOK' /\ RowsOK' /\ Ordered'
  <1>1. \A z : Forwarded(z)' = Forwarded(z)
    BY DEF Forwarded, FromOthers
  <1> QED BY <1>1 DEF LogsOK, RowsOK, Ordered, InboxInOrder, CrossesOnceInOrder

LEMMA PublishKeeps ==
  ASSUME IInv, NEW x \in Traffic \cup LoneTraffic, Publish(x)
  PROVE  IInv'
  <1> DEFINE s == x.side
             m == Message(x.topic, x.payload, 0)
             q == Received(s, x.topic, inbox[s])
  <1>1. s \in Sides /\ IsTopic(x.topic)
    BY TrafficFacts
  <1>2. m.topic = x.topic /\ m.source = 0
    BY DEF Message
  <1>3. /\ published' = [published EXCEPT ![s] = Append(@, m)]
        /\ inbox' = [inbox EXCEPT ![s] = q]
        /\ UNCHANGED <<prefix, started, rows, faults>>
    BY DEF Publish
  <1>4. q = inbox[s] \/ q = Append(inbox[s], Len(published[s]) + 1)
    BY DEF Received
  <1>5. LogsOK /\ RowsOK /\ Ordered /\ RestOK
    BY DEF IInv
  <1> HIDE DEF s, m, q
  <1>6. IsTopic(m.topic)
    BY <1>1, <1>2
  <1>7. /\ LogsOK' /\ Ordered'
        /\ \A z \in Sides : DOMAIN published[z] \subseteq DOMAIN published'[z]
    BY <1>1, <1>2, <1>3, <1>4, <1>5, <1>6, PublishedThere
  <1>8. RowsOK'
    BY <1>3, <1>5, <1>7, RowsStayOK
  <1>9. RestOK'
    BY <1>3, <1>5 DEF RestOK
  <1> QED BY <1>7, <1>8, <1>9 DEF IInv

\* The first message of an inbox is gone, and nothing has come of it.
LEMMA DropKeeps ==
  ASSUME IInv, NEW s \in Sides, inbox[s] # <<>>,
         inbox' = [inbox EXCEPT ![s] = Tail(inbox[s])],
         UNCHANGED <<published, rows>>
  PROVE  LogsOK' /\ RowsOK' /\ Ordered'
  <1>1. LogsOK /\ RowsOK /\ Ordered
    BY DEF IInv
  <1>2. Taken(s)
    <2>1. inbox \in [Sides -> Seq(Nat)]
      BY <1>1 DEF LogsOK
    <2>2. inbox[s] \in Seq(Nat)
      BY <2>1
    <2>3. Tail(inbox[s]) \in Seq(Nat)
      BY <2>2, TailFacts
    <2> QED BY <2>1, <2>3, Opposites DEF Taken
  <1>3. LogsOK' /\ Ordered'
    BY <1>1, <1>2, TakenOnly
  <1>4. RowsOK'
    BY <1>1, RowsStayOK
  <1> QED BY <1>3, <1>4

LEMMA NextIInv == IInv /\ [Next]_vars => IInv'
  <1> SUFFICES ASSUME IInv, [Next]_vars PROVE IInv'
    OBVIOUS
  <1>1. LogsOK /\ RowsOK /\ Ordered /\ RestOK
    BY DEF IInv
  <1>2. CASE Start
    <2>1. LogsOK' /\ RowsOK' /\ Ordered'
      BY <1>1, <1>2, UnchangedLogs DEF Start
    <2>2. RestOK'
      BY <1>1, <1>2 DEF Start, RestOK
    <2> QED BY <2>1, <2>2 DEF IInv
  <1>3. CASE OtherPublishes
    BY <1>3, PublishKeeps DEF OtherPublishes
  <1>4. CASE OtherPublishesOnce
    BY <1>4, PublishKeeps DEF OtherPublishesOnce
  <1>5. ASSUME NEW s \in Sides, Lose(s) PROVE IInv'
    <2>1. LogsOK' /\ RowsOK' /\ Ordered'
      BY <1>5, DropKeeps DEF Lose
    <2>2. RestOK'
      BY <1>1, <1>5, BoundsAssumption DEF Lose, RestOK
    <2> QED BY <2>1, <2>2 DEF IInv
  <1>6. ASSUME NEW s \in Sides, Handle(s) PROVE IInv'
    <2>1. LogsOK' /\ RowsOK' /\ Ordered'
      <3>1. inbox[s] # <<>> /\ HandleOne(s, Head(inbox[s]), Tail(inbox[s]))
        BY <1>6 DEF Handle
      <3>2. CASE Accepted(s, published[s][Head(inbox[s])])
        BY <3>1, <3>2, HandlersKeep DEF HandleOne
      <3>3. CASE ~Accepted(s, published[s][Head(inbox[s])])
        BY <3>1, <3>3, DropKeeps DEF HandleOne
      <3> QED BY <3>2, <3>3
    <2>2. RestOK'
      BY <1>1, <1>6 DEF Handle, HandleOne, RestOK
    <2> QED BY <2>1, <2>2 DEF IInv
  <1>7. ASSUME NEW s \in Sides, HandleFails(s) PROVE IInv'
    <2>1. LogsOK' /\ RowsOK' /\ Ordered'
      BY <1>7, HandlersKeep DEF HandleFails
    <2>2. RestOK'
      BY <1>1, <1>7, BoundsAssumption DEF HandleFails, RestOK
    <2> QED BY <2>1, <2>2 DEF IInv
  <1>8. CASE UNCHANGED vars
    <2>1. LogsOK' /\ RowsOK' /\ Ordered'
      BY <1>1, <1>8, UnchangedLogs DEF vars
    <2>2. RestOK'
      BY <1>1, <1>8 DEF vars, RestOK
    <2> QED BY <2>1, <2>2 DEF IInv
  <1> QED BY <1>2, <1>3, <1>4, <1>5, <1>6, <1>7, <1>8 DEF Next

-----------------------------------------------------------------------------
(* What follows from the invariant.                                        *)

LEMMA IInvTypeOK == IInv => TypeOK
  <1> SUFFICES ASSUME IInv PROVE TypeOK
    OBVIOUS
  <1>1. ASSUME NEW s \in Sides, NEW n \in DOMAIN published[s]
        PROVE  /\ published[s][n].source \in 0..Len(published[Other(s)])
               /\ Len(published[s][n].topic) > 0
    <2>1. /\ published[s][n].source \in 0..Len(published[Other(s)])
          /\ IsTopic(published[s][n].topic)
      BY DEF IInv, LogsOK
    <2> DEFINE t == published[s][n].topic
    <2> HIDE DEF t
    <2>2. t \in Seq({t[k] : k \in DOMAIN t}) /\ t # <<>>
      BY <2>1 DEF IsTopic, IsSequence, t
    <2>3. Len(t) > 0
      BY <2>2, EmptySeq
    <2> QED BY <2>1, <2>3 DEF t
  <1>2. \A s \in Sides : \A n \in DOMAIN inbox[s] : inbox[s][n] \in DOMAIN published[s]
    BY DEF IInv, LogsOK
  <1>3. \A n \in DOMAIN rows :
          /\ rows[n].source \in DOMAIN published[rows[n].side]
          /\ rows[n].context.manufacturer # <<>>
          /\ rows[n].context.serialNumber # <<>>
    BY DEF IInv, RowsOK, IsName
  <1> QED BY <1>1, <1>2, <1>3 DEF IInv, RestOK, TypeOK

\* A robot_id is two names with a "." between them.
IsJoined(e, a, b) == e = a \o <<".">> \o b

LEMMA JoinedNames ==
  ASSUME NEW a, IsSequence(a), NEW b, IsSequence(b), NEW e, IsJoined(e, a, b)
  PROVE  /\ Len(e) = Len(a) + 1 + Len(b)
         /\ \A i \in 1..Len(a) : e[i] = a[i]
         /\ e[Len(a) + 1] = "."
         /\ \A i \in 1..Len(b) : e[Len(a) + 1 + i] = b[i]
  <1> DEFINE S == {a[n] : n \in DOMAIN a} \cup {b[n] : n \in DOMAIN b} \cup {"."}
             d == <<".">>
             f == a \o d
  <1>1. a \in Seq(S) /\ b \in Seq(S)
    BY SeqMonotonic DEF IsSequence
  <1>2. d \in Seq(S) /\ Len(d) = 1 /\ d[1] = "."
    OBVIOUS
  <1>3. e = f \o b
    BY DEF IsJoined
  <1> HIDE DEF S, d
  <1>4. /\ f \in Seq(S)
        /\ Len(f) = Len(a) + Len(d)
        /\ \A i \in 1..(Len(a) + Len(d)) :
             f[i] = IF i <= Len(a) THEN a[i] ELSE d[i - Len(a)]
    BY <1>1, <1>2, ConcatProperties
  <1> HIDE DEF f
  <1>5. /\ Len(e) = Len(f) + Len(b)
        /\ \A i \in 1..(Len(f) + Len(b)) :
             e[i] = IF i <= Len(f) THEN f[i] ELSE b[i - Len(f)]
    <2>1. f \in Seq(S) /\ b \in Seq(S)
      BY <1>1, <1>4
    <2>2. /\ Len(f \o b) = Len(f) + Len(b)
          /\ \A i \in 1..(Len(f) + Len(b)) :
               (f \o b)[i] = IF i <= Len(f) THEN f[i] ELSE b[i - Len(f)]
      BY <2>1, ConcatProperties
    <2> QED BY <1>3, <2>2
  <1>6. Len(a) \in Nat /\ Len(b) \in Nat
    BY <1>1
  <1>7. /\ Len(f) = Len(a) + 1
        /\ \A i \in 1..Len(a) : f[i] = a[i]
        /\ f[Len(a) + 1] = "."
    BY <1>2, <1>4, <1>6
  <1>8. Len(e) = Len(a) + 1 + Len(b)
    BY <1>5, <1>6, <1>7
  <1>9. \A i \in 1..Len(a) : e[i] = a[i]
    BY <1>5, <1>6, <1>7
  <1>10. e[Len(a) + 1] = "."
    <2>1. Len(a) + 1 \in 1..(Len(f) + Len(b))
      BY <1>6, <1>7
    <2>2. e[Len(a) + 1] = f[Len(a) + 1]
      BY <1>5, <1>6, <1>7, <2>1
    <2> QED BY <1>7, <2>2
  <1>11. \A i \in 1..Len(b) : e[Len(a) + 1 + i] = b[i]
    BY <1>5, <1>6, <1>7
  <1> QED BY <1>8, <1>9, <1>10, <1>11

\* It can be read back when the first name has no ".".
LEMMA FirstNamesAgree ==
  ASSUME NEW a, IsSequence(a), NEW b, IsSequence(b),
         NEW c, IsSequence(c), NEW d, IsSequence(d),
         NEW e, IsJoined(e, a, b), IsJoined(e, c, d),
         \A n \in DOMAIN a : a[n] # ".",
         \A n \in DOMAIN c : c[n] # "."
  PROVE  a = c /\ b = d
  <1>2. /\ Len(e) = Len(a) + 1 + Len(b)
        /\ \A i \in 1..Len(a) : e[i] = a[i]
        /\ e[Len(a) + 1] = "."
        /\ \A i \in 1..Len(b) : e[Len(a) + 1 + i] = b[i]
    BY JoinedNames
  <1>3. /\ Len(e) = Len(c) + 1 + Len(d)
        /\ \A i \in 1..Len(c) : e[i] = c[i]
        /\ e[Len(c) + 1] = "."
        /\ \A i \in 1..Len(d) : e[Len(c) + 1 + i] = d[i]
    BY JoinedNames
  <1>4. /\ Len(a) \in Nat /\ Len(b) \in Nat /\ Len(c) \in Nat /\ Len(d) \in Nat
        /\ DOMAIN a = 1..Len(a) /\ DOMAIN c = 1..Len(c)
    BY SequenceFacts
  <1>5. ~(Len(a) < Len(c))
    <2> SUFFICES ASSUME Len(a) < Len(c) PROVE FALSE
      OBVIOUS
    <2>1. Len(a) + 1 \in 1..Len(c)
      BY <1>4
    <2> QED BY <1>2, <1>3, <1>4, <2>1
  <1>6. ~(Len(c) < Len(a))
    <2> SUFFICES ASSUME Len(c) < Len(a) PROVE FALSE
      OBVIOUS
    <2>1. Len(c) + 1 \in 1..Len(a)
      BY <1>4
    <2> QED BY <1>2, <1>3, <1>4, <2>1
  <1>7. Len(a) = Len(c) /\ Len(b) = Len(d)
    <2>1. Len(a) = Len(c)
      <3>1. \A k, l \in Nat : ~(k < l) /\ ~(l < k) => k = l
        OBVIOUS
      <3> QED BY <1>4, <1>5, <1>6, <3>1, Zenon
    <2>2. Len(a) + 1 + Len(b) = Len(c) + 1 + Len(d)
      <3>1. Len(e) = Len(a) + 1 + Len(b)
        BY <1>2
      <3>2. Len(e) = Len(c) + 1 + Len(d)
        BY <1>3
      <3> QED BY <3>1, <3>2
    <2> QED BY <1>4, <2>1, <2>2
  <1>8. \A i \in 1..Len(a) : a[i] = c[i]
    BY <1>2, <1>3, <1>7
  <1>9. \A i \in 1..Len(b) : b[i] = d[i]
    BY <1>2, <1>3, <1>7
  <1> QED BY <1>7, <1>8, <1>9, SameElements

LEMMA IInvRobotId == IInv => RobotIdTellsApart
  <1> SUFFICES ASSUME IInv, NEW m \in DOMAIN rows, NEW n \in DOMAIN rows,
                      rows[m].robotId = rows[n].robotId,
                      \A k \in {m, n} : \A i \in DOMAIN rows[k].context.manufacturer :
                        rows[k].context.manufacturer[i] # "."
               PROVE  rows[m].context = rows[n].context
    BY DEF RobotIdTellsApart
  <1> DEFINE a == rows[m].context.manufacturer
             b == rows[m].context.serialNumber
             c == rows[n].context.manufacturer
             d == rows[n].context.serialNumber
             e == rows[m].robotId
  <1>1. IsSequence(a) /\ IsSequence(b) /\ IsSequence(c) /\ IsSequence(d)
    BY DEF IInv, RowsOK, IsName
  <1>2. IsJoined(e, a, b) /\ IsJoined(e, c, d)
    BY DEF IInv, RowsOK, RobotId, IsJoined
  <1>3. (\A i \in DOMAIN a : a[i] # ".") /\ (\A i \in DOMAIN c : c[i] # ".")
    OBVIOUS
  <1> HIDE DEF a, b, c, d, e
  <1>4. a = c /\ b = d
    BY <1>1, <1>2, <1>3, FirstNamesAgree
  <1>5. /\ rows[m].context = [manufacturer |-> a, serialNumber |-> b]
        /\ rows[n].context = [manufacturer |-> c, serialNumber |-> d]
    <2>1. ASSUME NEW k \in DOMAIN rows
          PROVE  rows[k].context = [manufacturer |-> rows[k].context.manufacturer,
                                    serialNumber |-> rows[k].context.serialNumber]
      <3>1. PICK t : rows[k].context = Context(t)
        BY DEF IInv, RowsOK
      <3> QED BY <3>1 DEF Context
    <2> QED BY <2>1 DEF a, b, c, d
  <1> QED BY <1>4, <1>5

-----------------------------------------------------------------------------
(* What crosses: payloads, rows, and what is missed.                       *)

\* A message of others has a payload, what was forwarded is a copy of one.
IsMessage(m, s, original) ==
  IF m.source = 0 THEN IsPayload(m.payload) ELSE IsCopy(m, original, s)

PayloadsOK ==
  \A s \in Sides : \A n \in DOMAIN published[s] :
    IsMessage(published[s][n], s, Original(s, n))

RowsSay == \A n \in DOMAIN rows : IsRowOf(rows[n], published[rows[n].side][rows[n].source])

\* Nothing is published before the start is over, and it is over with two levels.
StartedOK ==
  IF started = "yes" THEN PrefixParses ELSE \A s \in Sides : published[s] = <<>>

Contents == PayloadsOK /\ RowsSay /\ StartedOK

\* What is in the logs stays there.
Grows ==
  \A z \in Sides : \A n \in DOMAIN published[z] :
    n \in DOMAIN published'[z] /\ published'[z][n] = published[z][n]

\* One message more at the broker of s: nothing that was there changes.
LEMMA LogsGrow ==
  ASSUME LogsOK, NEW s \in Sides, NEW m, IsTopic(m.topic),
         m.source \in 0..Len(published[Other(s)]),
         published' = [published EXCEPT ![s] = Append(@, m)]
  PROVE  /\ Grows
         /\ published'[Other(s)] = published[Other(s)]
         /\ published'[s][Len(published[s]) + 1] = m
         /\ DOMAIN published'[s] = DOMAIN published[s] \cup {Len(published[s]) + 1}
         /\ Len(published[s]) + 1 \notin DOMAIN published[s]
  <1>1. /\ published'[Other(s)] = published[Other(s)]
        /\ published'[s][Len(published[s]) + 1] = m
        /\ \A n \in DOMAIN published[s] : published'[s][n] = published[s][n]
        /\ DOMAIN published'[s] = DOMAIN published[s] \cup {Len(published[s]) + 1}
        /\ DOMAIN published[s] = 1..Len(published[s])
        /\ Len(published[s]) \in Nat
    BY OneMore
  <1>2. \A z \in Sides : z = s \/ z = Other(s)
    BY DEF Sides, Other
  <1>3. Grows
    BY <1>1, <1>2 DEF Grows
  <1> QED BY <1>1, <1>3

LEMMA Originals ==
  ASSUME LogsOK, NEW s \in Sides, NEW n \in DOMAIN published[s], published[s][n].source # 0
  PROVE  published[s][n].source \in DOMAIN published[Other(s)]
  <1>1. published[s][n].source \in 0..Len(published[Other(s)])
    BY DEF LogsOK
  <1>2. /\ Len(published[Other(s)]) \in Nat
        /\ DOMAIN published[Other(s)] = 1..Len(published[Other(s)])
    BY Opposites, SequenceFacts DEF LogsOK
  <1> QED BY <1>1, <1>2

LEMMA PayloadsStay ==
  ASSUME LogsOK, PayloadsOK, NEW s \in Sides, NEW m, IsTopic(m.topic),
         m.source \in 0..Len(published[Other(s)]),
         published' = [published EXCEPT ![s] = Append(@, m)],
         IsMessage(m, s, published[Other(s)][m.source])
  PROVE  PayloadsOK'
  <1>1. /\ Grows
        /\ published'[Other(s)] = published[Other(s)]
        /\ published'[s][Len(published[s]) + 1] = m
        /\ DOMAIN published'[s] = DOMAIN published[s] \cup {Len(published[s]) + 1}
    BY LogsGrow
  <1>2. \A z \in Sides : z = s \/ z = Other(s)
    BY DEF Sides, Other
  <1>3. ASSUME NEW z \in Sides, NEW n \in DOMAIN published[z]
        PROVE  IsMessage(published'[z][n], z, published'[Other(z)][published'[z][n].source])
    <2>1. published'[z][n] = published[z][n] /\ IsMessage(published[z][n], z, Original(z, n))
      BY <1>1, <1>3 DEF Grows, PayloadsOK
    <2>2. CASE published[z][n].source = 0
      BY <2>1, <2>2 DEF IsMessage
    <2>3. CASE published[z][n].source # 0
      <3>1. published[z][n].source \in DOMAIN published[Other(z)] /\ Other(z) \in Sides
        BY <2>3, Originals, Opposites
      <3>2. published'[Other(z)][published'[z][n].source] = Original(z, n)
        BY <1>1, <2>1, <3>1 DEF Grows, Original
      <3> QED BY <2>1, <3>2
    <2> QED BY <2>2, <2>3
  <1>4. ASSUME NEW z \in Sides, NEW n \in DOMAIN published'[z]
        PROVE  IsMessage(published'[z][n], z, published'[Other(z)][published'[z][n].source])
    <2>1. CASE n \in DOMAIN published[z]
      BY <1>3, <2>1
    <2>2. CASE z = s /\ n = Len(published[s]) + 1
      BY <1>1, <2>2
    <2> QED BY <1>1, <1>2, <2>1, <2>2
  <1> QED BY <1>4 DEF PayloadsOK, Original

LEMMA RowsStay ==
  ASSUME RowsOK, RowsSay, Grows, rows' = rows
  PROVE  RowsSay'
  <1>1. ASSUME NEW n \in DOMAIN rows
        PROVE  IsRowOf(rows[n], published'[rows[n].side][rows[n].source])
    <2>1. /\ IsRowOf(rows[n], published[rows[n].side][rows[n].source])
          /\ rows[n].side \in Sides /\ rows[n].source \in DOMAIN published[rows[n].side]
      BY <1>1 DEF RowsSay, RowsOK
    <2> QED BY <2>1 DEF Grows
  <1> QED BY <1>1 DEF RowsSay

LEMMA RowsSayMore ==
  ASSUME RowsOK, RowsSay, Grows, NEW s \in Sides,
         Head(inbox[s]) \in DOMAIN published[s], RowWritten(s)
  PROVE  RowsSay'
  <1>1. PICK r : /\ rows' = Append(rows, r)
                 /\ r.side = s /\ r.source = Head(inbox[s])
                 /\ IsRowOf(r, published[s][Head(inbox[s])])
    BY DEF RowWritten
  <1>2. /\ DOMAIN rows' = DOMAIN rows \cup {Len(rows) + 1}
        /\ rows'[Len(rows) + 1] = r
        /\ \A n \in DOMAIN rows : rows'[n] = rows[n]
    BY <1>1, AppendFacts DEF RowsOK
  <1>3. ASSUME NEW n \in DOMAIN rows'
        PROVE  IsRowOf(rows'[n], published'[rows'[n].side][rows'[n].source])
    <2>1. CASE n \in DOMAIN rows
      <3>1. /\ IsRowOf(rows[n], published[rows[n].side][rows[n].source])
            /\ rows[n].side \in Sides /\ rows[n].source \in DOMAIN published[rows[n].side]
        BY <2>1 DEF RowsSay, RowsOK
      <3>2. rows'[n] = rows[n]
        BY <1>2, <2>1
      <3> QED BY <3>1, <3>2 DEF Grows
    <2>2. CASE n = Len(rows) + 1
      <3>1. rows'[n] = r
        BY <1>2, <2>2
      <3>2. published'[s][Head(inbox[s])] = published[s][Head(inbox[s])]
        BY DEF Grows
      <3> QED BY <1>1, <3>1, <3>2
    <2> QED BY <1>2, <2>1, <2>2
  <1> QED BY <1>3 DEF RowsSay

-----------------------------------------------------------------------------
(* What is missed.                                                         *)

\* The message should be recorded and forwarded.
Wanted(s, n) == IsExpected(published[s][n]) /\ Subscribed(s, published[s][n].topic)

LEMMA MissedFacts ==
  ASSUME NEW s
  PROVE  \A n : n \in Missed(s) <=>
           n \in FromOthers(s) /\ Wanted(s, n) /\ ~Pending(s, n) /\ ~Done(s, n)
  BY DEF Missed, Wanted

LEMMA MissedFinite ==
  ASSUME LogsOK, NEW s \in Sides
  PROVE  IsFiniteSet(Missed(s))
  <1>1. Missed(s) \subseteq 1..Len(published[s]) /\ Len(published[s]) \in Nat
    BY SequenceFacts DEF LogsOK, Missed, FromOthers
  <1>2. IsFiniteSet(1..Len(published[s]))
    BY <1>1, FS_Interval
  <1> QED BY <1>1, <1>2, FS_Subset

\* What was written or forwarded stays so.
Keeps ==
  /\ UNCHANGED <<prefix, started>>
  /\ Grows
  /\ \E q : IsSequence(rows) /\ (rows' = rows \/ rows' = Append(rows, q))

LEMMA DoneStays ==
  ASSUME Keeps, NEW s \in Sides, NEW n \in DOMAIN published[s]
  PROVE  Done(s, n) => Done(s, n)'
  <1>1. \A k \in DOMAIN rows : k \in DOMAIN rows' /\ rows'[k] = rows[k]
    BY AppendFacts DEF Keeps
  <1>2. Recorded(s, n) => Recorded(s, n)'
    BY <1>1 DEF Recorded
  <1>3. Copied(s, n) => Copied(s, n)'
    BY Opposites DEF Copied, Keeps, Grows
  <1>4. published'[s][n] = published[s][n]
    BY DEF Keeps, Grows
  <1> QED BY <1>2, <1>3, <1>4 DEF Done

LEMMA WantedStays ==
  ASSUME Keeps, NEW s \in Sides, NEW n \in DOMAIN published[s]
  PROVE  Wanted(s, n)' <=> Wanted(s, n)
  <1>1. published'[s][n] = published[s][n] /\ prefix' = prefix /\ started' = started
    BY DEF Keeps, Grows
  <1> QED BY <1>1 DEF Wanted, IsExpected, Subscribed, Filter

\* A step after which no more is missed but the message at h.
MissedFew(s, h) ==
  /\ Missed(s)' \subseteq Missed(s) \cup {h}
  /\ Missed(Other(s))' \subseteq Missed(Other(s))

MissedNoMore == \A z \in Sides : Missed(z)' \subseteq Missed(z)

\* Two finite sets, of which one may get one element more.
LEMMA OneElementMore ==
  ASSUME NEW a, IsFiniteSet(a), NEW b, IsFiniteSet(b), NEW h,
         NEW c, c \subseteq a \cup {h}, NEW d, d \subseteq b
  PROVE  /\ Cardinality(c) + Cardinality(d) <= Cardinality(a) + Cardinality(b) + 1
         /\ c \subseteq a => Cardinality(c) + Cardinality(d) <= Cardinality(a) + Cardinality(b)
         /\ Cardinality(a) \in Nat /\ Cardinality(b) \in Nat
         /\ Cardinality(c) \in Nat /\ Cardinality(d) \in Nat
  <1>1. /\ IsFiniteSet(a \cup {h})
        /\ Cardinality(a \cup {h}) = Cardinality(a) \/ Cardinality(a \cup {h}) = Cardinality(a) + 1
    BY FS_AddElement
  <1>2. /\ IsFiniteSet(c) /\ Cardinality(c) <= Cardinality(a \cup {h})
        /\ IsFiniteSet(d) /\ Cardinality(d) <= Cardinality(b)
        /\ c \subseteq a => Cardinality(c) <= Cardinality(a)
    BY <1>1, FS_Subset
  <1>3. /\ Cardinality(a) \in Nat /\ Cardinality(b) \in Nat
        /\ Cardinality(c) \in Nat /\ Cardinality(d) \in Nat
        /\ Cardinality(a \cup {h}) \in Nat
    BY <1>1, <1>2, FS_CardinalityType
  <1> QED BY <1>1, <1>2, <1>3

LEMMA FailuresCount ==
  ASSUME LogsOK, RestOK, FailuresCostOneMessage, NEW s \in Sides, NEW h,
         \/ MissedFew(s, h) /\ faults' = faults + 1
         \/ MissedNoMore /\ faults' = faults
  PROVE  FailuresCostOneMessage'
  <1> DEFINE a == Missed(s)
             b == Missed(Other(s))
             c == Missed(s)'
             d == Missed(Other(s))'
  <1>1. Other(s) \in Sides \ {s} /\ Sides = {"local", "cloud"}
    BY Opposites DEF Sides
  <1>2. IsFiniteSet(a) /\ IsFiniteSet(b)
    BY <1>1, MissedFinite
  <1>3. /\ c \subseteq a \cup {h} /\ d \subseteq b
        /\ (c \subseteq a /\ faults' = faults) \/ faults' = faults + 1
    BY <1>1 DEF MissedFew, MissedNoMore
  <1>4. faults \in Nat
    BY BoundsAssumption DEF RestOK
  <1>5. Cardinality(a) + Cardinality(b) <= faults
    <2>1. /\ Cardinality(Missed("local")) \in Nat
          /\ Cardinality(Missed("cloud")) \in Nat
      BY MissedFinite, FS_CardinalityType DEF Sides
    <2> QED BY <1>1, <2>1 DEF FailuresCostOneMessage
  <1> HIDE DEF a, b, c, d
  <1>6. Cardinality(c) + Cardinality(d) <= faults'
    <2>1. /\ Cardinality(c) + Cardinality(d) <= Cardinality(a) + Cardinality(b) + 1
          /\ c \subseteq a => Cardinality(c) + Cardinality(d) <= Cardinality(a) + Cardinality(b)
          /\ Cardinality(a) \in Nat /\ Cardinality(b) \in Nat
          /\ Cardinality(c) \in Nat /\ Cardinality(d) \in Nat
      BY <1>2, <1>3, OneElementMore
    <2> QED BY <1>3, <1>4, <1>5, <2>1
  <1>7. Cardinality(c) \in Nat /\ Cardinality(d) \in Nat
    BY <1>2, <1>3, OneElementMore
  <1> QED BY <1>1, <1>6, <1>7 DEF FailuresCostOneMessage, c, d

\* What is wanted is accepted: its topic parses, and its payload can be read.
LEMMA WantedIsAccepted ==
  ASSUME RestOK, LogsOK, Contents, NEW s \in Sides, NEW n \in DOMAIN published[s],
         published[s][n].source = 0, Wanted(s, n)
  PROVE  Accepted(s, published[s][n])
  <1> DEFINE m == published[s][n]
             t == m.topic
  <1>1. /\ Conforms(m.payload)
        /\ ~(IsParameters(m.payload) /\ m.payload.value.is = "array")
        /\ SubSeq(t, 1, 2) = prefix
        /\ <<>> \notin {t[l] : l \in DOMAIN t}
        /\ started = "yes"
    BY DEF Wanted, IsExpected, Subscribed
  <1>2. PICK x \in Suffixes(s) : Matches(Filter(x), t)
    BY DEF Wanted, Subscribed
  <1>3. IsPayload(m.payload)
    BY DEF Contents, PayloadsOK, IsMessage
  <1>4. PayloadParses(m.payload)
    BY <1>1, <1>3, ConformingIsRead
  <1>5. Len(prefix) = 2
    BY <1>1 DEF Contents, StartedOK, PrefixParses
  <1>6. IsSequence(prefix)
    <2>1. prefix \in Seq(Seq(STRING))
      BY PrefixesAssumption DEF RestOK
    <2> QED BY <2>1, AnySequence
  <1>7. IsTopic(t)
    BY DEF LogsOK
  <1> HIDE DEF t
  <1>8. Len(Filter(x)) = 5 /\ Filter(x)[5] = x /\ DOMAIN Filter(x) = 1..5
    <2>1. IsMadeOf(Filter(x), prefix, AnyLevel, AnyLevel, x)
      BY DEF Filter, IsMadeOf
    <2>2. IsSequence(Filter(x)) /\ Len(Filter(x)) = 5 /\ Filter(x)[5] = x
      BY <1>5, <1>6, <2>1, FiveLevels
    <2> QED BY <2>2, SequenceFacts
  <1>9. x # AnyLevel
    BY SuffixesDiffer
  <1>10. Len(t) = 5 /\ DOMAIN t = 1..5 /\ t[5] = x
    <2>1. DOMAIN t = 1..5 /\ t[5] = x
      BY <1>2, <1>8, <1>9 DEF Matches
    <2>2. IsSequence(t)
      BY <1>7 DEF IsTopic
    <2>3. Len(t) \in Nat /\ DOMAIN t = 1..Len(t)
      BY <2>2, SequenceFacts
    <2> QED BY <2>1, <2>3
  <1>11. t[3] # <<>> /\ t[4] # <<>>
    BY <1>1, <1>10
  <1>12. TopicParses(t, x)
    BY <1>1, <1>10, <1>11 DEF TopicParses
  <1> QED BY <1>2, <1>4, <1>12 DEF Accepted, t

\* A message of before that was waited for, recorded or forwarded still is.
LEMMA MissedBefore ==
  ASSUME Keeps, NEW z \in Sides, NEW n \in DOMAIN published[z],
         Pending(z, n) => Pending(z, n)', n \in Missed(z)'
  PROVE  n \in Missed(z)
  <1>1. n \in FromOthers(z)' /\ Wanted(z, n)' /\ ~Pending(z, n)' /\ ~Done(z, n)'
    BY DEF Missed, Wanted
  <1>2. n \in FromOthers(z)
    BY <1>1 DEF FromOthers, Keeps, Grows
  <1>3. Wanted(z, n)
    BY <1>1, WantedStays
  <1>4. ~Done(z, n)
    BY <1>1, DoneStays
  <1> QED BY <1>1, <1>2, <1>3, <1>4, MissedFacts

LEMMA TakenPending ==
  ASSUME LogsOK, NEW s \in Sides, inbox[s] # <<>>, Taken(s), NEW z \in Sides, NEW n,
         Pending(z, n), ~(z = s /\ n = Head(inbox[s]))
  PROVE  Pending(z, n)'
  <1>1. z = s \/ z = Other(s)
    BY DEF Sides, Other
  <1>2. PICK k \in DOMAIN inbox[z] : inbox[z][k] = n
    BY DEF Pending
  <1>3. CASE z = Other(s)
    BY <1>2, <1>3 DEF Taken, Pending
  <1>4. CASE z = s
    <2> DEFINE q == inbox[s]
    <2>1. q \in Seq(Nat) /\ q # <<>>
      BY DEF LogsOK
    <2>2. inbox'[s] = Tail(q) /\ k \in DOMAIN q /\ q[k] = n /\ n # Head(q)
      BY <1>2, <1>4 DEF Taken
    <2> HIDE DEF q
    <2>3. k - 1 \in DOMAIN Tail(q) /\ Tail(q)[k - 1] = n
      <3>1. /\ Len(q) \in Nat \ {0} /\ DOMAIN q = 1..Len(q) /\ Head(q) = q[1]
            /\ DOMAIN Tail(q) = 1..(Len(q) - 1)
            /\ \A j \in 1..(Len(q) - 1) : Tail(q)[j] = q[j + 1]
        BY <2>1
      <3>2. k \in 1..Len(q) /\ k # 1
        BY <2>2, <3>1
      <3>3. k - 1 \in 1..(Len(q) - 1) /\ (k - 1) + 1 = k
        BY <3>1, <3>2
      <3> QED BY <2>2, <3>1, <3>3
    <2> QED BY <1>4, <2>2, <2>3 DEF Pending
  <1> QED BY <1>1, <1>3, <1>4

\* A message is taken out of an inbox, and recorded, forwarded, both or neither.
LEMMA TakeKeeps ==
  ASSUME IInv, Contents, NEW s \in Sides, inbox[s] # <<>>, Taken(s),
         UNCHANGED <<prefix, started>>,
         rows' = rows \/ RowWritten(s), published' = published \/ CopySent(s)
  PROVE  /\ Contents'
         /\ MissedFew(s, Head(inbox[s]))
         /\ Head(inbox[s]) \notin Missed(s)' => MissedNoMore
  <1> DEFINE h == Head(inbox[s])
             o == Other(s)
  <1>1. LogsOK /\ RowsOK /\ Ordered /\ PayloadsOK /\ RowsSay /\ StartedOK
    BY DEF IInv, Contents
  <1>2. /\ h \in DOMAIN published[s] /\ h \in 1..Len(published[s]) /\ h # 0
        /\ published[s][h].source = 0
    BY <1>1, FirstInInbox
  <1>3. o \in Sides \ {s} /\ Other(o) = s /\ \A z \in Sides : z = s \/ z = o
    BY Opposites DEF Sides, Other
  <1>4. /\ Grows /\ PayloadsOK'
        /\ \A z \in Sides : FromOthers(z)' \subseteq DOMAIN published[z]
    <2>1. CASE published' = published
      BY <1>1, <2>1 DEF Grows, PayloadsOK, Original, FromOthers
    <2>2. CASE CopySent(s)
      <3>1. PICK c : /\ IsTopic(c.topic)
                     /\ c.source = h
                     /\ IsCopy(c, published[s][h], o)
                     /\ published' = [published EXCEPT ![o] = Append(@, c)]
        BY <2>2 DEF CopySent
      <3> HIDE DEF h, o
      <3>2. c.source \in 0..Len(published[Other(o)])
        BY <1>2, <1>3, <3>1
      <3>3. IsMessage(c, o, published[Other(o)][c.source])
        BY <1>2, <1>3, <3>1 DEF IsMessage
      <3>4. /\ Grows
            /\ published'[s] = published[s]
            /\ published'[o][Len(published[o]) + 1] = c
            /\ DOMAIN published'[o] = DOMAIN published[o] \cup {Len(published[o]) + 1}
        BY <1>1, <1>3, <3>1, <3>2, LogsGrow
      <3>5. PayloadsOK'
        BY <1>1, <1>3, <3>1, <3>2, <3>3, PayloadsStay
      <3>6. FromOthers(s)' \subseteq DOMAIN published[s]
        BY <3>4 DEF FromOthers
      <3>7. FromOthers(o)' \subseteq DOMAIN published[o]
        BY <1>2, <3>1, <3>4 DEF FromOthers
      <3> QED BY <1>3, <3>4, <3>5, <3>6, <3>7
    <2> QED BY <2>1, <2>2
  <1>5. RowsSay'
    BY <1>1, <1>2, <1>4, RowsStay, RowsSayMore
  <1>6. StartedOK'
    <2>1. started = "yes"
      BY <1>1, <1>2 DEF StartedOK
    <2> QED BY <1>1, <2>1 DEF StartedOK, PrefixParses
  <1>7. Keeps
    <2>1. \E q : rows' = rows \/ rows' = Append(rows, q)
      BY DEF RowWritten
    <2> QED BY <1>1, <1>4, <2>1 DEF Keeps, RowsOK
  <1>8. ASSUME NEW z \in Sides, NEW n \in Missed(z)', ~(z = s /\ n = h)
        PROVE  n \in Missed(z)
    <2>1. n \in DOMAIN published[z]
      BY <1>4 DEF Missed
    <2>2. Pending(z, n) => Pending(z, n)'
      BY <1>1, <1>8, TakenPending
    <2> QED BY <1>7, <2>1, <2>2, MissedBefore
  <1> HIDE DEF h, o
  <1>9. MissedFew(s, h)
    BY <1>3, <1>8 DEF MissedFew, o
  <1>10. h \notin Missed(s)' => MissedNoMore
    BY <1>8 DEF MissedNoMore
  <1> QED BY <1>4, <1>5, <1>6, <1>9, <1>10 DEF Contents, h

\* What the recorder has written, if there is something to write, and the endpoint has
\* forwarded is not missed.
LEMMA HandledIsDone ==
  ASSUME IInv, NEW s \in Sides, inbox[s] # <<>>, Records(s) => RowWritten(s), CopySent(s)
  PROVE  Head(inbox[s]) \notin Missed(s)'
  <1> SUFFICES ASSUME NEW h, h = Head(inbox[s])
               PROVE  h \notin Missed(s)'
    OBVIOUS
  <1> DEFINE o == Other(s)
  <1>1. LogsOK /\ RowsOK /\ Ordered
    BY DEF IInv
  <1>2. ASSUME Records(s) PROVE Recorded(s, h)'
    <2>1. PICK r : rows' = Append(rows, r) /\ r.side = s /\ r.source = h
      BY <1>2 DEF RowWritten
    <2>2. Len(rows) + 1 \in DOMAIN rows' /\ rows'[Len(rows) + 1] = r
      BY <1>1, <2>1, AppendFacts DEF RowsOK
    <2>3. \E k \in DOMAIN rows' : rows'[k].side = s /\ rows'[k].source = h
      BY <2>1, <2>2
    <2> QED BY <2>3 DEF Recorded
  <1>3. Copied(s, h)' /\ published'[s] = published[s]
    <2>1. PICK c : /\ IsTopic(c.topic) /\ c.source = h
                   /\ published' = [published EXCEPT ![o] = Append(@, c)]
      BY DEF CopySent
    <2>2. h \in 1..Len(published[s]) /\ o \in Sides /\ Other(o) = s
      BY <1>1, FirstInInbox, Opposites
    <2> HIDE DEF o
    <2>3. c.source \in 0..Len(published[Other(o)])
      BY <2>1, <2>2
    <2>4. /\ published'[o][Len(published[o]) + 1] = c
          /\ Len(published[o]) + 1 \in DOMAIN published'[o]
          /\ published'[s] = published[s]
      BY <1>1, <2>1, <2>2, <2>3, LogsGrow
    <2>5. \E k \in DOMAIN published'[o] : published'[o][k].source = h
      BY <2>1, <2>4
    <2> QED BY <2>4, <2>5 DEF Copied, o
  <1> QED BY <1>2, <1>3 DEF Missed, Done, Records

LEMMA PublishContents ==
  ASSUME IInv, Contents, NEW x \in Traffic \cup LoneTraffic, Publish(x)
  PROVE  Contents' /\ MissedNoMore
  <1> DEFINE s == x.side
             m == Message(x.topic, x.payload, 0)
             N == Len(published[s]) + 1
  <1>1. LogsOK /\ RowsOK /\ PayloadsOK /\ RowsSay /\ StartedOK
    BY DEF IInv, Contents
  <1>2. s \in Sides /\ IsTopic(x.topic) /\ IsPayload(x.payload)
    BY TrafficFacts, TrafficAssumption
  <1>3. m.topic = x.topic /\ m.payload = x.payload /\ m.source = 0
    BY DEF Message
  <1>4. /\ started = "yes"
        /\ published' = [published EXCEPT ![s] = Append(@, m)]
        /\ inbox' = [inbox EXCEPT ![s] = Received(s, x.topic, @)]
        /\ UNCHANGED <<prefix, started, rows, faults>>
    BY DEF Publish
  <1> HIDE DEF s, m
  <1>5. m.source \in 0..Len(published[Other(s)])
    <2>1. Len(published[Other(s)]) \in Nat
      BY <1>1, <1>2, Opposites, SequenceFacts DEF LogsOK
    <2> QED BY <1>3, <2>1
  <1>6. IsTopic(m.topic)
    BY <1>2, <1>3
  <1>7. /\ Grows
        /\ published'[Other(s)] = published[Other(s)]
        /\ published'[s][N] = m
        /\ DOMAIN published'[s] = DOMAIN published[s] \cup {N}
    BY <1>1, <1>2, <1>4, <1>5, <1>6, LogsGrow
  <1>8. PayloadsOK'
    <2>1. IsMessage(m, s, published[Other(s)][m.source])
      BY <1>2, <1>3 DEF IsMessage
    <2> QED BY <1>1, <1>2, <1>4, <1>5, <1>6, <2>1, PayloadsStay
  <1>9. RowsSay'
    BY <1>1, <1>4, <1>7, RowsStay
  <1>10. StartedOK'
    BY <1>1, <1>4 DEF StartedOK, PrefixParses
  <1>11. Keeps
    BY <1>1, <1>4, <1>7 DEF Keeps, RowsOK
  <1>12. \A z \in Sides : z = s \/ z = Other(s)
    BY <1>2 DEF Sides, Other
  <1>13. inbox \in [Sides -> Seq(Nat)]
    BY <1>1 DEF LogsOK
  <1>14. \A z \in Sides : \A k \in DOMAIN inbox[z] :
           k \in DOMAIN inbox'[z] /\ inbox'[z][k] = inbox[z][k]
    <2>1. IsSequence(inbox[s])
      BY <1>2, <1>13, AnySequence
    <2>2. inbox'[s] = inbox[s] \/ inbox'[s] = Append(inbox[s], N)
      BY <1>2, <1>4, <1>13 DEF Received, N
    <2>3. \A z \in Sides \ {s} : inbox'[z] = inbox[z]
      BY <1>4, <1>13
    <2> QED BY <2>1, <2>2, <2>3, AppendFacts
  <1>15. ASSUME NEW z \in Sides, NEW n \in Missed(z)'
         PROVE  n \in Missed(z)
    <2>1. n \in DOMAIN published'[z] /\ Wanted(z, n)' /\ ~Pending(z, n)'
      BY DEF Missed, FromOthers, Wanted
    <2>2. CASE n \in DOMAIN published[z]
      <3>1. Pending(z, n) => Pending(z, n)'
        BY <1>14 DEF Pending
      <3> QED BY <1>11, <2>2, <3>1, MissedBefore
    <2>3. CASE z = s /\ n = N
      <3>1. Subscribed(s, m.topic)
        <4>1. \E y \in Suffixes(s) : Matches(Filter(y)', published'[s][n].topic)
          BY <2>1, <2>3 DEF Wanted, Subscribed
        <4>2. \A y : Filter(y)' = Filter(y)
          BY <1>4 DEF Filter
        <4> QED BY <1>4, <1>7, <2>3, <4>1, <4>2 DEF Subscribed
      <3>2. inbox'[s] = Append(inbox[s], N)
        BY <1>2, <1>3, <1>4, <1>13, <3>1 DEF Received, N
      <3>3. Pending(z, n)'
        <4>1. IsSequence(inbox[s])
          BY <1>2, <1>13, AnySequence
        <4>2. /\ Len(inbox[s]) + 1 \in DOMAIN inbox'[s]
              /\ inbox'[s][Len(inbox[s]) + 1] = N
          BY <3>2, <4>1, AppendFacts
        <4> QED BY <2>3, <4>2 DEF Pending
      <3> QED BY <2>1, <3>3
    <2> QED BY <1>7, <1>12, <2>1, <2>2, <2>3
  <1> QED BY <1>8, <1>9, <1>10, <1>15 DEF Contents, MissedNoMore

LEMMA StartContents ==
  ASSUME Contents, Start
  PROVE  Contents' /\ MissedNoMore
  <1>1. \A z \in Sides : published[z] = <<>> /\ published'[z] = <<>>
    BY DEF Contents, StartedOK, Start
  <1>2. DOMAIN <<>> = {}
    OBVIOUS
  <1>3. PayloadsOK'
    BY <1>1, <1>2 DEF PayloadsOK
  <1>4. RowsSay'
    BY DEF Contents, RowsSay, Start
  <1>5. StartedOK'
    BY <1>1 DEF Start, StartedOK, PrefixParses
  <1>6. \A z \in Sides : Missed(z)' = {}
    BY <1>1, <1>2 DEF Missed, FromOthers
  <1> QED BY <1>3, <1>4, <1>5, <1>6 DEF Contents, MissedNoMore

LEMMA SameContents ==
  ASSUME Contents, UNCHANGED vars
  PROVE  Contents' /\ MissedNoMore
  <1>1. Contents'
    BY DEF Contents, PayloadsOK, RowsSay, StartedOK, PrefixParses, Original, vars
  <1>2. \A z \in Sides : Missed(z)' = Missed(z)
    BY DEF Missed, FromOthers, IsExpected, Subscribed, Filter, Pending, Done, Recorded,
           Copied, vars
  <1> QED BY <1>1, <1>2 DEF MissedNoMore

\* The first message of an inbox is gone, and nothing has come of it.
LEMMA DropContents ==
  ASSUME IInv, Contents, NEW s \in Sides, inbox[s] # <<>>,
         inbox' = [inbox EXCEPT ![s] = Tail(inbox[s])],
         UNCHANGED <<prefix, started, published, rows>>
  PROVE  /\ Contents'
         /\ MissedFew(s, Head(inbox[s]))
         /\ Head(inbox[s]) \notin Missed(s)' => MissedNoMore
  <1>1. inbox \in [Sides -> Seq(Nat)]
    BY DEF IInv, LogsOK
  <1>2. inbox[s] \in Seq(Nat)
    BY <1>1
  <1>3. Tail(inbox[s]) \in Seq(Nat)
    BY <1>2, TailFacts
  <1>4. Taken(s)
    BY <1>1, <1>3, Opposites DEF Taken
  <1> QED BY <1>4, TakeKeeps

LEMMA HandleContents ==
  ASSUME IInv, Contents, NEW s \in Sides, Handle(s)
  PROVE  Contents' /\ MissedNoMore
  <1>1. /\ inbox[s] # <<>> /\ HandleOne(s, Head(inbox[s]), Tail(inbox[s]))
        /\ UNCHANGED <<prefix, started, faults>>
    BY DEF Handle, HandleOne
  <1>2. CASE Accepted(s, published[s][Head(inbox[s])])
    <2>1. Handlers(s, Head(inbox[s]), Tail(inbox[s]), TRUE, TRUE)
      BY <1>1, <1>2 DEF HandleOne
    <2>2. Taken(s) /\ CopySent(s) /\ IF Records(s) THEN RowWritten(s) ELSE rows' = rows
      BY <1>1, <1>2, <2>1, HandlersDo
    <2> QED BY <1>1, <2>2, TakeKeeps, HandledIsDone
  <1>3. CASE ~Accepted(s, published[s][Head(inbox[s])])
    <2>1. /\ inbox' = [inbox EXCEPT ![s] = Tail(inbox[s])]
          /\ UNCHANGED <<rows, published>>
      BY <1>1, <1>3 DEF HandleOne
    <2>2. /\ Contents'
          /\ Head(inbox[s]) \notin Missed(s)' => MissedNoMore
      BY <1>1, <2>1, DropContents
    <2>3. Head(inbox[s]) \notin Missed(s)'
      <3> SUFFICES ASSUME NEW h, h = Head(inbox[s]), h \in Missed(s)'
                   PROVE  FALSE
        OBVIOUS
      <3>1. RestOK /\ LogsOK /\ Ordered /\ RowsOK
        BY DEF IInv
      <3>2. h \in DOMAIN published[s] /\ published[s][h].source = 0
        BY <1>1, <3>1, FirstInInbox
      <3>3. Wanted(s, h)'
        BY DEF Missed, Wanted
      <3>4. Keeps
        BY <1>1, <2>1, <3>1 DEF Keeps, Grows, RowsOK
      <3>5. Wanted(s, h)
        BY <3>2, <3>3, <3>4, WantedStays
      <3> QED BY <1>3, <3>1, <3>2, <3>5, WantedIsAccepted
    <2> QED BY <2>2, <2>3
  <1> QED BY <1>2, <1>3

LEMMA HandleFailsContents ==
  ASSUME IInv, Contents, NEW s \in Sides, HandleFails(s)
  PROVE  Contents' /\ MissedFew(s, Head(inbox[s]))
  <1>1. PICK isRecorded \in BOOLEAN, isSent \in BOOLEAN :
          Handlers(s, Head(inbox[s]), Tail(inbox[s]), isRecorded, isSent)
    BY DEF HandleFails
  <1>2. /\ inbox[s] # <<>> /\ Accepted(s, published[s][Head(inbox[s])])
        /\ UNCHANGED <<prefix, started>>
    BY DEF HandleFails
  <1>3. /\ Taken(s)
        /\ IF isRecorded /\ Records(s) THEN RowWritten(s) ELSE rows' = rows
        /\ IF isSent THEN CopySent(s) ELSE published' = published
    BY <1>1, <1>2, HandlersDo
  <1> QED BY <1>2, <1>3, TakeKeeps

LEMMA InitContents == Init => Contents /\ FailuresCostOneMessage
  <1> SUFFICES ASSUME Init PROVE Contents /\ FailuresCostOneMessage
    OBVIOUS
  <1>1. \A s \in Sides : published[s] = <<>>
    BY DEF Init
  <1>2. DOMAIN <<>> = {}
    OBVIOUS
  <1>3. Contents
    BY <1>1, <1>2 DEF Contents, PayloadsOK, RowsSay, StartedOK, Init
  <1>4. \A s \in Sides : Missed(s) = {}
    BY <1>1, <1>2 DEF Missed, FromOthers
  <1>5. Missed("local") = {} /\ Missed("cloud") = {} /\ faults = 0
    BY <1>4 DEF Sides, Init
  <1>6. Cardinality({}) = 0
    BY FS_EmptySet
  <1> QED BY <1>3, <1>5, <1>6 DEF FailuresCostOneMessage

LEMMA NextContents ==
  IInv /\ Contents /\ FailuresCostOneMessage /\ [Next]_vars
    => Contents' /\ FailuresCostOneMessage'
  <1> SUFFICES ASSUME IInv, Contents, FailuresCostOneMessage, [Next]_vars
               PROVE  Contents' /\ FailuresCostOneMessage'
    OBVIOUS
  <1>1. LogsOK /\ RestOK
    BY DEF IInv
  <1>2. ASSUME MissedNoMore, faults' = faults PROVE FailuresCostOneMessage'
    <2>1. "local" \in Sides
      BY DEF Sides
    <2> QED BY <1>1, <1>2, <2>1, FailuresCount
  <1>3. CASE Start
    BY <1>2, <1>3, StartContents DEF Start
  <1>4. CASE OtherPublishes
    BY <1>2, <1>4, PublishContents DEF OtherPublishes, Publish
  <1>5. CASE OtherPublishesOnce
    BY <1>2, <1>5, PublishContents DEF OtherPublishesOnce, Publish
  <1>6. ASSUME NEW s \in Sides, Lose(s) PROVE Contents' /\ FailuresCostOneMessage'
    <2>1. Contents' /\ MissedFew(s, Head(inbox[s]))
      BY <1>6, DropContents DEF Lose
    <2>2. faults' = faults + 1
      BY <1>6 DEF Lose
    <2> QED BY <1>1, <2>1, <2>2, FailuresCount
  <1>7. ASSUME NEW s \in Sides, Handle(s) PROVE Contents' /\ FailuresCostOneMessage'
    BY <1>2, <1>7, HandleContents DEF Handle, HandleOne
  <1>8. ASSUME NEW s \in Sides, HandleFails(s) PROVE Contents' /\ FailuresCostOneMessage'
    <2>1. Contents' /\ MissedFew(s, Head(inbox[s]))
      BY <1>8, HandleFailsContents
    <2>2. faults' = faults + 1
      BY <1>8 DEF HandleFails
    <2> QED BY <1>1, <2>1, <2>2, FailuresCount
  <1>9. CASE UNCHANGED vars
    BY <1>2, <1>9, SameContents DEF vars
  <1> QED BY <1>3, <1>4, <1>5, <1>6, <1>7, <1>8, <1>9 DEF Next

-----------------------------------------------------------------------------
(* What follows for the payloads.                                          *)

LEMMA RowsReadable ==
  ASSUME IInv, Contents
  PROVE  RecordedReadsBack
  <1> SUFFICES ASSUME NEW n \in DOMAIN rows
               PROVE  PayloadParses(rows[n].payload) /\ Parsed(rows[n].payload) = rows[n].payload
    BY DEF RecordedReadsBack
  <1> DEFINE m == published[rows[n].side][rows[n].source]
  <1>1. IsRowOf(rows[n], m)
    BY DEF Contents, RowsSay
  <1>2. rows[n].side \in Sides /\ rows[n].source \in DOMAIN published[rows[n].side]
    BY DEF IInv, RowsOK
  <1>3. IsPayload(m.payload)
    BY <1>1, <1>2 DEF Contents, PayloadsOK, IsMessage, IsRowOf
  <1> HIDE DEF m
  <1> QED BY <1>1, <1>3, ParsedReadsBack DEF IsRowOf

LEMMA OriginalFacts ==
  ASSUME IInv, Contents, NEW s \in Sides, NEW n \in Forwarded(s)
  PROVE  /\ IsCopy(published[s][n], Original(s, n), s)
         /\ IsPayload(Original(s, n).payload)
  <1>1. n \in DOMAIN published[s] /\ published[s][n].source # 0
    BY ForwardedFacts
  <1>2. IsCopy(published[s][n], Original(s, n), s)
    BY <1>1 DEF Contents, PayloadsOK, IsMessage
  <1>3. published[s][n].source \in DOMAIN published[Other(s)] /\ Other(s) \in Sides
    BY <1>1, Originals, Opposites DEF IInv
  <1>4. Original(s, n).source = 0
    BY DEF IInv, Ordered, CrossesOnceInOrder, Original
  <1>5. IsMessage(Original(s, n), Other(s), Original(Other(s), published[s][n].source))
    BY <1>3 DEF Contents, PayloadsOK, Original
  <1> QED BY <1>2, <1>4, <1>5 DEF IsMessage

LEMMA CopiesSayTheSame ==
  ASSUME IInv, Contents
  PROVE  ForwardedAsPublished
  <1> SUFFICES ASSUME NEW s \in Sides, NEW n \in Forwarded(s)
               PROVE  LET copy == published[s][n]
                          was == Parsed(Original(s, n).payload)
                      IN
                      /\ copy.topic = Original(s, n).topic
                      /\ copy.topic[5] \in Suffixes(Other(s))
                      /\ PayloadParses(copy.payload)
                      /\ \/ Parsed(copy.payload) = was
                         \/ /\ was.value = Empty
                            /\ Parsed(copy.payload).value = Scalar("null")
    BY DEF ForwardedAsPublished
  <1> DEFINE c == published[s][n]
             o == Original(s, n)
  <1>1. IsCopy(c, o, s) /\ IsPayload(o.payload)
    BY OriginalFacts
  <1> HIDE DEF c, o
  <1>2. /\ PayloadParses(c.payload)
        /\ \/ Parsed(c.payload) = Parsed(o.payload)
           \/ /\ Parsed(o.payload).value = Empty
              /\ Parsed(c.payload).value = Scalar("null")
    BY <1>1, PrunedSaysTheSame DEF IsCopy
  <1> QED BY <1>1, <1>2 DEF IsCopy, c, o

LEMMA CopiesConform ==
  ASSUME IInv, Contents
  PROVE  ConformingIsForwarded
  <1> SUFFICES ASSUME NEW s \in Sides, NEW n \in Forwarded(s),
                      Conforms(Original(s, n).payload)
               PROVE  LET original == Original(s, n).payload
                          copy == published[s][n].payload
                      IN
                      \/ copy.value = original.value
                      \/ original.value.is = "absent" /\ copy.value.is = "null"
                      \/ original.value = Empty /\ copy.value.is = "absent"
                      \/ /\ KindOf(original).type = "double"
                         /\ "float" \in {copy.value.is, copy.value.of}
    BY DEF ConformingIsForwarded
  <1> DEFINE p == Original(s, n).payload
             r == published[s][n].payload
  <1>1. IsPayload(p) /\ PayloadParses(p) /\ r = Pruned(Parsed(p))
    BY OriginalFacts DEF IsCopy
  <1> HIDE DEF p, r
  <1>2. \/ r.value = p.value
        \/ p.value.is = "absent" /\ r.value.is = "null"
        \/ p.value = Empty /\ r.value.is = "absent"
        \/ KindOf(p).type = "double" /\ "float" \in {r.value.is, r.value.of}
    BY <1>1, ConformingStays DEF p
  <1> QED BY <1>2 DEF p, r

-----------------------------------------------------------------------------

\* The invariant is inductive.
THEOREM Invariance == Spec => []IInv
  BY InitIInv, NextIInv, PTL DEF Spec

\* Every variable keeps its type: no inbox has a message the broker does not, and
\* every row is about one, with two names in it.
THEOREM TypeCorrect == Spec => []TypeOK
  BY Invariance, IInvTypeOK, PTL

\* A message crosses the daemon at most once, in the order it was sent in, for any
\* prefix: the two endpoints do not subscribe what they publish.
THEOREM CrossesOnce == Spec => []CrossesOnceInOrder
  <1>1. IInv => CrossesOnceInOrder
    BY DEF IInv, Ordered
  <1> QED BY <1>1, Invariance, PTL

\* Two robots share a robot_id only when a manufacturer's name has a "." in it.
THEOREM RobotIdIsAKey == Spec => []RobotIdTellsApart
  BY Invariance, IInvRobotId, PTL

\* What copies and rows are made of, and what failures cost, stays so in every step.
THEOREM PayloadInvariance == Spec => [](Contents /\ FailuresCostOneMessage)
  BY Invariance, InitContents, NextContents, PTL DEF Spec

\* Every row of the event log can be read by its projector, and says what the message
\* said when it was recorded, whatever was in it.
THEOREM RowsReadBack == Spec => []RecordedReadsBack
  <1>1. IInv /\ Contents => RecordedReadsBack
    BY RowsReadable
  <1> QED BY <1>1, Invariance, PayloadInvariance, PTL

\* What was forwarded is on the topic it came on, from the side it should, and says what
\* the original said, except for an optional list that is empty.
THEOREM ForwardedSaysTheSame == Spec => []ForwardedAsPublished
  <1>1. IInv /\ Contents => ForwardedAsPublished
    BY CopiesSayTheSame
  <1> QED BY <1>1, Invariance, PayloadInvariance, PTL

\* A value of the standard is forwarded as it was written, in every field of every
\* message, or as what says the same.
THEOREM ConformingIsKept == Spec => []ConformingIsForwarded
  <1>1. IInv /\ Contents => ConformingIsForwarded
    BY CopiesConform
  <1> QED BY <1>1, Invariance, PayloadInvariance, PTL

\* A failed INSERT, a failed publish or a lost message costs that one message.
THEOREM FailuresCostOne == Spec => []FailuresCostOneMessage
  BY PayloadInvariance, PTL
=============================================================================
