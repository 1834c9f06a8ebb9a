------------------------------ MODULE MCRouting ------------------------------
(***************************************************************************)
(* Routing for TLC.  Two robots have the same robot_id, a third one would  *)
(* have it without the separator; the other topics are to be dropped.  One *)
(* prefix is as documented, one has a wildcard, start() refuses the rest.  *)
(*                                                                         *)
(* A message that comes alone may have any class of JSON value in any of   *)
(* its fields, one field of each kind in each struct.                      *)
(***************************************************************************)
EXTENDS Routing

Vda == <<"vda5050">>
V3  == <<"v3">>
A   == <<"a">>
AB  == <<"a", ".", "b">>
B   == <<"b">>
A2  == <<"a", "b">>
BC  == <<"b", ".", "c">>
C   == <<"c">>
DC  == <<".", "c">>

SomePrefixes ==
  {<<Vda, V3>>, <<AnyLevel, V3>>, <<Vda>>, <<Vda, <<>>>>, <<Vda, V3, A>>,
   <<<<"#">>, V3>>}

Named(pair, suffix) == <<Vda, V3, pair[1], pair[2], <<suffix>>>>

Garbage(suffix) ==
  [struct |-> "Payload", field |-> suffix, value |-> Scalar("garbage")]

StatePayloads ==
  {Garbage("state"),
   [struct |-> "State", field |-> "nodeStates", value |-> Scalar("absent")],
   [struct |-> "State", field |-> "maps", value |-> Empty]}

OrderPayloads ==
  {Garbage("order"),
   [struct |-> "Order", field |-> "nodes", value |-> Empty],
   [struct |-> "Order", field |-> "orderDescription", value |-> Scalar("null")]}

StateTopics ==
  {Named(<<A, BC>>, "state"), Named(<<AB, C>>, "state"),
   Named(<<<<>>, C>>, "state"), <<Vda, V3, A, B, C, <<"state">>>>}

SomeTraffic ==
  [side : Sides, topic : StateTopics, payload : StatePayloads]
    \cup [side : Sides, topic : {Named(<<A2, DC>>, "order")}, payload : OrderPayloads]

\* The classes of values that may be told apart in a field.
Others(type) ==
  {"null", "boolean", "integer", "huge", "float", "text", "object"}
    \cup IF type \in DOMAIN Enums THEN EnumNames(type) ELSE {}

Values(struct, kind) ==
  {Scalar(x) : x \in Others(kind.type)}
    \cup {Empty}
    \cup {One(x) : x \in IF kind.list THEN Others(kind.type) ELSE {"object"}}
    \cup {Scalar(IF struct = "Payload" THEN "garbage" ELSE "absent")}

\* One field of each kind.
Fields(struct) ==
  {f \in DOMAIN Structs[struct] :
     f = CHOOSE g \in DOMAIN Structs[struct] : Structs[struct][g] = Structs[struct][f]}

Filled(struct, field) ==
  [struct : {struct}, field : {field}, value : Values(struct, Structs[struct][field])]

Messages(suffix) ==
  Filled("Payload", suffix)
    \cup UNION {Filled(s, f) : <<s, f>> \in
           UNION {{s} \X Fields(s) : s \in Within(Payload[suffix].type)}}

AnyTraffic ==
  UNION {UNION {[side : {s}, topic : {Named(<<A, C>>, x[1])}, payload : Messages(x[1])] :
                x \in Suffixes(s)} : s \in Sides}
=============================================================================
