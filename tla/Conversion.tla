------------------------------ MODULE Conversion ------------------------------
(***************************************************************************)
(* What becomes of a message when TypedSubscriber reads it, the recorder   *)
(* writes it into the event log and TypedPublisher writes it for the other *)
(* broker: the from_json and to_json functions of the schemas, from the    *)
(* macros and overloads of nlohmann/json.hpp.                              *)
(*                                                                         *)
(* A struct is converted field by field, so a message is the one field     *)
(* that is of interest, with the value it has in JSON; all others have     *)
(* values of their types.  JSON values are classes: "integer" fits in 64   *)
(* bits, "huge" does not, "float" has a fraction, "object" has what its    *)
(* struct asks for and "blankObject" has nothing or defaults, as "blank"   *)
(* is the empty string; "garbage" is no JSON.  A member is written down as *)
(* the JSON value to_json gives it.                                        *)
(***************************************************************************)
EXTENDS Schemas

Nothing   == "nothing"
Scalar(x) == [is |-> x, of |-> Nothing]
Empty     == [is |-> "array", of |-> Nothing]
One(x)    == [is |-> "array", of |-> x]

EnumNames(type) == {Enums[type][n] : n \in DOMAIN Enums[type]}

Texts   == {"text", "blank"} \cup UNION {EnumNames(t) : t \in DOMAIN Enums}
Numbers == {"integer", "huge", "float"}
Objects == {"object", "blankObject"}
Classes == Texts \cup Numbers \cup Objects \cup {"null", "boolean", "array"}

-----------------------------------------------------------------------------
(* from_json of one value: the classes it takes, and what they become.  It *)
(* throws for the others.                                                  *)

FromString == [x \in Texts |-> x]
FromBool   == [x \in {"boolean"} |-> x]

\* A number of any kind is cast: a fraction is cut off, what does not fit is some
\* integer.
FromInt64  == [x \in Numbers |-> "integer"]

\* Mutant: the coordinates are read into integers.
FromDoubleCut == FromInt64
FromDouble == [x \in Numbers |-> "float"]

\* The overload for the arithmetic types JSON has no type of its own for.
FromInt32  == [x \in Numbers \cup {"boolean"} |-> "integer"]

FromMap    == [x \in Objects |-> x]

\* A name that is not in the mapping, or no name at all, is the first one of it.
FromEnum(type) ==
  [x \in Classes |-> IF x \in EnumNames(type) THEN x ELSE Enums[type][1]]

\* Null is an object without any of the fields.
FromStruct == [null |-> "blankObject"] ++ [x \in Objects |-> x]

\* MaximumArrayLengths has a from_json of its own, that takes what is no object
\* for one without any of the fields, and its to_json writes null for that.
FromArrayLengths == [x \in Classes |-> IF x = "object" THEN x ELSE "null"]

FromJson ==
  [string |-> FromString, bool |-> FromBool, int64 |-> FromInt64,
   int32 |-> FromInt32, double |-> FromDouble, params |-> FromMap,
   json |-> [x \in Classes |-> x], MaximumArrayLengths |-> FromArrayLengths]
  ++ [t \in DOMAIN Enums |-> FromEnum(t)]
  ++ [t \in DOMAIN Structs |-> FromStruct]

\* What the member initialisers {} make.
Default ==
  [string |-> "blank", bool |-> "boolean", int64 |-> "integer",
   double |-> "float", json |-> "null", MaximumArrayLengths |-> "null"]
  ++ [t \in DOMAIN Enums |-> Enums[t][1]]
  ++ [t \in DOMAIN Structs |-> "blankObject"]

-----------------------------------------------------------------------------
(* A field, and the message with it.                                       *)

\* A field of a message, and the value it has; only an array has something in it.
IsPayload(p) ==
  /\ p \in [struct : DOMAIN Structs, field : STRING, value : [is : STRING, of : STRING]]
  /\ p.field \in DOMAIN Structs[p.struct]
  /\ p.value.is = "array" \/ p.value.of = Nothing

\* from_json of a list, or of what is no list, takes this value.
Takes(kind, v) ==
  \/ kind.list /\ v.is = "array" /\ v.of \in {Nothing} \cup DOMAIN FromJson[kind.type]
  \/ ~kind.list /\ v.is \in DOMAIN FromJson[kind.type]

\* Mutants: std::optional without the test for null; at() in place of value().
ReadsWithoutNull(kind, v) == v.is = "absent" \/ Takes(kind, v)
ReadsStrictly(kind, v)    == (kind.optional /\ v.is = "null") \/ Takes(kind, v)

\* value(): no exception is thrown.
Reads(kind, v) ==
  \/ v.is = "absent"
  \/ kind.optional /\ v.is = "null"
  \/ Takes(kind, v)

\* What the member of a field that was missing is.
Missing(kind) ==
  IF kind.optional THEN Scalar("null")
                   ELSE IF kind.list THEN Empty ELSE Scalar(Default[kind.type])

\* What the member of a field with value v is.
Member(kind, v) ==
  LET Of == FromJson[kind.type] IN
  IF v.is = "absent" THEN Missing(kind)
  ELSE IF kind.optional /\ v.is = "null" THEN Scalar("null")
  ELSE IF kind.list THEN IF v = Empty THEN v ELSE One(Of[v.of])
  ELSE IF kind.type = "json" THEN v ELSE Scalar(Of[v.is])

KindOf(p) == Structs[p.struct][p.field]

PayloadParses(p) == Reads(KindOf(p), p.value)

\* to_json of the message that was read, which is what the recorder dumps.  Every
\* member is written, but for those MaximumArrayLengths has no value for.
Parsed(p) ==
  LET member == Member(KindOf(p), p.value) IN
  [p EXCEPT !.value = IF p.struct = "MaximumArrayLengths" /\ member.is = "null"
                        THEN Scalar("absent") ELSE member]

\* The structs whose fields are on the top level of a message.
TopStructs == {Payload[f].type : f \in DOMAIN Payload}

\* pruneTopLevelFields: null and empty arrays are left out.
Pruned(p) ==
  IF p.struct \in TopStructs /\ (p.value = Empty \/ p.value.is = "null")
    THEN [p EXCEPT !.value = Scalar("absent")] ELSE p

-----------------------------------------------------------------------------
(* For the properties: the values a field of VDA 5050 may have.  The code  *)
(* has a map where the standard has an array of actionParameters.          *)

Conforming ==
  [string |-> Texts, bool |-> {"boolean"}, int64 |-> {"integer"},
   int32 |-> {"integer"}, double |-> Numbers,
   json |-> {"object", "text", "integer", "float", "boolean"}]
  ++ [t \in DOMAIN Enums |-> EnumNames(t)]
  ++ [t \in DOMAIN Structs |-> {"object"}]

IsParameters(p) == KindOf(p).type = "params"

Conforms(p) ==
  LET kind == KindOf(p) IN
  \/ kind.optional /\ p.value.is = "absent"
  \/ IsParameters(p) /\ p.value \in {Empty, One("object")}
  \/ /\ kind.list
     /\ p.value.is = "array"
     /\ p.value.of \in {Nothing} \cup Conforming[kind.type]
  \/ ~kind.list /\ ~IsParameters(p) /\ p.value.is \in Conforming[kind.type]
=============================================================================
