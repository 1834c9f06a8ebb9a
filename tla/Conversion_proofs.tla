--------------------------- MODULE Conversion_proofs ---------------------------
(***************************************************************************)
(* What reading and writing a message does to the value of a field, for    *)
(* every field of every struct and any value: what was read is written so  *)
(* that it is read again as the same, the pruned copy says the same, and   *)
(* what the standard allows stays as it is.                                *)
(*                                                                         *)
(* The tables of Schemas are used through two facts only, that each enum   *)
(* has a first name and none that means something else (EnumsOK), and that *)
(* each field has a kind Conversion knows (StructsOK).                     *)
(***************************************************************************)
EXTENDS Conversion, TLAPS

-----------------------------------------------------------------------------
(* The types.                                                              *)

\* The types with a conversion of their own.
OwnTypes ==
  {"string", "bool", "int64", "int32", "double", "params", "json",
   "MaximumArrayLengths"}

Types == OwnTypes \cup DOMAIN Enums \cup DOMAIN Structs

\* What no name of an enum is.
Reserved ==
  {"absent", "null", "array", "nothing"} \cup Numbers \cup Objects

LEMMA PutTogether ==
  ASSUME NEW f, NEW g
  PROVE  f ++ g = Overlay(f, g)
  BY DEF ++

-----------------------------------------------------------------------------
(* The enums.                                                              *)

IsEnum(names) == 1 \in DOMAIN names /\ \A n \in DOMAIN names : names[n] \notin Reserved

LEMMA EnumTypes ==
  DOMAIN Enums =
    {"BlockingType", "MapStatus", "ZoneSetStatus", "ZoneRequestType",
     "EdgeRequestType", "RequestStatus", "ActionStatus", "OperatingMode",
     "ErrorLevel", "InfoLevel", "ActiveEmergencyStop", "ConnectionState",
     "SupportedZoneType", "SupportType", "ActionScope", "ValueDataType",
     "OrientationType", "ReferencePoint", "CorridorReleaseLossBehavior",
     "GrantType", "ZoneZoneType", "ZoneReleaseLossBehavior",
     "ZoneDirectedLimitation", "ZoneBidirectedLimitation"}
  BY DEF Enums

LEMMA EnumsOK == \A t \in DOMAIN Enums : IsEnum(Enums[t])
  <1>1. IsEnum(Enums.BlockingType)
    BY DEF Enums, BlockingType, IsEnum, Reserved, Numbers, Objects
  <1>2. /\ IsEnum(Enums.MapStatus) /\ IsEnum(Enums.ZoneSetStatus)
        /\ IsEnum(Enums.ZoneRequestType) /\ IsEnum(Enums.EdgeRequestType)
        /\ IsEnum(Enums.RequestStatus) /\ IsEnum(Enums.ActionStatus)
        /\ IsEnum(Enums.OperatingMode) /\ IsEnum(Enums.ErrorLevel)
        /\ IsEnum(Enums.InfoLevel) /\ IsEnum(Enums.ActiveEmergencyStop)
    BY DEF Enums, MapStatus, ZoneSetStatus, ZoneRequestType, EdgeRequestType,
             RequestStatus, ActionStatus, OperatingMode, ErrorLevel, InfoLevel,
             ActiveEmergencyStop, IsEnum, Reserved, Numbers, Objects
  <1>3. IsEnum(Enums.ConnectionState)
    BY DEF Enums, ConnectionState, IsEnum, Reserved, Numbers, Objects
  <1>4. /\ IsEnum(Enums.SupportedZoneType) /\ IsEnum(Enums.SupportType)
        /\ IsEnum(Enums.ActionScope) /\ IsEnum(Enums.ValueDataType)
    BY DEF Enums, SupportedZoneType, SupportType, ActionScope, ValueDataType,
             IsEnum, Reserved, Numbers, Objects
  <1>5. /\ IsEnum(Enums.OrientationType) /\ IsEnum(Enums.ReferencePoint)
        /\ IsEnum(Enums.CorridorReleaseLossBehavior)
    BY DEF Enums, OrientationType, ReferencePoint, CorridorReleaseLossBehavior,
             IsEnum, Reserved, Numbers, Objects
  <1>6. IsEnum(Enums.GrantType)
    BY DEF Enums, GrantType, IsEnum, Reserved, Numbers, Objects
  <1>7. /\ IsEnum(Enums.ZoneZoneType) /\ IsEnum(Enums.ZoneReleaseLossBehavior)
        /\ IsEnum(Enums.ZoneDirectedLimitation)
        /\ IsEnum(Enums.ZoneBidirectedLimitation)
    BY DEF Enums, ZoneZoneType, ZoneReleaseLossBehavior, ZoneDirectedLimitation,
             ZoneBidirectedLimitation, IsEnum, Reserved, Numbers, Objects
  <1> QED BY <1>1, <1>2, <1>3, <1>4, <1>5, <1>6, <1>7, EnumTypes

-----------------------------------------------------------------------------
(* The structs.                                                            *)

\* A map and an int have no value in Default: they come in an optional only.
KindOK(k) ==
  /\ k.type \in Types
  /\ k.list \in BOOLEAN /\ k.optional \in BOOLEAN
  /\ k.type \in {"params", "int32"} => k.optional /\ ~k.list

TableOK(table) == \A f \in DOMAIN table : KindOK(table[f])

LEMMA StructTypes ==
  DOMAIN Structs =
    {"Payload", "BoundingBox", "Vertex", "Action", "AllowedDeviationXY",
     "NodePosition", "ControlPoint", "Trajectory", "PlannedPath", "WayPoint",
     "IntermediatePath", "MobileRobotPosition", "Velocity", "Visualization",
     "Map", "ZoneSet", "NodeState", "EdgeState", "LoadLoadDimensions", "Load",
     "ZoneRequest", "EdgeRequest", "ActionState", "PowerSupply", "Translation",
     "Reference", "Error", "Info", "SafetyState", "State", "Connection",
     "TypeSpecification", "PhysicalParameters", "MaximumStringLengths",
     "MaximumArrayLengths", "Timing", "ProtocolLimits", "OptionalParameter",
     "ActionParameterSchema", "MobileRobotAction", "ProtocolFeatures", "Position",
     "WheelDefinition", "Envelope2d", "Envelope3d", "MobileRobotGeometry",
     "LoadDimensions", "LoadSet", "LoadSpecification", "Version", "Network",
     "BatteryCharging", "MobileRobotConfiguration", "FactSheet", "Node",
     "Corridor", "Edge", "Order", "InstantActions", "Response", "Responses",
     "ZoneAction", "Zone", "ZoneSetDefinition", "ZoneSetMessage"}
  BY DEF Structs

LEMMA Fields ==
  /\ \A f, g : TableOK(f) /\ TableOK(g) => TableOK(f ++ g)
  /\ \A t \in Types : \A names : TableOK(Optional(t, names))
  /\ \A t \in Types \ {"params", "int32"} : \A names :
       TableOK(Required(t, names)) /\ TableOK(List(t, names))
         /\ TableOK(OptionalList(t, names))
  <1>1. ASSUME NEW f, NEW g, TableOK(f), TableOK(g) PROVE TableOK(f ++ g)
    <2>1. TableOK(Overlay(f, g))
      BY <1>1 DEF TableOK, Overlay
    <2> QED BY <2>1, PutTogether
  <1>2. ASSUME NEW t \in Types, NEW o \in BOOLEAN, NEW l \in BOOLEAN,
               t \in {"params", "int32"} => o /\ ~l
        PROVE  KindOK(Kind(t, l, o))
    BY <1>2 DEF KindOK, Kind
  <1> QED BY <1>1, <1>2 DEF TableOK, Optional, Required, List, OptionalList

LEMMA StructsOK == \A s \in DOMAIN Structs : TableOK(Structs[s])
  <1> USE Fields, EnumTypes, StructTypes DEF Types, OwnTypes, Structs, Header
  <1>1. TableOK(Structs.BoundingBox) /\ TableOK(Structs.Vertex)
    BY DEF BoundingBox, Vertex
  <1>2. TableOK(Structs.Action)
    BY DEF Action
  <1>3. TableOK(Structs.AllowedDeviationXY) /\ TableOK(Structs.NodePosition)
    BY DEF AllowedDeviationXY, NodePosition
  <1>4. TableOK(Structs.ControlPoint) /\ TableOK(Structs.Trajectory)
    BY DEF ControlPoint, Trajectory
  <1>5. /\ TableOK(Structs.PlannedPath)
        /\ TableOK(Structs.WayPoint)
        /\ TableOK(Structs.IntermediatePath)
    BY DEF PlannedPath, WayPoint, IntermediatePath
  <1>6. /\ TableOK(Structs.MobileRobotPosition)
        /\ TableOK(Structs.Velocity)
        /\ TableOK(Structs.Visualization)
    BY DEF MobileRobotPosition, Velocity, Visualization
  <1>7. /\ TableOK(Structs.Map)
        /\ TableOK(Structs.ZoneSet)
        /\ TableOK(Structs.NodeState)
    BY DEF Map, ZoneSet, NodeState
  <1>8. TableOK(Structs.EdgeState) /\ TableOK(Structs.LoadLoadDimensions)
    BY DEF EdgeState, LoadLoadDimensions
  <1>9. TableOK(Structs.Load)
    BY DEF Load
  <1>10. /\ TableOK(Structs.ZoneRequest)
         /\ TableOK(Structs.EdgeRequest)
         /\ TableOK(Structs.ActionState)
    BY DEF ZoneRequest, EdgeRequest, ActionState
  <1>11. /\ TableOK(Structs.PowerSupply)
         /\ TableOK(Structs.Translation)
         /\ TableOK(Structs.Reference)
    BY DEF PowerSupply, Translation, Reference
  <1>12. TableOK(Structs.Error)
    BY DEF Error
  <1>13. TableOK(Structs.Info) /\ TableOK(Structs.SafetyState)
    BY DEF Info, SafetyState
  <1>14. TableOK(Structs.State)
    BY DEF State
  <1>15. TableOK(Structs.Connection)
    BY DEF Connection
  <1>16. /\ TableOK(Structs.TypeSpecification)
         /\ TableOK(Structs.PhysicalParameters)
         /\ TableOK(Structs.MaximumStringLengths)
    BY DEF TypeSpecification, PhysicalParameters, MaximumStringLengths
  <1>17. /\ TableOK(Structs.MaximumArrayLengths)
         /\ TableOK(Structs.Timing)
         /\ TableOK(Structs.ProtocolLimits)
    BY DEF MaximumArrayLengths, Timing, ProtocolLimits
  <1>18. /\ TableOK(Structs.OptionalParameter)
         /\ TableOK(Structs.ActionParameterSchema)
         /\ TableOK(Structs.MobileRobotAction)
    BY DEF OptionalParameter, ActionParameterSchema, MobileRobotAction
  <1>19. /\ TableOK(Structs.ProtocolFeatures)
         /\ TableOK(Structs.Position)
         /\ TableOK(Structs.WheelDefinition)
    BY DEF ProtocolFeatures, Position, WheelDefinition
  <1>20. /\ TableOK(Structs.Envelope2d)
         /\ TableOK(Structs.Envelope3d)
         /\ TableOK(Structs.MobileRobotGeometry)
    BY DEF Envelope2d, Envelope3d, MobileRobotGeometry
  <1>21. TableOK(Structs.LoadDimensions)
    BY DEF LoadDimensions
  <1>22. TableOK(Structs.LoadSet)
    BY DEF LoadSet
  <1>23. /\ TableOK(Structs.LoadSpecification)
         /\ TableOK(Structs.Version)
         /\ TableOK(Structs.Network)
    BY DEF LoadSpecification, Version, Network
  <1>24. /\ TableOK(Structs.BatteryCharging)
         /\ TableOK(Structs.MobileRobotConfiguration)
    BY DEF BatteryCharging, MobileRobotConfiguration
  <1>25. TableOK(Structs.FactSheet)
    BY DEF FactSheet
  <1>26. TableOK(Structs.Node) /\ TableOK(Structs.Corridor)
    BY DEF Node, Corridor
  <1>27. TableOK(Structs.Edge)
    BY DEF Edge
  <1>28. TableOK(Structs.Order)
    BY DEF Order
  <1>29. TableOK(Structs.InstantActions)
    BY DEF InstantActions
  <1>30. TableOK(Structs.Response) /\ TableOK(Structs.Responses)
    BY DEF Response, Responses
  <1>31. TableOK(Structs.ZoneAction)
    BY DEF ZoneAction
  <1>32. TableOK(Structs.Zone)
    BY DEF Zone
  <1>33. TableOK(Structs.ZoneSetDefinition) /\ TableOK(Structs.ZoneSetMessage)
    BY DEF ZoneSetDefinition, ZoneSetMessage
  <1>34. TableOK(Structs.Payload)
    BY DEF Payload
  <1> HIDE DEF Types, OwnTypes, Structs, Header
  <1> QED BY <1>1, <1>2, <1>3, <1>4, <1>5, <1>6, <1>7, <1>8, <1>9, <1>10, <1>11,
         <1>12, <1>13, <1>14, <1>15, <1>16, <1>17, <1>18, <1>19, <1>20, <1>21,
         <1>22, <1>23, <1>24, <1>25, <1>26, <1>27, <1>28, <1>29, <1>30, <1>31,
         <1>32, <1>33, <1>34

-----------------------------------------------------------------------------
(* from_json of one value.                                                 *)

LEMMA Names ==
  /\ \A t \in DOMAIN Enums :
       /\ EnumNames(t) \subseteq Texts
       /\ Enums[t][1] \in EnumNames(t)
  /\ Texts \cap Reserved = {}
  <1>1. ASSUME NEW t \in DOMAIN Enums
        PROVE  Enums[t][1] \in EnumNames(t) /\ EnumNames(t) \cap Reserved = {}
    BY EnumsOK DEF IsEnum, EnumNames
  <1>2. {"text", "blank"} \cap Reserved = {}
    BY DEF Reserved, Numbers, Objects
  <1> QED BY <1>1, <1>2 DEF Texts

\* What is in one of three tables, of which the first counts.
IsThree(f, a, b, c) == f = Overlay(Overlay(a, b), c)

LEMMA FirstTable ==
  ASSUME NEW a, NEW b, NEW c, NEW f, IsThree(f, a, b, c), NEW x \in DOMAIN a
  PROVE  f[x] = a[x]
  BY DEF IsThree, Overlay

LEMMA SecondTable ==
  ASSUME NEW a, NEW b, NEW c, NEW f, IsThree(f, a, b, c), NEW x \in DOMAIN b \ DOMAIN a
  PROVE  f[x] = b[x]
  BY DEF IsThree, Overlay

LEMMA ThirdTable ==
  ASSUME NEW a, NEW b, NEW c, NEW f, IsThree(f, a, b, c),
         NEW x \in DOMAIN c, x \notin DOMAIN a, x \notin DOMAIN b
  PROVE  f[x] = c[x]
  BY DEF IsThree, Overlay

LEMMA AllTables ==
  ASSUME NEW a, NEW b, NEW c, NEW f, IsThree(f, a, b, c)
  PROVE  \A x : x \in DOMAIN f <=> x \in DOMAIN a \/ x \in DOMAIN b \/ x \in DOMAIN c
  BY DEF IsThree, Overlay

LEMMA TypesApart ==
  /\ OwnTypes \cap DOMAIN Enums = {}
  /\ DOMAIN Enums \cap DOMAIN Structs = {}
  BY EnumTypes, StructTypes DEF OwnTypes

LEMMA Conversions ==
  /\ DOMAIN FromJson = Types
  /\ FromJson["string"] = FromString /\ FromJson["bool"] = FromBool
  /\ FromJson["int64"] = FromInt64 /\ FromJson["int32"] = FromInt32
  /\ FromJson["double"] = FromDouble /\ FromJson["params"] = FromMap
  /\ FromJson["json"] = [x \in Classes |-> x]
  /\ FromJson["MaximumArrayLengths"] = FromArrayLengths
  /\ \A t \in DOMAIN Enums : FromJson[t] = FromEnum(t)
  /\ \A t \in DOMAIN Structs \ OwnTypes : FromJson[t] = FromStruct
  <1> DEFINE a == [string |-> FromString, bool |-> FromBool, int64 |-> FromInt64,
                   int32 |-> FromInt32, double |-> FromDouble, params |-> FromMap,
                   json |-> [x \in Classes |-> x],
                   MaximumArrayLengths |-> FromArrayLengths]
             b == [t \in DOMAIN Enums |-> FromEnum(t)]
             c == [t \in DOMAIN Structs |-> FromStruct]
  <1>1. IsThree(FromJson, a, b, c)
    BY PutTogether DEF FromJson, IsThree
  <1>2. DOMAIN a = OwnTypes
    BY DEF OwnTypes
  <1>3. DOMAIN b = DOMAIN Enums /\ DOMAIN c = DOMAIN Structs
    OBVIOUS
  <1>4. /\ a["string"] = FromString /\ a["bool"] = FromBool
        /\ a["int64"] = FromInt64 /\ a["int32"] = FromInt32
        /\ a["double"] = FromDouble /\ a["params"] = FromMap
        /\ a["json"] = [x \in Classes |-> x]
        /\ a["MaximumArrayLengths"] = FromArrayLengths
        /\ \A t \in DOMAIN Enums : b[t] = FromEnum(t)
        /\ \A t \in DOMAIN Structs : c[t] = FromStruct
    OBVIOUS
  <1> HIDE DEF a, b, c
  <1>5. /\ \A x \in DOMAIN a : FromJson[x] = a[x]
        /\ \A x \in DOMAIN b \ DOMAIN a : FromJson[x] = b[x]
        /\ \A x \in DOMAIN c \ (DOMAIN a \cup DOMAIN b) : FromJson[x] = c[x]
    BY <1>1, FirstTable, SecondTable, ThirdTable
  <1>6. DOMAIN FromJson = Types
    <2>1. \A x : x \in DOMAIN FromJson
                  <=> x \in DOMAIN a \/ x \in DOMAIN b \/ x \in DOMAIN c
      BY <1>1, AllTables
    <2> QED BY <1>2, <1>3, <2>1 DEF Types
  <1>7. /\ \A t \in DOMAIN Enums : FromJson[t] = FromEnum(t)
        /\ \A t \in DOMAIN Structs \ OwnTypes : FromJson[t] = FromStruct
    BY <1>2, <1>3, <1>4, <1>5, TypesApart
  <1>8. \A t \in OwnTypes : FromJson[t] = a[t]
    BY <1>2, <1>5
  <1> QED BY <1>4, <1>6, <1>7, <1>8 DEF OwnTypes

\* A value that was read is written as one that is read as itself.
LEMMA ReadTwice ==
  ASSUME NEW t \in Types, NEW x \in DOMAIN FromJson[t], NEW y, y = FromJson[t][x]
  PROVE  /\ y \in DOMAIN FromJson[t] /\ FromJson[t][y] = y
         /\ y # "absent"
         /\ y = "array" => t = "json"
         /\ y = "null" => t \in {"json", "MaximumArrayLengths"}
         /\ x \notin {"absent", "nothing"}
  <1> USE Names
  <1>1. {"absent", "nothing"} \cap Classes = {}
    BY DEF Classes, Reserved, Numbers, Objects
  <1>2. CASE t = "string"
    BY <1>2, Conversions DEF FromString, Reserved
  <1>3. CASE t \in {"bool", "int64", "int32", "double", "params"}
    BY <1>3, Conversions
       DEF FromBool, FromInt64, FromInt32, FromDouble, FromMap, Numbers, Objects
  <1>4. CASE t = "json"
    BY <1>1, <1>4, Conversions
  <1>5. CASE t = "MaximumArrayLengths"
    BY <1>1, <1>5, Conversions DEF FromArrayLengths, Classes, Objects
  <1>6. CASE t \in DOMAIN Enums
    <2>1. FromJson[t] = FromEnum(t)
      BY <1>6, Conversions
    <2>2. EnumNames(t) \subseteq Classes
      BY <1>6 DEF Classes
    <2>3. y \in EnumNames(t)
      BY <1>6, <2>1 DEF FromEnum
    <2>4. FromEnum(t)[y] = y
      BY <2>2, <2>3 DEF FromEnum
    <2>5. y \in Texts
      BY <1>6, <2>3
    <2> QED BY <1>1, <2>1, <2>2, <2>3, <2>4, <2>5 DEF FromEnum, Reserved
  <1>7. CASE t \in DOMAIN Structs \ OwnTypes
    <2>1. FromJson[t] = Overlay([null |-> "blankObject"], [o \in Objects |-> o])
      BY <1>7, Conversions, PutTogether DEF FromStruct
    <2> QED BY <2>1 DEF Overlay, Objects
  <1> QED BY <1>2, <1>3, <1>4, <1>5, <1>6, <1>7 DEF Types, OwnTypes

\* So is what a member is made of.
LEMMA Defaults ==
  ASSUME NEW t \in Types \ {"params", "int32"}, NEW y, y = Default[t]
  PROVE  /\ y \in DOMAIN FromJson[t] /\ FromJson[t][y] = y
         /\ y \notin {"absent", "array"}
         /\ t \in {"json", "MaximumArrayLengths"} => y = "null"
  <1> DEFINE a == [string |-> "blank", bool |-> "boolean", int64 |-> "integer",
                   double |-> "float", json |-> "null",
                   MaximumArrayLengths |-> "null"]
             b == [u \in DOMAIN Enums |-> Enums[u][1]]
             c == [u \in DOMAIN Structs |-> "blankObject"]
  <1>1. IsThree(Default, a, b, c)
    BY PutTogether DEF Default, IsThree
  <1>2. DOMAIN a = OwnTypes \ {"params", "int32"}
    BY DEF OwnTypes
  <1>3. /\ DOMAIN b = DOMAIN Enums /\ DOMAIN c = DOMAIN Structs
        /\ a["string"] = "blank" /\ a["bool"] = "boolean" /\ a["int64"] = "integer"
        /\ a["double"] = "float" /\ a["json"] = "null"
        /\ a["MaximumArrayLengths"] = "null"
        /\ \A u \in DOMAIN Enums : b[u] = Enums[u][1]
        /\ \A u \in DOMAIN Structs : c[u] = "blankObject"
    OBVIOUS
  <1> HIDE DEF a, b, c
  <1>4. /\ \A x \in DOMAIN a : Default[x] = a[x]
        /\ \A x \in DOMAIN b \ DOMAIN a : Default[x] = b[x]
        /\ \A x \in DOMAIN c \ (DOMAIN a \cup DOMAIN b) : Default[x] = c[x]
    BY <1>1, FirstTable, SecondTable, ThirdTable, AllTables
  <1>5. CASE t \in OwnTypes
    <2>1. y = a[t]
      BY <1>2, <1>4, <1>5
    <2> QED BY <1>3, <1>5, <2>1, Conversions
            DEF OwnTypes, FromString, Texts, FromBool, FromInt64, FromDouble, Numbers,
                FromArrayLengths, Classes
  <1>6. CASE t \in DOMAIN Enums
    <2>1. y = Enums[t][1]
      BY <1>2, <1>3, <1>4, <1>6, TypesApart
    <2>2. y \in EnumNames(t) /\ EnumNames(t) \subseteq Texts
      BY <1>6, <2>1, Names
    <2>3. y \in Classes
      BY <2>2 DEF Classes
    <2> QED BY <1>6, <2>2, <2>3, Conversions, Names, TypesApart
            DEF FromEnum, OwnTypes, Reserved
  <1>7. CASE t \in DOMAIN Structs \ OwnTypes
    <2>1. y = "blankObject"
      BY <1>2, <1>3, <1>4, <1>7, TypesApart
    <2>2. FromJson[t] = Overlay([null |-> "blankObject"], [o \in Objects |-> o])
      BY <1>7, Conversions, PutTogether DEF FromStruct
    <2> QED BY <1>7, <2>1, <2>2 DEF Overlay, Objects, OwnTypes
  <1> QED BY <1>5, <1>6, <1>7 DEF Types

\* What the standard allows is read, and stays what it is.
LEMMA ConformingFacts ==
  ASSUME NEW t \in Types \ {"params"}, NEW x \in Conforming[t]
  PROVE  /\ x \in DOMAIN FromJson[t]
         /\ FromJson[t][x] = x \/ (t = "double" /\ FromJson[t][x] = "float")
         /\ x \notin {"absent", "null", "array", "nothing"}
  <1> DEFINE a == [string |-> Texts, bool |-> {"boolean"}, int64 |-> {"integer"},
                   int32 |-> {"integer"}, double |-> Numbers,
                   json |-> {"object", "text", "integer", "float", "boolean"}]
             b == [u \in DOMAIN Enums |-> EnumNames(u)]
             c == [u \in DOMAIN Structs |-> {"object"}]
  <1>1. IsThree(Conforming, a, b, c)
    BY PutTogether DEF Conforming, IsThree
  <1>2. DOMAIN a = OwnTypes \ {"params", "MaximumArrayLengths"}
    BY DEF OwnTypes
  <1>3. /\ DOMAIN b = DOMAIN Enums /\ DOMAIN c = DOMAIN Structs
        /\ a["string"] = Texts /\ a["bool"] = {"boolean"} /\ a["int64"] = {"integer"}
        /\ a["int32"] = {"integer"} /\ a["double"] = Numbers
        /\ a["json"] = {"object", "text", "integer", "float", "boolean"}
        /\ \A u \in DOMAIN Enums : b[u] = EnumNames(u)
        /\ \A u \in DOMAIN Structs : c[u] = {"object"}
    OBVIOUS
  <1> HIDE DEF a, b, c
  <1>4. /\ \A u \in DOMAIN a : Conforming[u] = a[u]
        /\ \A u \in DOMAIN b \ DOMAIN a : Conforming[u] = b[u]
        /\ \A u \in DOMAIN c \ (DOMAIN a \cup DOMAIN b) : Conforming[u] = c[u]
    BY <1>1, FirstTable, SecondTable, ThirdTable, AllTables
  <1>5. CASE t = "string"
    <2>1. x \in Texts
      BY <1>2, <1>3, <1>4, <1>5 DEF OwnTypes
    <2> QED BY <1>5, <2>1, Conversions, Names DEF FromString, Reserved
  <1>6. CASE t \in {"bool", "int64", "int32", "double", "json"}
    <2>1. x \in a[t]
      BY <1>2, <1>4, <1>6 DEF OwnTypes
    <2> QED BY <1>3, <1>6, <2>1, Conversions
            DEF FromBool, FromInt64, FromInt32, FromDouble, Numbers, Classes, Objects,
                Texts
  <1>7. CASE t \in DOMAIN Enums
    <2>1. x \in EnumNames(t)
      BY <1>2, <1>3, <1>4, <1>7, TypesApart
    <2>2. x \in Texts
      BY <1>7, <2>1, Names
    <2>3. x \in Classes /\ x \notin {"absent", "null", "array", "nothing"}
      BY <2>2, Names DEF Reserved, Classes
    <2>4. FromJson[t] = FromEnum(t)
      BY <1>7, Conversions
    <2> QED BY <2>1, <2>3, <2>4 DEF FromEnum
  <1>8. CASE t \in DOMAIN Structs
    <2>1. x = "object"
      <3>1. t \notin DOMAIN a
        BY <1>2, <1>8, StructTypes DEF OwnTypes
      <3> QED BY <1>3, <1>4, <1>8, <3>1, TypesApart
    <2>2. CASE t = "MaximumArrayLengths"
      BY <2>1, <2>2, Conversions DEF FromArrayLengths, Classes, Objects
    <2>3. CASE t # "MaximumArrayLengths"
      <3>1. FromJson[t] = FromStruct
        BY <1>8, <2>3, Conversions, StructTypes DEF OwnTypes
      <3>2. FromJson[t] = Overlay([null |-> "blankObject"], [o \in Objects |-> o])
        BY <3>1, PutTogether DEF FromStruct
      <3> QED BY <2>1, <3>2 DEF Overlay, Objects
    <2> QED BY <2>2, <2>3
  <1> QED BY <1>5, <1>6, <1>7, <1>8, StructTypes DEF Types, OwnTypes

-----------------------------------------------------------------------------
(* A field.                                                                *)

IsValue(v) ==
  /\ v \in [is : STRING, of : STRING]
  /\ v.is = "array" \/ v.of = Nothing

LEMMA Values ==
  /\ \A v : IsValue(v) =>
       /\ v = Empty <=> v.is = "array" /\ v.of = Nothing
       /\ v.is = "array" => v = One(v.of)
       /\ v.is # "array" => v = Scalar(v.is)
  /\ \A x : /\ Scalar(x).is = x /\ Scalar(x).of = Nothing
            /\ One(x).is = "array" /\ One(x).of = x
  /\ Empty.is = "array" /\ Empty.of = Nothing
  BY DEF IsValue, Scalar, Empty, One

\* What was read is written so that it is read again as the same: Reads takes the
\* member, and Member leaves it alone.
LEMMA MemberReadsBack ==
  ASSUME NEW k, KindOK(k), NEW v, IsValue(v), Reads(k, v), NEW m, m = Member(k, v)
  PROVE  /\ Reads(k, m) /\ Member(k, m) = m
         /\ m.is # "absent"
         /\ m.is = "array" => k.list \/ k.type = "json"
         /\ m.is = "null" => m = Scalar("null")
         /\ m.is = "null" =>
              k.optional \/ (~k.list /\ k.type \in {"json", "MaximumArrayLengths"})
  <1> DEFINE F == FromJson[k.type]
  <1>k. k.type \in Types /\ k.list \in BOOLEAN /\ k.optional \in BOOLEAN
    BY DEF KindOK
  <1>f. /\ \A x \in DOMAIN F :
             /\ F[x] \in DOMAIN F /\ F[F[x]] = F[x]
             /\ F[x] # "absent"
             /\ F[x] = "array" => k.type = "json"
             /\ F[x] = "null" => k.type \in {"json", "MaximumArrayLengths"}
             /\ x \notin {"absent", "nothing"}
    BY <1>k, ReadTwice
  <1>t. \A w : Takes(k, w) <=>
          \/ k.list /\ w.is = "array" /\ w.of \in {Nothing} \cup DOMAIN F
          \/ ~k.list /\ w.is \in DOMAIN F
    BY DEF Takes
  <1>r. \A w : Reads(k, w) <=>
          w.is = "absent" \/ (k.optional /\ w.is = "null") \/ Takes(k, w)
    BY DEF Reads
  <1>m. \A w : /\ w.is = "absent" => Member(k, w) = Missing(k)
               /\ w.is = "null" /\ k.optional => Member(k, w) = Scalar("null")
               /\ w.is # "absent" /\ ~(w.is = "null" /\ k.optional) =>
                    /\ k.list => Member(k, w) = IF w = Empty THEN w ELSE One(F[w.of])
                    /\ ~k.list /\ k.type = "json" => Member(k, w) = w
                    /\ ~k.list /\ k.type # "json" => Member(k, w) = Scalar(F[w.is])
    BY <1>k DEF Member
  <1> HIDE DEF F
  <1>n. ASSUME m = Scalar("null"), k.optional
        PROVE  Reads(k, m) /\ Member(k, m) = m
    BY <1>n, <1>r, <1>m, Values
  <1>e. ASSUME m = Empty, k.list
        PROVE  Reads(k, m) /\ Member(k, m) = m
    BY <1>e, <1>r, <1>m, <1>t, Values
  <1>1. CASE v.is = "absent"
    <2>1. m = Missing(k)
      BY <1>1, <1>m
    <2>2. CASE k.optional
      BY <1>n, <2>1, <2>2, Values DEF Missing
    <2>3. CASE ~k.optional /\ k.list
      BY <1>e, <2>1, <2>3, Values DEF Missing
    <2>4. CASE ~k.optional /\ ~k.list
      <3>1. m = Scalar(Default[k.type])
        BY <2>1, <2>4 DEF Missing
      <3>2. k.type \in Types \ {"params", "int32"}
        BY <1>k, <2>4 DEF KindOK
      <3> DEFINE d == Default[k.type]
      <3>3. /\ d \in DOMAIN F /\ F[d] = d
            /\ d \notin {"absent", "array"}
            /\ d = "null" => k.type \in {"json", "MaximumArrayLengths"}
        <4>1. /\ d \in DOMAIN F /\ F[d] = d
              /\ d \notin {"absent", "array"}
          BY <3>2, Defaults DEF F
        <4> QED BY <1>f, <4>1
      <3> HIDE DEF d
      <3>4. m = Scalar(d)
        BY <3>1 DEF d
      <3>5. m.is = d /\ m.of = Nothing
        BY <3>4, Values
      <3> QED BY <1>m, <1>r, <1>t, <2>4, <3>3, <3>4, <3>5, Values
    <2> QED BY <1>k, <2>2, <2>3, <2>4
  <1>2. CASE v.is = "null" /\ k.optional
    BY <1>2, <1>m, <1>n, Values
  <1>3. CASE v.is # "absent" /\ ~(v.is = "null" /\ k.optional) /\ k.list
    <2>1. v.is = "array" /\ v.of \in {Nothing} \cup DOMAIN F
      BY <1>3, <1>r, <1>t
    <2>2. CASE v = Empty
      BY <1>3, <1>e, <1>m, <2>2, Values
    <2>3. CASE v # Empty
      <3>1. v.of \in DOMAIN F
        BY <2>1, <2>3, Values
      <3> DEFINE y == F[v.of]
      <3>2. y \in DOMAIN F /\ F[y] = y /\ y # "nothing"
        BY <1>f, <3>1
      <3>3. m = One(y)
        BY <1>3, <1>m, <2>3
      <3> HIDE DEF y
      <3>4. m.is = "array" /\ m.of = y /\ m # Empty
        BY <3>2, <3>3, Values DEF Nothing
      <3> QED BY <1>3, <1>m, <1>r, <1>t, <3>2, <3>3, <3>4
    <2> QED BY <2>2, <2>3
  <1>4. CASE v.is # "absent" /\ ~(v.is = "null" /\ k.optional) /\ ~k.list
    <2>1. v.is \in DOMAIN F
      BY <1>4, <1>r, <1>t
    <2>2. CASE k.type = "json"
      BY <1>4, <1>m, <2>2, Values
    <2>3. CASE k.type # "json"
      <3> DEFINE y == F[v.is]
      <3>1. /\ y \in DOMAIN F /\ F[y] = y /\ y \notin {"absent", "array"}
            /\ y = "null" => k.type \in {"json", "MaximumArrayLengths"}
        BY <1>f, <2>1, <2>3
      <3>2. m = Scalar(y)
        BY <1>4, <1>m, <2>3
      <3> HIDE DEF y
      <3>3. m.is = y /\ m.of = Nothing
        BY <3>2, Values
      <3> QED BY <1>4, <1>m, <1>r, <1>t, <2>3, <3>1, <3>2, <3>3
    <2> QED BY <2>2, <2>3
  <1> QED BY <1>k, <1>1, <1>2, <1>3, <1>4

-----------------------------------------------------------------------------
(* A message.                                                              *)

\* The message with another value of the field.
With(p, v) == [p EXCEPT !.value = v]

LEMMA PayloadFacts ==
  ASSUME NEW p, IsPayload(p)
  PROVE  /\ KindOK(KindOf(p))
         /\ IsValue(p.value)
         /\ With(p, p.value) = p
         /\ \A v : /\ With(p, v).struct = p.struct /\ With(p, v).value = v
                   /\ KindOf(With(p, v)) = KindOf(p)
                   /\ \A w : With(With(p, v), w) = With(p, w)
  <1>1. /\ p.struct \in DOMAIN Structs
        /\ p.field \in DOMAIN Structs[p.struct]
        /\ IsValue(p.value)
    BY DEF IsPayload, IsValue
  <1>2. KindOK(KindOf(p))
    BY <1>1, StructsOK DEF TableOK, KindOf
  <1>3. p \in [struct : DOMAIN Structs, field : STRING, value : [is : STRING, of : STRING]]
    BY DEF IsPayload
  <1>4. /\ With(p, p.value) = p
        /\ \A v : /\ With(p, v).struct = p.struct /\ With(p, v).field = p.field
                  /\ With(p, v).value = v
                  /\ \A w : With(With(p, v), w) = With(p, w)
    BY <1>3 DEF With
  <1> QED BY <1>1, <1>2, <1>4 DEF KindOf

\* The one struct with a to_json that leaves members out has nothing else.
LEMMA ArrayLengths ==
  /\ \A f \in DOMAIN Structs["MaximumArrayLengths"] :
       Structs["MaximumArrayLengths"][f].optional
  /\ "MaximumArrayLengths" \notin TopStructs
  <1>1. \A f \in DOMAIN MaximumArrayLengths : MaximumArrayLengths[f].optional
    BY DEF MaximumArrayLengths, Optional, Kind
  <1>2. Structs["MaximumArrayLengths"] = MaximumArrayLengths
    BY DEF Structs
  <1> DEFINE OnTop(table) ==
        \A f \in DOMAIN table : table[f].type # "MaximumArrayLengths"
  <1>3. ASSUME NEW f, NEW g, OnTop(f), OnTop(g) PROVE OnTop(f ++ g)
    <2>1. OnTop(Overlay(f, g))
      BY <1>3 DEF Overlay
    <2>2. f ++ g = Overlay(f, g)
      BY PutTogether
    <2> HIDE DEF OnTop
    <2> QED BY <2>1, <2>2
  <1>4. \A t, names : t # "MaximumArrayLengths" => OnTop(Required(t, names))
    BY DEF Required, Kind
  <1> HIDE DEF OnTop
  <1>5. OnTop(Payload)
    BY <1>3, <1>4 DEF Payload
  <1> QED BY <1>1, <1>2, <1>5 DEF OnTop, TopStructs

\* What TypedSubscriber has made of a payload.
LEMMA ParsedFacts ==
  ASSUME NEW p, IsPayload(p), NEW q, q = Parsed(p), NEW m, m = Member(KindOf(p), p.value)
  PROVE  /\ q = With(p, q.value)
         /\ q.struct = p.struct /\ KindOf(q) = KindOf(p)
         /\ \/ p.struct = "MaximumArrayLengths" /\ m.is = "null" /\ q.value = Scalar("absent")
            \/ ~(p.struct = "MaximumArrayLengths" /\ m.is = "null") /\ q.value = m
  <1>1. q = With(p, IF p.struct = "MaximumArrayLengths" /\ m.is = "null"
                      THEN Scalar("absent") ELSE m)
    BY DEF Parsed, With
  <1> QED BY <1>1, PayloadFacts

\* A row in the event log can be read again, and says what the message said.
THEOREM ParsedReadsBack ==
  ASSUME NEW p, IsPayload(p), PayloadParses(p), NEW q, q = Parsed(p)
  PROVE  PayloadParses(q) /\ Parsed(q) = q
  <1> DEFINE k == KindOf(p)
             v == p.value
             m == Member(k, v)
  <1>1. KindOK(k) /\ IsValue(v) /\ Reads(k, v)
    BY PayloadFacts DEF PayloadParses
  <1>2. /\ q = With(p, q.value)
        /\ q.struct = p.struct /\ KindOf(q) = k
        /\ \/ p.struct = "MaximumArrayLengths" /\ m.is = "null" /\ q.value = Scalar("absent")
           \/ ~(p.struct = "MaximumArrayLengths" /\ m.is = "null") /\ q.value = m
    BY ParsedFacts
  <1>3. p.struct = "MaximumArrayLengths" => k.optional
    BY ArrayLengths DEF KindOf, IsPayload
  <1> HIDE DEF k, v
  <1>4. Reads(k, m) /\ Member(k, m) = m
    BY <1>1, MemberReadsBack
  <1>5. Parsed(q) = With(q,
                      IF q.struct = "MaximumArrayLengths" /\ Member(k, q.value).is = "null"
                        THEN Scalar("absent") ELSE Member(k, q.value))
    BY <1>2 DEF Parsed, With
  <1> HIDE DEF m
  <1>6. With(q, q.value) = q
    BY <1>2, PayloadFacts
  <1>7. CASE p.struct = "MaximumArrayLengths" /\ m.is = "null"
    <2>1. q.value = Scalar("absent") /\ k.optional
      BY <1>2, <1>3, <1>7
    <2>2. Member(k, q.value) = Scalar("null") /\ Scalar("null").is = "null"
      BY <2>1, Values DEF Member, Missing
    <2>3. Reads(k, q.value)
      BY <2>1, Values DEF Reads
    <2> QED BY <1>2, <1>5, <1>6, <1>7, <2>1, <2>2, <2>3 DEF PayloadParses
  <1>8. CASE ~(p.struct = "MaximumArrayLengths" /\ m.is = "null")
    <2>1. q.value = m
      BY <1>2, <1>8
    <2> QED BY <1>2, <1>4, <1>5, <1>6, <1>8, <2>1 DEF PayloadParses
  <1> QED BY <1>7, <1>8

\* The copy can be read, and says what the message said, but for an empty list.
THEOREM PrunedSaysTheSame ==
  ASSUME NEW p, IsPayload(p), PayloadParses(p), NEW q, q = Parsed(p), NEW r, r = Pruned(q)
  PROVE  /\ PayloadParses(r)
         /\ \/ Parsed(r) = q
            \/ q.value = Empty /\ Parsed(r).value = Scalar("null")
  <1> DEFINE k == KindOf(p)
             v == p.value
             m == Member(k, v)
  <1>1. KindOK(k) /\ IsValue(v) /\ Reads(k, v)
    BY PayloadFacts DEF PayloadParses
  <1>2. /\ q = With(p, q.value)
        /\ q.struct = p.struct /\ KindOf(q) = k
        /\ \/ p.struct = "MaximumArrayLengths" /\ m.is = "null" /\ q.value = Scalar("absent")
           \/ ~(p.struct = "MaximumArrayLengths" /\ m.is = "null") /\ q.value = m
    BY ParsedFacts
  <1> HIDE DEF k, v
  <1>3. /\ m.is = "array" => k.list \/ k.type = "json"
        /\ m.is = "null" => m = Scalar("null")
        /\ m.is = "null" =>
             k.optional \/ (~k.list /\ k.type \in {"json", "MaximumArrayLengths"})
    BY <1>1, MemberReadsBack
  <1> HIDE DEF m
  <1>4. CASE r = q
    BY <1>4, ParsedReadsBack
  <1>5. CASE r # q
    <2>1. /\ q.struct \in TopStructs
          /\ q.value = Empty \/ q.value.is = "null"
          /\ r = With(q, Scalar("absent"))
      BY <1>5 DEF Pruned, With
    <2>2. p.struct # "MaximumArrayLengths" /\ q.value = m
      BY <1>2, <2>1, ArrayLengths
    <2>3. r = With(p, Scalar("absent"))
      BY <1>2, <2>1, PayloadFacts
    <2>4. r.struct = p.struct /\ KindOf(r) = k /\ r.value = Scalar("absent")
      BY <2>3, PayloadFacts DEF k
    <2>5. PayloadParses(r)
      BY <2>4, Values DEF PayloadParses, Reads
    <2>6. Member(k, r.value) = Missing(k)
      BY <2>4, Values DEF Member
    <2>7. Parsed(r) = With(p, Missing(k))
      <3>1. Parsed(r) = With(r, Missing(k))
        BY <2>2, <2>4, <2>6 DEF Parsed, With
      <3> QED BY <2>3, <3>1, PayloadFacts
    <2>8. Parsed(r).value = Missing(k)
      BY <2>7, PayloadFacts
    <2>9. Missing(k) = q.value \/ (q.value = Empty /\ Missing(k) = Scalar("null"))
      <3>1. CASE k.optional
        <4>1. Missing(k) = Scalar("null")
          BY <3>1 DEF Missing
        <4> QED BY <1>3, <2>1, <2>2, <4>1
      <3>2. CASE ~k.optional /\ k.list
        <4>1. Missing(k) = Empty
          BY <3>2 DEF Missing
        <4> QED BY <1>3, <2>1, <2>2, <3>2, <4>1
      <3>3. CASE ~k.optional /\ ~k.list
        <4>1. Missing(k) = Scalar(Default[k.type])
          BY <3>3 DEF Missing
        <4>2. k.type \in {"json", "MaximumArrayLengths"}
          BY <1>3, <2>1, <2>2, <3>3, Values
        <4>3. k.type \in Types \ {"params", "int32"}
          BY <1>1, <4>2 DEF KindOK
        <4>4. Default[k.type] = "null"
          BY <4>2, <4>3, Defaults
        <4> QED BY <1>3, <2>1, <2>2, <4>1, <4>4
      <3> QED BY <1>1, <3>1, <3>2, <3>3 DEF KindOK
    <2> QED BY <1>2, <2>5, <2>7, <2>8, <2>9
  <1> QED BY <1>4, <1>5

\* What the standard allows is read, but for an array of actionParameters.
THEOREM ConformingIsRead ==
  ASSUME NEW p, IsPayload(p), Conforms(p), ~(IsParameters(p) /\ p.value.is = "array")
  PROVE  PayloadParses(p)
  <1> DEFINE k == KindOf(p)
             v == p.value
  <1>1. KindOK(k) /\ IsValue(v)
    BY PayloadFacts
  <1>2. CASE v.is = "absent"
    BY <1>2 DEF PayloadParses, Reads
  <1>3. CASE k.type # "params"
    <2>1. k.type \in Types \ {"params"}
      BY <1>1, <1>3 DEF KindOK
    <2>2. \A x \in Conforming[k.type] : x \in DOMAIN FromJson[k.type]
      BY <2>1, ConformingFacts
    <2> QED BY <1>1, <1>3, <2>2 DEF Conforms, IsParameters, PayloadParses, Reads, Takes
  <1>4. CASE k.type = "params"
    <2>1. ~k.list
      BY <1>1, <1>4 DEF KindOK
    <2>2. Empty.is = "array" /\ One("object").is = "array"
      BY Values
    <2> QED BY <1>2, <1>4, <2>1, <2>2 DEF Conforms, IsParameters
  <1> QED BY <1>3, <1>4

\* A value of the standard is forwarded as it was, or as what says the same.
THEOREM ConformingStays ==
  ASSUME NEW p, IsPayload(p), PayloadParses(p), Conforms(p), NEW r, r = Pruned(Parsed(p))
  PROVE  \/ r.value = p.value
         \/ p.value.is = "absent" /\ r.value.is = "null"
         \/ p.value = Empty /\ r.value.is = "absent"
         \/ KindOf(p).type = "double" /\ "float" \in {r.value.is, r.value.of}
  <1> DEFINE k == KindOf(p)
             v == p.value
             m == Member(k, v)
             q == Parsed(p)
             F == FromJson[k.type]
  <1>1. KindOK(k) /\ IsValue(v) /\ Reads(k, v)
    BY PayloadFacts DEF PayloadParses
  <1>2. /\ q = With(p, q.value)
        /\ q.struct = p.struct /\ KindOf(q) = k
        /\ \/ p.struct = "MaximumArrayLengths" /\ m.is = "null" /\ q.value = Scalar("absent")
           \/ ~(p.struct = "MaximumArrayLengths" /\ m.is = "null") /\ q.value = m
    BY ParsedFacts
  <1>3. \/ r.value = q.value
        \/ (q.value = Empty \/ q.value.is = "null") /\ r.value = Scalar("absent")
    <2>1. CASE r = q
      BY <2>1
    <2>2. CASE r # q
      <3>1. r = With(q, Scalar("absent")) /\ (q.value = Empty \/ q.value.is = "null")
        BY <2>2 DEF Pruned, With
      <3>2. r = With(p, Scalar("absent"))
        BY <1>2, <3>1, PayloadFacts
      <3> QED BY <3>1, <3>2, PayloadFacts
    <2> QED BY <2>1, <2>2
  <1>4. \A x : Scalar(x).is = x
    BY Values
  <1> HIDE DEF q
  \* It is as good as the member when that is neither null nor empty.
  <1>5. ASSUME m.is # "null", m # Empty PROVE r.value = m
    BY <1>2, <1>3, <1>5
  <1>6. CASE k.optional /\ v.is = "absent"
    <2>1. m = Scalar("null") /\ v = Scalar("absent")
      <3>1. m = Scalar("null")
        BY <1>6 DEF Member, Missing
      <3> QED BY <1>1, <1>6, <3>1, Values
    <2> HIDE DEF m, v
    <2>2. q.value = Scalar("absent") \/ q.value = Scalar("null")
      BY <1>2, <2>1
    <2> QED BY <1>3, <1>4, <1>6, <2>1, <2>2, Values DEF v
  <1>7. CASE k.type = "params" /\ ~(k.optional /\ v.is = "absent")
    <2>1. ~k.list
      BY <1>1, <1>7 DEF KindOK
    <2>2. v \in {Empty, One("object")}
      BY <1>7, <2>1 DEF Conforms, IsParameters
    <2>3. v.is = "array"
      BY <2>2, Values
    <2>4. "array" \in DOMAIN F
      BY <1>1, <2>1, <2>3 DEF Reads, Takes
    <2> QED BY <1>7, <2>4, Conversions DEF FromMap, Objects
  <1>8. CASE k.type # "params" /\ ~(k.optional /\ v.is = "absent")
    <2>1. k.type \in Types \ {"params"} /\ k.list \in BOOLEAN
      BY <1>1, <1>8 DEF KindOK
    <2>2. \A x \in Conforming[k.type] :
            /\ F[x] = x \/ (k.type = "double" /\ F[x] = "float")
            /\ x \notin {"absent", "null", "array", "nothing"}
      BY <2>1, ConformingFacts
    <2>3. CASE k.list
      <3>1. v.is = "array" /\ v.of \in {Nothing} \cup Conforming[k.type]
        BY <1>8, <2>3 DEF Conforms, IsParameters
      <3>2. m = IF v = Empty THEN v ELSE One(F[v.of])
        BY <2>3, <3>1 DEF Member
      <3> HIDE DEF m, F
      <3>3. CASE v = Empty
        <4>1. m = Empty /\ m.is # "null"
          BY <3>2, <3>3, Values
        <4> QED BY <1>2, <1>3, <1>4, <3>3, <4>1
      <3>4. CASE v # Empty
        <4>1. v.of \in Conforming[k.type] /\ v = One(v.of)
          BY <1>1, <3>1, <3>4, Values
        <4> DEFINE y == F[v.of]
        <4>2. m = One(y) /\ (y = v.of \/ (k.type = "double" /\ y = "float")) /\ y # "nothing"
          BY <2>2, <3>2, <3>4, <4>1
        <4> HIDE DEF y
        <4>3. m.is = "array" /\ m.of = y /\ m # Empty
          BY <4>2, Values DEF Nothing
        <4>4. r.value = m
          BY <1>5, <4>3
        <4> QED BY <4>1, <4>2, <4>3, <4>4
      <3> QED BY <3>3, <3>4
    <2>4. CASE ~k.list
      <3>1. v.is \in Conforming[k.type]
        BY <1>8, <2>4 DEF Conforms, IsParameters
      <3>2. v.is \notin {"absent", "null", "array"}
        BY <2>2, <3>1
      <3>3. v = Scalar(v.is)
        BY <1>1, <3>2, Values
      <3>4. m = v \/ m = Scalar(F[v.is])
        BY <2>4, <3>2 DEF Member
      <3> HIDE DEF m, F
      <3>5. m = v \/ (k.type = "double" /\ m = Scalar("float"))
        BY <2>2, <3>1, <3>3, <3>4
      <3>6. m.is \notin {"null", "array"}
        BY <3>2, <3>5, Values
      <3>7. r.value = m
        BY <1>5, <3>6, Values
      <3> QED BY <3>5, <3>7, Values
    <2> QED BY <2>1, <2>3, <2>4
  <1> QED BY <1>6, <1>7, <1>8
===============================================================================
