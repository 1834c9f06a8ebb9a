------------------------------- MODULE Schemas -------------------------------
(***************************************************************************)
(* The messages of VDA 5050 as the headers of vda5050_schemas declare      *)
(* them: a struct is a function from the names of its fields, which are    *)
(* also the names in JSON, to their kinds; an enum is the sequence of its  *)
(* names in JSON, in the order of the mapping.  What the kinds mean when   *)
(* JSON is read and written is in Conversion.                              *)
(***************************************************************************)
EXTENDS Naturals, Sequences, FiniteSets

\* Two tables put together; the first counts where both have an entry.
Overlay(f, g) ==
  [x \in DOMAIN f \cup DOMAIN g |-> IF x \in DOMAIN f THEN f[x] ELSE g[x]]

f ++ g == Overlay(f, g)

\* Fields of a type T: T, std::optional<T>, std::vector<T>, and an optional vector.
Kind(type, list, optional) == [type |-> type, list |-> list, optional |-> optional]

Required(type, names)     == [n \in names |-> Kind(type, FALSE, FALSE)]
Optional(type, names)     == [n \in names |-> Kind(type, FALSE, TRUE)]
List(type, names)         == [n \in names |-> Kind(type, TRUE, FALSE)]
OptionalList(type, names) == [n \in names |-> Kind(type, TRUE, TRUE)]

\* What every message begins with.
Header == Required("int64", {"headerId"})
  ++ Required("string", {"timestamp", "version", "manufacturer", "serialNumber"})

-----------------------------------------------------------------------------
(* Common.hpp. *)

BlockingType == <<"NONE", "SOFT", "SINGLE", "HARD">>

BoundingBox ==
  Required("double", {"x", "y", "z"}) ++ Optional("double", {"theta"})

Vertex == Required("double", {"x", "y"})

-----------------------------------------------------------------------------
(* Action.h. *)

Action ==
  Required("string", {"actionType", "actionId"})
  ++ Optional("string", {"actionDescriptor"})
  ++ Required("BlockingType", {"blockingType"})
  ++ Optional("params", {"actionParameters"})
  ++ Optional("bool", {"retriable"})

-----------------------------------------------------------------------------
(* NodePosition.h. *)

AllowedDeviationXY == Required("double", {"a", "b", "theta"})

NodePosition ==
  Required("double", {"x", "y"})
  ++ Optional("double", {"theta", "allowedDeviationTheta"})
  ++ Optional("AllowedDeviationXY", {"allowedDeviationXY"})
  ++ Required("string", {"mapId"})

-----------------------------------------------------------------------------
(* Trajectory.h. *)

ControlPoint ==
  Required("double", {"x", "y"}) ++ Optional("double", {"weight"})

Trajectory ==
  Optional("int32", {"degree"}) ++ OptionalList("double", {"knotVector"})
  ++ List("ControlPoint", {"controlPoints"})

-----------------------------------------------------------------------------
(* Visualization.hpp. *)

PlannedPath ==
  Required("Trajectory", {"trajectory"})
  ++ OptionalList("string", {"traversedNodes"})

WayPoint ==
  Required("double", {"x", "y"}) ++ Optional("double", {"theta"})
  ++ Required("string", {"eta"})

IntermediatePath == List("WayPoint", {"polyline"})

MobileRobotPosition ==
  Required("double", {"x", "y", "theta"}) ++ Required("string", {"mapId"})
  ++ Required("bool", {"localized"})
  ++ Optional("double", {"localizationScore", "deviationRange"})

Velocity == Optional("double", {"vx", "vy", "omega"})

Visualization ==
  Header ++ Required("int64", {"referenceStateHeaderId"})
  ++ Optional("PlannedPath", {"plannedPath"})
  ++ Optional("IntermediatePath", {"intermediatePath"})
  ++ Optional("MobileRobotPosition", {"mobileRobotPosition"})
  ++ Optional("Velocity", {"velocity"})

-----------------------------------------------------------------------------
(* State.hpp. *)

MapStatus == <<"ENABLED", "DISABLED">>
ZoneSetStatus == <<"ENABLED", "DISABLED">>
ZoneRequestType == <<"ACCESS", "REPLANNING">>
EdgeRequestType == <<"CORRIDOR">>
RequestStatus == <<"REQUESTED", "GRANTED", "REVOKED", "EXPIRED">>
ActionStatus == <<"WAITING", "INITIALIZING", "RUNNING", "PAUSED", "RETRIABLE",
  "FINISHED", "FAILED">>
OperatingMode == <<"STARTUP", "AUTOMATIC", "SEMIAUTOMATIC", "INTERVENED",
  "MANUAL", "SERVICE", "TEACH_IN">>
ErrorLevel == <<"WARNING", "URGENT", "CRITICAL", "FATAL">>
InfoLevel == <<"INFO", "DEBUG">>
ActiveEmergencyStop == <<"MANUAL", "REMOTE", "NONE">>

Map ==
  Required("string", {"mapId", "mapVersion"})
  ++ Optional("string", {"mapDescriptor"})
  ++ Required("MapStatus", {"mapStatus"})

ZoneSet ==
  Required("string", {"zoneSetId", "mapId"})
  ++ Required("ZoneSetStatus", {"zoneSetStatus"})

NodeState ==
  Required("string", {"nodeId"}) ++ Required("int64", {"sequenceId"})
  ++ Optional("string", {"nodeDescriptor"}) ++ Required("bool", {"released"})
  ++ Optional("NodePosition", {"nodePosition"})

EdgeState ==
  Required("string", {"edgeId"}) ++ Required("int64", {"sequenceId"})
  ++ Optional("string", {"edgeDescriptor"}) ++ Required("bool", {"released"})
  ++ Optional("Trajectory", {"trajectory"})

LoadLoadDimensions ==
  Required("double", {"length", "width"}) ++ Optional("double", {"height"})

Load ==
  Optional("string", {"loadId", "loadType", "loadPosition"})
  ++ Optional("BoundingBox", {"boundingBoxReference"})
  ++ Optional("LoadLoadDimensions", {"loadDimensions"})
  ++ Optional("double", {"weight"})

ZoneRequest ==
  Required("string", {"requestId", "zoneId", "zoneSetId"})
  ++ Required("ZoneRequestType", {"requestType"})
  ++ Required("RequestStatus", {"requestStatus"})
  ++ Optional("Trajectory", {"trajectory"})

EdgeRequest ==
  Required("string", {"requestId", "edgeId"})
  ++ Required("EdgeRequestType", {"requestType"})
  ++ Required("int64", {"sequenceId"})
  ++ Required("RequestStatus", {"requestStatus"})

ActionState ==
  Required("string", {"actionId"})
  ++ Optional("string", {"actionType", "actionDescriptor", "actionResult"})
  ++ Required("ActionStatus", {"actionStatus"})

PowerSupply ==
  Required("double", {"stateOfCharge"})
  ++ Optional("double", {"batteryVoltage", "batteryCurrent", "batteryHealth",
          "range"}) ++ Required("bool", {"charging"})

Translation == Required("string", {"translationKey", "translationValue"})

Reference == Required("string", {"referenceKey", "referenceValue"})

Error ==
  Required("string", {"errorType"})
  ++ OptionalList("Reference", {"errorReferences"})
  ++ Optional("string", {"errorDescription", "errorHint"})
  ++ OptionalList("Translation", {"errorDescriptionTranslations",
          "errorHintTranslations"}) ++ Required("ErrorLevel", {"errorLevel"})

Info ==
  Required("string", {"infoType"})
  ++ OptionalList("Reference", {"infoReferences"})
  ++ Optional("string", {"infoDescriptor"})
  ++ Required("InfoLevel", {"infoLevel"})

SafetyState ==
  Required("ActiveEmergencyStop", {"activeEmergencyStop"})
  ++ Required("bool", {"fieldViolation"})

State ==
  Header ++ OptionalList("Map", {"maps"})
  ++ OptionalList("ZoneSet", {"zoneSets"})
  ++ Required("string", {"orderId", "lastNodeId"})
  ++ Required("int64", {"orderUpdateId", "lastNodeSequenceId"})
  ++ List("NodeState", {"nodeStates"}) ++ List("EdgeState", {"edgeStates"})
  ++ Optional("PlannedPath", {"plannedPath"})
  ++ Optional("IntermediatePath", {"intermediatePath"})
  ++ Optional("MobileRobotPosition", {"mobileRobotPosition"})
  ++ Optional("Velocity", {"velocity"}) ++ OptionalList("Load", {"loads"})
  ++ Required("bool", {"driving"})
  ++ Optional("bool", {"paused", "newBaseRequest"})
  ++ OptionalList("ZoneRequest", {"zoneRequests"})
  ++ OptionalList("EdgeRequest", {"edgeRequests"})
  ++ Optional("double", {"distanceSinceLastNode"})
  ++ List("ActionState", {"actionStates", "instantActionStates"})
  ++ OptionalList("ActionState", {"zoneActionStates"})
  ++ Required("PowerSupply", {"powerSupply"})
  ++ Required("OperatingMode", {"operatingMode"}) ++ List("Error", {"errors"})
  ++ OptionalList("Info", {"information"})
  ++ Required("SafetyState", {"safetyState"})

-----------------------------------------------------------------------------
(* Connection.hpp. *)

ConnectionState == <<"ONLINE", "OFFLINE", "HIBERNATING", "CONNECTION_BROKEN">>

Connection == Header ++ Required("ConnectionState", {"connectionState"})

-----------------------------------------------------------------------------
(* FactSheet.hpp. *)

SupportedZoneType == <<"BLOCKED", "LINE_GUIDED", "RELEASE",
  "COORDINATED_REPLANNING", "SPEED_LIMIT", "ACTION", "PRIORITY", "PENALTY",
  "DIRECTED", "BIDIRECTED">>
SupportType == <<"SUPPORTED", "REQUIRED">>
ActionScope == <<"INSTANT", "NODE", "EDGE", "ZONE">>
ValueDataType == <<"BOOL", "NUMBER", "INTEGER", "STRING", "OBJECT", "ARRAY">>

TypeSpecification ==
  Required("string", {"seriesName", "mobileRobotKinematics",
          "mobileRobotClass"}) ++ Optional("string", {"seriesDescription"})
  ++ Required("double", {"maximumLoadMass"})
  ++ List("string", {"localizationTypes", "navigationTypes"})
  ++ OptionalList("SupportedZoneType", {"supportedZones"})

PhysicalParameters ==
  Required("double", {"minimumSpeed", "maximumSpeed", "maximumAcceleration",
          "maximumDeceleration", "minimumHeight", "maximumHeight", "width",
          "length"})
  ++ Optional("double", {"minimumAngularSpeed", "maximumAngularSpeed"})

MaximumStringLengths ==
  Optional("int64", {"maximumMessageLength", "maximumTopicSerialLength",
          "maximumTopicElementLength", "maximumIdLength",
          "maximumLoadIdLength"}) ++ Optional("bool", {"idNumericalOnly"})

MaximumArrayLengths ==
  Optional("int64", {"order.nodes", "order.edges", "node.actions",
          "edge.actions", "actions.actionsParameters", "instantActions",
          "trajectory.knotVector", "trajectory.controlPoints", "zoneSet.zones",
          "state.nodeStates", "state.edgeStates", "state.loads",
          "state.actionStates", "state.instantActionStates",
          "state.zoneActionStates", "state.errors", "state.information",
          "error.errorReferences", "information.infoReferences"})

Timing ==
  Required("double", {"minimumOrderInterval", "minimumStateInterval"})
  ++ Optional("double", {"defaultStateInterval", "visualizationInterval"})

ProtocolLimits ==
  Required("MaximumStringLengths", {"maximumStringLengths"})
  ++ Required("MaximumArrayLengths", {"maximumArrayLengths"})
  ++ Required("Timing", {"timing"})

OptionalParameter ==
  Required("string", {"parameter"}) ++ Required("SupportType", {"support"})
  ++ Optional("string", {"description"})

ActionParameterSchema ==
  Required("string", {"key"}) ++ Required("ValueDataType", {"valueDataType"})
  ++ Optional("string", {"description"}) ++ Optional("bool", {"isOptional"})

MobileRobotAction ==
  Required("string", {"actionType"})
  ++ Optional("string", {"actionDescription", "actionResult"})
  ++ List("ActionScope", {"actionScopes"})
  ++ OptionalList("ActionParameterSchema", {"actionParameters"})
  ++ OptionalList("BlockingType", {"blockingTypes"})
  ++ Required("bool", {"pauseAllowed", "cancelAllowed"})

ProtocolFeatures ==
  List("OptionalParameter", {"optionalParameters"})
  ++ List("MobileRobotAction", {"mobileRobotActions"})

Position == Required("double", {"x", "y"}) ++ Optional("double", {"theta"})

WheelDefinition ==
  Required("string", {"type"})
  ++ Required("bool", {"isActiveDriven", "isActiveSteered"})
  ++ Required("Position", {"position"})
  ++ Required("double", {"diameter", "width"})
  ++ Optional("double", {"centerDisplacement"})
  ++ Optional("string", {"constraints"})

Envelope2d ==
  Required("string", {"envelope2dId"}) ++ List("Vertex", {"vertices"})
  ++ Optional("string", {"description"})

Envelope3d ==
  Required("string", {"envelope3dId", "format"}) ++ Required("json", {"data"})
  ++ Optional("string", {"url", "description"})

MobileRobotGeometry ==
  OptionalList("WheelDefinition", {"wheelDefinitions"})
  ++ OptionalList("Envelope2d", {"envelopes2d"})
  ++ OptionalList("Envelope3d", {"envelopes3d"})

LoadDimensions ==
  Required("double", {"length", "width"}) ++ Optional("double", {"height"})

LoadSet ==
  Required("string", {"setName", "loadType"})
  ++ OptionalList("string", {"loadPositions"})
  ++ Optional("BoundingBox", {"boundingBoxReference"})
  ++ Optional("LoadDimensions", {"loadDimensions"})
  ++ Optional("double", {"maximumWeight", "minimumLoadhandlingHeight",
          "maximumLoadhandlingHeight", "minimumLoadhandlingDepth",
          "maximumLoadhandlingDepth", "minimumLoadhandlingTilt",
          "maximumLoadhandlingTilt", "maximumSpeed", "maximumAcceleration",
          "maximumDeceleration", "pickTime", "dropTime"})
  ++ Optional("string", {"description"})

LoadSpecification ==
  OptionalList("string", {"loadPositions"})
  ++ OptionalList("LoadSet", {"loadSets"})

Version == Required("string", {"key", "value"})

Network ==
  OptionalList("string", {"dnsServers", "ntpServers"})
  ++ Optional("string", {"localIpAddress", "netmask", "defaultGateway"})

BatteryCharging ==
  Optional("double", {"criticalLowChargingLevel",
          "minimumDesiredChargingLevel", "maximumDesiredChargingLevel",
          "minimumChargingTime"})

MobileRobotConfiguration ==
  OptionalList("Version", {"versions"}) ++ Optional("Network", {"network"})
  ++ Optional("BatteryCharging", {"batteryCharging"})

FactSheet ==
  Header ++ Required("TypeSpecification", {"typeSpecification"})
  ++ Required("PhysicalParameters", {"physicalParameters"})
  ++ Required("ProtocolLimits", {"protocolLimits"})
  ++ Required("ProtocolFeatures", {"protocolFeatures"})
  ++ Required("MobileRobotGeometry", {"mobileRobotGeometry"})
  ++ Required("LoadSpecification", {"loadSpecification"})
  ++ Optional("MobileRobotConfiguration", {"mobileRobotConfiguration"})

-----------------------------------------------------------------------------
(* Order.hpp. *)

OrientationType == <<"GLOBAL", "TANGENTIAL">>
ReferencePoint == <<"KINEMATIC_CENTER", "CONTOUR">>
CorridorReleaseLossBehavior == <<"STOP", "RETURN">>

Node ==
  Required("string", {"nodeId"}) ++ Required("int64", {"sequenceId"})
  ++ Optional("string", {"nodeDescriptor"}) ++ Required("bool", {"released"})
  ++ Optional("NodePosition", {"nodePosition"}) ++ List("Action", {"actions"})

Corridor ==
  Required("double", {"leftWidth", "rightWidth"})
  ++ Optional("ReferencePoint", {"corridorReferencePoint"})
  ++ Optional("bool", {"releaseRequired"})
  ++ Optional("CorridorReleaseLossBehavior", {"releaseLossBehavior"})

Edge ==
  Required("string", {"edgeId"}) ++ Required("int64", {"sequenceId"})
  ++ Optional("string", {"edgeDescriptor", "direction"})
  ++ Required("bool", {"released"})
  ++ Optional("double", {"maximumSpeed", "maximumMobileRobotHeight",
          "minimumLoadHandlingDeviceHeight", "orientation", "maxRotationSpeed",
          "length"}) ++ Optional("OrientationType", {"orientationType"})
  ++ Optional("bool", {"reachOrientationBeforeEntering"})
  ++ Optional("Trajectory", {"trajectory"})
  ++ Optional("Corridor", {"corridor"}) ++ List("Action", {"actions"})

Order ==
  Header ++ Required("string", {"orderId"})
  ++ Required("int64", {"orderUpdateId"})
  ++ Optional("string", {"orderDescription"}) ++ List("Node", {"nodes"})
  ++ List("Edge", {"edges"})

-----------------------------------------------------------------------------
(* InstantActions.hpp. *)

InstantActions == Header ++ List("Action", {"actions"})

-----------------------------------------------------------------------------
(* Responses.hpp. *)

GrantType == <<"GRANTED", "QUEUED", "REVOKED", "REJECTED">>

Response ==
  Required("string", {"requestId"}) ++ Required("GrantType", {"grantType"})
  ++ Optional("string", {"leaseExpiry"})

Responses == Header ++ List("Response", {"responses"})

-----------------------------------------------------------------------------
(* ZoneSet.hpp. *)

ZoneZoneType == <<"BLOCKED", "LINE_GUIDED", "RELEASE",
  "COORDINATED_REPLANNING", "SPEED_LIMIT", "ACTION", "PRIORITY", "PENALTY",
  "DIRECTED", "BIDIRECTED">>
ZoneReleaseLossBehavior == <<"STOP", "CONTINUE", "EVACUATE">>
ZoneDirectedLimitation == <<"SOFT", "RESTRICTED", "STRICT">>
ZoneBidirectedLimitation == <<"SOFT", "RESTRICTED">>

ZoneAction ==
  Required("string", {"actionType"})
  ++ Optional("string", {"actionDescriptor"})
  ++ Required("BlockingType", {"blockingType"})
  ++ Optional("params", {"actionParameters"})
  ++ Optional("bool", {"retriable"})

Zone ==
  Required("string", {"zoneId"}) ++ Required("ZoneZoneType", {"zoneType"})
  ++ Optional("string", {"zoneDescriptor"}) ++ List("Vertex", {"vertices"})
  ++ Optional("ZoneReleaseLossBehavior", {"releaseLossBehavior"})
  ++ Optional("double", {"maximumSpeed", "priorityFactor", "penaltyFactor",
          "direction"})
  ++ OptionalList("ZoneAction", {"entryActions", "duringActions",
          "exitActions"})
  ++ Optional("ZoneDirectedLimitation", {"directedLimitation"})
  ++ Optional("ZoneBidirectedLimitation", {"bidirectedLimitation"})

ZoneSetDefinition ==
  Required("string", {"mapId", "zoneSetId"})
  ++ Optional("string", {"zoneSetDescriptor"}) ++ List("Zone", {"zones"})

ZoneSetMessage == Header ++ Required("ZoneSetDefinition", {"zoneSet"})
-----------------------------------------------------------------------------
(* The payloads: each suffix of a topic has the message it is read as.     *)

Payload ==
  Required("State", {"state"}) ++ Required("Visualization", {"visualization"})
  ++ Required("Connection", {"connection"}) ++ Required("FactSheet", {"factsheet"})
  ++ Required("Order", {"order"}) ++ Required("InstantActions", {"instantActions"})
  ++ Required("Responses", {"responses"}) ++ Required("ZoneSetMessage", {"zoneSet"})

Enums == [BlockingType |-> BlockingType, MapStatus |-> MapStatus,
   ZoneSetStatus |-> ZoneSetStatus, ZoneRequestType |-> ZoneRequestType,
   EdgeRequestType |-> EdgeRequestType, RequestStatus |-> RequestStatus,
   ActionStatus |-> ActionStatus, OperatingMode |-> OperatingMode,
   ErrorLevel |-> ErrorLevel, InfoLevel |-> InfoLevel,
   ActiveEmergencyStop |-> ActiveEmergencyStop,
   ConnectionState |-> ConnectionState,
   SupportedZoneType |-> SupportedZoneType, SupportType |-> SupportType,
   ActionScope |-> ActionScope, ValueDataType |-> ValueDataType,
   OrientationType |-> OrientationType, ReferencePoint |-> ReferencePoint,
   CorridorReleaseLossBehavior |-> CorridorReleaseLossBehavior,
   GrantType |-> GrantType, ZoneZoneType |-> ZoneZoneType,
   ZoneReleaseLossBehavior |-> ZoneReleaseLossBehavior,
   ZoneDirectedLimitation |-> ZoneDirectedLimitation,
   ZoneBidirectedLimitation |-> ZoneBidirectedLimitation]

Structs == [Payload |-> Payload, BoundingBox |-> BoundingBox,
   Vertex |-> Vertex, Action |-> Action,
   AllowedDeviationXY |-> AllowedDeviationXY, NodePosition |-> NodePosition,
   ControlPoint |-> ControlPoint, Trajectory |-> Trajectory,
   PlannedPath |-> PlannedPath, WayPoint |-> WayPoint,
   IntermediatePath |-> IntermediatePath,
   MobileRobotPosition |-> MobileRobotPosition, Velocity |-> Velocity,
   Visualization |-> Visualization, Map |-> Map, ZoneSet |-> ZoneSet,
   NodeState |-> NodeState, EdgeState |-> EdgeState,
   LoadLoadDimensions |-> LoadLoadDimensions, Load |-> Load,
   ZoneRequest |-> ZoneRequest, EdgeRequest |-> EdgeRequest,
   ActionState |-> ActionState, PowerSupply |-> PowerSupply,
   Translation |-> Translation, Reference |-> Reference, Error |-> Error,
   Info |-> Info, SafetyState |-> SafetyState, State |-> State,
   Connection |-> Connection, TypeSpecification |-> TypeSpecification,
   PhysicalParameters |-> PhysicalParameters,
   MaximumStringLengths |-> MaximumStringLengths,
   MaximumArrayLengths |-> MaximumArrayLengths, Timing |-> Timing,
   ProtocolLimits |-> ProtocolLimits, OptionalParameter |-> OptionalParameter,
   ActionParameterSchema |-> ActionParameterSchema,
   MobileRobotAction |-> MobileRobotAction,
   ProtocolFeatures |-> ProtocolFeatures, Position |-> Position,
   WheelDefinition |-> WheelDefinition, Envelope2d |-> Envelope2d,
   Envelope3d |-> Envelope3d, MobileRobotGeometry |-> MobileRobotGeometry,
   LoadDimensions |-> LoadDimensions, LoadSet |-> LoadSet,
   LoadSpecification |-> LoadSpecification, Version |-> Version,
   Network |-> Network, BatteryCharging |-> BatteryCharging,
   MobileRobotConfiguration |-> MobileRobotConfiguration,
   FactSheet |-> FactSheet, Node |-> Node, Corridor |-> Corridor,
   Edge |-> Edge, Order |-> Order, InstantActions |-> InstantActions,
   Response |-> Response, Responses |-> Responses, ZoneAction |-> ZoneAction,
   Zone |-> Zone, ZoneSetDefinition |-> ZoneSetDefinition,
   ZoneSetMessage |-> ZoneSetMessage]

\* The structs a message is made of, itself included.
Uses(s) == {Structs[s][f].type : f \in DOMAIN Structs[s]} \cap DOMAIN Structs

Within(s) ==
  LET reach[n \in Nat] ==
        IF n = 0 THEN {s}
                 ELSE LET nearer == reach[n - 1]
                      IN  nearer \cup UNION {Uses(x) : x \in nearer}
  IN  reach[Cardinality(DOMAIN Structs)]
=============================================================================
