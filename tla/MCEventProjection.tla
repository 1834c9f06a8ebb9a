-------------------------- MODULE MCEventProjection --------------------------
(***************************************************************************)
(* EventProjection for TLC: the two halves of the traffic, one run each.   *)
(***************************************************************************)
EXTENDS EventProjection, TLC

CONSTANTS r1, r2, o1, a1, a2, z1

NoKeys     == {}
OneRobot   == {r1}
TwoRobots  == {r1, r2}
OneOrder   == {o1}
TwoActions == {a1, a2}
OneZoneSet == {z1}

SnapshotTopics == {"connection", "state"}
MixedTopics    == {"state", "order", "zoneSet", "instantActions", "responses"}
ResponsesOnly      == {"responses"}
InstantActionsOnly == {"instantActions"}

\* The two keys of instant_actions are interchangeable.
ActionSymmetry == Permutations(TwoActions)
=============================================================================
