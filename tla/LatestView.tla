----------------------------- MODULE LatestView -----------------------------
(***************************************************************************)
(* What the read model promises for the items whose messages have one      *)
(* subject: for every key the versions recorded so far and the one shown.  *)
(* Recording adds a newer version, refreshing moves the shown one to a     *)
(* recorded version that is not older.  EventProjection implements it.     *)
(***************************************************************************)
EXTENDS Naturals

CONSTANTS
  Keys,     \* what the read model has one value for
  Versions  \* the versions a message can have, above 0

VARIABLES
  recorded, \* the versions recorded for each key
  shown     \* the version the read model shows, 0 for none

Init ==
  /\ recorded = [k \in Keys |-> {}]
  /\ shown = [k \in Keys |-> 0]

Record(k) ==
  /\ \E v \in Versions :
       /\ \A w \in recorded[k] : w < v
       /\ recorded' = [recorded EXCEPT ![k] = @ \cup {v}]
  /\ UNCHANGED shown

Refresh(k) ==
  /\ \E v \in recorded[k] :
       /\ shown[k] <= v
       /\ shown' = [shown EXCEPT ![k] = v]
  /\ UNCHANGED recorded

Next == \E k \in Keys : Record(k) \/ Refresh(k)

Spec == Init /\ [][Next]_<<recorded, shown>>
=============================================================================
