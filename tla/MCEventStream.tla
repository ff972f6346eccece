---------------------------- MODULE MCEventStream ----------------------------
(* One runner.  What makes the cases of a stream is large together and small   *)
(* apart: two polls that overlap; events that share a stamp; a subscriber that *)
(* does not receive.  A behaviour has one of the three.                        *)
EXTENDS EventStream

CONSTANTS p1, p2, s1

MCSetting == {[polls |-> {p1, p2}, subscribers |-> {}, sameStamp |-> FALSE],
              [polls |-> {p1}, subscribers |-> {}, sameStamp |-> TRUE],
              [polls |-> {p1}, subscribers |-> {s1}, sameStamp |-> FALSE]}
=============================================================================
