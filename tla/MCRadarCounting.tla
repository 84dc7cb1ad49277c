---------------------------- MODULE MCRadarCounting ----------------------------
(***************************************************************************)
(* RadarTraffic for TLC.  Its parts share no variable, so that one run     *)
(* checks them one at a time: subject says which one moves, the other      *)
(* stays in its initial state.                                             *)
(***************************************************************************)
EXTENDS RadarTraffic, TLC

VARIABLE subject

\* The ids of tracks are interchangeable; those of counting scenes are not.
MCSymmetry == Permutations(Id)

\* Two objects, a table for one of them, and a line between two places, of which
\* only one lies in the occupancy area.
MCPairs == {<<"in", "across">>}
Seen(class, sure, place, speed) ==
  [class |-> class, sure |-> sure, place |-> place, speed |-> speed]
MCDetection == {Seen("Human", TRUE, "in", 1), Seen("Vehicle", TRUE, "in", 3),
                Seen("Vehicle", TRUE, "across", 2)}

ASSUME ConstantsAssumption /\ C!ConstantsAssumption

MCInit == subject \in {"tracks", "counting"} /\ TrafficInit

MCNext ==
  \/ subject = "tracks" /\ Tracked /\ UNCHANGED subject
  \/ subject = "counting" /\ Counted /\ UNCHANGED subject

MCSpec == MCInit /\ [][MCNext]_<<subject, tvars>>
=============================================================================
