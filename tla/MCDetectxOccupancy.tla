------------------------ MODULE MCDetectxOccupancy -------------------------
(* A small instance of DetectxOccupancy for TLC. *)
EXTENDS DetectxOccupancy

CONSTANTS person, car

\* No selection, one with a duplicate, and two that replace one another while an
\* uplink is out.
MCSelections == {<<>>, <<person, person>>, <<person>>, <<car>>}

\* Both liveness properties, commented where they are stated.
PublishGoesOn == SlotReleased /\ PublishRecurs
=============================================================================
