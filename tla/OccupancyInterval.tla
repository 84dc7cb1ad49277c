------------------------- MODULE OccupancyInterval -------------------------
(***************************************************************************)
(* What detectx promises about the occupancy peak it reports               *)
(* (src/detectx/README.md:16), stated over the frames themselves: frames   *)
(* arrive into the open interval, a publish detaches that interval, an     *)
(* acknowledged publish shows the peak of exactly the detached frames, and *)
(* a failed one puts them back so that the next publish covers them.       *)
(* Only a new label selection may forget frames.                           *)
(***************************************************************************)
EXTENDS Integers

CONSTANTS Label,    \* labels a detection can carry
          MaxCount  \* bound on the detections of one label in one frame

VARIABLES open,      \* per label, the nonzero counts seen in the open interval
          detached,  \* per label, the counts the publish in flight reports
          shown      \* per label, the peak of the last acknowledged publish

vars == <<open, detached, shown>>

Count == 1 .. MaxCount
NoFrames == [l \in Label |-> {}]

\* m is the peak of the counts S; an interval without detections peaks at 0.
IsPeak(m, S) == m \in S \cup {0} /\ \A c \in S : c <= m

Merge(f, g) == [l \in Label |-> f[l] \cup g[l]]

TypeOK ==
  /\ open \in [Label -> SUBSET Count]
  /\ detached \in [Label -> SUBSET Count]
  /\ shown \in [Label -> 0 .. MaxCount]

Init ==
  /\ open = NoFrames
  /\ detached = NoFrames
  /\ shown = [l \in Label |-> 0]

\* One inference result; labels outside the selection count nothing.
Record ==
  \E frame \in [Label -> 0 .. MaxCount] :
    /\ open' = [l \in Label |-> open[l] \cup ({frame[l]} \cap Count)]
    /\ UNCHANGED <<detached, shown>>

\* Only an interval that no publish holds can be detached.
Detach ==
  /\ detached = NoFrames
  /\ detached' = open
  /\ open' = NoFrames
  /\ UNCHANGED shown

Accept ==
  /\ shown' \in [Label -> 0 .. MaxCount]
  /\ \A l \in Label : IsPeak(shown'[l], detached[l])
  /\ detached' = NoFrames
  /\ UNCHANGED open

Reject ==
  /\ open' = Merge(open, detached)
  /\ detached' = NoFrames
  /\ UNCHANGED shown

Reconfigure ==
  /\ open' = NoFrames
  /\ detached' = NoFrames
  /\ shown' = [l \in Label |-> 0]

Next == Record \/ Detach \/ Accept \/ Reject \/ Reconfigure

Spec == Init /\ [][Next]_vars
=============================================================================
