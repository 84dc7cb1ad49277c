-------------------------- MODULE DetectxPipeline --------------------------
(***************************************************************************)
(* From the camera to the detections that are counted (detectx: Video.c,   *)
(* imgprovider.c, Model.c, detection_nms.c, Process_Frame in main.c).      *)
(*                                                                         *)
(* A fixed pool of buffers goes round.  The fetch thread takes a filled    *)
(* buffer from VDO, queues it, and gives one back: one the application is  *)
(* done with, or the oldest of those queued if there are too many.  The    *)
(* main loop takes the newest queued buffer, runs the model on it, and     *)
(* returns it only when it asks for the next.  VDO may refuse a buffer it  *)
(* is given, which is then in nobody's queue; and VDO fills only buffers   *)
(* that it has.                                                            *)
(*                                                                         *)
(* Boxes are intervals on a line: the union and intersection of two are    *)
(* those of their lengths.  A suppression that finds no memory for its     *)
(* work passes all boxes on; that is left out.  counted is a history       *)
(* variable.                                                               *)
(***************************************************************************)
EXTENDS Integers, Sequences, FiniteSets, SequencesExt

CONSTANTS Buffer,        \* NUM_VDO_BUFFERS of them
          numAppFrames,  \* frames kept for the application
          MaxRefused,    \* bound: buffers VDO refuses
          Frame,         \* outputs of the model for a frame: sequences of boxes
          Box,           \* [classIndex, c, objectness, x]: where, what and how sure
          Width,         \* of a box
          Threshold,     \* values of g_nms, in percent
          Settings,      \* detection settings: [objectness, confidence, selected, include]
          MaxSettings    \* bound: changes of them

ConstantsAssumption ==
  /\ IsFiniteSet(Buffer)
  /\ numAppFrames \in Nat \ {0} /\ MaxRefused \in Nat
  /\ Box \subseteq [classIndex : Nat, c : Nat, objectness : Nat, x : Int]
  /\ \A boxes \in Frame : boxes \in Seq(Box)
  /\ Width \in Nat \ {0} /\ Threshold \subseteq 0 .. 100
  /\ Settings \subseteq [objectness : Nat, confidence : Nat, selected : SUBSET Nat,
                         include : SUBSET Int]
  /\ MaxSettings \in Nat

VARIABLES
  vdo,             \* buffers VDO has
  deliveredFrames, processedFrames,
  yuvBuffer,       \* the buffer the main loop has: <<>> or <<buffer>>
  refused,         \* buffers VDO did not take back
  frame,           \* what the model found in it: <<>> or <<boxes>>
  g_detection_config, g_nms,
  counted,         \* the last frame that was counted: <<>> or <<[found, nms, kept]>>
  changes

pool == <<vdo, deliveredFrames, processedFrames, yuvBuffer, refused>>
vars == <<pool, frame, g_detection_config, g_nms, counted, changes>>
-----------------------------------------------------------------------------
\* Detection_IoU(first, second) > threshold.
Larger(m, n) == IF m < n THEN n ELSE m
Intersection(b1, b2) == Larger(0, Width - Larger(b1.x - b2.x, b2.x - b1.x))
Overlap(b1, b2, threshold) ==
  100 * Intersection(b1, b2) > threshold * (2 * Width - Intersection(b1, b2))

\* The orders the exchanges of the code may leave: the surest first.  Boxes are a function
\* from their places in the output of the model.
Permutation(boxes) ==
  LET count == Cardinality(DOMAIN boxes) IN
  {[i \in 1 .. count |-> boxes[order[i]]] : order \in Injection(1 .. count, DOMAIN boxes)}
Ordered_Not(boxes) == Permutation(boxes)
Ordered(boxes) ==
  {o \in Permutation(boxes) : \A i, j \in DOMAIN o : i < j => o[i].c >= o[j].c}

\* The box at a later position is suppressed by one that was kept: of the same class,
\* and overlapping too much.
Suppresses_AnyClass(b, later, threshold) == Overlap(b, later, threshold)
Suppresses(b, later, threshold) ==
  b.classIndex = later.classIndex /\ Overlap(b, later, threshold)

\* The positions that are kept, one after the other.
Detection_NMS_Class_Aware(order, threshold) ==
  CHOOSE kept \in SUBSET DOMAIN order : \A i \in DOMAIN order :
    i \in kept <=> ~\E j \in kept : j < i /\ Suppresses(order[j], order[i], threshold)

\* Model_Inference: objectness and confidence; Detection_Passes: labels and area.
Found(b, config) == b.objectness >= config.objectness /\ b.c >= config.confidence
Detection_Passes(b, config) ==
  /\ config.selected = {} \/ b.classIndex \in config.selected
  /\ config.include = {} \/ b.x \in config.include
Detected(boxes, config) == Restrict(boxes, {i \in DOMAIN boxes : Found(boxes[i], config)})
Passed(boxes, config) == Restrict(boxes, {i \in DOMAIN boxes : Detection_Passes(boxes[i], config)})
-----------------------------------------------------------------------------
\* createStream, allocateVdoBuffers: VDO has all buffers.
Init ==
  /\ vdo = Buffer
  /\ deliveredFrames = <<>> /\ processedFrames = <<>> /\ yuvBuffer = <<>> /\ refused = {}
  /\ frame = <<>> /\ counted = <<>> /\ changes = 0
  /\ g_detection_config \in Settings /\ g_nms \in Threshold

\* The buffer that goes back to VDO: nothing, or the head of the queue named.
TooMany_Never(delivered) == FALSE
TooMany(delivered) == Len(delivered) > numAppFrames

\* threadEntry, one round, in the mutex: push the new buffer, give one back, signal.
threadEntry(newBuffer, taken) ==
  /\ newBuffer \in vdo
  /\ LET delivered == Append(deliveredFrames, newBuffer)
         old == CASE processedFrames # <<>> -> <<Head(processedFrames)>>
                  [] processedFrames = <<>> /\ TooMany(delivered) -> <<Head(delivered)>>
                  [] OTHER -> <<>>
     IN /\ processedFrames' = IF processedFrames = <<>> THEN <<>> ELSE Tail(processedFrames)
        /\ deliveredFrames' = IF processedFrames = <<>> /\ old # <<>> THEN Tail(delivered)
                              ELSE delivered
        /\ ~taken => old # <<>> /\ Cardinality(refused) < MaxRefused
        /\ vdo' = (vdo \ {newBuffer}) \cup (IF taken THEN Range(old) ELSE {})
        /\ refused' = IF taken THEN refused ELSE refused \cup Range(old)
  /\ UNCHANGED <<yuvBuffer, frame, g_detection_config, g_nms, counted, changes>>

\* Process_Frame: Video_Capture_YUV returns the buffer of the previous frame; the main
\* loop then waits for a second for one to be there.
Waiting == yuvBuffer = <<>>
returnFrame == processedFrames' = processedFrames \o yuvBuffer

Video_Capture_YUV ==
  /\ yuvBuffer # <<>> /\ frame = <<>>
  /\ returnFrame /\ yuvBuffer' = <<>> /\ counted' = <<>>
  /\ UNCHANGED <<vdo, deliveredFrames, refused, frame, g_detection_config, g_nms, changes>>

\* getLastFrameBlocking takes the newest, and Model_Inference goes over it with the
\* thresholds of that moment.  When it times out Process_Frame comes back to wait.
getLastFrameBlocking(boxes) ==
  /\ Waiting /\ deliveredFrames # <<>>
  /\ yuvBuffer' = <<Last(deliveredFrames)>> /\ deliveredFrames' = Front(deliveredFrames)
  /\ frame' = <<Detected(boxes, g_detection_config)>>
  /\ UNCHANGED <<vdo, processedFrames, refused, g_detection_config, g_nms, counted, changes>>

\* The rest of Process_Frame: what passes the settings, which are copied after the
\* model has run, is thinned out and counted.
Occupancy_Record_Frame ==
  /\ frame # <<>>
  /\ \E order \in Ordered(Passed(frame[1], g_detection_config)) :
       counted' = <<[found |-> order, nms |-> g_nms,
                     kept |-> Detection_NMS_Class_Aware(order, g_nms)]>>
  /\ frame' = <<>>
  /\ UNCHANGED <<pool, g_detection_config, g_nms, changes>>

\* Settings_Updated("detection"), on the FCGI thread.
Model_Apply_Detection_Settings(settings, nms) ==
  /\ changes < MaxSettings /\ changes' = changes + 1
  /\ <<settings, nms>> # <<g_detection_config, g_nms>>
  /\ g_detection_config' = settings /\ g_nms' = nms
  /\ UNCHANGED <<pool, frame, counted>>

Process_Frame ==
  \/ Video_Capture_YUV \/ Occupancy_Record_Frame
  \/ \E boxes \in Frame : getLastFrameBlocking(boxes)

Next ==
  \/ \E newBuffer \in Buffer, taken \in BOOLEAN : threadEntry(newBuffer, taken)
  \/ Process_Frame
  \/ \E settings \in Settings, nms \in Threshold : Model_Apply_Detection_Settings(settings, nms)

\* The camera goes on, and the main loop does.
Fairness ==
  /\ WF_vars(\E newBuffer \in Buffer : threadEntry(newBuffer, TRUE))
  /\ WF_vars(Process_Frame)

Spec == Init /\ [][Next]_vars /\ Fairness
-----------------------------------------------------------------------------
Queued(s) == {s[i] : i \in DOMAIN s}

\* The types.
TypeOK ==
  /\ vdo \subseteq Buffer /\ refused \subseteq Buffer
  /\ deliveredFrames \in Seq(Buffer) /\ processedFrames \in Seq(Buffer)
  /\ yuvBuffer \in Seq(Buffer) /\ Len(yuvBuffer) <= 1
  /\ g_detection_config \in Settings /\ g_nms \in Threshold
  /\ changes \in 0 .. MaxSettings

\* Every buffer is in one place, and the application never has more than numAppFrames
\* and one: VDO has all others, but for those it refused (threadEntry,
\* imgprovider.c:425-479; Video_Capture_YUV, Video.c:48-60).
PoolKept ==
  LET places == <<vdo, Queued(deliveredFrames), Queued(processedFrames), Queued(yuvBuffer),
                  refused>>
  IN /\ UNION {places[i] : i \in 1 .. 5} = Buffer
     /\ \A i, j \in 1 .. 5 : i # j => places[i] \cap places[j] = {}
     /\ IsInjective(deliveredFrames) /\ IsInjective(processedFrames)
     /\ Len(deliveredFrames) + Len(processedFrames) + Len(yuvBuffer) <= numAppFrames + 1

\* Of the boxes of a frame those are counted that stand for all that passed: no two
\* counted boxes of a class overlap, and one that is not counted overlaps one of its
\* class that is counted and at least as sure (Detection_NMS_Class_Aware, detection_nms.c:24-66).
Representative ==
  counted # <<>> =>
    LET c == counted[1]
        Stands(i, j) == /\ c.found[i].classIndex = c.found[j].classIndex
                        /\ Overlap(c.found[i], c.found[j], c.nms)
    IN /\ \A i, j \in c.kept : i # j => ~Stands(i, j)
       /\ \A j \in DOMAIN c.found \ c.kept :
            \E i \in c.kept : Stands(i, j) /\ c.found[i].c >= c.found[j].c

\* While VDO has not refused so many buffers that the application has all the others,
\* frames are counted again and again (Process_Frame, main.c:339-376;
\* imgprovider.c:425-479).
Counted == counted # <<>>
FramesFlow == []<>Counted
=============================================================================
