---------------------------- MODULE DetectxStart ----------------------------
(***************************************************************************)
(* detectx from its start to its end: the model bundle is validated and    *)
(* loaded, labels are selected, the camera's stream is set up, and all is  *)
(* given back (detectx: Model.c, labelparse.c, imgprovider.c, Video.c and  *)
(* main.c).                                                                *)
(*                                                                         *)
(* What is acquired is a resource with a name, one after the other.  Any   *)
(* acquisition can fail, and what was acquired before it is then released, *)
(* in the order of the code.  An app whose model cannot be set up, or      *)
(* whose stream cannot, runs without it.  Settings are posted once the app *)
(* runs.                                                                   *)
(***************************************************************************)
EXTENDS Naturals, Sequences, FiniteSets, SequencesExt

CONSTANTS Label,     \* lines of a labels file, cut to 60 characters: "" is an empty one
          Platform,  \* what a bundle can be made for
          Bundle,    \* [contract, hashes, classes, labels, targets, tensors]
          File,      \* [variant, selected]: settings that any variant of the app left
          MaxPosts   \* bound: posted selections

OCCUPANCY_MAX_LABELS == 5
ConstantsAssumption ==
  /\ \A b \in Bundle :
       /\ b.contract \in BOOLEAN /\ b.hashes \in BOOLEAN /\ b.tensors \in BOOLEAN
       /\ b.classes \in Nat \ {0} /\ b.labels \in Seq(Label) /\ b.targets \subseteq Platform
  /\ \A f \in File : f.selected \in Seq(Label)
  /\ MaxPosts \in Nat

\* In the order of Setup_Path, and in that of createImgProvider with startFrameFetch.
Setup_Path ==
  <<"connection", "model_fd", "model", "inputs", "outputs", "labels", "preprocess_map",
    "preprocess_model", "preprocess_inputs", "preprocess_outputs", "nv12_fd", "nv12",
    "rgb_fd", "rgb", "output_fd", "output", "preprocess_request", "inference_request">>
createImgProvider ==
  <<"provider", "frameMutex", "frameDeliverCond", "deliveredFrames", "processedFrames",
    "vdoStream", "first_buffer", "other_buffers", "streaming", "fetcherThread">>

Release_Runtime_ConnectionFirst == <<"connection">> \o Remove(Reverse(Setup_Path), "connection")
Release_Runtime ==
  <<"inference_request", "preprocess_request", "inputs", "outputs", "preprocess_inputs",
    "preprocess_outputs", "preprocess_map", "preprocess_model", "model", "connection", "nv12",
    "rgb", "output", "nv12_fd", "rgb_fd", "output_fd", "model_fd", "labels">>
\* After a fetch thread that could not be started, the stream ends as it is given up.
destroyImgProvider ==
  <<"first_buffer", "other_buffers", "streaming", "vdoStream", "frameMutex",
    "frameDeliverCond", "deliveredFrames", "processedFrames", "provider">>
Video_Stop_YUV_NoStop == destroyImgProvider
Video_Stop_YUV ==
  <<"streaming", "fetcherThread", "first_buffer", "other_buffers", "vdoStream", "frameMutex",
    "frameDeliverCond", "deliveredFrames", "processedFrames", "provider">>

\* What must not go before: larod's objects are destroyed through the connection, and
\* jobs use the tensors; buffers are released to their stream; and the thread uses all.
Needs(r) ==
  CASE r \in {"model", "preprocess_model"} -> {"connection"}
    [] r \in {"inputs", "outputs", "preprocess_inputs", "preprocess_outputs"} -> {"connection"}
    [] r = "inference_request" -> {"inputs", "outputs", "model"}
    [] r = "preprocess_request" -> {"preprocess_inputs", "preprocess_outputs", "preprocess_model"}
    [] r \in {"first_buffer", "other_buffers"} -> {"vdoStream"}
    [] r = "fetcherThread" -> ToSet(createImgProvider) \ {"fetcherThread", "streaming"}
    [] OTHER -> {}

VARIABLES
  bundle, platform,   \* fixed: what is installed, and where
  main,               \* where main is
  held,               \* resources that are acquired
  g_config,           \* the model in use: <<>> or <<[classes, labels]>>
  selected,           \* transmission.occupancy.selectedLabels
  g_selection_valid,
  posts

vars == <<bundle, platform, main, held, g_config, selected, g_selection_valid, posts>>
-----------------------------------------------------------------------------
\* Migrate_Settings: the selection of another variant of the app is not of this one's labels.
Migrated(file) == IF file.variant = "detectx" THEN file.selected ELSE <<>>

Init ==
  /\ bundle \in Bundle /\ platform \in Platform
  /\ \E file \in File : selected = Migrated(file)
  /\ main = "validate" /\ held = {} /\ g_config = <<>>
  /\ g_selection_valid = FALSE /\ posts = 0

Fixed == UNCHANGED <<bundle, platform>>

\* One label for each class, none of them empty, no two the same.
Empty == ""
Validate_Labels_Counted(labels, classes) == Len(labels) >= classes
Validate_Labels(labels, classes) ==
  /\ Len(labels) = classes /\ Empty \notin ToSet(labels)
  /\ IsInjective(labels)

Validate_Files ==
  /\ main = "validate"
  /\ main' = IF /\ bundle.contract /\ bundle.targets # {} /\ bundle.hashes
                /\ Validate_Labels(bundle.labels, bundle.classes)
             THEN "model" ELSE "reject"
  /\ Fixed /\ UNCHANGED <<held, g_config, selected, g_selection_valid, posts>>

\* Metadata_Supports_Current_Platform, once connected; and the dimensions and types of the
\* tensors that larod found.
Supported(r) ==
  /\ r = "model_fd" => platform \in bundle.targets
  /\ r = "labels" => bundle.tensors

Complete(resources) == ToSet(resources) \subseteq held
Following(resources, i) ==
  resources[i] \notin held /\ \A j \in 1 .. i - 1 : resources[j] \in held
Acquire(resources, failed) ==
  \/ \E i \in DOMAIN resources :
       /\ Following(resources, i) /\ Supported(resources[i])
       /\ held' = held \cup {resources[i]} /\ UNCHANGED main
  \/ ~Complete(resources) /\ main' = failed /\ UNCHANGED held

Model_Setup ==
  /\ main = "model" /\ Acquire(Setup_Path, "reject")
  /\ Fixed /\ UNCHANGED <<g_config, selected, g_selection_valid, posts>>

Model_Running ==
  /\ main = "model" /\ Complete(Setup_Path)
  /\ g_config' = <<[classes |-> bundle.classes, labels |-> bundle.labels]>>
  /\ main' = "selection"
  /\ Fixed /\ UNCHANGED <<held, selected, g_selection_valid, posts>>

\* Released one by one, each if it is there.
First(resources, i) ==
  resources[i] \in held /\ \A j \in 1 .. i - 1 : resources[j] \notin held
Released(resources, next) ==
  /\ \/ ToSet(resources) \cap held = {} /\ main' = next /\ UNCHANGED held
     \/ \E i \in DOMAIN resources :
          First(resources, i) /\ held' = held \ {resources[i]} /\ UNCHANGED main
  /\ Fixed /\ UNCHANGED <<selected, g_selection_valid, posts>>

Model_Rejected ==
  main = "reject" /\ Released(Release_Runtime, "selection") /\ UNCHANGED g_config

\* Configure_Occupancy: Model_Label_Is_Valid for each, and no two the same.
Valid(labels) ==
  /\ Len(labels) \in 1 .. OCCUPANCY_MAX_LABELS /\ IsInjective(labels)
  /\ \A i \in DOMAIN labels : g_config # <<>> /\ labels[i] \in ToSet(g_config[1].labels)

Configure_Occupancy ==
  /\ main = "selection" /\ g_selection_valid' = Valid(selected)
  /\ main' = IF g_config = <<>> THEN "running" ELSE "video"
  /\ Fixed /\ UNCHANGED <<held, g_config, selected, posts>>

Settings_Updated(labels) ==
  /\ main = "running" /\ posts < MaxPosts
  /\ selected' = labels /\ g_selection_valid' = Valid(labels) /\ posts' = posts + 1
  /\ Fixed /\ UNCHANGED <<main, held, g_config>>

\* Without room for the provider itself its undoing reads through a null pointer, and the
\* process ends there.
Video_Start_YUV ==
  /\ main = "video"
  /\ \/ Acquire(createImgProvider, IF "provider" \in held THEN "blind" ELSE "crashed")
     \/ Complete(createImgProvider) /\ main' = "running" /\ UNCHANGED held
  /\ Fixed /\ UNCHANGED <<g_config, selected, g_selection_valid, posts>>

Video_Failed ==
  main = "blind" /\ Released(destroyImgProvider, "running") /\ UNCHANGED g_config

\* The main loop ends: ACAP_Cleanup, Video_Stop_YUV, Model_Cleanup.
Signal_Handler ==
  /\ main = "running" /\ main' = "stop"
  /\ Fixed /\ UNCHANGED <<held, g_config, selected, g_selection_valid, posts>>
Video_Stopped == main = "stop" /\ Released(Video_Stop_YUV, "cleanup") /\ UNCHANGED g_config
Model_Cleanup ==
  /\ main = "cleanup" /\ Released(Release_Runtime, "ended")
  /\ g_config' = IF main' = "ended" THEN <<>> ELSE g_config

Next ==
  \/ Validate_Files \/ Model_Setup \/ Model_Running \/ Model_Rejected
  \/ Configure_Occupancy \/ Video_Start_YUV \/ Video_Failed
  \/ \E labels \in {f.selected : f \in File} : Settings_Updated(labels)
  \/ Signal_Handler \/ Video_Stopped \/ Model_Cleanup

Spec == Init /\ [][Next]_vars
-----------------------------------------------------------------------------
TypeOK ==
  /\ held \subseteq ToSet(Setup_Path) \cup ToSet(createImgProvider)
  /\ g_config = <<>> \/ g_config[1].classes = bundle.classes
  /\ g_selection_valid \in BOOLEAN /\ posts \in 0 .. MaxPosts

\* Wherever the setup or its undoing stands, nothing is left without what it is used or
\* released through: no tensor without larod's connection, no buffer without its stream,
\* no fetch thread without its queues (Setup_Path, Release_Runtime, Model.c:238-417;
\* createImgProvider, destroyImgProvider, imgprovider.c:98-187).
Grounded == \A r \in held : Needs(r) \subseteq held

\* All or nothing: the app runs with all of the model or with nothing of it, with all of
\* the stream or with nothing of it, with a stream only for a model, and ends with nothing
\* unless it crashed.
AllOrNothing ==
  /\ main = "ended" => held = {}
  /\ main \in {"selection", "running"} =>
       \A resources \in {Setup_Path, createImgProvider} :
         Complete(resources) \/ held \cap ToSet(resources) = {}
  /\ main = "running" /\ g_config = <<>> => held = {}

\* What is published has a meaning: a selection that counts as valid names classes of the
\* model in use, and each class of it has a name of its own.
Meant ==
  /\ g_config # <<>> => /\ Len(g_config[1].labels) = g_config[1].classes
                        /\ IsInjective(g_config[1].labels)
  /\ main = "running" /\ g_selection_valid =>
       Complete(Setup_Path) /\ ToSet(selected) \subseteq ToSet(g_config[1].labels)
=============================================================================
