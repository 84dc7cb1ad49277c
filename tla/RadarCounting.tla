---------------------------- MODULE RadarCounting ----------------------------
(***************************************************************************)
(* The counting scenes of the radar app, their cumulative totals and what  *)
(* is kept of them on disk: radar/app/counting.c, ota_counting.c and, in   *)
(* radar/app/main.c, Load_Counting_Scenes, Counting_Save_Counters,         *)
(* Counting_Load_Counters and Publish_Counting_To_LoRa.                    *)
(*                                                                         *)
(* Three threads save the counters with the same temporary file: the       *)
(* publish thread, the FCGI thread and, at the end, main().  The radar     *)
(* thread counts all the while.  The process may be killed at any step.    *)
(* A scene is its id and, for the history, which of the scenes ever        *)
(* created it is; its line, name and classes decide only whether its       *)
(* configuration is valid and whether a track crosses it (RadarTracks).    *)
(* A fingerprint stands for what it is computed from.                      *)
(***************************************************************************)
EXTENDS Integers, Sequences, FiniteSets

CONSTANTS Id,            \* the scene ids, 1 .. UINT16_MAX in the code
          COUNTING_MAX_SCENES,
          MaxTracks,     \* bound: tracks that are counted
          MaxScenes,     \* bound: scenes ever created
          MaxRequests,   \* bound: requests that change the settings or reset
          MaxRestarts,   \* bound: ends of the process, orderly or not
          PublishesAfterRace  \* bound: whether one more publish is begun once two saves ran
                              \* at once: nothing is claimed of the file after that

Publish_Thread == "Publish_Thread"
FCGI == "FCGI"
Main == "main"
Thread == {Publish_Thread, FCGI, Main}
Inode == 1 .. 3
NoFile == 0

ConstantsAssumption ==
  /\ IsFiniteSet(Id) /\ Id \subseteq Nat \ {0} /\ COUNTING_MAX_SCENES \in Nat
  /\ {MaxTracks, MaxScenes, MaxRequests, MaxRestarts} \subseteq Nat
  /\ PublishesAfterRace \in BOOLEAN

\* A scene of the settings, made by the request of that number.  An invalid one makes the
\* whole list invalid.
Scene == [id : Id, made : 1 .. MaxScenes, valid : BOOLEAN]
NoTotals == [id \in {} |-> 0]

VARIABLES
  up,        \* "starting": settings loaded, counters not; "running"; "stopping"
  tree,      \* transmission.counting.scenes in the settings tree
  file,      \* the same in localdata/settings.json
  g_scenes,  \* counting.c: the scenes counted for
  totals,    \* their totals, by id
  inode,     \* what counters.json or its temporary file hold; empty or a snapshot
  counters, temporary,   \* the inodes of the two names
  pc,        \* per thread: where it is in a save, its snapshot and its file
  made, requests, tracks, restarts,
  crossed,   \* history: per scene ever made, the tracks that crossed it, or the scenes that
             \* it replaced while they were counted for
  floor,     \* history: per id, the total that the last completed publish saved
  raced      \* history: two saves ran at once

disk == <<inode, counters, temporary>>
bounds == <<made, requests, tracks, restarts>>
history == <<crossed, floor, raced>>
vars == <<up, tree, file, g_scenes, totals, disk, pc, bounds, history>>

Empty == [whole |-> FALSE, totals |-> NoTotals]
Idle == [at |-> "idle", totals |-> NoTotals, inode |-> NoFile, publish |-> FALSE]

Init ==
  /\ up = "running" /\ tree = <<>> /\ file = <<>> /\ g_scenes = <<>> /\ totals = NoTotals
  /\ inode = [i \in Inode |-> Empty] /\ counters = NoFile /\ temporary = NoFile
  /\ pc = [t \in Thread |-> Idle]
  /\ made = 0 /\ requests = 0 /\ tracks = 0 /\ restarts = 0
  /\ crossed = [m \in 1 .. MaxScenes |-> 0] /\ floor = NoTotals /\ raced = FALSE
-----------------------------------------------------------------------------
(***************************************************************************)
(* counting.c.                                                             *)
(***************************************************************************)
Elements(list) == {list[i] : i \in DOMAIN list}
Ids(list) == {s.id : s \in Elements(list)}
TotalOf(t, id) == IF id \in DOMAIN t THEN t[id] ELSE 0

Counting_Validate_Config_OffByOne(list) ==
  /\ Len(list) < COUNTING_MAX_SCENES /\ \A s \in Elements(list) : s.valid
  /\ \A i, j \in DOMAIN list : list[i].id = list[j].id => i = j
Counting_Validate_Config(list) ==
  /\ Len(list) <= COUNTING_MAX_SCENES /\ \A s \in Elements(list) : s.valid
  /\ \A i, j \in DOMAIN list : list[i].id = list[j].id => i = j

\* A scene keeps its total by its id; the totals of others are gone.
Kept_ByPosition(list) ==
  [id \in Ids(list) |->
     LET i == CHOOSE i \in DOMAIN list : list[i].id = id
     IN IF i \in DOMAIN g_scenes THEN totals[g_scenes[i].id] ELSE 0]
Kept(list) == [id \in Ids(list) |-> TotalOf(totals, id)]

\* One completed track that crosses the lines of some enabled scenes.
Counting_Process_Completed_Track ==
  /\ up # "starting" /\ tracks < MaxTracks /\ tracks' = tracks + 1
  /\ \E ids \in SUBSET DOMAIN totals \ {{}} :
       /\ totals' = [id \in DOMAIN totals |-> totals[id] + (IF id \in ids THEN 1 ELSE 0)]
       /\ crossed' = [m \in DOMAIN crossed |->
            IF \E s \in Elements(g_scenes) : s.id \in ids /\ s.made = m
            THEN crossed[m] + 1 ELSE crossed[m]]
  /\ UNCHANGED <<up, tree, file, g_scenes, disk, pc, made, requests, restarts, floor, raced>>

-----------------------------------------------------------------------------
(***************************************************************************)
(* Counting_Save_Counters: a snapshot, the temporary file emptied or made, *)
(* written and synced, and renamed.                                        *)
(***************************************************************************)
At(t, point) == pc[t].at = point
Go(t, p) == pc' = [pc EXCEPT ![t] = p]
Saving(t) == pc[t].at \in {"open", "write", "rename"}

\* The snapshot is part of the step that leads to the save.
Save(publish, snapshot) ==
  [at |-> "open", totals |-> snapshot, inode |-> NoFile, publish |-> publish]
Overlaps(t) == \E u \in Thread \ {t} : Saving(u)

Free(i) == i # counters /\ i # temporary /\ \A u \in Thread : pc[u].inode # i
FreeInode_InPlace == IF counters = NoFile THEN 1 ELSE counters
FreeInode == CHOOSE i \in Inode : Free(i) /\ \A j \in Inode : Free(j) => i <= j

Save_Open(t) ==
  /\ At(t, "open")
  /\ LET i == IF temporary # NoFile THEN temporary ELSE FreeInode
     IN /\ temporary' = i /\ inode' = [inode EXCEPT ![i] = Empty]
        /\ Go(t, [pc[t] EXCEPT !.at = "write", !.inode = i])
  /\ raced' = (raced \/ Overlaps(t))
  /\ UNCHANGED <<up, tree, file, g_scenes, totals, counters, bounds, crossed, floor>>

\* Written through the descriptor, whatever its name is by now.
Save_Write(t) ==
  /\ At(t, "write")
  /\ inode' = [inode EXCEPT ![pc[t].inode] =
                 [whole |-> TRUE, totals |-> pc[t].totals]]
  /\ Go(t, [pc[t] EXCEPT !.at = "rename"])
  /\ UNCHANGED <<up, tree, file, g_scenes, totals, counters, temporary, bounds, history>>

\* An inode that neither a name nor a descriptor leads to is gone.
Named ==
  [i \in Inode |-> IF i = counters' \/ i = temporary' \/ \E u \in Thread : pc'[u].inode = i
                   THEN inode[i] ELSE Empty]

\* The name now leads to the file.  If the other thread took the temporary file
\* away the rename fails.
Save_Rename(t) ==
  /\ At(t, "rename")
  /\ IF temporary = NoFile THEN UNCHANGED <<counters, floor>>
     ELSE /\ counters' = temporary
          /\ floor' = IF pc[t].publish THEN pc[t].totals ELSE floor
  /\ temporary' = NoFile /\ Go(t, Idle) /\ inode' = Named
  /\ raced' = (raced \/ Overlaps(t))
  /\ UNCHANGED <<up, tree, file, g_scenes, totals, bounds, crossed>>

\* fopen, a write or the rename fails; the temporary file is removed.
Save_Fails(t) ==
  /\ Saving(t) /\ Go(t, Idle)
  /\ temporary' = IF At(t, "open") THEN temporary ELSE NoFile
  /\ UNCHANGED counters /\ inode' = Named
  /\ raced' = (raced \/ Overlaps(t))
  /\ UNCHANGED <<up, tree, file, g_scenes, totals, bounds, crossed, floor>>

Counting_Save_Counters(t) ==
  Save_Open(t) \/ Save_Write(t) \/ Save_Rename(t) \/ Save_Fails(t)
-----------------------------------------------------------------------------
(***************************************************************************)
(* The threads.                                                            *)
(***************************************************************************)
MayStart(t) ==
  /\ pc[t] = Idle
  /\ IF t = Main THEN up = "stopping" ELSE IF t = Publish_Thread THEN up = "running" ELSE TRUE

\* Publish_Counting_To_LoRa: the payload, then the send, then the save of what the
\* totals are by then.  A refused send saves nothing.
Publish_Counting_Build(t) ==
  /\ t # Main /\ MayStart(t) /\ up # "starting" /\ g_scenes # <<>>
  /\ raced => PublishesAfterRace
  /\ Go(t, [Idle EXCEPT !.at = "sending"])
  /\ UNCHANGED <<up, tree, file, g_scenes, totals, disk, bounds, history>>

Send_LoRa_Payload(t) ==
  /\ At(t, "sending")
  /\ Go(t, Idle) \/ Go(t, Save(TRUE, totals))
  /\ UNCHANGED <<up, tree, file, g_scenes, totals, disk, bounds, history>>

\* History: only a scene that stays keeps its published total.
FloorOf(list) ==
  [id \in DOMAIN floor \cap {s.id : s \in Elements(list) \cap Elements(g_scenes)} |-> floor[id]]

\* History: a scene with the id of one that is counted for replaces it.
Inherited(list) ==
  [m \in DOMAIN crossed |->
     IF \E s \in Elements(list) : s.made = m /\ s.id \in Ids(g_scenes)
     THEN LET s == CHOOSE s \in Elements(list) : s.made = m /\ s.id \in Ids(g_scenes)
          IN crossed[(CHOOSE o \in Elements(g_scenes) : o.id = s.id).made]
     ELSE crossed[m]]

\* Load_Counting_Scenes of a list, by the FCGI thread: applied if it is valid, and
\* then saved, though not before the counters were loaded.
SavesOnLoad_Always == TRUE
SavesOnLoad == up # "starting"
Load_Counting_Scenes(list) ==
  IF Counting_Validate_Config(list)
  THEN /\ g_scenes' = list /\ totals' = Kept(list)
       /\ floor' = FloorOf(list) /\ crossed' = Inherited(list)
       /\ Go(FCGI, IF SavesOnLoad THEN Save(FALSE, Kept(list)) ELSE Idle)
  ELSE UNCHANGED <<g_scenes, totals, floor, crossed, pc>>

Request == MayStart(FCGI) /\ requests < MaxRequests /\ requests' = requests + 1

\* POST of the settings page: the tree is replaced by what was posted, then the
\* list is loaded, and the settings file is written after the callback.
Made(list) == IF \E s \in Elements(list) : s.made > made THEN made + 1 ELSE made
ACAP_ENDPOINT_settings(list) ==
  /\ Request /\ made' = Made(list)
  /\ tree' = list /\ file' = list /\ Load_Counting_Scenes(list)
  /\ UNCHANGED <<up, disk, tracks, restarts, raced>>

\* OTA: Apply_Set of a delete, an update or a new scene.  What is sent refers to the
\* scenes counted for (map fingerprint, index, id); what is changed is the tree.
RemoveAt(list, i) ==
  [j \in 1 .. (IF i \in DOMAIN list THEN Len(list) - 1 ELSE Len(list)) |->
     IF j < i THEN list[j] ELSE list[j + 1]]
Allocate_Id == CHOOSE id \in Id \ Ids(g_scenes) : \A other \in Id \ Ids(g_scenes) : id <= other

Apply_Set_Candidate(list) ==
  \/ \E i \in DOMAIN g_scenes :
       list = IF i \in DOMAIN tree THEN RemoveAt(tree, i) ELSE tree
  \/ \E i \in DOMAIN g_scenes :
       list = [j \in DOMAIN tree |-> IF j = i THEN g_scenes[i] ELSE tree[j]]
  \/ /\ made < MaxScenes /\ Len(g_scenes) < COUNTING_MAX_SCENES /\ Id \ Ids(g_scenes) # {}
     /\ list = Append(tree, [id |-> Allocate_Id, made |-> made + 1, valid |-> TRUE])

\* The settings file is written first; a refusal to write it ends the request.
OTA_Counting_Persist(list) ==
  /\ Request /\ up # "starting" /\ Apply_Set_Candidate(list)
  /\ file' = list /\ made' = Made(list)
  /\ Go(FCGI, [Idle EXCEPT !.at = "apply"])
  /\ UNCHANGED <<up, tree, g_scenes, totals, disk, tracks, restarts, history>>

OTA_Counting_Apply ==
  /\ At(FCGI, "apply") /\ tree' = file
  /\ IF Counting_Validate_Config(file) THEN Load_Counting_Scenes(file)
     ELSE Go(FCGI, Idle) /\ UNCHANGED <<g_scenes, totals, floor, crossed>>
  /\ UNCHANGED <<up, file, disk, bounds, raced>>

\* Reset_All_State, from the page or a downlink.
Reset_All_State ==
  /\ Request /\ up # "starting"
  /\ totals' = [id \in DOMAIN totals |-> 0]
  /\ crossed' = [m \in DOMAIN crossed |->
       IF \E s \in Elements(g_scenes) : s.made = m THEN 0 ELSE crossed[m]]
  /\ floor' = NoTotals
  /\ Go(FCGI, Save(FALSE, totals'))
  /\ UNCHANGED <<up, tree, file, g_scenes, disk, made, tracks, restarts, raced>>
-----------------------------------------------------------------------------
(***************************************************************************)
(* The process.                                                            *)
(***************************************************************************)

\* SIGTERM: the publish thread has come to an end, main() saves the counters.
Shutdown ==
  /\ up = "running" /\ pc[Publish_Thread] = Idle /\ restarts < MaxRestarts
  /\ up' = "stopping" /\ Go(Main, Save(FALSE, totals))
  /\ UNCHANGED <<tree, file, g_scenes, totals, disk, bounds, history>>

\* The process ends, killed at any step or after that save, and starts again.
Restart ==
  /\ restarts < MaxRestarts /\ (up = "stopping" => pc[Main] = Idle)
  /\ up' = "starting" /\ tree' = file /\ restarts' = restarts + 1
  /\ g_scenes' = IF Counting_Validate_Config(file) THEN file ELSE <<>>
  /\ totals' = [id \in Ids(g_scenes') |-> 0]
  /\ pc' = [t \in Thread |-> Idle]
  /\ floor' = FloorOf(g_scenes')
  /\ UNCHANGED <<file, disk, made, requests, tracks, crossed, raced>>

\* main(): the totals of the scenes configured by then, if the file can be parsed.
Counting_Load_Counters ==
  /\ up = "starting" /\ up' = "running"
  /\ LET saved == IF counters = NoFile \/ ~inode[counters].whole THEN NoTotals
                  ELSE inode[counters].totals
     IN totals' = [id \in DOMAIN totals |-> IF id \in DOMAIN saved THEN saved[id] ELSE totals[id]]
  /\ UNCHANGED <<tree, file, g_scenes, disk, pc, bounds, history>>

\* Lists that a POST may bring: the present one without a scene, with one more, or
\* with another in place of one.
Added == [id : IF made < MaxScenes THEN Id ELSE {}, made : {made + 1}, valid : BOOLEAN]
Posted ==
  {RemoveAt(tree, i) : i \in DOMAIN tree} \cup {tree} \cup {Append(tree, s) : s \in Added}
  \cup {[tree EXCEPT ![i] = s] : i \in DOMAIN tree, s \in Added}

FCGI_Thread ==
  \/ \E list \in Posted : ACAP_ENDPOINT_settings(list)
  \/ \E list \in {RemoveAt(tree, i) : i \in DOMAIN tree} \cup Posted
               \cup {[j \in DOMAIN tree |-> IF j = i THEN g_scenes[i] ELSE tree[j]] :
                       i \in DOMAIN g_scenes} :
       OTA_Counting_Persist(list)
  \/ OTA_Counting_Apply \/ Reset_All_State

Next ==
  \/ Counting_Process_Completed_Track \/ FCGI_Thread
  \/ \E t \in Thread :
       Publish_Counting_Build(t) \/ Send_LoRa_Payload(t) \/ Counting_Save_Counters(t)
  \/ Shutdown \/ Restart \/ Counting_Load_Counters

Spec == Init /\ [][Next]_vars
-----------------------------------------------------------------------------
Snapshot(t) == DOMAIN t \subseteq Id /\ \A id \in DOMAIN t : t[id] \in 0 .. tracks

\* The types of the variables.
TypeOK ==
  /\ up \in {"starting", "running", "stopping"}
  /\ tree \in Seq(Scene) /\ file \in Seq(Scene) /\ g_scenes \in Seq(Scene)
  /\ Counting_Validate_Config(g_scenes) /\ DOMAIN totals = Ids(g_scenes)
  /\ Snapshot(totals) /\ Snapshot(floor)
  /\ \A i \in Inode : inode[i].whole \in BOOLEAN /\ Snapshot(inode[i].totals)
  /\ counters \in Inode \cup {NoFile} /\ temporary \in Inode \cup {NoFile}
  /\ \A t \in Thread :
       /\ pc[t].at \in {"idle", "sending", "apply", "open", "write", "rename"}
       /\ Snapshot(pc[t].totals) /\ pc[t].inode \in Inode \cup {NoFile}
  /\ crossed \in [1 .. MaxScenes -> 0 .. tracks] /\ raced \in BOOLEAN
  /\ made \in 0 .. MaxScenes /\ requests \in 0 .. MaxRequests /\ tracks \in 0 .. MaxTracks
  /\ restarts \in 0 .. MaxRestarts

\* Within one run of the process a scene's total counts the tracks that crossed this very
\* scene since it was counted for or reset, and before that the scene with its id that it
\* replaced: whatever lists are refused meanwhile, and whatever scenes come, go, take over
\* a place in the list or an id that is no longer counted for.
TotalsExact ==
  restarts = 0 => \A s \in Elements(g_scenes) : totals[s.id] = crossed[s.made]

\* What is counted for is what the settings say, unless they are invalid: a list that
\* was refused leaves the scenes before it in force.
ActiveIsConfigured ==
  /\ Len(tree) <= COUNTING_MAX_SCENES /\ \A s \in Elements(tree) : s.valid
  /\ \A i, j \in DOMAIN tree : tree[i].id = tree[j].id => i = j
  => tree = g_scenes

\* radar/README.md:89, totals persist across restarts: wherever the process is killed,
\* counters.json is absent or whole.  The code breaks this: a second save empties the
\* temporary file that the first is about to rename.
CountersFileWhole == counters = NoFile \/ inode[counters].whole

\* Only two saves at once do that.
OnlyRacesTear == CountersFileWhole \/ raced

\* A scene that keeps its id never falls behind the totals of a publish that ended
\* with its save, through restarts at any step, settings and failed saves.
PublishedTotalsSurvive ==
  up # "starting" /\ ~raced =>
    \A s \in Elements(g_scenes) : s.id \in DOMAIN floor => totals[s.id] >= floor[s.id]
=============================================================================
