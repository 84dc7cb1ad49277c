----------------------------- MODULE RadarTracks -----------------------------
(***************************************************************************)
(* From the radar's scenes to what the use cases of the radar app see:     *)
(* RadarDetection_Scene (radar/app/RadarDetection.c) keeps a cache of the  *)
(* radar's objects, and calls back into radar/app/main.c with a copy of    *)
(* each track at most once a second, with the list of all of them, and     *)
(* once more for every track that ended.  main.c keeps a table of its own, *)
(* from which it counts occupancy and measures vehicles, and hands ended   *)
(* tracks to Counting and Speed.                                           *)
(*                                                                         *)
(* All of this runs in the radar library's thread, so that a scene is one  *)
(* step; the FCGI thread resets the table under the same mutex.  Geometry  *)
(* is reduced to what it decides about a place or a pair of places, and    *)
(* minDwellSeconds is 0, its default, so that no track is too young.       *)
(***************************************************************************)
EXTENDS Integers, FiniteSets

CONSTANTS Id,               \* the radar's object ids
          RADAR_MAX_OBJECTS,
          Place,            \* positions of an object
          InAoi, InOccupancyArea, InSpeedArea,   \* the places inside each area
          Crossed, Moved,   \* pairs of places: across the line, far enough apart
          DefaultClass,     \* the class that stands in for an unknown one
          Qualifying,       \* the least speed that counts
          Detection,        \* what a scene says of one object
          MaxEntered        \* bound: objects that enter the area between two resets

Class == {"Human", "Vehicle"}
NoClass == "Undefined"

ConstantsAssumption ==
  /\ IsFiniteSet(Id) /\ RADAR_MAX_OBJECTS \in Nat /\ Qualifying \in Nat /\ MaxEntered \in Nat
  /\ InAoi \subseteq Place /\ InOccupancyArea \subseteq Place /\ InSpeedArea \subseteq Place
  /\ Crossed \subseteq Place \X Place /\ Moved \subseteq Place \X Place
  /\ DefaultClass \in Class
  /\ Detection \subseteq [class : Class \cup {NoClass}, sure : BOOLEAN, place : Place, speed : Nat]

VARIABLES
  cache,     \* radarCache: the tracks that the last scene contained
  objects,   \* g_radar_objects
  balance,   \* g_balance of occupancy.c: objects that entered and left the area
  current,   \* g_current.total of occupancy.c
  lost,      \* the tracks that ended in the last scene
  counted, measured,   \* history: how often Counting and Speed took each track's end
  best,      \* history: the fastest that the table saw a track go in the speed area
  recorded,  \* history: the speeds that Speed recorded of each track
  early,     \* history: tracks whose last second was up in the scene that ended them
  unsure,    \* history: objects whose last track ended other than as a sure vehicle
  inherited, \* history: tracks that began while the table held such an object of their id
  forgotten  \* history: objects dropped from the table while counted as inside

history == <<lost, counted, measured, best, recorded, early, unsure, inherited, forgotten>>
vars == <<cache, objects, balance, current, history>>

Track == [class : Class \cup {NoClass}, sure : BOOLEAN, birth : Place, place : Place,
          speed : Nat, active : BOOLEAN, valid : BOOLEAN]
Object == [class : Class, sure : BOOLEAN, place : Place, active : BOOLEAN,
           inside : BOOLEAN, samples : BOOLEAN, max : Nat]

Without(f, S) == [x \in DOMAIN f \ S |-> f[x]]
Larger(a, b) == IF a > b THEN a ELSE b

Init ==
  /\ cache = [id \in {} |-> {}] /\ objects = [id \in {} |-> {}]
  /\ balance = [entering |-> 0, exiting |-> 0] /\ current = 0
  /\ lost = {} /\ early = {} /\ unsure = {} /\ inherited = {} /\ forgotten = 0
  /\ counted = [id \in Id |-> 0] /\ measured = [id \in Id |-> 0]
  /\ best = [id \in Id |-> 0] /\ recorded = [id \in Id |-> {}]
-----------------------------------------------------------------------------
(***************************************************************************)
(* The cache of RadarDetection.c.                                          *)
(***************************************************************************)

\* A track the scene contains for the first time, or again.  A class is taken
\* over only with a confidence above zero.
NewTrack(d) ==
  [class |-> d.class, sure |-> d.sure, birth |-> d.place, place |-> d.place,
   speed |-> d.speed, active |-> TRUE, valid |-> d.place \in InAoi]

Continued(t, d) ==
  [t EXCEPT !.place = d.place, !.speed = d.speed, !.active = TRUE,
            !.class = IF d.class = NoClass THEN @ ELSE d.class,
            !.sure = IF d.class = NoClass THEN @ ELSE d.sure,
            !.valid = @ \/ d.place \in InAoi]

\* All tracks after the scene's objects were taken in, ended ones included.
Tracks(scene) ==
  [id \in DOMAIN cache \cup DOMAIN scene |->
     IF id \notin DOMAIN scene THEN [cache[id] EXCEPT !.active = FALSE]
     ELSE IF id \in DOMAIN cache THEN Continued(cache[id], scene[id])
     ELSE NewTrack(scene[id])]

\* The list published to main.c: ended tracks are on it once more.
Valid(tracks) == {id \in DOMAIN tracks : tracks[id].valid}
Ended(tracks) == {id \in DOMAIN tracks : ~tracks[id].active}

\* The tracks whose copy, sent once a second, already says that they ended.
DueTwice(tracks, due) == Ended(tracks) \cap due

\* Those then removed from the cache.
Removed_Invalid(tracks) == Ended(tracks) \ Valid(tracks)
Removed(tracks) == Ended(tracks)
-----------------------------------------------------------------------------
(***************************************************************************)
(* The table of main.c.                                                    *)
(***************************************************************************)

Radar_Class_Bucket(class) == IF class = NoClass THEN DefaultClass ELSE class

Measurable(o) == o.class = "Vehicle" /\ o.sure /\ o.place \in InSpeedArea
Countable(o) == o.active /\ o.sure /\ o.class = DefaultClass /\ o.place \in InOccupancyArea

NewObject == [class |-> DefaultClass, sure |-> FALSE, place |-> CHOOSE p \in Place : TRUE,
              active |-> FALSE, inside |-> FALSE, samples |-> FALSE, max |-> 0]

\* One element of the list: the object, whether or not its track has ended.
Fastest_Last(o, t) == t.speed
Fastest(o, t) == Larger(o.max, t.speed)
Observed(o, t) ==
  LET seen == [o EXCEPT !.active = TRUE, !.class = Radar_Class_Bucket(t.class),
                        !.sure = t.sure, !.place = t.place]
  IN IF Measurable(seen)
     THEN [seen EXCEPT !.samples = TRUE, !.max = Fastest(o, t)]
     ELSE seen

\* Occupancy_Process_Transition: eligible objects enter, counted ones leave.
Enters(o) == o.sure /\ o.class = DefaultClass /\ o.place \in InOccupancyArea /\ ~o.inside
Leaves_Uncounted(o) == o.place \notin InOccupancyArea
Leaves(o) == o.place \notin InOccupancyArea /\ o.inside

\* The new objects there is room for, in the order of the list.
Admitted_Always(table, list) == {list \ DOMAIN table}
Admitted(table, list) ==
  {new \in SUBSET (list \ DOMAIN table) :
     LET free == RADAR_MAX_OBJECTS - Cardinality(DOMAIN table)
     IN Cardinality(new) = IF Cardinality(list \ DOMAIN table) < free
                           THEN Cardinality(list \ DOMAIN table) ELSE free}

\* The table after Radar_Detections_Callback went through the list.
Unlisted_Kept(o) == o
Unlisted(o) == [o EXCEPT !.active = FALSE]
AfterList(table, tracks, new) ==
  [id \in DOMAIN table \cup new |->
     LET o == IF id \in new THEN NewObject ELSE table[id]
     IN IF id \in Valid(tracks) THEN Observed(o, tracks[id])
        ELSE Unlisted(o)]

Radar_Occupancy_Frame_Counts(table) ==
  Cardinality({id \in DOMAIN table : Countable(table[id])})

\* Speed_Finalize_Track of a set of tracks, called for vehicles that the app is sure of: what
\* it takes out of the table.  The samples of another track stay with its id.
Vehicle(t) == t.class = "Vehicle" /\ t.sure
TakenOut_Kept(o) == o
TakenOut(o) == [o EXCEPT !.samples = FALSE, !.max = 0]
Finalized(table, tracks, ids) ==
  [id \in DOMAIN table |->
     IF id \in ids /\ Vehicle(tracks[id]) THEN TakenOut(table[id]) ELSE table[id]]

Speed_Qualifies(table, tracks, id) ==
  /\ Vehicle(tracks[id])
  /\ id \in DOMAIN table /\ table[id].samples
  /\ table[id].max > 0 /\ table[id].max >= Qualifying
  /\ <<tracks[id].birth, tracks[id].place>> \in Moved

\* Counting_Process_Completed_Track, for a scene that selects both classes.
Counting_Process_Completed_Track(t) ==
  t.class \in Class /\ t.sure /\ <<t.birth, t.place>> \in Crossed

-----------------------------------------------------------------------------
\* One scene: the tracks of the scene, the copies that are due, the list, and
\* the ended tracks.  Objects last seen over a minute ago expire.
RadarDetection_Scene(scene, due) ==
  LET tracks == Tracks(scene)
      list == Valid(tracks)
      ended == Ended(tracks) \cap list
      first == DueTwice(tracks, due) \cap ended
      table == Finalized(objects, tracks, first)
      Born(id) == id \in DOMAIN scene \ DOMAIN cache
      Once(id, S) == IF id \in S /\ Counting_Process_Completed_Track(tracks[id]) THEN 1 ELSE 0
  IN \E new \in Admitted(table, list), expired \in SUBSET (DOMAIN objects \ list) :
     LET listed == AfterList(table, tracks, new)
         entered == {id \in DOMAIN listed \cap list : Enters(listed[id])}
         left == {id \in DOMAIN listed \cap list : Leaves(listed[id])}
         kept == Without([id \in DOMAIN listed |->
                            [listed[id] EXCEPT !.inside = (@ \/ id \in entered) /\ id \notin left]],
                         expired)
         early_taken == {id \in first : Speed_Qualifies(objects, tracks, id)}
         taken == {id \in ended : Speed_Qualifies(kept, tracks, id)}
     IN /\ balance' = [entering |-> balance.entering + Cardinality(entered),
                       exiting |-> balance.exiting + Cardinality(left)]
        /\ balance'.entering <= MaxEntered
        /\ cache' = Without(tracks, Removed(tracks))
        /\ objects' = Finalized(kept, tracks, ended)
        /\ current' = Radar_Occupancy_Frame_Counts(kept)
        /\ lost' = Ended(tracks) /\ early' = (early \ DOMAIN scene) \cup first
        /\ forgotten' = forgotten + Cardinality({id \in expired : listed[id].inside})
        /\ counted' = [id \in Id |->
             IF Born(id) THEN 0 ELSE counted[id] + Once(id, first) + Once(id, ended)]
        /\ measured' = [id \in Id |->
             IF Born(id) THEN 0
             ELSE measured[id] + Cardinality({id} \cap early_taken) + Cardinality({id} \cap taken)]
        /\ recorded' = [id \in Id |->
             IF Born(id) THEN {}
             ELSE recorded[id] \cup {objects[i].max : i \in {id} \cap early_taken}
                               \cup {kept[i].max : i \in {id} \cap taken}]
        /\ best' = [id \in Id |->
             LET old == IF Born(id) THEN 0 ELSE best[id]
             IN IF id \in DOMAIN listed \cap list /\ Measurable(listed[id])
                THEN Larger(old, tracks[id].speed) ELSE old]
        /\ unsure' = {id \in (unsure \cup ended) \cap DOMAIN kept :
                         id \in ended => ~Vehicle(tracks[id])}
        /\ inherited' = (inherited \ DOMAIN scene) \cup {id \in DOMAIN scene :
                           IF Born(id) THEN id \in unsure ELSE id \in inherited}

\* Any id may be used again, also while the table still holds the object of its last track.
Scene ==
  \E seen \in SUBSET Id : \E due \in SUBSET (DOMAIN cache \ seen), scene \in [seen -> Detection] :
    RadarDetection_Scene(scene, due)

\* The FCGI thread: the status page expires what was not seen for a minute, which is what the
\* last scene did not list, or everything when there was no scene since.
Radar_Status_JSON ==
  \E expired \in {DOMAIN objects} \cup SUBSET {id \in DOMAIN objects : ~objects[id].active} :
    /\ objects' = Without(objects, expired)
    /\ forgotten' = forgotten + Cardinality({id \in expired : objects[id].inside})
    /\ best' = [id \in Id |-> IF id \in expired THEN 0 ELSE best[id]]
    /\ recorded' = [id \in Id |-> IF id \in expired THEN {} ELSE recorded[id]]
    /\ unsure' = unsure \ expired /\ inherited' = inherited \ expired
    /\ UNCHANGED <<cache, balance, current, lost, counted, measured, early>>

\* The FCGI thread: a reset empties the table.  Called by the page, the OTA
\* action and the downlink command.
Radar_Reset_State ==
  /\ objects' = [id \in {} |-> {}] /\ balance' = [entering |-> 0, exiting |-> 0]
  /\ current' = 0 /\ forgotten' = 0
  /\ best' = [id \in Id |-> 0] /\ recorded' = [id \in Id |-> {}]
  /\ unsure' = {} /\ inherited' = {}
  /\ UNCHANGED <<cache, lost, counted, measured, early>>

\* The FCGI thread: a change of the radar settings resets what was counted.
Settings_Updated_Callback_Radar ==
  /\ objects' = [id \in DOMAIN objects |-> [objects[id] EXCEPT !.inside = FALSE]]
  /\ balance' = [entering |-> 0, exiting |-> 0] /\ current' = 0 /\ forgotten' = 0
  /\ UNCHANGED <<cache, lost, counted, measured, best, recorded, early, unsure, inherited>>

Next == Scene \/ Radar_Status_JSON \/ Radar_Reset_State \/ Settings_Updated_Callback_Radar

Spec == Init /\ [][Next]_vars
-----------------------------------------------------------------------------
\* The types of the variables.
TypeOK ==
  /\ DOMAIN cache \subseteq Id /\ \A id \in DOMAIN cache : cache[id] \in Track
  /\ DOMAIN objects \subseteq Id /\ \A id \in DOMAIN objects : objects[id] \in Object
  /\ Cardinality(DOMAIN objects) <= RADAR_MAX_OBJECTS
  /\ balance \in [entering : Nat, exiting : Nat] /\ current \in Nat
  /\ lost \subseteq Id /\ early \subseteq Id
  /\ unsure \subseteq Id /\ inherited \subseteq Id /\ forgotten \in Nat
  /\ counted \in [Id -> 0 .. 2] /\ measured \in [Id -> 0 .. 2]
  /\ best \in [Id -> Nat] /\ recorded \in [Id -> SUBSET Nat]

\* radar/README.md:89: a completed track adds one crossing and one vehicle.  The
\* code breaks this: a track whose last second is up in the scene that ends it is
\* handed over twice, by RadarDetection.c:362 and again by :410.
TrackCountedOnce == \A id \in Id : counted[id] <= 1 /\ measured[id] <= 1

\* That is the only way for a track to be counted or measured twice.
TwiceOnlyWhenDue == \A id \in Id : counted[id] = 2 \/ measured[id] = 2 => id \in early

\* What Speed records of a vehicle is the fastest that the table saw it go in the area during
\* that very track.  A second, lower speed is recorded with it only if the track was handed
\* over twice; and only an id whose earlier track ended as anything but a vehicle the app is
\* sure of can bring a speed of that track along, as Speed_Finalize_Track left its samples.
SpeedOfThisTrack ==
  \A id \in Id \ inherited : recorded[id] # {} =>
    /\ best[id] \in recorded[id]
    /\ \A speed \in recorded[id] : speed # best[id] => speed < best[id] /\ id \in early

\* The balance of the area is that of the objects counted as inside: an object
\* leaves once for each time it entered, unless the table dropped it first.
BalanceExact ==
  balance.entering - balance.exiting =
    forgotten + Cardinality({id \in DOMAIN objects : objects[id].inside})

\* An object is held to be there only while its track lasts and for the one scene
\* that ends it.
GhostsLastOneScene ==
  \A id \in DOMAIN objects : objects[id].active => id \in DOMAIN cache \cup lost

\* An object of the table belongs to a track that runs or just ended, with the types of the
\* variables: what main.c derives from the list is about objects the radar still reports.
TracksSound == TypeOK /\ GhostsLastOneScene
=============================================================================
