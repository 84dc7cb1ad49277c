-------------------------- MODULE RadarTrafficProofs --------------------------
(***************************************************************************)
(* Proofs about the radar's tracks, for any ids, table, places, areas and  *)
(* detections, and about its counting scenes, for any ids, limits and      *)
(* bounds.  What is recorded, counted or measured of a track when it ends  *)
(* depends on what the table has kept of it since it began: IInv says what *)
(* holds of a track while it runs.  What a total counts depends on which   *)
(* scenes the settings, the file and the scenes counted for may share, and *)
(* what survives on disk on where three threads are in a save: CInv says   *)
(* both.                                                                   *)
(***************************************************************************)
EXTENDS RadarTraffic, FiniteSetTheorems, SequenceTheorems, TLAPS

\* The object is as its track was when it was last listed.
Shows(o, t) ==
  /\ o.class = Radar_Class_Bucket(t.class) /\ o.sure = t.sure /\ o.place = t.place
  /\ Measurable(o) => o.samples /\ t.speed <= o.max

\* A track that runs was not handed over, and the table has measured it since it began or
\* was reset, or has not had it.
Running(id) ==
  /\ counted[id] = 0 /\ measured[id] = 0 /\ recorded[id] = {}
  /\ (id \notin DOMAIN objects \/ ~cache[id].valid) => best[id] = 0
  /\ id \in DOMAIN objects /\ cache[id].valid => Shows(objects[id], cache[id])
  /\ id \in DOMAIN objects /\ id \notin inherited => objects[id].max = best[id]

\* No track that is listed has the object of this id.
Idle(id) == id \in DOMAIN cache => ~cache[id].valid

\* Such an object keeps a speed only of a track that ended other than as a sure vehicle.
Resting(id) == Idle(id) /\ id \notin unsure => objects[id].max = 0

IInv ==
  /\ TracksSound /\ TwiceOnlyWhenDue /\ SpeedOfThisTrack /\ BalanceExact
  /\ \A id \in DOMAIN cache : Running(id)
  /\ \A id \in DOMAIN objects : Resting(id)

-----------------------------------------------------------------------------
(***************************************************************************)
(* One track, one object.                                                  *)
(***************************************************************************)
LEMMA NewTrackTyped ==
  ASSUME ConstantsAssumption, NEW d \in Detection
  PROVE  /\ NewTrack(d) \in Track /\ NewTrack(d).active = TRUE
         /\ d.place \in Place
<1>1. d \in [class : Class \cup {NoClass}, sure : BOOLEAN, place : Place, speed : Nat]
  BY DEF ConstantsAssumption
<1>2. (d.place \in InAoi) \in BOOLEAN
  OBVIOUS
<1>3. NewTrack(d) = [class |-> d.class, sure |-> d.sure, birth |-> d.place, place |-> d.place,
                     speed |-> d.speed, active |-> TRUE, valid |-> d.place \in InAoi]
  BY DEF NewTrack
<1>4. PICK v : v = (d.place \in InAoi)
  OBVIOUS
<1> QED BY <1>1, <1>2, <1>3, <1>4 DEF Track

LEMMA ContinuedTyped ==
  ASSUME ConstantsAssumption, NEW t \in Track, NEW d \in Detection
  PROVE  /\ Continued(t, d) \in Track /\ Continued(t, d).active = TRUE
         /\ t.valid => Continued(t, d).valid
<1>1. d \in [class : Class \cup {NoClass}, sure : BOOLEAN, place : Place, speed : Nat]
  BY DEF ConstantsAssumption
<1>2. PICK v \in BOOLEAN : v = (t.valid \/ d.place \in InAoi)
  OBVIOUS
<1>3. Continued(t, d) =
        [t EXCEPT !.place = d.place, !.speed = d.speed, !.active = TRUE,
                  !.class = IF d.class = NoClass THEN t.class ELSE d.class,
                  !.sure = IF d.class = NoClass THEN t.sure ELSE d.sure,
                  !.valid = v]
  BY <1>2, Zenon DEF Continued
<1>4. t.valid => v
  BY <1>2
<1> QED BY <1>1, <1>3, <1>4 DEF Track

LEMMA ObservedIs ==
  ASSUME ConstantsAssumption, NEW o, o \in Object \/ o = NewObject, NEW t \in Track
  PROVE  /\ Observed(o, t) \in Object /\ Observed(o, t).active = TRUE
         /\ Observed(o, t).inside = o.inside
         /\ Observed(o, t).class = Radar_Class_Bucket(t.class)
         /\ Observed(o, t).sure = t.sure /\ Observed(o, t).place = t.place
         /\ Measurable(Observed(o, t)) =>
              Observed(o, t).samples /\ Observed(o, t).max = Larger(o.max, t.speed)
         /\ ~Measurable(Observed(o, t)) =>
              Observed(o, t).samples = o.samples /\ Observed(o, t).max = o.max
<1>1. Radar_Class_Bucket(t.class) \in Class
  BY DEF Track, Radar_Class_Bucket, ConstantsAssumption
<1>2. t.sure \in BOOLEAN /\ t.place \in Place /\ t.speed \in Nat
  BY DEF Track
<1>3. NewObject \in Object
  <2>1. (CHOOSE p \in Place : TRUE) \in Place
    BY <1>2
  <2> QED BY <2>1, SMT DEF NewObject, Object, ConstantsAssumption
<1>4. o \in Object
  BY <1>3
<1> DEFINE seen == [o EXCEPT !.active = TRUE, !.class = Radar_Class_Bucket(t.class),
                            !.sure = t.sure, !.place = t.place]
<1>5. seen \in Object /\ seen.active = TRUE /\ seen.inside = o.inside
      /\ seen.class = Radar_Class_Bucket(t.class) /\ seen.sure = t.sure
      /\ seen.place = t.place /\ seen.samples = o.samples /\ seen.max = o.max
  BY <1>1, <1>2, <1>4 DEF Object
<1>6. Observed(o, t) = IF Measurable(seen)
                       THEN [seen EXCEPT !.samples = TRUE, !.max = Fastest(o, t)] ELSE seen
  BY DEF Observed
<1> HIDE DEF seen
<1>7. Fastest(o, t) = Larger(o.max, t.speed) /\ Fastest(o, t) \in Nat
  BY <1>2, <1>4 DEF Fastest, Larger, Object
<1>8. CASE Measurable(seen)
  <2>1. PICK m \in Nat : m = Fastest(o, t)
    BY <1>7
  <2>2. Observed(o, t) = [seen EXCEPT !.samples = TRUE, !.max = m]
    BY <1>6, <1>8, <2>1
  <2>3. /\ Observed(o, t) \in Object /\ Observed(o, t).samples /\ Observed(o, t).max = m
        /\ Observed(o, t).active = seen.active /\ Observed(o, t).inside = seen.inside
        /\ Observed(o, t).class = seen.class /\ Observed(o, t).sure = seen.sure
        /\ Observed(o, t).place = seen.place
    BY <1>5, <2>2 DEF Object
  <2>4. Measurable(Observed(o, t))
    BY <1>8, <2>3 DEF Measurable
  <2> QED BY <1>5, <1>7, <2>1, <2>3, <2>4
<1>9. CASE ~Measurable(seen)
  <2>1. Observed(o, t) = seen
    BY <1>6, <1>9
  <2> QED BY <1>5, <1>9, <2>1
<1> QED BY <1>8, <1>9

LEMMA FinalizedIs ==
  ASSUME NEW table, NEW all, NEW ids, \A id \in DOMAIN table : table[id] \in Object
  PROVE  /\ DOMAIN Finalized(table, all, ids) = DOMAIN table
         /\ \A id \in DOMAIN table :
              LET f == Finalized(table, all, ids)[id]
              IN /\ f \in Object
                 /\ f.active = table[id].active /\ f.inside = table[id].inside
                 /\ f.class = table[id].class /\ f.sure = table[id].sure
                 /\ f.place = table[id].place
                 /\ IF id \in ids /\ Vehicle(all[id])
                    THEN ~f.samples /\ f.max = 0
                    ELSE f = table[id]
BY DEF Finalized, TakenOut, Object

LEMMA UnlistedIs ==
  ASSUME NEW o \in Object
  PROVE  /\ Unlisted(o) \in Object /\ Unlisted(o).active = FALSE
         /\ Unlisted(o).inside = o.inside /\ Unlisted(o).max = o.max
BY DEF Unlisted, Object

-----------------------------------------------------------------------------
(***************************************************************************)
(* All tracks, all objects.                                                *)
(***************************************************************************)

\* The tracks of a scene: those that are not in it are as the last scene left them, and end.
LEMMA TracksAre ==
  ASSUME ConstantsAssumption, TypeOK,
         NEW seen \in SUBSET Id, NEW scene \in [seen -> Detection],
         NEW all, all = Tracks(scene)
  PROVE  /\ DOMAIN all = DOMAIN cache \cup seen
         /\ \A id \in DOMAIN all : all[id] \in Track
         /\ Ended(all) = DOMAIN cache \ seen
         /\ \A id \in DOMAIN cache \ seen :
              /\ all[id].class = cache[id].class /\ all[id].sure = cache[id].sure
              /\ all[id].place = cache[id].place /\ all[id].speed = cache[id].speed
              /\ all[id].birth = cache[id].birth /\ all[id].valid = cache[id].valid
         /\ \A id \in DOMAIN cache \cap seen : cache[id].valid => all[id].valid
<1>1. DOMAIN all = DOMAIN cache \cup seen
  BY DEF Tracks
<1>2. ASSUME NEW id \in DOMAIN cache \ seen
      PROVE  /\ all[id] \in Track /\ all[id].active = FALSE
             /\ all[id].class = cache[id].class /\ all[id].sure = cache[id].sure
             /\ all[id].place = cache[id].place /\ all[id].speed = cache[id].speed
             /\ all[id].birth = cache[id].birth /\ all[id].valid = cache[id].valid
  <2>1. all[id] = [cache[id] EXCEPT !.active = FALSE]
    BY DEF Tracks
  <2>2. cache[id] \in Track
    BY DEF TypeOK
  <2> QED BY <2>1, <2>2 DEF Track
<1>3. ASSUME NEW id \in seen
      PROVE  /\ all[id] \in Track /\ all[id].active = TRUE
             /\ id \in DOMAIN cache => (cache[id].valid => all[id].valid)
  <2>1. scene[id] \in Detection /\ id \in DOMAIN scene
    OBVIOUS
  <2>2. CASE id \in DOMAIN cache
    <3>1. all[id] = Continued(cache[id], scene[id])
      BY <2>1, <2>2 DEF Tracks
    <3>2. cache[id] \in Track
      BY <2>2 DEF TypeOK
    <3> QED BY <2>1, <3>1, <3>2, ContinuedTyped
  <2>3. CASE id \notin DOMAIN cache
    <3>1. all[id] = NewTrack(scene[id])
      BY <2>1, <2>3 DEF Tracks
    <3> QED BY <2>1, <2>3, <3>1, NewTrackTyped
  <2> QED BY <2>2, <2>3
<1>4. Ended(all) = DOMAIN cache \ seen
  BY <1>1, <1>2, <1>3 DEF Ended
<1> QED BY <1>1, <1>2, <1>3, <1>4

\* The table after the list: new objects start empty, and no object changes sides.
ListTaken(listed, table, all, new) ==
  /\ DOMAIN listed = DOMAIN table \cup new
  /\ \A id \in DOMAIN listed : listed[id] \in Object
  /\ \A id \in DOMAIN table : listed[id].inside = table[id].inside
  /\ \A id \in new : listed[id].inside = FALSE
  /\ \A id \in DOMAIN listed : listed[id].active => id \in Valid(all)
  /\ \A id \in DOMAIN table \cap Valid(all) : listed[id] = Observed(table[id], all[id])
  /\ \A id \in DOMAIN table \ Valid(all) : listed[id].max = table[id].max
  /\ \A id \in new : listed[id] = Observed(NewObject, all[id])

LEMMA ListedAre ==
  ASSUME ConstantsAssumption,
         NEW table, \A id \in DOMAIN table : table[id] \in Object,
         NEW all, \A id \in DOMAIN all : all[id] \in Track,
         NEW new \in SUBSET (Valid(all) \ DOMAIN table)
  PROVE  ListTaken(AfterList(table, all, new), table, all, new)
<1> DEFINE listed == AfterList(table, all, new)
<1>1. DOMAIN listed = DOMAIN table \cup new
  BY DEF AfterList
<1>2. Valid(all) \subseteq DOMAIN all
  BY DEF Valid
<1>3. ASSUME NEW id \in new
      PROVE  /\ listed[id] = Observed(NewObject, all[id])
             /\ listed[id] \in Object /\ listed[id].inside = FALSE /\ id \in Valid(all)
  <2>1. id \in Valid(all) /\ all[id] \in Track
    BY <1>2
  <2>2. listed[id] = Observed(NewObject, all[id])
    BY <2>1 DEF AfterList
  <2>3. NewObject.inside = FALSE
    BY DEF NewObject
  <2>4. /\ Observed(NewObject, all[id]) \in Object
        /\ Observed(NewObject, all[id]).inside = NewObject.inside
    BY <2>1, ObservedIs, Zenon
  <2> QED BY <2>1, <2>2, <2>3, <2>4, Zenon
<1>4. ASSUME NEW id \in DOMAIN table, id \in Valid(all)
      PROVE  /\ listed[id] = Observed(table[id], all[id])
             /\ listed[id] \in Object /\ listed[id].inside = table[id].inside
  <2>1. all[id] \in Track /\ id \notin new
    BY <1>2, <1>4
  <2>2. listed[id] = Observed(table[id], all[id])
    BY <1>4, <2>1 DEF AfterList
  <2>3. /\ Observed(table[id], all[id]) \in Object
        /\ Observed(table[id], all[id]).inside = table[id].inside
    BY <2>1, ObservedIs, Zenon
  <2> QED BY <2>2, <2>3, Zenon
<1>5. ASSUME NEW id \in DOMAIN table, id \notin Valid(all)
      PROVE  /\ listed[id] \in Object /\ listed[id].active = FALSE
             /\ listed[id].inside = table[id].inside /\ listed[id].max = table[id].max
  <2>1. listed[id] = Unlisted(table[id])
    BY <1>5 DEF AfterList
  <2>2. /\ Unlisted(table[id]) \in Object /\ Unlisted(table[id]).active = FALSE
        /\ Unlisted(table[id]).inside = table[id].inside
        /\ Unlisted(table[id]).max = table[id].max
    BY UnlistedIs, Zenon
  <2> QED BY <2>1, <2>2, Zenon
<1> HIDE DEF listed
<1>6. ListTaken(listed, table, all, new)
  BY <1>1, <1>3, <1>4, <1>5 DEF ListTaken
<1> QED BY <1>6 DEF listed

-----------------------------------------------------------------------------
(***************************************************************************)
(* A scene.                                                                *)
(***************************************************************************)
\* Counting those inside after some entered, some of them left and others were dropped.
LEMMA Balanced ==
  ASSUME NEW inside, IsFiniteSet(inside), NEW entered, IsFiniteSet(entered),
         inside \cap entered = {},
         NEW left \in SUBSET inside, NEW away \in SUBSET inside, left \cap away = {}
  PROVE  /\ Cardinality(((inside \cup entered) \ left) \ away) =
              Cardinality(inside) + Cardinality(entered) - Cardinality(left) - Cardinality(away)
         /\ Cardinality(inside) \in Nat /\ Cardinality(entered) \in Nat
         /\ Cardinality(left) \in Nat /\ Cardinality(away) \in Nat
         /\ Cardinality(((inside \cup entered) \ left) \ away) \in Nat
<1>1. IsFiniteSet(left) /\ IsFiniteSet(away)
  BY FS_Subset
<1> DEFINE whole == inside \cup entered
           rest == whole \ left
           after == rest \ away
<1>2. /\ IsFiniteSet(whole)
      /\ Cardinality(whole) = Cardinality(inside) + Cardinality(entered)
                                - Cardinality(inside \cap entered)
  BY FS_Union
<1>3. Cardinality(inside \cap entered) = 0
  <2>1. inside \cap entered = {}
    OBVIOUS
  <2> QED BY <2>1, FS_EmptySet
<1>4. IsFiniteSet(rest) /\ Cardinality(rest) = Cardinality(whole) - Cardinality(left)
  <2>1. whole \cap left = left
    OBVIOUS
  <2>2. IsFiniteSet(whole \ left)
        /\ Cardinality(whole \ left) = Cardinality(whole) - Cardinality(whole \cap left)
    BY ONLY <1>2, FS_Difference, Zenon
  <2> QED BY ONLY <2>1, <2>2, Zenon
<1>5. IsFiniteSet(after) /\ Cardinality(after) = Cardinality(rest) - Cardinality(away)
  <2>1. rest \cap away = away
    OBVIOUS
  <2>2. IsFiniteSet(rest \ away)
        /\ Cardinality(rest \ away) = Cardinality(rest) - Cardinality(rest \cap away)
    BY ONLY <1>4, FS_Difference, Zenon
  <2> QED BY ONLY <2>1, <2>2, Zenon
<1>6. /\ Cardinality(inside) \in Nat /\ Cardinality(entered) \in Nat
      /\ Cardinality(left) \in Nat /\ Cardinality(away) \in Nat /\ Cardinality(after) \in Nat
      /\ Cardinality(whole) \in Nat /\ Cardinality(rest) \in Nat
  BY <1>1, <1>2, <1>4, <1>5, FS_CardinalityType
<1> HIDE DEF whole, rest, after
<1>7. Cardinality(after) =
        Cardinality(inside) + Cardinality(entered) - Cardinality(left) - Cardinality(away)
  BY ONLY <1>2, <1>3, <1>4, <1>5, <1>6
<1> QED BY ONLY <1>6, <1>7, Zenon DEF after, rest, whole

LEMMA SceneKeeps ==
  ASSUME ConstantsAssumption, IInv, Scene
  PROVE  IInv'
<1>1. PICK seen \in SUBSET Id : \E due \in SUBSET (DOMAIN cache \ seen),
        scene \in [seen -> Detection] : RadarDetection_Scene(scene, due)
  BY DEF Scene
<1>2. PICK due \in SUBSET (DOMAIN cache \ seen), scene \in [seen -> Detection] :
        RadarDetection_Scene(scene, due)
  BY <1>1
<1> DEFINE all == Tracks(scene)
           list == Valid(all)
           ended == Ended(all) \cap list
           first == DueTwice(all, due) \cap ended
           table == Finalized(objects, all, first)
           Born(id) == id \in DOMAIN scene \ DOMAIN cache
           Once(id, S) == IF id \in S /\ Counting_Process_Completed_Track(all[id]) THEN 1 ELSE 0
           Listed(new) == AfterList(table, all, new)
           Entered(new) == {id \in DOMAIN Listed(new) \cap list : Enters(Listed(new)[id])}
           Left(new) == {id \in DOMAIN Listed(new) \cap list : Leaves(Listed(new)[id])}
           Kept(new, expired) ==
             Without([id \in DOMAIN Listed(new) |->
                        [Listed(new)[id] EXCEPT !.inside = (@ \/ id \in Entered(new))
                                                           /\ id \notin Left(new)]], expired)
           early_taken == {id \in first : Speed_Qualifies(objects, all, id)}
           Taken(new, expired) == {id \in ended : Speed_Qualifies(Kept(new, expired), all, id)}
<1>3. PICK new \in Admitted(table, list), expired \in SUBSET (DOMAIN objects \ list) :
        /\ balance' = [entering |-> balance.entering + Cardinality(Entered(new)),
                       exiting |-> balance.exiting + Cardinality(Left(new))]
        /\ balance'.entering <= MaxEntered
        /\ cache' = Without(all, Removed(all))
        /\ objects' = Finalized(Kept(new, expired), all, ended)
        /\ current' = Radar_Occupancy_Frame_Counts(Kept(new, expired))
        /\ lost' = Ended(all) /\ early' = (early \ DOMAIN scene) \cup first
        /\ forgotten' = forgotten + Cardinality({id \in expired : Listed(new)[id].inside})
        /\ counted' = [id \in Id |->
             IF Born(id) THEN 0 ELSE counted[id] + Once(id, first) + Once(id, ended)]
        /\ measured' = [id \in Id |->
             IF Born(id) THEN 0
             ELSE measured[id] + Cardinality({id} \cap early_taken)
                    + Cardinality({id} \cap Taken(new, expired))]
        /\ recorded' = [id \in Id |->
             IF Born(id) THEN {}
             ELSE recorded[id] \cup {objects[i].max : i \in {id} \cap early_taken}
                    \cup {Kept(new, expired)[i].max : i \in {id} \cap Taken(new, expired)}]
        /\ best' = [id \in Id |->
             LET old == IF Born(id) THEN 0 ELSE best[id]
             IN IF id \in DOMAIN Listed(new) \cap list /\ Measurable(Listed(new)[id])
                THEN Larger(old, all[id].speed) ELSE old]
        /\ unsure' = {id \in (unsure \cup ended) \cap DOMAIN Kept(new, expired) :
                         id \in ended => ~Vehicle(all[id])}
        /\ inherited' = (inherited \ DOMAIN scene) \cup {id \in DOMAIN scene :
                           IF Born(id) THEN id \in unsure ELSE id \in inherited}
  BY ONLY <1>2, Zenon DEF RadarDetection_Scene
<1> DEFINE listed == Listed(new)
           entered == Entered(new)
           left == Left(new)
           kept == Kept(new, expired)
           taken == Taken(new, expired)
<1>4. /\ cache' = Without(all, Removed(all))
      /\ objects' = Finalized(kept, all, ended)
      /\ balance' = [entering |-> balance.entering + Cardinality(entered),
                     exiting |-> balance.exiting + Cardinality(left)]
      /\ current' = Radar_Occupancy_Frame_Counts(kept)
      /\ lost' = Ended(all) /\ early' = (early \ seen) \cup first
      /\ forgotten' = forgotten + Cardinality({id \in expired : listed[id].inside})
      /\ counted' = [id \in Id |->
           IF Born(id) THEN 0 ELSE counted[id] + Once(id, first) + Once(id, ended)]
      /\ measured' = [id \in Id |->
           IF Born(id) THEN 0
           ELSE measured[id] + Cardinality({id} \cap early_taken) + Cardinality({id} \cap taken)]
      /\ recorded' = [id \in Id |->
           IF Born(id) THEN {}
           ELSE recorded[id] \cup {objects[i].max : i \in {id} \cap early_taken}
                             \cup {kept[i].max : i \in {id} \cap taken}]
      /\ best' = [id \in Id |->
           LET old == IF Born(id) THEN 0 ELSE best[id]
           IN IF id \in DOMAIN listed \cap list /\ Measurable(listed[id])
              THEN Larger(old, all[id].speed) ELSE old]
      /\ unsure' = {id \in (unsure \cup ended) \cap DOMAIN kept :
                       id \in ended => ~Vehicle(all[id])}
      /\ inherited' = (inherited \ seen) \cup {id \in seen :
                         IF Born(id) THEN id \in unsure ELSE id \in inherited}
  <2>1. DOMAIN scene = seen
    OBVIOUS
  <2> QED BY ONLY <1>3, <2>1, Zenon

\* The tracks.
<1>5. /\ DOMAIN all = DOMAIN cache \cup seen
      /\ \A id \in DOMAIN all : all[id] \in Track
      /\ Ended(all) = DOMAIN cache \ seen
      /\ \A id \in DOMAIN cache \ seen :
           /\ all[id].class = cache[id].class /\ all[id].sure = cache[id].sure
           /\ all[id].place = cache[id].place /\ all[id].speed = cache[id].speed
           /\ all[id].birth = cache[id].birth /\ all[id].valid = cache[id].valid
      /\ \A id \in DOMAIN cache \cap seen : cache[id].valid => all[id].valid
  <2>1. TypeOK
    BY DEF IInv, TracksSound
  <2> QED BY ONLY <2>1, TracksAre, ConstantsAssumption, Zenon
<1>6. /\ list \subseteq DOMAIN all /\ \A id \in DOMAIN all : id \in list <=> all[id].valid = TRUE
      /\ ended = (DOMAIN cache \ seen) \cap list
      /\ first \subseteq ended
      /\ \A id : Born(id) <=> id \in seen \ DOMAIN cache
  <2>1. \A id \in DOMAIN all : all[id].valid \in BOOLEAN
    BY ONLY <1>5 DEF Track
  <2>2. list = {id \in DOMAIN all : all[id].valid}
    BY DEF Valid
  <2>3. \A id : Born(id) <=> id \in seen \ DOMAIN cache
    OBVIOUS
  <2> HIDE DEF all, list, Born
  <2>4. /\ list \subseteq DOMAIN all /\ \A id \in DOMAIN all : id \in list <=> all[id].valid = TRUE
        /\ ended = (DOMAIN cache \ seen) \cap list
        /\ first \subseteq ended
    BY <1>5, <2>1, <2>2
  <2> QED BY <2>3, <2>4
<1>7. /\ cache' = [id \in seen |-> all[id]]
      /\ DOMAIN cache' = seen /\ \A id \in seen : cache'[id] = all[id]
  <2> HIDE DEF all
  <2>1. Removed(all) = DOMAIN cache \ seen
    BY <1>5 DEF Removed
  <2>2. DOMAIN all \ Removed(all) = seen
    BY <1>5, <2>1
  <2>3. cache' = [id \in seen |-> all[id]]
    BY <1>4, <2>2 DEF Without
  <2> QED BY <2>3

\* The table.
<1>8. /\ DOMAIN objects \subseteq Id /\ \A id \in DOMAIN objects : objects[id] \in Object
      /\ Cardinality(DOMAIN objects) <= RADAR_MAX_OBJECTS
  BY DEF IInv, TracksSound, TypeOK
<1>9. /\ DOMAIN table = DOMAIN objects
      /\ \A id \in DOMAIN objects :
           /\ table[id] \in Object /\ table[id].inside = objects[id].inside
           /\ IF id \in first /\ Vehicle(all[id])
              THEN ~table[id].samples /\ table[id].max = 0
              ELSE table[id] = objects[id]
  <2> HIDE DEF all, first
  <2> QED BY <1>8, FinalizedIs
<1>10. new \in SUBSET (list \ DOMAIN objects) /\ new \in SUBSET (Valid(all) \ DOMAIN table)
  <2>1. new \in SUBSET (list \ DOMAIN table)
    BY DEF Admitted
  <2> QED BY ONLY <2>1, <1>9
<1> HIDE DEF all
<1>11. /\ DOMAIN listed = DOMAIN objects \cup new
       /\ \A id \in DOMAIN listed : listed[id] \in Object
       /\ \A id \in DOMAIN objects : listed[id].inside = objects[id].inside
       /\ \A id \in new : listed[id].inside = FALSE
       /\ \A id \in DOMAIN listed : listed[id].active => id \in list
       /\ \A id \in DOMAIN objects \cap list : listed[id] = Observed(table[id], all[id])
       /\ \A id \in DOMAIN objects \ list : listed[id].max = table[id].max
       /\ \A id \in new : listed[id] = Observed(NewObject, all[id])
  <2> HIDE DEF table
  <2>1. \A id \in DOMAIN table : table[id] \in Object
    BY <1>9
  <2>2. \A id \in DOMAIN all : all[id] \in Track
    BY ONLY <1>5
  <2>3. ListTaken(listed, table, all, new)
    BY ONLY ConstantsAssumption, <1>10, <2>1, <2>2, ListedAre
  <2> HIDE DEF listed
  <2>4. \A id \in DOMAIN objects : listed[id].inside = objects[id].inside
    BY ONLY <1>9, <2>3, Zenon DEF ListTaken
  <2> QED BY ONLY <1>9, <2>3, <2>4, Zenon DEF ListTaken
<1>12. /\ DOMAIN kept = DOMAIN listed \ expired
       /\ \A id \in DOMAIN kept :
            /\ kept[id] \in Object
            /\ kept[id].active = listed[id].active /\ kept[id].class = listed[id].class
            /\ kept[id].sure = listed[id].sure /\ kept[id].place = listed[id].place
            /\ kept[id].samples = listed[id].samples /\ kept[id].max = listed[id].max
            /\ kept[id].inside <=> (listed[id].inside \/ id \in entered) /\ id \notin left
  <2>1. kept = Without([id \in DOMAIN listed |->
                          [listed[id] EXCEPT !.inside = (listed[id].inside \/ id \in entered)
                                                        /\ id \notin left]], expired)
    OBVIOUS
  <2> HIDE DEF listed, entered, left, kept
  <2>2. /\ DOMAIN kept = DOMAIN listed \ expired
        /\ \A id \in DOMAIN kept : kept[id] =
             [listed[id] EXCEPT !.inside = (listed[id].inside \/ id \in entered)
                                           /\ id \notin left]
    BY <2>1, Zenon DEF Without
  <2>3. SUFFICES ASSUME NEW id \in DOMAIN kept
        PROVE  /\ kept[id] \in Object
               /\ kept[id].active = listed[id].active /\ kept[id].class = listed[id].class
               /\ kept[id].sure = listed[id].sure /\ kept[id].place = listed[id].place
               /\ kept[id].samples = listed[id].samples /\ kept[id].max = listed[id].max
               /\ kept[id].inside <=> (listed[id].inside \/ id \in entered) /\ id \notin left
    BY ONLY <2>2, <2>3
  <2>4. listed[id] \in Object
    BY <1>11, <2>2
  <2>5. PICK b \in BOOLEAN : b <=> (listed[id].inside \/ id \in entered) /\ id \notin left
    OBVIOUS
  <2>6. b = ((listed[id].inside \/ id \in entered) /\ id \notin left)
    BY <2>5
  <2>7. kept[id] = [listed[id] EXCEPT !.inside = b]
    BY ONLY <2>2, <2>6, Zenon
  <2>8. /\ kept[id] \in Object
        /\ kept[id].active = listed[id].active /\ kept[id].class = listed[id].class
        /\ kept[id].sure = listed[id].sure /\ kept[id].place = listed[id].place
        /\ kept[id].samples = listed[id].samples /\ kept[id].max = listed[id].max
        /\ kept[id].inside = b
    BY ONLY <2>4, <2>7 DEF Object
  <2> QED BY ONLY <2>5, <2>8, Zenon
<1>13. /\ DOMAIN objects' = DOMAIN kept
       /\ \A id \in DOMAIN kept :
            /\ objects'[id] \in Object
            /\ objects'[id].active = kept[id].active /\ objects'[id].inside = kept[id].inside
            /\ id \notin ended => objects'[id] = kept[id]
            /\ id \in ended /\ Vehicle(all[id]) => objects'[id].max = 0
  <2> HIDE DEF kept, ended
  <2>1. objects' = Finalized(kept, all, ended)
    BY <1>4
  <2>2. \A id \in DOMAIN kept : kept[id] \in Object
    BY <1>12
  <2> QED BY <2>1, <2>2, FinalizedIs

\* What the list says of an object.
<1>14. ASSUME NEW id \in DOMAIN listed \cap list
       PROVE  /\ id \in DOMAIN all /\ all[id] \in Track
              /\ listed[id].class = Radar_Class_Bucket(all[id].class)
              /\ listed[id].sure = all[id].sure /\ listed[id].place = all[id].place
              /\ id \in new => /\ id \notin DOMAIN objects
                               /\ Measurable(listed[id]) =>
                                    listed[id].samples /\ listed[id].max = Larger(0, all[id].speed)
                               /\ ~Measurable(listed[id]) =>
                                    ~listed[id].samples /\ listed[id].max = 0
              /\ id \notin new => /\ id \in DOMAIN objects
                                  /\ Measurable(listed[id]) =>
                                       /\ listed[id].samples
                                       /\ listed[id].max = Larger(table[id].max, all[id].speed)
                                  /\ ~Measurable(listed[id]) =>
                                       /\ listed[id].samples = table[id].samples
                                       /\ listed[id].max = table[id].max
  <2> HIDE DEF listed, table, list
  <2>1. id \in DOMAIN all /\ all[id] \in Track
    BY <1>5, <1>6
  <2>2. CASE id \in new
    <3>1. id \notin DOMAIN objects /\ listed[id] = Observed(NewObject, all[id])
      BY <1>10, <1>11, <2>2
    <3>2. NewObject.samples = FALSE /\ NewObject.max = 0
      BY DEF NewObject
    <3>3. /\ Observed(NewObject, all[id]).class = Radar_Class_Bucket(all[id].class)
          /\ Observed(NewObject, all[id]).sure = all[id].sure
          /\ Observed(NewObject, all[id]).place = all[id].place
          /\ Measurable(Observed(NewObject, all[id])) =>
               /\ Observed(NewObject, all[id]).samples
               /\ Observed(NewObject, all[id]).max = Larger(NewObject.max, all[id].speed)
          /\ ~Measurable(Observed(NewObject, all[id])) =>
               /\ Observed(NewObject, all[id]).samples = NewObject.samples
               /\ Observed(NewObject, all[id]).max = NewObject.max
      BY <2>1, ObservedIs, Zenon
    <3> QED BY ONLY <2>1, <2>2, <3>1, <3>2, <3>3, Zenon
  <2>3. CASE id \notin new
    <3>1. id \in DOMAIN objects /\ listed[id] = Observed(table[id], all[id])
      BY <1>11, <2>3
    <3>2. table[id] \in Object
      BY <1>9, <3>1
    <3>3. /\ Observed(table[id], all[id]).class = Radar_Class_Bucket(all[id].class)
          /\ Observed(table[id], all[id]).sure = all[id].sure
          /\ Observed(table[id], all[id]).place = all[id].place
          /\ Measurable(Observed(table[id], all[id])) =>
               /\ Observed(table[id], all[id]).samples
               /\ Observed(table[id], all[id]).max = Larger(table[id].max, all[id].speed)
          /\ ~Measurable(Observed(table[id], all[id])) =>
               /\ Observed(table[id], all[id]).samples = table[id].samples
               /\ Observed(table[id], all[id]).max = table[id].max
      BY <2>1, <3>2, ObservedIs, Zenon
    <3> QED BY ONLY <2>1, <2>3, <3>1, <3>3, Zenon
  <2> QED BY <2>2, <2>3
\* The table keeps to its size.
<1>15. /\ IsFiniteSet(Id) /\ RADAR_MAX_OBJECTS \in Nat
       /\ DOMAIN cache \subseteq Id /\ list \subseteq Id /\ DOMAIN all \subseteq Id
       /\ DOMAIN listed \subseteq Id
  <2> HIDE DEF listed, list
  <2>1. DOMAIN cache \subseteq Id
    BY DEF IInv, TracksSound, TypeOK
  <2> QED BY <2>1, <1>5, <1>6, <1>8, <1>10, <1>11 DEF ConstantsAssumption
<1>16. DOMAIN objects' \subseteq Id /\ Cardinality(DOMAIN objects') <= RADAR_MAX_OBJECTS
  <2> DEFINE room == RADAR_MAX_OBJECTS - Cardinality(DOMAIN table)
  <2>1. Cardinality(new) = IF Cardinality(list \ DOMAIN table) < room
                           THEN Cardinality(list \ DOMAIN table) ELSE room
    BY DEF Admitted
  <2> HIDE DEF listed, list, kept, table
  <2>2. DOMAIN table = DOMAIN objects
    BY <1>9
  <2>3. /\ IsFiniteSet(DOMAIN objects) /\ IsFiniteSet(new) /\ IsFiniteSet(list \ DOMAIN table)
        /\ IsFiniteSet(DOMAIN listed)
    BY <1>8, <1>10, <1>15, FS_Subset
  <2>4. /\ Cardinality(DOMAIN objects) \in Nat /\ Cardinality(new) \in Nat
        /\ Cardinality(list \ DOMAIN table) \in Nat
    BY ONLY <2>3, FS_CardinalityType
  <2>5. Cardinality(DOMAIN objects) + Cardinality(new) <= RADAR_MAX_OBJECTS
    BY ONLY <1>8, <1>15, <2>1, <2>2, <2>4
  <2>6. DOMAIN objects \cap new = {}
    BY <1>10
  <2>7. Cardinality(DOMAIN listed) <= RADAR_MAX_OBJECTS
    <3>1. Cardinality(DOMAIN objects \cup new) =
            Cardinality(DOMAIN objects) + Cardinality(new) - Cardinality(DOMAIN objects \cap new)
      BY ONLY <2>3, FS_Union
    <3>2. Cardinality(DOMAIN objects \cap new) = 0
      BY ONLY <2>6, FS_EmptySet
    <3> QED BY ONLY <1>11, <2>4, <2>5, <3>1, <3>2
  <2>8. DOMAIN objects' \subseteq DOMAIN listed
    BY <1>12, <1>13
  <2>9. /\ Cardinality(DOMAIN objects') <= Cardinality(DOMAIN listed)
        /\ Cardinality(DOMAIN objects') \in Nat /\ Cardinality(DOMAIN listed) \in Nat
    BY ONLY <2>3, <2>8, FS_Subset, FS_CardinalityType
  <2> QED BY ONLY <1>15, <2>7, <2>8, <2>9

\* Who is inside.
<1>17. balance \in [entering : Nat, exiting : Nat] /\ forgotten \in Nat
  BY DEF IInv, TracksSound, TypeOK
<1>18. /\ balance' \in [entering : Nat, exiting : Nat] /\ forgotten' \in Nat
       /\ BalanceExact'
  <2> DEFINE inside == {id \in DOMAIN objects : objects[id].inside}
             away == {id \in expired : listed[id].inside}
             after == {id \in DOMAIN objects' : objects'[id].inside}
  <2>1. \A id \in entered : id \in DOMAIN listed /\ id \in list /\ ~listed[id].inside
    BY DEF Enters
  <2>2. \A id \in left : id \in DOMAIN listed /\ id \in list /\ listed[id].inside
    BY DEF Leaves
  <2>3. expired \subseteq DOMAIN objects /\ expired \cap list = {}
    OBVIOUS
  <2>4. /\ balance' = [entering |-> balance.entering + Cardinality(entered),
                       exiting |-> balance.exiting + Cardinality(left)]
        /\ forgotten' = forgotten + Cardinality(away)
    BY <1>4
  <2>5. \A id \in DOMAIN objects' : objects'[id].inside <=>
          (listed[id].inside \/ id \in entered) /\ id \notin left
    <3> HIDE DEF listed, entered, left, kept
    <3> QED BY ONLY <1>12, <1>13, Zenon
  <2>6. DOMAIN objects' = (DOMAIN objects \cup new) \ expired
    BY ONLY <1>11, <1>12, <1>13
  <2> HIDE DEF listed, entered, left, kept, list, all
  <2>7. \A id \in DOMAIN listed : listed[id].inside <=> id \in inside
    BY ONLY <1>10, <1>11
  <2>8. /\ entered \cap inside = {} /\ left \subseteq inside /\ away \subseteq inside
        /\ left \cap away = {} /\ away = expired \cap inside
        /\ after = ((inside \cup entered) \ left) \ away
    <3>1. entered \cap inside = {} /\ left \subseteq inside
      BY ONLY <2>1, <2>2, <2>7
    <3>2. DOMAIN objects \subseteq DOMAIN listed
      BY ONLY <1>11
    <3>3. away = expired \cap inside
      BY ONLY <2>3, <2>7, <3>2
    <3>4. left \cap away = {}
      BY ONLY <2>2, <2>3, <3>3
    <3>5. entered \cap expired = {}
      BY ONLY <2>1, <2>3
    <3>6. inside \subseteq DOMAIN listed /\ entered \subseteq DOMAIN listed
      BY ONLY <2>1, <3>2
    <3>7. \A id : id \in after <=> id \in DOMAIN objects' /\ objects'[id].inside
      OBVIOUS
    <3> HIDE DEF inside, away, after
    <3>8. DOMAIN objects' = DOMAIN listed \ expired
      BY ONLY <1>11, <2>6
    <3>9. ASSUME NEW id
          PROVE  id \in after <=> id \in ((inside \cup entered) \ left) \ away
      BY ONLY <2>5, <2>7, <3>1, <3>3, <3>4, <3>5, <3>6, <3>7, <3>8
    <3> QED BY ONLY <3>1, <3>3, <3>4, <3>9
  <2>9. /\ IsFiniteSet(inside) /\ IsFiniteSet(entered)
    <3>1. inside \subseteq Id /\ entered \subseteq Id
      BY ONLY <1>8, <1>15, <2>1
    <3> QED BY ONLY <1>15, <3>1, FS_Subset
  <2>10. BalanceExact
    BY DEF IInv
  <2>11. balance.entering - balance.exiting = forgotten + Cardinality(inside)
    BY ONLY <2>10 DEF BalanceExact
  <2> HIDE DEF inside, away, after
  <2>12. /\ Cardinality(after) =
              Cardinality(inside) + Cardinality(entered) - Cardinality(left) - Cardinality(away)
         /\ Cardinality(inside) \in Nat /\ Cardinality(entered) \in Nat
         /\ Cardinality(left) \in Nat /\ Cardinality(away) \in Nat /\ Cardinality(after) \in Nat
    <3>1. left \in SUBSET inside /\ away \in SUBSET inside /\ entered \cap inside = {}
      BY ONLY <2>8
    <3>2. inside \cap entered = {}
      BY ONLY <3>1
    <3>3. left \cap away = {}
      BY ONLY <2>8
    <3>4. /\ Cardinality(((inside \cup entered) \ left) \ away) =
              Cardinality(inside) + Cardinality(entered) - Cardinality(left) - Cardinality(away)
          /\ Cardinality(inside) \in Nat /\ Cardinality(entered) \in Nat
          /\ Cardinality(left) \in Nat /\ Cardinality(away) \in Nat
          /\ Cardinality(((inside \cup entered) \ left) \ away) \in Nat
      BY ONLY <2>9, <3>1, <3>2, <3>3, Balanced
    <3>5. after = ((inside \cup entered) \ left) \ away
      BY ONLY <2>8
    <3> QED BY ONLY <3>4, <3>5, Zenon
  <2>13. balance' \in [entering : Nat, exiting : Nat] /\ forgotten' \in Nat
    BY ONLY <1>17, <2>4, <2>12
  <2>14. balance'.entering - balance'.exiting = forgotten' + Cardinality(after)
    BY ONLY <1>17, <2>4, <2>11, <2>12
  <2>15. BalanceExact'
    BY ONLY <2>14 DEF BalanceExact, after
  <2> QED BY ONLY <2>13, <2>15
\* What was kept of the tracks that ran, and what is kept of them now.
<1>19. /\ counted \in [Id -> 0 .. 2] /\ measured \in [Id -> 0 .. 2]
       /\ best \in [Id -> Nat] /\ recorded \in [Id -> SUBSET Nat] /\ early \subseteq Id
       /\ unsure \subseteq Id /\ inherited \subseteq Id
       /\ \A id \in DOMAIN cache : Running(id) /\ cache[id] \in Track
  BY DEF IInv, TracksSound, TypeOK
<1>20. /\ DOMAIN counted' = Id /\ DOMAIN measured' = Id /\ DOMAIN recorded' = Id /\ DOMAIN best' = Id
       /\ \A id \in Id :
            /\ counted'[id] =
                 IF Born(id) THEN 0 ELSE counted[id] + Once(id, first) + Once(id, ended)
            /\ measured'[id] =
                 IF Born(id) THEN 0
                 ELSE measured[id] + Cardinality({id} \cap early_taken) + Cardinality({id} \cap taken)
            /\ recorded'[id] =
                 IF Born(id) THEN {}
                 ELSE recorded[id] \cup {objects[i].max : i \in {id} \cap early_taken}
                                   \cup {kept[i].max : i \in {id} \cap taken}
            /\ best'[id] =
                 IF id \in DOMAIN listed \cap list /\ Measurable(listed[id])
                 THEN Larger(IF Born(id) THEN 0 ELSE best[id], all[id].speed)
                 ELSE IF Born(id) THEN 0 ELSE best[id]
       /\ \A id : /\ Born(id) => (id \in inherited' <=> id \in unsure)
                  /\ ~Born(id) => (id \in inherited' <=> id \in inherited)
       /\ \A id \in DOMAIN kept \ ended : id \in unsure => id \in unsure'
       /\ \A id \in DOMAIN kept \cap ended : Vehicle(all[id]) \/ id \in unsure'
       /\ unsure' \subseteq unsure \cup ended
  <2>1. \A id : Born(id) => id \in seen
    BY ONLY <1>6
  <2> HIDE DEF Born, Once, first, ended, early_taken, taken, kept, listed, list
  <2>2. /\ \A id : /\ Born(id) => (id \in inherited' <=> id \in unsure)
                   /\ ~Born(id) => (id \in inherited' <=> id \in inherited)
    <3>1. inherited' = (inherited \ seen) \cup {id \in seen :
                         IF Born(id) THEN id \in unsure ELSE id \in inherited}
      BY ONLY <1>4
    <3> QED BY ONLY <2>1, <3>1
  <2>3. /\ \A id \in DOMAIN kept \ ended : id \in unsure => id \in unsure'
        /\ \A id \in DOMAIN kept \cap ended : Vehicle(all[id]) \/ id \in unsure'
        /\ unsure' \subseteq unsure \cup ended
    <3>1. unsure' = {id \in (unsure \cup ended) \cap DOMAIN kept :
                       id \in ended => ~Vehicle(all[id])}
      BY ONLY <1>4
    <3> QED BY ONLY <3>1
  <2> QED BY ONLY <1>4, <2>2, <2>3, Zenon
<1>21. /\ early_taken \subseteq first /\ taken \subseteq ended
       /\ \A id \in early_taken : Speed_Qualifies(objects, all, id)
       /\ \A id \in ended : id \in taken <=> Speed_Qualifies(kept, all, id)
       /\ \A id \in first : id \in early_taken <=> Speed_Qualifies(objects, all, id)
  <2>1. /\ early_taken = {id \in first : Speed_Qualifies(objects, all, id)}
        /\ taken = {id \in ended : Speed_Qualifies(kept, all, id)}
    OBVIOUS
  <2> HIDE DEF first, ended, kept, early_taken, taken
  <2> QED BY ONLY <2>1
<1>22. \A id \in Id : /\ Once(id, first) \in {0, 1} /\ (id \notin first => Once(id, first) = 0)
                      /\ Once(id, ended) \in {0, 1} /\ (id \notin ended => Once(id, ended) = 0)
                      /\ Cardinality({id} \cap early_taken) = IF id \in early_taken THEN 1 ELSE 0
                      /\ Cardinality({id} \cap taken) = IF id \in taken THEN 1 ELSE 0
  <2> HIDE DEF first, ended, early_taken, taken
  <2>1. ASSUME NEW S, NEW id PROVE Cardinality({id} \cap S) = IF id \in S THEN 1 ELSE 0
    <3>1. CASE id \in S
      <4>1. {id} \cap S = {id}
        BY <3>1
      <4> QED BY <3>1, <4>1, FS_Singleton
    <3>2. CASE id \notin S
      <4>1. {id} \cap S = {}
        BY <3>2
      <4> QED BY <3>2, <4>1, FS_EmptySet
    <3> QED BY <3>1, <3>2
  <2> QED BY <2>1
<1>23. ASSUME NEW id \in DOMAIN listed \cap list, (id \notin first \/ id \in new)
       PROVE  /\ listed[id].max \in Nat
              /\ id \notin inherited' => listed[id].max = best'[id]
              /\ Measurable(listed[id]) => listed[id].samples /\ all[id].speed <= listed[id].max
  <2> DEFINE base == IF Born(id) THEN 0 ELSE best[id]
  <2>0. best'[id] = IF Measurable(listed[id]) THEN Larger(base, all[id].speed) ELSE base
    <3> HIDE DEF listed, list, first, table, Born, ended, early_taken, taken, kept, Once
    <3>1. id \in Id
      BY ONLY <1>15, <1>23
    <3> QED BY ONLY <1>20, <1>23, <3>1, Zenon
  <2> HIDE DEF listed, list, first, table, Born, ended, early_taken, taken, kept, Once
  <2>1. id \in Id /\ id \in DOMAIN cache \cup seen /\ all[id].speed \in Nat
    BY <1>5, <1>14, <1>15, <1>23 DEF Track
  <2>2. CASE id \in new
    <3>1. base = 0
      BY <1>6, <1>14, <1>19, <2>1, <2>2 DEF Running
    <3> HIDE DEF base
    <3> QED BY <1>14, <2>0, <2>1, <2>2, <3>1 DEF Larger
  <2>3. CASE id \notin new
    <3>1. id \in DOMAIN objects /\ table[id] = objects[id] /\ objects[id].max \in Nat
      BY <1>8, <1>9, <1>14, <1>23, <2>3 DEF Object
    <3>2. base \in Nat
      BY <1>19, <2>1
    <3>3. id \notin inherited' => objects[id].max = base
      <4>1. CASE Born(id)
        <5>1. id \notin DOMAIN cache
          BY <1>6, <4>1
        <5>2. Resting(id) /\ Idle(id)
          BY <3>1, <5>1 DEF IInv, Idle
        <5>3. id \in inherited' <=> id \in unsure
          BY <1>20, <4>1
        <5> QED BY ONLY <4>1, <5>2, <5>3 DEF Resting
      <4>2. CASE ~Born(id)
        <5>1. id \in DOMAIN cache
          BY <1>6, <2>1, <4>2
        <5>2. Running(id)
          BY <1>19, <5>1
        <5>3. id \in inherited' <=> id \in inherited
          BY <1>20, <4>2
        <5> QED BY ONLY <3>1, <4>2, <5>2, <5>3 DEF Running
      <4> QED BY <4>1, <4>2
    <3> HIDE DEF base
    <3> QED BY <1>14, <2>0, <2>1, <2>3, <3>1, <3>2, <3>3 DEF Larger
  <2> QED BY <2>2, <2>3

\* What the list passes over stays as it was.
<1>24. ASSUME NEW id \in DOMAIN objects', id \notin list
       PROVE  /\ id \in DOMAIN objects /\ objects'[id].max = objects[id].max
              /\ id \in unsure => id \in unsure'
              /\ Idle(id)
  <2>1. id \notin first /\ id \notin ended /\ id \in DOMAIN kept /\ id \in DOMAIN objects
    <3> HIDE DEF listed, list, first, ended, kept
    <3> QED BY <1>6, <1>10, <1>11, <1>12, <1>13, <1>24
  <2>2. Idle(id)
    <3>1. SUFFICES ASSUME id \in DOMAIN cache, cache[id].valid PROVE FALSE
      BY DEF Idle
    <3>2. id \in DOMAIN all /\ all[id].valid /\ all[id] \in Track /\ cache[id] \in Track
      BY <1>5, <1>19, <3>1
    <3>3. all[id].valid = TRUE
      BY ONLY <3>2 DEF Track
    <3> HIDE DEF list
    <3> QED BY ONLY <1>6, <1>24, <3>2, <3>3
  <2> HIDE DEF listed, list, first, ended, kept, table
  <2>3. objects'[id].max = kept[id].max
    BY ONLY <1>13, <2>1
  <2>4. kept[id].max = listed[id].max
    BY ONLY <1>12, <2>1
  <2>5. listed[id].max = table[id].max
    BY ONLY <1>11, <1>24, <2>1
  <2>6. table[id].max = objects[id].max
    BY ONLY <1>9, <2>1
  <2>7. id \in unsure => id \in unsure'
    BY ONLY <1>20, <2>1
  <2> QED BY ONLY <2>1, <2>2, <2>3, <2>4, <2>5, <2>6, <2>7
<1>25. ASSUME NEW id \in DOMAIN objects'
       PROVE  Resting(id)'
  <2>1. CASE id \notin list
    <3>1. Resting(id) /\ Idle(id)
      BY <1>24, <2>1 DEF IInv
    <3> HIDE DEF list
    <3> QED BY ONLY <1>24, <2>1, <3>1 DEF Resting
  <2>2. CASE id \in list /\ id \in seen
    <3>1. cache'[id] = all[id] /\ id \in DOMAIN cache'
      BY <1>7, <2>2
    <3>2. all[id].valid
      BY <1>6, <2>2
    <3> QED BY ONLY <3>1, <3>2 DEF Resting, Idle
  <2>3. CASE id \in list /\ id \notin seen
    <3>1. id \in ended /\ id \in DOMAIN kept
      <4> HIDE DEF ended, list, kept
      <4> QED BY ONLY <1>5, <1>6, <1>13, <1>25, <2>3
    <3>2. Vehicle(all[id]) \/ id \in unsure'
      BY ONLY <1>20, <3>1
    <3>3. Vehicle(all[id]) => objects'[id].max = 0
      BY ONLY <1>13, <3>1
    <3> QED BY ONLY <3>2, <3>3 DEF Resting
  <2> QED BY <2>1, <2>2, <2>3
<1>26. ASSUME NEW id \in DOMAIN cache'
       PROVE  Running(id)'
  <2>1. /\ id \in seen /\ id \in Id /\ id \notin ended /\ id \notin first
        /\ id \notin early_taken /\ id \notin taken /\ cache'[id] = all[id] /\ id \in DOMAIN all
    <3> HIDE DEF ended, first, early_taken, taken, list
    <3> QED BY <1>5, <1>6, <1>7, <1>21
  <2> HIDE DEF ended, first, early_taken, taken, listed, list, kept, table, Born, Once
  <2>2. id \in DOMAIN cache => counted[id] = 0 /\ measured[id] = 0 /\ recorded[id] = {}
    BY <1>19 DEF Running
  <2>3. Born(id) <=> id \notin DOMAIN cache
    BY <1>6, <2>1
  <2>4. counted'[id] = 0 /\ measured'[id] = 0 /\ recorded'[id] = {}
    <3>1. /\ counted'[id] = IF Born(id) THEN 0 ELSE counted[id] + Once(id, first) + Once(id, ended)
          /\ measured'[id] = IF Born(id) THEN 0
               ELSE measured[id] + Cardinality({id} \cap early_taken) + Cardinality({id} \cap taken)
          /\ recorded'[id] =
               IF Born(id) THEN {}
               ELSE recorded[id] \cup {objects[i].max : i \in {id} \cap early_taken}
                                 \cup {kept[i].max : i \in {id} \cap taken}
      BY ONLY <1>20, <2>1, Zenon
    <3>2. /\ Once(id, first) = 0 /\ Once(id, ended) = 0
          /\ Cardinality({id} \cap early_taken) = 0 /\ Cardinality({id} \cap taken) = 0
      BY ONLY <1>22, <2>1, Zenon
    <3>3. /\ {objects[i].max : i \in {id} \cap early_taken} = {}
          /\ {kept[i].max : i \in {id} \cap taken} = {}
      BY ONLY <2>1
    <3> QED BY ONLY <2>2, <2>3, <3>1, <3>2, <3>3
  <2>5. ASSUME id \in DOMAIN objects', cache'[id].valid
        PROVE  /\ Shows(objects'[id], cache'[id])
               /\ id \notin inherited' => objects'[id].max = best'[id]
    <3>1. id \in DOMAIN kept /\ objects'[id] = kept[id] /\ id \in DOMAIN listed
      BY <1>12, <1>13, <2>1, <2>5
    <3>2. /\ kept[id].class = listed[id].class /\ kept[id].sure = listed[id].sure
          /\ kept[id].place = listed[id].place /\ kept[id].samples = listed[id].samples
          /\ kept[id].max = listed[id].max
      BY ONLY <1>12, <3>1
    <3>3. all[id].valid = TRUE
      BY ONLY <1>5, <2>1, <2>5 DEF Track
    <3>4. id \in DOMAIN listed \cap list
      BY ONLY <1>6, <2>1, <3>1, <3>3
    <3>5. /\ listed[id].class = Radar_Class_Bucket(all[id].class)
          /\ listed[id].sure = all[id].sure /\ listed[id].place = all[id].place
      BY ONLY <1>14, <3>4
    <3>6. Measurable(kept[id]) => Measurable(listed[id])
      BY ONLY <3>2 DEF Measurable
    <3>7. /\ id \notin inherited' => listed[id].max = best'[id]
          /\ Measurable(listed[id]) => listed[id].samples /\ all[id].speed <= listed[id].max
      BY ONLY <1>23, <2>1, <3>4
    <3>8. Shows(kept[id], all[id])
      BY ONLY <3>2, <3>5, <3>6, <3>7, Zenon DEF Shows
    <3> QED BY ONLY <2>1, <3>1, <3>2, <3>7, <3>8, Zenon
  <2>6. ASSUME id \notin DOMAIN objects' \/ ~cache'[id].valid
        PROVE  best'[id] = 0
    <3> DEFINE base == IF Born(id) THEN 0 ELSE best[id]
    <3>1. best'[id] = IF id \in DOMAIN listed \cap list /\ Measurable(listed[id])
                      THEN Larger(base, all[id].speed) ELSE base
      BY ONLY <1>20, <2>1, Zenon
    <3>2. CASE ~cache'[id].valid
      <4>1. id \notin list
        BY ONLY <1>6, <2>1, <3>2
      <4>2. id \in DOMAIN cache => ~cache[id].valid
        BY ONLY <1>5, <2>1, <3>2
      <4>3. base = 0
        BY <1>19, <2>3, <4>2 DEF Running
      <4> QED BY ONLY <3>1, <4>1, <4>3
    <3>3. CASE cache'[id].valid
      <4>1. all[id].valid = TRUE
        BY ONLY <1>5, <2>1, <3>3 DEF Track
      <4>2. id \in list
        BY ONLY <1>6, <2>1, <4>1
      <4>3. id \notin expired
        BY <4>2
      <4>4. id \notin DOMAIN listed
        BY <1>12, <1>13, <2>6, <3>3, <4>3
      <4>5. id \notin DOMAIN objects
        BY <1>11, <4>4
      <4>6. base = 0
        BY <1>19, <2>3, <4>5 DEF Running
      <4> QED BY ONLY <3>1, <4>4, <4>6
    <3> QED BY <3>2, <3>3
  <2>7. ASSUME id \in DOMAIN objects', ~cache'[id].valid, id \notin inherited'
        PROVE  objects'[id].max = best'[id]
    <3>1. id \notin list
      BY ONLY <1>6, <2>1, <2>7
    <3>2. id \in DOMAIN objects /\ objects'[id].max = objects[id].max /\ Idle(id)
      BY ONLY <1>24, <2>7, <3>1
    <3>3. objects[id].max = 0
      <4>1. CASE Born(id)
        <5>1. id \notin unsure
          BY <1>20, <2>7, <4>1
        <5>2. Resting(id)
          BY <3>2 DEF IInv
        <5> QED BY ONLY <3>2, <5>1, <5>2 DEF Resting
      <4>2. CASE ~Born(id)
        <5>1. id \notin inherited /\ id \in DOMAIN cache
          BY <1>20, <2>3, <2>7, <4>2
        <5>2. Running(id)
          BY <1>19, <5>1
        <5> QED BY ONLY <3>2, <5>1, <5>2 DEF Running, Idle
      <4> QED BY <4>1, <4>2
    <3> QED BY ONLY <2>6, <2>7, <3>2, <3>3
  <2> QED BY ONLY <2>4, <2>5, <2>6, <2>7 DEF Running, Shows, Measurable, Radar_Class_Bucket

\* The speed of a vehicle that ended, the second time and the first.
<1>27. ASSUME NEW id \in Id
       PROVE  /\ recorded'[id] \in SUBSET Nat /\ best'[id] \in Nat
              /\ id \notin inherited' /\ recorded'[id] # {} =>
                   /\ best'[id] \in recorded'[id]
                   /\ \A speed \in recorded'[id] :
                        speed # best'[id] => speed < best'[id] /\ id \in early'
  <2>1. id \in ended => /\ id \in DOMAIN cache /\ id \notin seen /\ id \in list /\ id \in DOMAIN all
                        /\ Running(id) /\ ~Born(id) /\ cache[id].valid
    <3>1. id \in ended => /\ id \in DOMAIN cache /\ id \notin seen /\ id \in list
                          /\ id \in DOMAIN all /\ Running(id) /\ ~Born(id)
      <4> HIDE DEF ended, list, Born
      <4> QED BY <1>5, <1>6, <1>19
    <3> HIDE DEF ended, list, Born
    <3>2. id \in ended => all[id].valid
      BY ONLY <1>6, <3>1
    <3> QED BY ONLY <1>5, <3>1, <3>2
  <2>2. /\ early' = (early \ seen) \cup first /\ first \subseteq ended
        /\ early_taken \subseteq first /\ taken \subseteq ended
    <3> HIDE DEF ended, first, early_taken, taken, list, Born
    <3> QED BY <1>4, <1>6, <1>21
  <2> HIDE DEF ended, first, early_taken, taken, listed, list, kept, table, Born, Once
  <2> DEFINE A == {objects[i].max : i \in {id} \cap early_taken}
             B == {kept[i].max : i \in {id} \cap taken}
  <2>3. /\ recorded'[id] = IF Born(id) THEN {} ELSE recorded[id] \cup A \cup B
        /\ best'[id] =
             IF id \in DOMAIN listed \cap list /\ Measurable(listed[id])
             THEN Larger(IF Born(id) THEN 0 ELSE best[id], all[id].speed)
             ELSE IF Born(id) THEN 0 ELSE best[id]
        /\ A = IF id \in early_taken THEN {objects[id].max} ELSE {}
        /\ B = IF id \in taken THEN {kept[id].max} ELSE {}
    <3>1. /\ A = IF id \in early_taken THEN {objects[id].max} ELSE {}
          /\ B = IF id \in taken THEN {kept[id].max} ELSE {}
      OBVIOUS
    <3>2. recorded'[id] = IF Born(id) THEN {} ELSE recorded[id] \cup A \cup B
      BY ONLY <1>20, <1>27, Zenon
    <3>3. best'[id] =
             IF id \in DOMAIN listed \cap list /\ Measurable(listed[id])
             THEN Larger(IF Born(id) THEN 0 ELSE best[id], all[id].speed)
             ELSE IF Born(id) THEN 0 ELSE best[id]
      BY ONLY <1>20, <1>27, Zenon
    <3> QED BY ONLY <3>1, <3>2, <3>3, Zenon
  <2> HIDE DEF A, B
  <2>4. best[id] \in Nat /\ recorded[id] \in SUBSET Nat
    BY <1>19
  <2>5. best'[id] \in Nat
    <3>1. id \in DOMAIN listed \cap list => all[id].speed \in Nat
      BY ONLY <1>14 DEF Track
    <3> QED BY ONLY <2>3, <2>4, <3>1 DEF Larger
  <2>6. A \in SUBSET Nat /\ B \in SUBSET Nat
    <3>1. id \in early_taken => objects[id].max \in Nat
      <4>1. id \in early_taken => id \in DOMAIN objects
        BY <1>21 DEF Speed_Qualifies
      <4> QED BY ONLY <1>8, <4>1 DEF Object
    <3>2. id \in taken => kept[id].max \in Nat
      <4>1. id \in taken => id \in DOMAIN kept
        BY <1>21, <2>2 DEF Speed_Qualifies
      <4> QED BY ONLY <1>12, <4>1 DEF Object
    <3> QED BY ONLY <2>3, <3>1, <3>2
  <2>7. recorded'[id] \in SUBSET Nat
    BY ONLY <2>3, <2>4, <2>6
  <2>8. SUFFICES ASSUME id \notin inherited', recorded'[id] # {}
        PROVE  /\ best'[id] \in recorded'[id]
               /\ \A speed \in recorded'[id] :
                    speed # best'[id] => speed < best'[id] /\ id \in early'
    BY ONLY <2>5, <2>7, <2>8
  <2>9. ASSUME id \in ended, id \in DOMAIN objects
        PROVE  /\ objects[id].max = best[id] /\ all[id].speed \in Nat /\ best[id] \in Nat
               /\ Measurable(listed[id]) => objects[id].samples /\ all[id].speed <= objects[id].max
               /\ id \in DOMAIN listed \cap list /\ id \notin new
    <3>0. id \notin inherited
      BY ONLY <1>20, <2>1, <2>8, <2>9
    <3>1. /\ objects[id].max = best[id] /\ Shows(objects[id], cache[id])
      BY ONLY <2>1, <2>9, <3>0 DEF Running
    <3>2. id \in DOMAIN listed \cap list /\ id \notin new
      BY <1>10, <1>11, <2>1, <2>9
    <3>3. /\ listed[id].class = Radar_Class_Bucket(all[id].class)
          /\ listed[id].sure = all[id].sure /\ listed[id].place = all[id].place
          /\ all[id] \in Track
      BY ONLY <1>14, <3>2
    <3>4. /\ all[id].class = cache[id].class /\ all[id].sure = cache[id].sure
          /\ all[id].place = cache[id].place /\ all[id].speed = cache[id].speed
      BY ONLY <1>5, <2>1, <2>9
    <3>5. /\ listed[id].class = objects[id].class /\ listed[id].sure = objects[id].sure
          /\ listed[id].place = objects[id].place
      BY ONLY <3>1, <3>3, <3>4, Zenon DEF Shows
    <3>6. Measurable(listed[id]) => Measurable(objects[id])
      BY ONLY <3>5, Zenon DEF Measurable
    <3>7. Measurable(listed[id]) => objects[id].samples /\ cache[id].speed <= objects[id].max
      BY ONLY <3>1, <3>6, Zenon DEF Shows
    <3>8. all[id].speed \in Nat
      BY ONLY <3>3 DEF Track
    <3> QED BY ONLY <2>4, <3>1, <3>2, <3>4, <3>7, <3>8
  <2>10. ASSUME id \in taken, id \in first, id \notin new
         PROVE  /\ id \in early_taken
                /\ id \in DOMAIN objects => kept[id].max \in Nat /\ kept[id].max <= objects[id].max
    <3>1. id \in ended /\ Speed_Qualifies(kept, all, id)
      BY <1>21, <2>2, <2>10
    <3>2. /\ id \in DOMAIN kept /\ kept[id].samples /\ kept[id].max > 0
          /\ kept[id].max >= Qualifying /\ Vehicle(all[id])
          /\ <<all[id].birth, all[id].place>> \in Moved
      BY <3>1 DEF Speed_Qualifies
    <3>3. /\ id \in DOMAIN listed \cap list
          /\ listed[id].samples = kept[id].samples /\ listed[id].max = kept[id].max
      BY <1>12, <2>1, <3>1, <3>2
    <3>4. id \in DOMAIN objects
      BY <1>11, <2>10, <3>3
    <3>5. ~table[id].samples /\ table[id].max = 0
      BY <1>9, <2>10, <3>2, <3>4
    <3>6. /\ Measurable(listed[id]) => listed[id].max = Larger(table[id].max, all[id].speed)
          /\ ~Measurable(listed[id]) => listed[id].samples = table[id].samples
      BY ONLY <1>14, <2>10, <3>3
    <3>7. Measurable(listed[id])
      BY ONLY <3>2, <3>3, <3>5, <3>6, Zenon
    <3>8. /\ objects[id].samples /\ all[id].speed <= objects[id].max
          /\ objects[id].max \in Nat /\ all[id].speed \in Nat
      BY ONLY <2>9, <3>1, <3>4, <3>7
    <3>9. kept[id].max = Larger(0, all[id].speed)
      BY ONLY <3>3, <3>5, <3>6, <3>7
    <3>10. /\ objects[id].max > 0 /\ objects[id].max >= Qualifying
           /\ kept[id].max \in Nat /\ kept[id].max <= objects[id].max
      BY ONLY <3>2, <3>8, <3>9, ConstantsAssumption DEF Larger, ConstantsAssumption
    <3>11. Speed_Qualifies(objects, all, id)
      BY ONLY <3>2, <3>4, <3>8, <3>10, Zenon DEF Speed_Qualifies
    <3>12. id \in early_taken
      BY ONLY <1>21, <2>10, <3>11
    <3> QED BY ONLY <3>10, <3>12
  <2>11. CASE id \in early_taken
    <3>1. id \in first /\ id \in ended /\ id \in DOMAIN objects
      BY <1>21, <2>2, <2>11 DEF Speed_Qualifies
    <3>2. best'[id] = best[id] /\ objects[id].max = best[id] /\ id \notin new
      BY ONLY <2>1, <2>3, <2>9, <3>1 DEF Larger
    <3>3. recorded'[id] = {best[id]} \cup B
      BY ONLY <2>1, <2>3, <2>11, <3>1, <3>2 DEF Running
    <3>4. \A speed \in B : speed \in Nat /\ speed <= best[id]
      BY ONLY <2>3, <2>10, <3>1, <3>2
    <3>5. id \in early'
      BY ONLY <2>2, <3>1
    <3> HIDE DEF B
    <3> QED BY ONLY <2>4, <3>2, <3>3, <3>4, <3>5
  <2>12. CASE id \in taken /\ id \notin early_taken
    <3>1. id \in ended /\ Speed_Qualifies(kept, all, id)
      BY <1>21, <2>2, <2>12
    <3>2. id \in DOMAIN kept
      BY <3>1 DEF Speed_Qualifies
    <3>3. id \in DOMAIN listed \cap list /\ listed[id].max = kept[id].max
      BY <1>12, <2>1, <3>1, <3>2
    <3>4. id \notin first \/ id \in new
      BY ONLY <2>10, <2>12
    <3>5. listed[id].max = best'[id]
      BY ONLY <1>23, <2>8, <3>3, <3>4
    <3>6. recorded'[id] = {kept[id].max}
      BY ONLY <2>1, <2>3, <2>12, <3>1 DEF Running
    <3> QED BY ONLY <3>3, <3>5, <3>6
  <2>13. CASE id \notin taken /\ id \notin early_taken
    <3>1. ~Born(id) /\ recorded'[id] = recorded[id]
      BY ONLY <2>3, <2>8, <2>13
    <3>2. id \notin DOMAIN cache
      BY ONLY <1>19, <2>8, <3>1 DEF Running
    <3>3. id \notin seen /\ id \notin list
      BY ONLY <1>5, <1>6, <3>1, <3>2
    <3>4. best'[id] = best[id]
      BY ONLY <2>3, <3>1, <3>3
    <3>5. id \notin inherited /\ (id \in early => id \in early')
      BY ONLY <1>20, <2>2, <2>8, <3>1, <3>3
    <3>6. SpeedOfThisTrack
      BY DEF IInv
    <3>7. /\ best[id] \in recorded[id]
          /\ \A speed \in recorded[id] : speed # best[id] => speed < best[id] /\ id \in early
      BY ONLY <1>27, <2>8, <3>1, <3>5, <3>6 DEF SpeedOfThisTrack
    <3> QED BY ONLY <3>1, <3>4, <3>5, <3>7
  <2> QED BY <2>11, <2>12, <2>13

\* How often a track was handed over.
<1>28. ASSUME NEW id \in Id
       PROVE  /\ counted'[id] \in 0 .. 2 /\ measured'[id] \in 0 .. 2
              /\ counted'[id] = 2 \/ measured'[id] = 2 => id \in early'
  <2>1. id \in ended => id \in DOMAIN cache /\ Running(id) /\ ~Born(id)
    <3> HIDE DEF ended, list, Born
    <3> QED BY <1>5, <1>6, <1>19
  <2>2. early' = (early \ seen) \cup first
    BY <1>4
  <2> HIDE DEF ended, first, early_taken, taken, listed, list, kept, table, Born, Once
  <2>3. /\ counted'[id] =
             IF Born(id) THEN 0 ELSE counted[id] + Once(id, first) + Once(id, ended)
        /\ measured'[id] =
             IF Born(id) THEN 0
             ELSE measured[id] + Cardinality({id} \cap early_taken) + Cardinality({id} \cap taken)
    BY ONLY <1>20, Zenon
  <2>4. /\ Once(id, first) \in {0, 1} /\ (id \notin first => Once(id, first) = 0)
        /\ Once(id, ended) \in {0, 1} /\ (id \notin ended => Once(id, ended) = 0)
        /\ Cardinality({id} \cap early_taken) = IF id \in early_taken THEN 1 ELSE 0
        /\ Cardinality({id} \cap taken) = IF id \in taken THEN 1 ELSE 0
    BY ONLY <1>22, Zenon
  <2>5. first \subseteq ended /\ early_taken \subseteq first /\ taken \subseteq ended
    BY ONLY <1>6, <1>21
  <2>6. counted[id] \in 0 .. 2 /\ measured[id] \in 0 .. 2
    BY ONLY <1>19
  <2>7. CASE id \in ended
    <3>1. counted[id] = 0 /\ measured[id] = 0 /\ ~Born(id)
      BY <2>1, <2>7 DEF Running
    <3>2. counted'[id] = Once(id, first) + Once(id, ended)
          /\ measured'[id] = Cardinality({id} \cap early_taken) + Cardinality({id} \cap taken)
      BY ONLY <2>3, <2>4, <3>1
    <3> QED BY ONLY <2>2, <2>4, <2>5, <3>2
  <2>8. CASE id \notin ended
    <3>1. id \notin first /\ id \notin early_taken /\ id \notin taken
      BY ONLY <2>5, <2>8
    <3>2. /\ counted'[id] = IF Born(id) THEN 0 ELSE counted[id]
          /\ measured'[id] = IF Born(id) THEN 0 ELSE measured[id]
      BY ONLY <2>3, <2>4, <2>6, <2>8, <3>1
    <3>3. counted[id] = 2 \/ measured[id] = 2 => id \in early
      BY DEF IInv, TwiceOnlyWhenDue
    <3>4. id \in seen /\ ~Born(id) => counted[id] = 0 /\ measured[id] = 0
      BY ONLY <1>6, <1>19 DEF Running
    <3> QED BY ONLY <2>2, <2>6, <3>2, <3>3, <3>4
  <2> QED BY <2>7, <2>8
<1>29. TypeOK'
  <2>1. DOMAIN cache' \subseteq Id /\ \A id \in DOMAIN cache' : cache'[id] \in Track
    BY ONLY <1>5, <1>7, seen \in SUBSET Id
  <2>2. \A id \in DOMAIN objects' : objects'[id] \in Object
    BY ONLY <1>13
  <2>3. current' \in Nat
    <3> DEFINE countable == {id \in DOMAIN kept : Countable(kept[id])}
    <3>1. current' = Cardinality(countable)
      BY <1>4 DEF Radar_Occupancy_Frame_Counts
    <3>2. DOMAIN kept \subseteq Id
      BY ONLY <1>13, <1>16
    <3> HIDE DEF kept
    <3>3. countable \subseteq Id
      BY <3>2
    <3> HIDE DEF countable
    <3> QED BY <1>15, <3>1, <3>3, FS_Subset, FS_CardinalityType
  <2>4. lost' \subseteq Id /\ early' \subseteq Id
    <3>1. lost' = DOMAIN cache \ seen /\ early' = (early \ seen) \cup first
      BY <1>4, <1>5
    <3>2. first \subseteq list
      BY ONLY <1>6
    <3> QED BY ONLY <1>15, <1>19, <3>1, <3>2
  <2>5. /\ counted' \in [Id -> 0 .. 2] /\ measured' \in [Id -> 0 .. 2]
        /\ best' \in [Id -> Nat] /\ recorded' \in [Id -> SUBSET Nat]
    <3>1. /\ counted' = [id \in Id |-> counted'[id]] /\ measured' = [id \in Id |-> measured'[id]]
          /\ best' = [id \in Id |-> best'[id]] /\ recorded' = [id \in Id |-> recorded'[id]]
      <4> HIDE DEF Born, Once, first, ended, early_taken, taken, kept, listed, list
      <4> QED BY <1>4
    <3> QED BY ONLY <1>27, <1>28, <3>1
  <2>6. unsure' \subseteq Id /\ inherited' \subseteq Id
    <3>1. ended \subseteq list
      OBVIOUS
    <3>2. inherited' \subseteq inherited \cup seen
      BY <1>4
    <3> HIDE DEF list, ended
    <3> QED BY ONLY <1>15, <1>19, <1>20, <3>1, <3>2, seen \in SUBSET Id
  <2> QED BY ONLY <1>16, <1>18, <2>1, <2>2, <2>3, <2>4, <2>5, <2>6 DEF TypeOK
<1>30. GhostsLastOneScene'
  <2>1. lost' = DOMAIN cache \ seen
    BY <1>4, <1>5
  <2> HIDE DEF kept, listed, list
  <2>2. ASSUME NEW id \in DOMAIN objects', objects'[id].active PROVE id \in list
    BY ONLY <1>11, <1>12, <1>13, <2>2
  <2> QED BY ONLY <1>5, <1>6, <1>7, <2>1, <2>2 DEF GhostsLastOneScene
<1>31. TwiceOnlyWhenDue' /\ SpeedOfThisTrack'
  BY ONLY <1>27, <1>28 DEF TwiceOnlyWhenDue, SpeedOfThisTrack
<1> QED BY ONLY <1>18, <1>26, <1>29, <1>30, <1>31, <1>25 DEF IInv, TracksSound

-----------------------------------------------------------------------------
(***************************************************************************)
(* A reset, a change of the settings, and the theorems.                    *)
(***************************************************************************)
LEMMA ResetKeeps ==
  ASSUME ConstantsAssumption, IInv, Radar_Reset_State
  PROVE  IInv'
<1>1. /\ objects' = [id \in {} |-> {}] /\ balance' = [entering |-> 0, exiting |-> 0]
      /\ current' = 0 /\ forgotten' = 0
      /\ best' = [id \in Id |-> 0] /\ recorded' = [id \in Id |-> {}]
      /\ unsure' = {} /\ inherited' = {}
      /\ cache' = cache /\ lost' = lost /\ counted' = counted /\ measured' = measured
      /\ early' = early
  BY DEF Radar_Reset_State
<1>2. DOMAIN objects' = {} /\ Cardinality(DOMAIN objects') = 0
  BY <1>1, FS_EmptySet
<1>3. TypeOK'
  BY <1>1, <1>2 DEF IInv, TracksSound, TypeOK, ConstantsAssumption
<1>4. GhostsLastOneScene'
  BY <1>2 DEF GhostsLastOneScene
<1>5. TwiceOnlyWhenDue' /\ SpeedOfThisTrack'
  BY <1>1 DEF IInv, TwiceOnlyWhenDue, SpeedOfThisTrack
<1>6. BalanceExact'
  <2>1. {id \in DOMAIN objects' : objects'[id].inside} = {}
    BY <1>2
  <2>2. Cardinality({id \in DOMAIN objects' : objects'[id].inside}) = 0
    BY <2>1, FS_EmptySet
  <2>3. balance'.entering = 0 /\ balance'.exiting = 0 /\ forgotten' = 0
    BY <1>1
  <2> QED BY ONLY <2>2, <2>3 DEF BalanceExact
<1>7. ASSUME NEW id \in DOMAIN cache' PROVE Running(id)'
  <2>1. id \in Id /\ counted[id] = 0 /\ measured[id] = 0
    BY <1>1, <1>7 DEF IInv, TracksSound, TypeOK, Running
  <2> QED BY <1>1, <1>2, <2>1 DEF Running
<1> QED BY <1>2, <1>3, <1>4, <1>5, <1>6, <1>7 DEF IInv, TracksSound

LEMMA SettingsKeep ==
  ASSUME ConstantsAssumption, IInv, Settings_Updated_Callback_Radar
  PROVE  IInv'
<1>1. /\ objects' = [id \in DOMAIN objects |-> [objects[id] EXCEPT !.inside = FALSE]]
      /\ balance' = [entering |-> 0, exiting |-> 0]
      /\ current' = 0 /\ forgotten' = 0 /\ best' = best /\ recorded' = recorded
      /\ cache' = cache /\ lost' = lost /\ counted' = counted /\ measured' = measured
      /\ early' = early /\ unsure' = unsure /\ inherited' = inherited
  BY DEF Settings_Updated_Callback_Radar
<1>2. TypeOK
  BY DEF IInv, TracksSound
<1>3. /\ DOMAIN objects' = DOMAIN objects
      /\ \A id \in DOMAIN objects :
           /\ objects'[id] \in Object /\ objects'[id].inside = FALSE
           /\ objects'[id].active = objects[id].active /\ objects'[id].class = objects[id].class
           /\ objects'[id].sure = objects[id].sure /\ objects'[id].place = objects[id].place
           /\ objects'[id].samples = objects[id].samples /\ objects'[id].max = objects[id].max
  BY <1>1, <1>2 DEF TypeOK, Object
<1>4. TypeOK'
  BY <1>1, <1>2, <1>3 DEF TypeOK
<1>5. GhostsLastOneScene'
  <2>1. GhostsLastOneScene
    BY DEF IInv, TracksSound
  <2> QED BY <1>1, <1>3, <2>1 DEF GhostsLastOneScene
<1>6. TwiceOnlyWhenDue' /\ SpeedOfThisTrack'
  BY <1>1 DEF IInv, TwiceOnlyWhenDue, SpeedOfThisTrack
<1>7. BalanceExact'
  <2>1. {id \in DOMAIN objects' : objects'[id].inside} = {}
    BY <1>3
  <2>2. Cardinality({id \in DOMAIN objects' : objects'[id].inside}) = 0
    BY <2>1, FS_EmptySet
  <2>3. balance'.entering = 0 /\ balance'.exiting = 0 /\ forgotten' = 0
    BY <1>1
  <2> QED BY ONLY <2>2, <2>3 DEF BalanceExact
<1>8. ASSUME NEW id \in DOMAIN cache' PROVE Running(id)'
  <2>1. Running(id) /\ id \in DOMAIN cache
    BY <1>1, <1>8 DEF IInv
  <2>2. ASSUME id \in DOMAIN objects, cache[id].valid PROVE Shows(objects'[id], cache[id])
    <3>1. Shows(objects[id], cache[id])
      BY <2>1, <2>2 DEF Running
    <3>2. /\ objects'[id].class = objects[id].class
          /\ objects'[id].sure = objects[id].sure /\ objects'[id].place = objects[id].place
          /\ objects'[id].samples = objects[id].samples /\ objects'[id].max = objects[id].max
      BY ONLY <1>3, <2>2, Zenon
    <3>3. Measurable(objects'[id]) => Measurable(objects[id])
      BY ONLY <3>2 DEF Measurable
    <3> QED BY ONLY <3>1, <3>2, <3>3, Zenon DEF Shows
  <2> QED BY ONLY <1>1, <1>3, <2>1, <2>2 DEF Running, Shows, Measurable, Radar_Class_Bucket
<1>9. ASSUME NEW id \in DOMAIN objects' PROVE Resting(id)'
  <2>1. Resting(id) /\ objects'[id].max = objects[id].max
    BY <1>3, <1>9 DEF IInv
  <2> QED BY ONLY <1>1, <2>1 DEF Resting, Idle
<1> QED BY <1>4, <1>5, <1>6, <1>7, <1>8, <1>9 DEF IInv, TracksSound

\* What the status page expires takes its history along.
LEMMA StatusKeeps ==
  ASSUME ConstantsAssumption, IInv, Radar_Status_JSON
  PROVE  IInv'
<1>1. PICK expired \in SUBSET DOMAIN objects :
        /\ objects' = Without(objects, expired)
        /\ forgotten' = forgotten + Cardinality({id \in expired : objects[id].inside})
        /\ best' = [id \in Id |-> IF id \in expired THEN 0 ELSE best[id]]
        /\ recorded' = [id \in Id |-> IF id \in expired THEN {} ELSE recorded[id]]
        /\ unsure' = unsure \ expired /\ inherited' = inherited \ expired
        /\ cache' = cache /\ balance' = balance /\ current' = current /\ lost' = lost
        /\ counted' = counted /\ measured' = measured /\ early' = early
  BY DEF Radar_Status_JSON
<1>2. TypeOK
  BY DEF IInv, TracksSound
<1>3. /\ DOMAIN objects' = DOMAIN objects \ expired
      /\ \A id \in DOMAIN objects' : objects'[id] = objects[id]
  BY <1>1 DEF Without
<1>4. IsFiniteSet(DOMAIN objects) /\ Cardinality(DOMAIN objects') <= Cardinality(DOMAIN objects)
      /\ Cardinality(DOMAIN objects') \in Nat /\ Cardinality(DOMAIN objects) \in Nat
  <2>1. IsFiniteSet(DOMAIN objects) /\ DOMAIN objects' \subseteq DOMAIN objects
    BY <1>2, <1>3, FS_Subset DEF TypeOK, ConstantsAssumption
  <2> QED BY ONLY <2>1, FS_Subset, FS_CardinalityType
<1>5. /\ forgotten' \in Nat /\ BalanceExact'
  <2> DEFINE inside == {id \in DOMAIN objects : objects[id].inside}
             away == {id \in expired : objects[id].inside}
             after == {id \in DOMAIN objects' : objects'[id].inside}
  <2>1. IsFiniteSet(inside) /\ away \in SUBSET inside
    BY <1>4, FS_Subset
  <2>2. after = inside \ away /\ inside \cap away = away
    BY <1>3
  <2>3. BalanceExact /\ forgotten \in Nat /\ balance \in [entering : Nat, exiting : Nat]
    BY <1>2 DEF IInv, TypeOK
  <2>4. balance.entering - balance.exiting = forgotten + Cardinality(inside)
    BY ONLY <2>3 DEF BalanceExact
  <2>5. forgotten' = forgotten + Cardinality(away) /\ balance' = balance
    BY <1>1
  <2> HIDE DEF inside, away, after
  <2>6. Cardinality(inside) \in Nat /\ Cardinality(away) \in Nat
    BY ONLY <2>1, FS_Subset, FS_CardinalityType
  <2>7. Cardinality(inside \ away) = Cardinality(inside) - Cardinality(inside \cap away)
    BY ONLY <2>1, FS_Difference, Zenon
  <2>8. Cardinality(after) = Cardinality(inside) - Cardinality(away)
    BY ONLY <2>2, <2>7, Zenon
  <2>9. forgotten' \in Nat
        /\ balance'.entering - balance'.exiting = forgotten' + Cardinality(after)
    BY ONLY <2>3, <2>4, <2>5, <2>6, <2>8
  <2> QED BY ONLY <2>9 DEF BalanceExact, after
<1>6. TypeOK'
  <2>1. Cardinality(DOMAIN objects') <= RADAR_MAX_OBJECTS
    BY ONLY <1>2, <1>4, ConstantsAssumption DEF TypeOK, ConstantsAssumption
  <2>2. /\ best' \in [Id -> Nat] /\ recorded' \in [Id -> SUBSET Nat]
    BY ONLY <1>1, <1>2 DEF TypeOK
  <2>3. DOMAIN objects' \subseteq Id /\ \A id \in DOMAIN objects' : objects'[id] \in Object
    BY ONLY <1>2, <1>3 DEF TypeOK
  <2> QED BY ONLY <1>1, <1>2, <1>5, <2>1, <2>2, <2>3 DEF TypeOK
<1>7. GhostsLastOneScene'
  BY <1>1, <1>3 DEF IInv, TracksSound, GhostsLastOneScene
<1>8. TwiceOnlyWhenDue'
  BY <1>1 DEF IInv, TwiceOnlyWhenDue
<1>9. SpeedOfThisTrack'
  <2>1. SUFFICES ASSUME NEW id \in Id, id \notin inherited', recorded'[id] # {}
        PROVE  /\ best'[id] \in recorded'[id]
               /\ \A speed \in recorded'[id] :
                    speed # best'[id] => speed < best'[id] /\ id \in early'
    BY DEF SpeedOfThisTrack
  <2>2. id \notin expired /\ recorded'[id] = recorded[id] /\ best'[id] = best[id]
        /\ id \notin inherited
    BY <1>1, <2>1
  <2> QED BY <1>1, <2>1, <2>2 DEF IInv, SpeedOfThisTrack
<1>10. ASSUME NEW id \in DOMAIN cache' PROVE Running(id)'
  <2>1. Running(id) /\ id \in DOMAIN cache /\ id \in Id /\ cache'[id] = cache[id]
    BY <1>1, <1>2, <1>10 DEF IInv, TypeOK
  <2>2. CASE id \in expired
    <3>1. id \notin DOMAIN objects' /\ best'[id] = 0 /\ recorded'[id] = {}
      BY <1>1, <1>3, <2>1, <2>2
    <3> QED BY ONLY <1>1, <2>1, <3>1 DEF Running
  <2>3. CASE id \notin expired
    <3>1. /\ id \in DOMAIN objects' <=> id \in DOMAIN objects
          /\ id \in DOMAIN objects => objects'[id] = objects[id]
          /\ best'[id] = best[id] /\ recorded'[id] = recorded[id]
          /\ id \in inherited' <=> id \in inherited
      BY <1>1, <1>3, <2>1, <2>3
    <3> QED BY ONLY <1>1, <2>1, <3>1 DEF Running, Shows, Measurable, Radar_Class_Bucket
  <2> QED BY <2>2, <2>3
<1>11. ASSUME NEW id \in DOMAIN objects' PROVE Resting(id)'
  <2>1. Resting(id) /\ objects'[id] = objects[id] /\ (id \in unsure => id \in unsure')
    BY <1>1, <1>3, <1>11 DEF IInv
  <2> QED BY ONLY <1>1, <2>1 DEF Resting, Idle
<1> QED BY ONLY <1>5, <1>6, <1>7, <1>8, <1>9, <1>10, <1>11 DEF IInv, TracksSound

\* At the start nothing is cached, and no object is in the table.
LEMMA Initial ==
  ASSUME ConstantsAssumption, Init
  PROVE  IInv
<1>1. /\ DOMAIN cache = {} /\ DOMAIN objects = {} /\ Cardinality(DOMAIN objects) = 0
  BY FS_EmptySet DEF Init
<1>2. TypeOK
  BY <1>1 DEF Init, TypeOK, ConstantsAssumption
<1>3. GhostsLastOneScene /\ TwiceOnlyWhenDue /\ SpeedOfThisTrack
  BY <1>1 DEF Init, GhostsLastOneScene, TwiceOnlyWhenDue, SpeedOfThisTrack
<1>4. BalanceExact
  <2>1. {id \in DOMAIN objects : objects[id].inside} = {}
    BY <1>1
  <2>2. Cardinality({id \in DOMAIN objects : objects[id].inside}) = 0
    BY <2>1, FS_EmptySet
  <2>3. balance.entering = 0 /\ balance.exiting = 0 /\ forgotten = 0
    BY DEF Init
  <2> QED BY ONLY <2>2, <2>3 DEF BalanceExact
<1> QED BY <1>1, <1>2, <1>3, <1>4 DEF IInv, TracksSound

LEMMA Unchanged ==
  ASSUME IInv, UNCHANGED vars
  PROVE  IInv'
BY DEF vars, history, IInv, TracksSound, TypeOK, GhostsLastOneScene, TwiceOnlyWhenDue,
       SpeedOfThisTrack, BalanceExact, Running, Resting, Idle, Shows, Measurable, Radar_Class_Bucket

LEMMA Kept ==
  ASSUME ConstantsAssumption
  PROVE  Spec => []IInv
<1>1. Init => IInv
  BY Initial
<1>2. IInv /\ [Next]_vars => IInv'
  BY SceneKeeps, ResetKeeps, SettingsKeep, StatusKeeps, Unchanged DEF Next
<1> QED BY <1>1, <1>2, PTL DEF Spec

\* The table of main.c stays in its room, and holds as present only the objects of tracks that
\* the radar still reports or has just reported for the last time.
THEOREM TracksHold ==
  ASSUME ConstantsAssumption
  PROVE  Spec => []TracksSound
<1>1. IInv => TracksSound
  BY DEF IInv
<1> QED BY <1>1, Kept, PTL

\* A track that Counting or Speed took twice is one whose last second was up in the scene that
\* ended it: nothing else hands a track over again.
THEOREM TwiceOnlySo ==
  ASSUME ConstantsAssumption
  PROVE  Spec => []TwiceOnlyWhenDue
<1>1. IInv => TwiceOnlyWhenDue
  BY DEF IInv
<1> QED BY <1>1, Kept, PTL

\* The speed recorded of a vehicle is that of its own track, also when the table still held an
\* object of its id, unless that object's last track ended as no sure vehicle; a second, lower
\* one is recorded only of a track whose last second was up in the scene that ended it.
THEOREM SpeedIsItsOwn ==
  ASSUME ConstantsAssumption
  PROVE  Spec => []SpeedOfThisTrack
<1>1. IInv => SpeedOfThisTrack
  BY DEF IInv
<1> QED BY <1>1, Kept, PTL

\* Entries and exits differ by exactly those inside and those the table dropped while inside.
THEOREM BalanceHolds ==
  ASSUME ConstantsAssumption
  PROVE  Spec => []BalanceExact
<1>1. IInv => BalanceExact
  BY DEF IInv
<1> QED BY <1>1, Kept, PTL

-----------------------------------------------------------------------------
(***************************************************************************)
(* The counting scenes.                                                    *)
(***************************************************************************)
Scenes == C!Elements(tree) \cup C!Elements(file) \cup C!Elements(g_scenes)

\* A request makes one scene: its number tells it from all others.
ScenesApart ==
  /\ \A s \in Scenes : s.made <= made
  /\ \A s, o \in Scenes : s.made = o.made => s = o
  /\ pc[C!FCGI].at # "apply" => tree = file

ListsSound ==
  /\ tree \in Seq(C!Scene) /\ file \in Seq(C!Scene) /\ g_scenes \in Seq(C!Scene)
  /\ C!Counting_Validate_Config(g_scenes) /\ DOMAIN totals = C!Ids(g_scenes)
  /\ made \in 0 .. MaxScenes /\ C!ActiveIsConfigured /\ ScenesApart

\* What was never counted for was never crossed, and does not come back if it was.
NeverCrossed ==
  /\ \A m \in 1 .. MaxScenes : m > made => crossed[m] = 0
  /\ restarts = 0 => \A s \in Scenes : s \notin C!Elements(g_scenes) => crossed[s.made] = 0

CountsSound == C!TotalsExact /\ NeverCrossed

\* Totals, of the ids that are known, of at most n tracks.
Within(snapshot, n) ==
  DOMAIN snapshot \subseteq SceneId /\ \A id \in DOMAIN snapshot : snapshot[id] \in 0 .. n

SnapshotsSound ==
  /\ tracks \in 0 .. MaxTracks /\ Within(totals, tracks) /\ Within(floor, tracks)
  /\ \A i \in C!Inode : Within(inode[i].totals, tracks)
  /\ \A t \in C!Thread : Within(pc[t].totals, tracks)
  /\ crossed \in [1 .. MaxScenes -> 0 .. tracks]

\* Which thread may be where: of the publish thread and main() one at most is under way, so
\* that one of three inodes is free whenever a file is made.
Field == {"at", "totals", "inode", "publish"}
Point == {"idle", "sending", "apply", "open", "write", "rename"}
Writes(p) == p.at \in {"write", "rename"}
ThreadAt(t, p) ==
  /\ DOMAIN p = Field /\ p.at \in Point
  /\ p.at = "idle" => p = C!Idle
  /\ IF Writes(p) THEN p.inode \in C!Inode ELSE p.inode = C!NoFile
  /\ p.at = "apply" => t = C!FCGI
  /\ p.at # "idle" => /\ up # "starting"
                      /\ t = C!Publish_Thread => up = "running"
                      /\ t = C!Main => up = "stopping"

ThreadsSound ==
  /\ DOMAIN pc = C!Thread /\ up \in {"starting", "running", "stopping"}
  /\ \A t \in C!Thread : ThreadAt(t, pc[t])

\* Unless two saves ran at once the file on disk is whole, and the one that is being written
\* is another.
FilesSound ==
  /\ counters # C!NoFile => inode[counters].whole /\ counters # temporary
  /\ \A t \in C!Thread : Writes(pc[t]) =>
       /\ temporary # C!NoFile /\ pc[t].inode = temporary
       /\ \A u \in C!Thread \ {t} : ~Writes(pc[u])
  /\ \A t \in C!Thread : pc[t].at = "rename" =>
       inode[temporary].whole /\ inode[temporary].totals = pc[t].totals

AtLeast(t, least) == \A id \in DOMAIN least : id \in DOMAIN t /\ least[id] <= t[id]

\* What was published and saved is kept, on disk, in the totals and in a snapshot that will
\* replace it there.
Floored ==
  /\ DOMAIN floor # {} => counters # C!NoFile /\ AtLeast(inode[counters].totals, floor)
  /\ DOMAIN floor \subseteq DOMAIN totals
  /\ up # "starting" => AtLeast(totals, floor)
  /\ \A t \in C!Thread : C!Saving(t) /\ ~C!Overlaps(t) =>
       AtLeast(pc[t].totals, floor) /\ AtLeast(totals, pc[t].totals)

DiskSound ==
  /\ DOMAIN inode = C!Inode /\ \A i \in C!Inode : inode[i].whole \in BOOLEAN
  /\ counters \in C!Inode \cup {C!NoFile} /\ temporary \in C!Inode \cup {C!NoFile}
  /\ raced \in BOOLEAN

\* How far one thread saves at a time.
OneAtATime == ~raced => FilesSound /\ Floored

BoundsSound ==
  /\ requests \in 0 .. MaxRequests /\ restarts \in 0 .. MaxRestarts
  /\ up = "starting" => restarts > 0

CInv ==
  /\ ListsSound /\ SnapshotsSound /\ CountsSound /\ ThreadsSound /\ DiskSound
  /\ OneAtATime /\ BoundsSound

-----------------------------------------------------------------------------
(***************************************************************************)
(* The lists of scenes.                                                    *)
(***************************************************************************)

\* What a request may bring: scenes that are known, and one that is new.
Known == C!Elements(tree) \cup C!Elements(g_scenes)
Offered(list) ==
  /\ list \in Seq(C!Scene)
  /\ \A s \in C!Elements(list) : s \in Known \/ (s.made = made + 1 /\ made < MaxScenes)
  /\ \A s, o \in C!Elements(list) : s.made = o.made => s = o

Brought == {C!RemoveAt(tree, i) : i \in DOMAIN tree} \cup C!Posted
             \cup {[j \in DOMAIN tree |-> IF j = i THEN g_scenes[i] ELSE tree[j]] :
                     i \in DOMAIN g_scenes}

LEMMA SequenceOf ==
  ASSUME NEW S, NEW n \in Nat, NEW f \in [1 .. n -> S]
  PROVE  f \in Seq(S) /\ DOMAIN f = 1 .. n /\ Len(f) = n
OBVIOUS

LEMMA ElementsOf ==
  ASSUME NEW S, NEW list \in Seq(S)
  PROVE  /\ C!Elements(list) \subseteq S
         /\ \A i \in DOMAIN list : list[i] \in C!Elements(list)
         /\ \A s \in C!Elements(list) : \E i \in DOMAIN list : s = list[i]
BY DEF C!Elements

LEMMA SceneElements ==
  ASSUME NEW list \in Seq(C!Scene)
  PROVE  /\ C!Ids(list) \subseteq SceneId
         /\ \A s \in C!Elements(list) :
              s \in C!Scene /\ s.id \in C!Ids(list) /\ s.made \in 1 .. MaxScenes
<1>1. \A s \in C!Elements(list) : s \in C!Scene
  BY ElementsOf
<1>2. \A s \in C!Scene : s.id \in SceneId /\ s.made \in 1 .. MaxScenes
  BY DEF C!Scene
<1> QED BY <1>1, <1>2 DEF C!Ids

\* Lists whose scenes come from known ones, and from one that is new.
LEMMA OfferedIf ==
  ASSUME ListsSound, NEW list, list \in Seq(C!Scene),
         \A s \in C!Elements(list) : s \in Known \/ (s.made = made + 1 /\ made < MaxScenes),
         \A s, o \in C!Elements(list) : s \notin Known /\ o \notin Known => s = o
  PROVE  Offered(list)
<1>1. \A s \in Known : s \in Scenes
  BY DEF Known, Scenes
<1>2. \A s \in Known : s.made \in Nat /\ s.made <= made
  <2>1. \A s \in Known : s \in C!Scene
    BY ElementsOf DEF ListsSound, Known
  <2> QED BY <1>1, <2>1 DEF ListsSound, ScenesApart, C!Scene
<1>3. made \in Nat
  BY DEF ListsSound
<1>4. \A s, o \in Known : s.made = o.made => s = o
  BY <1>1 DEF ListsSound, ScenesApart
<1>5. ASSUME NEW s \in C!Elements(list), NEW o \in C!Elements(list), s.made = o.made
      PROVE  s = o
  <2>1. CASE s \in Known /\ o \in Known
    BY ONLY <1>4, <1>5, <2>1
  <2>2. CASE s \in Known /\ o \notin Known
    <3>1. o.made = made + 1
      BY <2>2
    <3> QED BY ONLY <1>2, <1>3, <1>5, <2>2, <3>1
  <2>3. CASE s \notin Known /\ o \in Known
    <3>1. s.made = made + 1
      BY <2>3
    <3>2. o.made \in Nat /\ o.made <= made
      BY ONLY <1>2, <2>3
    <3> QED BY ONLY <1>3, <1>5, <3>1, <3>2
  <2>4. CASE s \notin Known /\ o \notin Known
    BY <2>4
  <2> QED BY <2>1, <2>2, <2>3, <2>4
<1> QED BY <1>5 DEF Offered

LEMMA OfferedLists ==
  ASSUME C!ConstantsAssumption, ListsSound, NEW list \in Brought
  PROVE  Offered(list)
<1>1. /\ tree \in Seq(C!Scene) /\ g_scenes \in Seq(C!Scene) /\ Len(tree) \in Nat
      /\ DOMAIN tree = 1 .. Len(tree)
      /\ \A i \in DOMAIN tree : tree[i] \in Known /\ tree[i] \in C!Scene
      /\ \A i \in DOMAIN g_scenes : g_scenes[i] \in Known /\ g_scenes[i] \in C!Scene
  BY ElementsOf DEF ListsSound, Known
<1>2. \A s \in C!Added : s \in C!Scene /\ s.made = made + 1 /\ made < MaxScenes
  BY DEF C!Added, C!Scene, ListsSound, C!ConstantsAssumption
<1>3. ASSUME NEW n \in Nat, DOMAIN list = 1 .. n, list = [j \in 1 .. n |-> list[j]],
             \A j \in 1 .. n : list[j] \in Known /\ list[j] \in C!Scene
      PROVE  Offered(list)
  <2>1. list \in Seq(C!Scene)
    BY <1>3
  <2>2. \A s \in C!Elements(list) : s \in Known
    BY <1>3 DEF C!Elements
  <2> QED BY <2>1, <2>2, OfferedIf
<1>4. ASSUME NEW n \in Nat, DOMAIN list = 1 .. n, list = [j \in 1 .. n |-> list[j]],
             NEW new \in C!Added,
             \A j \in 1 .. n : list[j] = new \/ (list[j] \in Known /\ list[j] \in C!Scene)
      PROVE  Offered(list)
  <2>1. list \in Seq(C!Scene)
    BY <1>2, <1>4
  <2>2. \A s \in C!Elements(list) : s = new \/ s \in Known
    BY <1>4 DEF C!Elements
  <2> QED BY <1>2, <2>1, <2>2, OfferedIf
<1>5. CASE \E i \in DOMAIN tree : list = C!RemoveAt(tree, i)
  <2>1. PICK i \in DOMAIN tree : list = C!RemoveAt(tree, i)
    BY <1>5
  <2>2. list = [j \in 1 .. Len(tree) - 1 |-> IF j < i THEN tree[j] ELSE tree[j + 1]]
    BY <2>1 DEF C!RemoveAt
  <2>3. /\ Len(tree) - 1 \in Nat /\ DOMAIN list = 1 .. Len(tree) - 1
        /\ list = [j \in 1 .. Len(tree) - 1 |-> list[j]]
        /\ \A j \in 1 .. Len(tree) - 1 : list[j] \in Known /\ list[j] \in C!Scene
    BY <1>1, <2>2
  <2> QED BY ONLY <1>3, <2>3
<1>6. CASE list = tree
  <2>1. /\ DOMAIN list = 1 .. Len(tree) /\ list = [j \in 1 .. Len(tree) |-> list[j]]
        /\ \A j \in 1 .. Len(tree) : list[j] \in Known /\ list[j] \in C!Scene
    BY <1>1, <1>6
  <2> QED BY ONLY <1>1, <1>3, <2>1
<1>7. CASE \E s \in C!Added : list = Append(tree, s)
  <2>1. PICK s \in C!Added : list = Append(tree, s)
    BY <1>7
  <2>2. /\ Len(tree) + 1 \in Nat /\ DOMAIN list = 1 .. Len(tree) + 1
        /\ \A j \in 1 .. Len(tree) + 1 : list[j] = IF j <= Len(tree) THEN tree[j] ELSE s
        /\ list = [j \in 1 .. Len(tree) + 1 |-> list[j]]
    <3>1. /\ list \in Seq(C!Scene) /\ Len(list) = Len(tree) + 1
          /\ \A j \in 1 .. Len(tree) : list[j] = tree[j]
          /\ list[Len(tree) + 1] = s
      BY ONLY <1>1, <1>2, <2>1, AppendProperties
    <3> QED BY ONLY <1>1, <3>1
  <2>3. \A j \in 1 .. Len(tree) + 1 : list[j] = s \/ (list[j] \in Known /\ list[j] \in C!Scene)
    BY ONLY <1>1, <2>2
  <2> QED BY ONLY <1>4, <2>2, <2>3
<1>8. CASE \E i \in DOMAIN tree, s \in C!Added : list = [tree EXCEPT ![i] = s]
  <2>1. PICK i \in DOMAIN tree, s \in C!Added : list = [tree EXCEPT ![i] = s]
    BY <1>8
  <2>2. /\ DOMAIN list = 1 .. Len(tree)
        /\ \A j \in 1 .. Len(tree) : list[j] = IF j = i THEN s ELSE tree[j]
        /\ list = [j \in 1 .. Len(tree) |-> list[j]]
    BY ONLY <1>1, <2>1
  <2>3. \A j \in 1 .. Len(tree) : list[j] = s \/ (list[j] \in Known /\ list[j] \in C!Scene)
    BY ONLY <1>1, <2>2
  <2> QED BY ONLY <1>1, <1>4, <2>2, <2>3
<1>9. CASE \E i \in DOMAIN g_scenes :
             list = [j \in DOMAIN tree |-> IF j = i THEN g_scenes[i] ELSE tree[j]]
  <2>1. PICK i \in DOMAIN g_scenes :
               list = [j \in 1 .. Len(tree) |-> IF j = i THEN g_scenes[i] ELSE tree[j]]
    BY <1>1, <1>9
  <2>2. /\ DOMAIN list = 1 .. Len(tree) /\ list = [j \in 1 .. Len(tree) |-> list[j]]
        /\ \A j \in 1 .. Len(tree) : list[j] \in Known /\ list[j] \in C!Scene
    BY ONLY <1>1, <2>1
  <2> QED BY ONLY <1>1, <1>3, <2>2
<1> QED BY <1>5, <1>6, <1>7, <1>8, <1>9 DEF Brought, C!Posted

\* A list that is offered mixes with the scenes there are.
LEMMA OfferedApart ==
  ASSUME C!ConstantsAssumption, ListsSound, NEW list, Offered(list)
  PROVE  /\ C!Made(list) \in 0 .. MaxScenes /\ made <= C!Made(list) /\ C!Made(list) <= made + 1
         /\ C!Elements(list) \subseteq C!Scene
         /\ \A s \in Scenes \cup C!Elements(list) : s.made <= C!Made(list)
         /\ \A s, o \in Scenes \cup C!Elements(list) : s.made = o.made => s = o
         /\ \A s \in C!Elements(list) : s \in Scenes \/ s.made = made + 1
<1>1. /\ made \in 0 .. MaxScenes /\ MaxScenes \in Nat
      /\ \A s \in Scenes : s.made \in Nat /\ s.made <= made
      /\ \A s, o \in Scenes : s.made = o.made => s = o
  <2>1. \A s \in Scenes : s \in C!Scene
    BY ElementsOf DEF ListsSound, Scenes
  <2> QED BY <2>1 DEF ListsSound, ScenesApart, C!Scene, C!ConstantsAssumption
<1>2. /\ list \in Seq(C!Scene)
      /\ \A s \in C!Elements(list) : s \in Scenes \/ (s.made = made + 1 /\ made < MaxScenes)
      /\ \A s, o \in C!Elements(list) : s.made = o.made => s = o
  BY DEF Offered, Known, Scenes
<1>3. C!Elements(list) \subseteq C!Scene
  BY <1>2, ElementsOf
<1>4. C!Made(list) = IF \E s \in C!Elements(list) : s.made > made THEN made + 1 ELSE made
  BY DEF C!Made
<1>5. C!Made(list) \in 0 .. MaxScenes /\ made <= C!Made(list) /\ C!Made(list) <= made + 1
  BY ONLY <1>1, <1>2, <1>4
<1>6. \A s \in Scenes \cup C!Elements(list) : s.made <= C!Made(list)
  BY ONLY <1>1, <1>2, <1>4
<1>7. ASSUME NEW s \in Scenes \cup C!Elements(list), NEW o \in Scenes \cup C!Elements(list),
             s.made = o.made
      PROVE  s = o
  BY ONLY <1>1, <1>2, <1>7
<1> QED BY ONLY <1>2, <1>3, <1>5, <1>6, <1>7

\* Enough for the lists: the new ones are old ones or offered.
LEMMA ListsKept ==
  ASSUME ListsSound,
         tree' \in Seq(C!Scene), file' \in Seq(C!Scene), g_scenes' \in Seq(C!Scene),
         made' \in 0 .. MaxScenes,
         \A s \in Scenes' : s.made <= made',
         \A s, o \in Scenes' : s.made = o.made => s = o,
         pc'[C!FCGI].at # "apply" => tree' = file',
         C!Counting_Validate_Config(g_scenes'), DOMAIN totals' = C!Ids(g_scenes'),
         C!Counting_Validate_Config(tree') => tree' = g_scenes'
  PROVE  ListsSound'
<1>1. C!Counting_Validate_Config(g_scenes)' /\ (DOMAIN totals = C!Ids(g_scenes))'
  BY DEF C!Counting_Validate_Config, C!Elements, C!Ids
<1>2. C!ActiveIsConfigured'
  BY DEF C!ActiveIsConfigured, C!Counting_Validate_Config, C!Elements
<1>3. C!FCGI' = C!FCGI /\ C!Scene' = C!Scene
  BY DEF C!FCGI, C!Scene
<1>4. ScenesApart'
  BY <1>3 DEF ScenesApart
<1> QED BY <1>1, <1>2, <1>3, <1>4 DEF ListsSound

LEMMA ListsSame ==
  ASSUME ListsSound, tree' = tree, file' = file, g_scenes' = g_scenes, made' = made,
         DOMAIN totals' = DOMAIN totals,
         pc'[C!FCGI].at # "apply" => pc[C!FCGI].at # "apply"
  PROVE  ListsSound'
BY DEF ListsSound, ScenesApart, Scenes, C!ActiveIsConfigured, C!Counting_Validate_Config,
       C!Elements, C!Ids, C!FCGI, C!Scene

LEMMA PostedLists ==
  ASSUME C!ConstantsAssumption, ListsSound, NEW list, Offered(list),
         C!ACAP_ENDPOINT_settings(list)
  PROVE  ListsSound'
<1>1. /\ tree' = list /\ file' = list /\ made' = C!Made(list)
      /\ IF C!Counting_Validate_Config(list)
         THEN g_scenes' = list /\ totals' = C!Kept(list)
         ELSE g_scenes' = g_scenes /\ totals' = totals
  BY DEF C!ACAP_ENDPOINT_settings, C!Load_Counting_Scenes
<1>2. list \in Seq(C!Scene)
  BY DEF Offered
<1>3. /\ C!Counting_Validate_Config(g_scenes') /\ DOMAIN totals' = C!Ids(g_scenes')
      /\ g_scenes' \in Seq(C!Scene)
      /\ C!Counting_Validate_Config(list) => list = g_scenes'
  BY <1>1, <1>2 DEF ListsSound, C!Kept
<1>4. Scenes' \subseteq Scenes \cup C!Elements(list)
  BY <1>1 DEF Scenes, C!Elements
<1> QED BY <1>1, <1>2, <1>3, <1>4, OfferedApart, ListsKept

LEMMA PersistedLists ==
  ASSUME C!ConstantsAssumption, ListsSound, ThreadsSound, NEW list, Offered(list),
         C!OTA_Counting_Persist(list)
  PROVE  ListsSound'
<1>1. /\ tree' = tree /\ file' = list /\ made' = C!Made(list) /\ g_scenes' = g_scenes
      /\ totals' = totals
      /\ pc' = [pc EXCEPT ![C!FCGI] = [C!Idle EXCEPT !.at = "apply"]]
  BY DEF C!OTA_Counting_Persist, C!Go
<1>2. list \in Seq(C!Scene)
  BY DEF Offered
<1>3. pc'[C!FCGI].at = "apply"
  BY <1>1 DEF ThreadsSound, C!Thread, C!Idle
<1>4. Scenes' \subseteq Scenes \cup C!Elements(list)
  BY <1>1 DEF Scenes, C!Elements
<1>5. C!Counting_Validate_Config(tree) => tree = g_scenes
  BY DEF ListsSound, C!ActiveIsConfigured, C!Counting_Validate_Config
<1> QED BY <1>1, <1>2, <1>3, <1>4, <1>5, OfferedApart, ListsKept DEF ListsSound

LEMMA AppliedLists ==
  ASSUME ListsSound, C!OTA_Counting_Apply
  PROVE  ListsSound'
<1>1. /\ tree' = file /\ file' = file /\ made' = made
      /\ IF C!Counting_Validate_Config(file)
         THEN g_scenes' = file /\ totals' = C!Kept(file)
         ELSE g_scenes' = g_scenes /\ totals' = totals
  BY DEF C!OTA_Counting_Apply, C!Load_Counting_Scenes, C!bounds
<1>2. /\ C!Counting_Validate_Config(g_scenes') /\ DOMAIN totals' = C!Ids(g_scenes')
      /\ g_scenes' \in Seq(C!Scene)
      /\ C!Counting_Validate_Config(file) => file = g_scenes'
  BY <1>1 DEF ListsSound, C!Kept
<1>3. Scenes' \subseteq Scenes
  BY <1>1 DEF Scenes, C!Elements
<1> QED BY <1>1, <1>2, <1>3, ListsKept DEF ListsSound, ScenesApart

LEMMA RestartedLists ==
  ASSUME C!ConstantsAssumption, ListsSound, C!Restart
  PROVE  ListsSound'
<1>1. /\ tree' = file /\ file' = file /\ made' = made
      /\ g_scenes' = IF C!Counting_Validate_Config(file) THEN file ELSE <<>>
      /\ DOMAIN totals' = C!Ids(g_scenes')
  BY DEF C!Restart
<1>2. C!Counting_Validate_Config(<<>>)
  BY DEF C!Counting_Validate_Config, C!Elements, C!ConstantsAssumption
<1>3. /\ C!Counting_Validate_Config(g_scenes') /\ g_scenes' \in Seq(C!Scene)
      /\ C!Counting_Validate_Config(file) => file = g_scenes'
  BY <1>1, <1>2 DEF ListsSound
<1>4. Scenes' \subseteq Scenes
  <2>1. C!Elements(<<>>) = {}
    BY DEF C!Elements
  <2> QED BY <1>1, <2>1 DEF Scenes, C!Elements
<1> QED BY <1>1, <1>3, <1>4, ListsKept DEF ListsSound, ScenesApart

-----------------------------------------------------------------------------
(***************************************************************************)
(* Where the threads are.                                                  *)
(***************************************************************************)
LEMMA GoTo ==
  ASSUME ThreadsSound, NEW t \in C!Thread, NEW p, C!Go(t, p)
  PROVE  /\ DOMAIN pc' = C!Thread /\ pc'[t] = p
         /\ \A u \in C!Thread \ {t} : pc'[u] = pc[u]
BY DEF ThreadsSound, C!Go

LEMMA Names ==
  /\ C!Thread' = C!Thread /\ C!Inode' = C!Inode /\ C!NoFile' = C!NoFile /\ C!Idle' = C!Idle
  /\ C!FCGI' = C!FCGI /\ C!Main' = C!Main /\ C!Publish_Thread' = C!Publish_Thread
  /\ C!FCGI \in C!Thread /\ C!Main \in C!Thread /\ C!Publish_Thread \in C!Thread
  /\ C!Publish_Thread # C!Main /\ C!Publish_Thread # C!FCGI /\ C!Main # C!FCGI
  /\ \A t \in C!Thread : t = C!Publish_Thread \/ t = C!FCGI \/ t = C!Main
  /\ C!Inode = 1 .. 3 /\ C!NoFile = 0
BY DEF C!Thread, C!Inode, C!NoFile, C!Idle, C!FCGI, C!Main, C!Publish_Thread, C!NoTotals

\* One thread steps to a place where it may be.
LEMMA OneSteps ==
  ASSUME ThreadsSound, up' = up, NEW t \in C!Thread, NEW p, C!Go(t, p), ThreadAt(t, p)
  PROVE  ThreadsSound'
<1>1. \A u \in C!Thread : ThreadAt(u, pc'[u])
  BY GoTo DEF ThreadsSound
<1>2. \A u \in C!Thread : ThreadAt(u, pc[u])'
  BY ONLY <1>1, Names, up' = up DEF ThreadAt, Writes, Point, Field
<1> QED BY <1>2, GoTo, Names DEF ThreadsSound

LEMMA NoneSteps ==
  ASSUME ThreadsSound, up' = up, pc' = pc
  PROVE  ThreadsSound'
<1>1. \A u \in C!Thread : ThreadAt(u, pc[u])'
  BY Names DEF ThreadsSound, ThreadAt, Writes, Point, Field
<1> QED BY <1>1, Names DEF ThreadsSound

\* A thread that is idle, and one that starts to save.
LEMMA IdleAt ==
  ASSUME NEW t \in C!Thread
  PROVE  ThreadAt(t, C!Idle)
BY DEF ThreadAt, Point, Field, Writes, C!Idle

LEMMA SaveAt ==
  ASSUME NEW t \in C!Thread, NEW publish, NEW snapshot, up # "starting",
         t = C!Publish_Thread => up = "running", t = C!Main => up = "stopping"
  PROVE  ThreadAt(t, C!Save(publish, snapshot))
BY DEF ThreadAt, Point, Field, Writes, C!Save, C!Idle

LEMMA BusyAt ==
  ASSUME NEW t \in C!Thread, NEW point \in {"sending", "apply"}, up # "starting",
         t = C!Publish_Thread => up = "running", t = C!Main => up = "stopping",
         point = "apply" => t = C!FCGI
  PROVE  ThreadAt(t, [C!Idle EXCEPT !.at = point])
BY DEF ThreadAt, Point, Writes, Field, C!Idle

LEMMA LoadThreads ==
  ASSUME ThreadsSound, up' = up, NEW list, C!Load_Counting_Scenes(list)
  PROVE  ThreadsSound'
<1>1. CASE C!Counting_Validate_Config(list)
  <2>1. C!Go(C!FCGI, IF up # "starting" THEN C!Save(FALSE, C!Kept(list)) ELSE C!Idle)
    BY <1>1 DEF C!Load_Counting_Scenes, C!SavesOnLoad
  <2>2. ThreadAt(C!FCGI, IF up # "starting" THEN C!Save(FALSE, C!Kept(list)) ELSE C!Idle)
    BY IdleAt, SaveAt, Names
  <2> QED BY <2>1, <2>2, OneSteps, Names
<1>2. CASE ~C!Counting_Validate_Config(list)
  BY <1>2, NoneSteps DEF C!Load_Counting_Scenes
<1> QED BY <1>1, <1>2

LEMMA FreeInodeFound ==
  ASSUME ThreadsSound, NEW t \in C!Thread, C!At(t, "open"), temporary = C!NoFile
  PROVE  C!FreeInode \in C!Inode /\ C!Free(C!FreeInode)
<1>1. PICK v \in C!Thread : \A u \in C!Thread \ {v} : pc[u].inode = C!NoFile
  <2>1. \A u \in C!Thread : pc[u].at = "idle" => pc[u].inode = C!NoFile
    BY DEF ThreadsSound, ThreadAt, C!Idle
  <2>2. pc[t].at = "open" /\ pc[t].inode = C!NoFile
    BY DEF ThreadsSound, ThreadAt, Writes, C!At
  <2>3. pc[C!Publish_Thread].at = "idle" \/ pc[C!Main].at = "idle"
    BY Names DEF ThreadsSound, ThreadAt
  <2>4. CASE t = C!FCGI
    BY ONLY <2>1, <2>2, <2>3, <2>4, Names
  <2>5. CASE t # C!FCGI
    <3>1. \A u \in C!Thread \ {C!FCGI} : pc[u].inode = C!NoFile
      BY ONLY <2>1, <2>2, <2>3, <2>5, Names
    <3> QED BY <3>1, Names
  <2> QED BY <2>4, <2>5
<1>2. \A i \in C!Inode : i # counters /\ i # pc[v].inode => C!Free(i)
  BY <1>1, Names DEF C!Free
<1>3. \E i \in C!Inode : C!Free(i)
  <2>1. \E i \in 1 .. 3 : i # counters /\ i # pc[v].inode
    <3>1. 1 \in 1 .. 3 /\ 2 \in 1 .. 3 /\ 3 \in 1 .. 3
      OBVIOUS
    <3> QED BY <3>1
  <2> QED BY <1>2, <2>1, Names
<1>4. \E i \in C!Inode : C!Free(i) /\ \A j \in C!Inode : C!Free(j) => i <= j
  BY ONLY <1>3, Names
<1> QED BY <1>4 DEF C!FreeInode

\* Where a save steps to.
LEMMA SaveThreads ==
  ASSUME ThreadsSound, DiskSound, NEW t \in C!Thread, C!Counting_Save_Counters(t)
  PROVE  ThreadsSound'
<1>1. (ThreadAt(t, pc[t]) /\ up # "starting") \/ pc[t].at = "idle"
  BY DEF ThreadsSound, ThreadAt
<1>2. CASE C!Save_Open(t)
  <2> DEFINE i == IF temporary # C!NoFile THEN temporary ELSE C!FreeInode
  <2>1. /\ C!At(t, "open") /\ up' = up
        /\ C!Go(t, [pc[t] EXCEPT !.at = "write", !.inode = i])
    BY <1>2 DEF C!Save_Open
  <2>2. i \in C!Inode
    BY <2>1, FreeInodeFound DEF DiskSound
  <2> HIDE DEF i
  <2>3. ThreadAt(t, [pc[t] EXCEPT !.at = "write", !.inode = i])
    BY <1>1, <2>1, <2>2 DEF C!At, ThreadAt, Writes, Point, Field
  <2> QED BY <2>1, <2>3, OneSteps
<1>3. CASE C!Save_Write(t)
  <2>1. /\ C!At(t, "write") /\ up' = up
        /\ C!Go(t, [pc[t] EXCEPT !.at = "rename"])
    BY <1>3 DEF C!Save_Write
  <2>2. ThreadAt(t, [pc[t] EXCEPT !.at = "rename"])
    BY <1>1, <2>1 DEF C!At, ThreadAt, Writes, Point, Field
  <2> QED BY <2>1, <2>2, OneSteps
<1>4. CASE C!Save_Rename(t) \/ C!Save_Fails(t)
  <2>1. up' = up /\ C!Go(t, C!Idle)
    BY <1>4 DEF C!Save_Rename, C!Save_Fails
  <2> QED BY <2>1, IdleAt, OneSteps
<1> QED BY <1>2, <1>3, <1>4 DEF C!Counting_Save_Counters

LEMMA PublishThreads ==
  ASSUME ThreadsSound, NEW t \in C!Thread,
         C!Publish_Counting_Build(t) \/ C!Send_LoRa_Payload(t)
  PROVE  ThreadsSound'
<1>1. CASE C!Publish_Counting_Build(t)
  <2>1. /\ up' = up /\ C!Go(t, [C!Idle EXCEPT !.at = "sending"])
        /\ up # "starting" /\ t # C!Main /\ (t = C!Publish_Thread => up = "running")
    BY <1>1, Names DEF C!Publish_Counting_Build, C!MayStart
  <2>2. ThreadAt(t, [C!Idle EXCEPT !.at = "sending"])
    BY <2>1, BusyAt
  <2> QED BY <2>1, <2>2, OneSteps
<1>2. CASE C!Send_LoRa_Payload(t)
  <2>1. up' = up /\ (C!Go(t, C!Idle) \/ C!Go(t, C!Save(TRUE, totals))) /\ pc[t].at = "sending"
    BY <1>2 DEF C!Send_LoRa_Payload, C!At
  <2>2. ThreadAt(t, C!Save(TRUE, totals))
    BY <2>1, SaveAt DEF ThreadsSound, ThreadAt
  <2> QED BY <2>1, <2>2, IdleAt, OneSteps
<1> QED BY <1>1, <1>2

LEMMA RequestThreads ==
  ASSUME ThreadsSound, NEW list,
         \/ C!ACAP_ENDPOINT_settings(list) \/ C!OTA_Counting_Persist(list)
         \/ C!OTA_Counting_Apply \/ C!Reset_All_State
  PROVE  ThreadsSound'
<1>1. CASE C!ACAP_ENDPOINT_settings(list)
  BY <1>1, LoadThreads DEF C!ACAP_ENDPOINT_settings
<1>2. CASE C!OTA_Counting_Persist(list)
  <2>1. up' = up /\ C!Go(C!FCGI, [C!Idle EXCEPT !.at = "apply"]) /\ up # "starting"
    BY <1>2 DEF C!OTA_Counting_Persist
  <2>2. ThreadAt(C!FCGI, [C!Idle EXCEPT !.at = "apply"])
    BY <2>1, BusyAt, Names
  <2> QED BY <2>1, <2>2, Names, OneSteps
<1>3. CASE C!OTA_Counting_Apply
  <2>1. up' = up /\ (C!Load_Counting_Scenes(file) \/ C!Go(C!FCGI, C!Idle))
    BY <1>3 DEF C!OTA_Counting_Apply
  <2> QED BY <2>1, LoadThreads, IdleAt, Names, OneSteps
<1>4. CASE C!Reset_All_State
  <2>1. up' = up /\ C!Go(C!FCGI, C!Save(FALSE, totals')) /\ up # "starting"
    BY <1>4 DEF C!Reset_All_State
  <2> QED BY <2>1, SaveAt, Names, OneSteps
<1> QED BY <1>1, <1>2, <1>3, <1>4

LEMMA ProcessThreads ==
  ASSUME ThreadsSound, C!Shutdown \/ C!Restart \/ C!Counting_Load_Counters
  PROVE  ThreadsSound'
<1>1. CASE C!Shutdown
  <2>1. /\ up = "running" /\ up' = "stopping" /\ C!Go(C!Main, C!Save(FALSE, totals))
        /\ pc[C!Publish_Thread] = C!Idle
    BY <1>1 DEF C!Shutdown
  <2>2. ThreadAt(C!FCGI, pc[C!FCGI])
    BY Names DEF ThreadsSound
  <2>3. /\ DOMAIN pc' = C!Thread /\ pc'[C!FCGI] = pc[C!FCGI]
        /\ pc'[C!Main] = C!Save(FALSE, totals) /\ pc'[C!Publish_Thread] = C!Idle
    BY <2>1, GoTo, Names
  <2>4. ThreadAt(C!FCGI, pc[C!FCGI])'
    BY ONLY <2>1, <2>2, <2>3, Names DEF ThreadAt, Writes, Point, Field
  <2>5. ThreadAt(C!Publish_Thread, pc[C!Publish_Thread])'
    BY ONLY <2>3, Names DEF ThreadAt, Writes, Point, Field, C!Idle
  <2>6. ThreadAt(C!Main, pc[C!Main])'
    BY ONLY <2>1, <2>3, Names DEF ThreadAt, Writes, Point, Field, C!Save
  <2> QED BY <2>1, <2>3, <2>4, <2>5, <2>6, Names DEF ThreadsSound
<1>2. CASE C!Restart
  <2>1. up' = "starting" /\ pc' = [t \in C!Thread |-> C!Idle]
    BY <1>2 DEF C!Restart
  <2>2. \A t \in C!Thread : ThreadAt(t, pc[t])'
    BY <2>1, Names DEF ThreadAt, Writes, Point, Field, C!Idle
  <2> QED BY <2>1, <2>2, Names DEF ThreadsSound
<1>3. CASE C!Counting_Load_Counters
  <2>1. up = "starting" /\ up' = "running" /\ pc' = pc
    BY <1>3 DEF C!Counting_Load_Counters
  <2>2. \A t \in C!Thread : ThreadAt(t, pc[t])'
    BY <2>1, Names DEF ThreadsSound, ThreadAt, Writes, Point, Field, C!Idle
  <2> QED BY <2>1, <2>2, Names DEF ThreadsSound
<1> QED BY <1>1, <1>2, <1>3

-----------------------------------------------------------------------------
(***************************************************************************)
(* What the totals, their snapshots and the history may be.                *)
(***************************************************************************)
LEMMA NoneWithin ==
  ASSUME NEW n
  PROVE  Within(C!NoTotals, n)
BY DEF Within, C!NoTotals

LEMMA FewerWithin ==
  ASSUME NEW n \in Nat, NEW m \in Nat, n <= m, NEW f, Within(f, n)
  PROVE  Within(f, m)
BY DEF Within

\* What one thread's step leaves: the bound is the same.
LEMMA SnapshotsStay ==
  ASSUME SnapshotsSound, tracks' = tracks, Within(totals', tracks), Within(floor', tracks),
         \A i \in C!Inode : Within(inode'[i].totals, tracks),
         \A t \in C!Thread : Within(pc'[t].totals, tracks),
         crossed' \in [1 .. MaxScenes -> 0 .. tracks]
  PROVE  SnapshotsSound'
<1>1. /\ Within(totals, tracks)' /\ Within(floor, tracks)'
      /\ \A i \in C!Inode : Within(inode[i].totals, tracks)'
      /\ \A t \in C!Thread : Within(pc[t].totals, tracks)'
  BY DEF Within
<1> QED BY <1>1, Names DEF SnapshotsSound

LEMMA GoWithin ==
  ASSUME SnapshotsSound, ThreadsSound, NEW t \in C!Thread, NEW p, C!Go(t, p),
         Within(p.totals, tracks)
  PROVE  \A u \in C!Thread : Within(pc'[u].totals, tracks)
BY GoTo DEF SnapshotsSound

LEMMA KeptWithin ==
  ASSUME SnapshotsSound, NEW list \in Seq(C!Scene)
  PROVE  Within(C!Kept(list), tracks) /\ DOMAIN C!Kept(list) = C!Ids(list)
<1>1. C!Ids(list) \subseteq SceneId
  BY SceneElements
<1>2. tracks \in Nat /\ Within(totals, tracks)
  BY DEF SnapshotsSound
<1>3. \A id \in C!Ids(list) : C!TotalOf(totals, id) \in 0 .. tracks
  BY <1>2 DEF C!TotalOf, Within
<1> QED BY <1>1, <1>3 DEF C!Kept, Within

LEMMA FloorWithin ==
  ASSUME SnapshotsSound, NEW list
  PROVE  Within(C!FloorOf(list), tracks)
BY DEF SnapshotsSound, C!FloorOf, Within

LEMMA InheritedWithin ==
  ASSUME SnapshotsSound, ListsSound, NEW list
  PROVE  C!Inherited(list) \in [1 .. MaxScenes -> 0 .. tracks]
<1>1. DOMAIN crossed = 1 .. MaxScenes /\ \A m \in 1 .. MaxScenes : crossed[m] \in 0 .. tracks
  BY DEF SnapshotsSound
<1>2. \A o \in C!Elements(g_scenes) : o.made \in 1 .. MaxScenes
  BY SceneElements DEF ListsSound
<1>3. ASSUME NEW m \in 1 .. MaxScenes,
             \E s \in C!Elements(list) : s.made = m /\ s.id \in C!Ids(g_scenes)
      PROVE  LET s == CHOOSE s \in C!Elements(list) :
                        s.made = m /\ s.id \in C!Ids(g_scenes)
             IN crossed[(CHOOSE o \in C!Elements(g_scenes) : o.id = s.id).made] \in 0 .. tracks
  <2> DEFINE s == CHOOSE s \in C!Elements(list) : s.made = m /\ s.id \in C!Ids(g_scenes)
  <2>1. s.id \in C!Ids(g_scenes)
    BY <1>3
  <2> HIDE DEF s
  <2>2. \E o \in C!Elements(g_scenes) : o.id = s.id
    BY <2>1 DEF C!Ids
  <2>3. (CHOOSE o \in C!Elements(g_scenes) : o.id = s.id) \in C!Elements(g_scenes)
    BY ONLY <2>2
  <2>4. crossed[(CHOOSE o \in C!Elements(g_scenes) : o.id = s.id).made] \in 0 .. tracks
    BY ONLY <1>1, <1>2, <2>3
  <2> QED BY <2>4 DEF s
<1>4. \A m \in 1 .. MaxScenes : C!Inherited(list)[m] \in 0 .. tracks
  BY <1>1, <1>3 DEF C!Inherited
<1>5. C!Inherited(list) = [m \in 1 .. MaxScenes |-> C!Inherited(list)[m]]
  BY <1>1 DEF C!Inherited
<1> QED BY <1>4, <1>5

LEMMA LoadWithin ==
  ASSUME SnapshotsSound, ListsSound, ThreadsSound, NEW list \in Seq(C!Scene),
         C!Load_Counting_Scenes(list), tracks' = tracks, inode' = inode
  PROVE  SnapshotsSound'
<1>1. CASE C!Counting_Validate_Config(list)
  <2>1. /\ totals' = C!Kept(list) /\ floor' = C!FloorOf(list) /\ crossed' = C!Inherited(list)
        /\ C!Go(C!FCGI, IF up # "starting" THEN C!Save(FALSE, C!Kept(list)) ELSE C!Idle)
    BY <1>1 DEF C!Load_Counting_Scenes, C!SavesOnLoad
  <2>2. Within((IF up # "starting" THEN C!Save(FALSE, C!Kept(list)) ELSE C!Idle).totals, tracks)
    BY KeptWithin, NoneWithin DEF C!Save, C!Idle
  <2>3. \A u \in C!Thread : Within(pc'[u].totals, tracks)
    BY <2>1, <2>2, GoWithin, Names
  <2> QED BY <2>1, <2>3, KeptWithin, FloorWithin, InheritedWithin, SnapshotsStay
        DEF SnapshotsSound
<1>2. CASE ~C!Counting_Validate_Config(list)
  BY <1>2, SnapshotsStay DEF C!Load_Counting_Scenes, SnapshotsSound
<1> QED BY <1>1, <1>2

LEMMA TrackWithin ==
  ASSUME ListsSound, SnapshotsSound, C!Counting_Process_Completed_Track,
         C!ConstantsAssumption
  PROVE  SnapshotsSound'
<1>1. /\ tracks \in Nat /\ tracks' = tracks + 1 /\ tracks < MaxTracks /\ MaxTracks \in Nat
      /\ floor' = floor /\ inode' = inode /\ pc' = pc
  BY DEF C!Counting_Process_Completed_Track, SnapshotsSound, C!ConstantsAssumption, C!disk
<1>2. PICK ids \in SUBSET DOMAIN totals :
         /\ totals' = [id \in DOMAIN totals |-> totals[id] + (IF id \in ids THEN 1 ELSE 0)]
         /\ crossed' = [m \in DOMAIN crossed |->
              IF \E s \in C!Elements(g_scenes) : s.id \in ids /\ s.made = m
              THEN crossed[m] + 1 ELSE crossed[m]]
  BY DEF C!Counting_Process_Completed_Track
<1>3. Within(totals', tracks')
  BY ONLY <1>1, <1>2, SnapshotsSound DEF SnapshotsSound, Within
<1>4. crossed' \in [1 .. MaxScenes -> 0 .. tracks']
  <2>1. DOMAIN crossed = 1 .. MaxScenes /\ \A m \in 1 .. MaxScenes : crossed[m] \in 0 .. tracks
    BY DEF SnapshotsSound
  <2>2. \A m \in 1 .. MaxScenes : crossed[m] \in 0 .. tracks' /\ crossed[m] + 1 \in 0 .. tracks'
    BY ONLY <1>1, <2>1
  <2> QED BY ONLY <1>2, <2>1, <2>2
<1>5. /\ Within(floor', tracks') /\ \A i \in C!Inode : Within(inode'[i].totals, tracks')
      /\ \A t \in C!Thread : Within(pc'[t].totals, tracks')
  BY <1>1, FewerWithin DEF SnapshotsSound
<1>6. /\ Within(totals, tracks)' /\ Within(floor, tracks)'
      /\ \A i \in C!Inode : Within(inode[i].totals, tracks)'
      /\ \A t \in C!Thread : Within(pc[t].totals, tracks)'
  BY <1>3, <1>5 DEF Within
<1>7. tracks' \in 0 .. MaxTracks
  BY <1>1
<1> QED BY <1>4, <1>6, <1>7, Names DEF SnapshotsSound

\* What is written to disk, and what keeps its name there.
LEMMA SaveWithin ==
  ASSUME SnapshotsSound, ThreadsSound, DiskSound, NEW t \in C!Thread,
         C!Counting_Save_Counters(t)
  PROVE  SnapshotsSound'
<1>1. /\ tracks' = tracks /\ totals' = totals /\ crossed' = crossed
      /\ Within(pc[t].totals, tracks) /\ DOMAIN pc[t] = Field
      /\ \A i \in C!Inode : Within(inode[i].totals, tracks)
      /\ \A u \in C!Thread : Within(pc[u].totals, tracks)
  BY DEF C!Counting_Save_Counters, C!Save_Open, C!Save_Write, C!Save_Rename, C!Save_Fails,
         C!bounds, C!history, SnapshotsSound, ThreadsSound, ThreadAt
<1>2. DOMAIN inode = C!Inode
  BY DEF DiskSound
<1>3. Within(floor', tracks)
  BY <1>1 DEF C!Counting_Save_Counters, C!Save_Open, C!Save_Write, C!Save_Rename, C!Save_Fails,
              C!history, SnapshotsSound
<1>4. \A u \in C!Thread : Within(pc'[u].totals, tracks)
  <2>1. CASE C!Save_Open(t) \/ C!Save_Write(t)
    <3>1. PICK i : \/ C!Go(t, [pc[t] EXCEPT !.at = "write", !.inode = i])
                   \/ C!Go(t, [pc[t] EXCEPT !.at = "rename"])
      BY <2>1 DEF C!Save_Open, C!Save_Write
    <3>2. /\ [pc[t] EXCEPT !.at = "write", !.inode = i].totals = pc[t].totals
          /\ [pc[t] EXCEPT !.at = "rename"].totals = pc[t].totals
      BY <1>1 DEF Field
    <3> QED BY <1>1, <3>1, <3>2, GoWithin
  <2>2. CASE C!Save_Rename(t) \/ C!Save_Fails(t)
    <3>1. C!Go(t, C!Idle) /\ Within(C!Idle.totals, tracks)
      BY <2>2, NoneWithin DEF C!Save_Rename, C!Save_Fails, C!Idle
    <3> QED BY <3>1, GoWithin
  <2> QED BY <2>1, <2>2 DEF C!Counting_Save_Counters
<1>5. \A i \in C!Inode : Within(inode'[i].totals, tracks)
  <2>1. Within(C!Empty.totals, tracks)
    BY NoneWithin DEF C!Empty
  <2>2. \A i \in C!Inode : inode'[i] = inode[i] \/ inode'[i] = C!Empty
                             \/ inode'[i] = [whole |-> TRUE, totals |-> pc[t].totals]
    BY <1>2 DEF C!Counting_Save_Counters, C!Save_Open, C!Save_Write, C!Save_Rename,
                C!Save_Fails, C!Named
  <2> QED BY <1>1, <2>1, <2>2
<1> QED BY <1>1, <1>3, <1>4, <1>5, SnapshotsStay DEF SnapshotsSound

LEMMA PublishWithin ==
  ASSUME SnapshotsSound, ThreadsSound, NEW t \in C!Thread,
         C!Publish_Counting_Build(t) \/ C!Send_LoRa_Payload(t)
  PROVE  SnapshotsSound'
<1>1. /\ tracks' = tracks /\ totals' = totals /\ crossed' = crossed /\ floor' = floor
      /\ inode' = inode
  BY DEF C!Publish_Counting_Build, C!Send_LoRa_Payload, C!bounds, C!history, C!disk
<1>2. PICK p : C!Go(t, p) /\ (p.totals = C!NoTotals \/ p.totals = totals)
  <2>1. C!Idle.totals = C!NoTotals /\ [C!Idle EXCEPT !.at = "sending"].totals = C!NoTotals
    BY DEF C!Idle
  <2>2. C!Save(TRUE, totals).totals = totals
    BY DEF C!Save
  <2> QED BY <2>1, <2>2 DEF C!Publish_Counting_Build, C!Send_LoRa_Payload
<1>3. \A u \in C!Thread : Within(pc'[u].totals, tracks)
  BY <1>2, NoneWithin, GoWithin DEF SnapshotsSound
<1> QED BY <1>1, <1>3, SnapshotsStay DEF SnapshotsSound

LEMMA RequestWithin ==
  ASSUME C!ConstantsAssumption, ListsSound, SnapshotsSound, ThreadsSound, NEW list, Offered(list),
         \/ C!ACAP_ENDPOINT_settings(list) \/ C!OTA_Counting_Persist(list)
         \/ C!OTA_Counting_Apply \/ C!Reset_All_State
  PROVE  SnapshotsSound'
<1>1. CASE C!ACAP_ENDPOINT_settings(list)
  <2>1. C!Load_Counting_Scenes(list) /\ tracks' = tracks /\ inode' = inode
    BY <1>1 DEF C!ACAP_ENDPOINT_settings, C!disk
  <2> QED BY <2>1, LoadWithin DEF Offered
<1>2. CASE C!OTA_Counting_Persist(list)
  <2>1. /\ C!Go(C!FCGI, [C!Idle EXCEPT !.at = "apply"]) /\ tracks' = tracks /\ inode' = inode
        /\ totals' = totals /\ floor' = floor /\ crossed' = crossed
    BY <1>2 DEF C!OTA_Counting_Persist, C!disk, C!history
  <2>2. Within([C!Idle EXCEPT !.at = "apply"].totals, tracks)
    BY NoneWithin DEF C!Idle
  <2> QED BY <2>1, <2>2, GoWithin, Names, SnapshotsStay DEF SnapshotsSound
<1>3. CASE C!OTA_Counting_Apply
  <2>1. tracks' = tracks /\ inode' = inode
    BY <1>3 DEF C!OTA_Counting_Apply, C!disk, C!bounds
  <2>2. CASE C!Load_Counting_Scenes(file)
    BY <2>1, <2>2, LoadWithin DEF ListsSound
  <2>3. CASE C!Go(C!FCGI, C!Idle) /\ UNCHANGED <<g_scenes, totals, floor, crossed>>
    <3>1. Within(C!Idle.totals, tracks)
      BY NoneWithin DEF C!Idle
    <3> QED BY <2>1, <2>3, <3>1, GoWithin, Names, SnapshotsStay DEF SnapshotsSound
  <2> QED BY <1>3, <2>2, <2>3 DEF C!OTA_Counting_Apply
<1>4. CASE C!Reset_All_State
  <2>1. /\ C!Go(C!FCGI, C!Save(FALSE, totals')) /\ tracks' = tracks /\ inode' = inode
        /\ totals' = [id \in DOMAIN totals |-> 0] /\ floor' = C!NoTotals
        /\ crossed' = [m \in DOMAIN crossed |->
             IF \E s \in C!Elements(g_scenes) : s.made = m THEN 0 ELSE crossed[m]]
    BY <1>4 DEF C!Reset_All_State, C!disk
  <2>2. Within(totals', tracks)
    BY <2>1 DEF SnapshotsSound, Within
  <2>3. Within(C!Save(FALSE, totals').totals, tracks)
    BY <2>2 DEF C!Save
  <2>4. crossed' \in [1 .. MaxScenes -> 0 .. tracks]
    BY <2>1 DEF SnapshotsSound
  <2>5. \A i \in C!Inode : Within(inode'[i].totals, tracks)
    BY <2>1 DEF SnapshotsSound
  <2> QED BY <2>1, <2>2, <2>3, <2>4, <2>5, GoWithin, NoneWithin, Names, SnapshotsStay
<1> QED BY <1>1, <1>2, <1>3, <1>4

LEMMA ProcessWithin ==
  ASSUME ListsSound, SnapshotsSound, ThreadsSound, DiskSound,
         DOMAIN totals' \subseteq SceneId,
         C!Shutdown \/ C!Restart \/ C!Counting_Load_Counters
  PROVE  SnapshotsSound'
<1>1. /\ tracks' = tracks /\ crossed' = crossed /\ inode' = inode /\ tracks \in Nat
      /\ \A i \in C!Inode : Within(inode'[i].totals, tracks)
  <2>1. tracks' = tracks /\ crossed' = crossed /\ inode' = inode
    BY DEF C!Shutdown, C!Restart, C!Counting_Load_Counters, C!disk, C!bounds, C!history
  <2> QED BY <2>1 DEF SnapshotsSound
<1>2. CASE C!Shutdown
  <2>1. C!Go(C!Main, C!Save(FALSE, totals)) /\ totals' = totals /\ floor' = floor
    BY <1>2 DEF C!Shutdown, C!history
  <2>2. Within(C!Save(FALSE, totals).totals, tracks)
    BY DEF C!Save, SnapshotsSound
  <2> QED BY <1>1, <2>1, <2>2, GoWithin, Names, SnapshotsStay DEF SnapshotsSound
<1>3. CASE C!Restart
  <2>1. /\ pc' = [t \in C!Thread |-> C!Idle] /\ totals' = [id \in DOMAIN totals' |-> 0]
        /\ floor' = C!FloorOf(g_scenes')
    BY <1>3 DEF C!Restart
  <2>2. Within(totals', tracks)
    BY <1>1, <2>1 DEF Within
  <2>3. Within(floor', tracks)
    BY <2>1, FloorWithin
  <2>4. \A t \in C!Thread : Within(pc'[t].totals, tracks)
    BY <2>1, NoneWithin DEF C!Idle
  <2> QED BY <1>1, <2>2, <2>3, <2>4, SnapshotsStay DEF SnapshotsSound
<1>4. CASE C!Counting_Load_Counters
  <2> DEFINE saved == IF counters = C!NoFile \/ ~inode[counters].whole THEN C!NoTotals
                      ELSE inode[counters].totals
  <2>1. /\ totals' = [id \in DOMAIN totals |-> IF id \in DOMAIN saved THEN saved[id]
                                              ELSE totals[id]]
        /\ pc' = pc /\ floor' = floor
    BY <1>4 DEF C!Counting_Load_Counters, C!history
  <2>2. Within(saved, tracks) /\ Within(totals, tracks)
    BY NoneWithin DEF SnapshotsSound, DiskSound
  <2> HIDE DEF saved
  <2>3. Within(totals', tracks)
    BY ONLY <2>1, <2>2 DEF Within
  <2> QED BY <1>1, <2>1, <2>3, SnapshotsStay DEF SnapshotsSound
<1> QED BY <1>2, <1>3, <1>4

-----------------------------------------------------------------------------
(***************************************************************************)
(* Totals and crossings.                                                   *)
(***************************************************************************)
ScenesOf(t, f, g) == C!Elements(t) \cup C!Elements(f) \cup C!Elements(g)

LEMMA CountsFrom ==
  ASSUME restarts' = 0 => \A s \in C!Elements(g_scenes') : totals'[s.id] = crossed'[s.made],
         \A m \in 1 .. MaxScenes : m > made' => crossed'[m] = 0,
         restarts' = 0 => \A s \in ScenesOf(tree', file', g_scenes') :
                            s \notin C!Elements(g_scenes') => crossed'[s.made] = 0
  PROVE  CountsSound'
<1>1. C!TotalsExact'
  BY DEF C!TotalsExact, C!Elements
<1>2. NeverCrossed'
  BY DEF NeverCrossed, Scenes, ScenesOf, C!Elements
<1> QED BY <1>1, <1>2 DEF CountsSound

\* What the invariant says of the scenes there are.
LEMMA CountsNow ==
  ASSUME C!ConstantsAssumption, ListsSound, SnapshotsSound, CountsSound
  PROVE  /\ restarts = 0 => \A s \in C!Elements(g_scenes) : totals[s.id] = crossed[s.made]
         /\ \A m \in 1 .. MaxScenes : m > made => crossed[m] = 0
         /\ restarts = 0 => \A s \in Scenes : s \notin C!Elements(g_scenes) => crossed[s.made] = 0
         /\ \A s \in Scenes : s.made \in 1 .. MaxScenes /\ s.made <= made
         /\ \A s, o \in Scenes : s.made = o.made => s = o
         /\ C!Elements(g_scenes) \subseteq Scenes
         /\ DOMAIN totals = C!Ids(g_scenes) /\ DOMAIN crossed = 1 .. MaxScenes
         /\ made \in Nat
<1>1. \A s \in Scenes : s.made \in 1 .. MaxScenes
  BY SceneElements DEF ListsSound, Scenes
<1>2. /\ restarts = 0 => \A s \in C!Elements(g_scenes) : totals[s.id] = crossed[s.made]
      /\ \A m \in 1 .. MaxScenes : m > made => crossed[m] = 0
      /\ restarts = 0 => \A s \in Scenes : s \notin C!Elements(g_scenes) => crossed[s.made] = 0
  BY DEF CountsSound, C!TotalsExact, NeverCrossed
<1>3. /\ \A s \in Scenes : s.made <= made
      /\ \A s, o \in Scenes : s.made = o.made => s = o
      /\ C!Elements(g_scenes) \subseteq Scenes
      /\ DOMAIN totals = C!Ids(g_scenes) /\ DOMAIN crossed = 1 .. MaxScenes
      /\ made \in Nat
  BY DEF ListsSound, ScenesApart, Scenes, SnapshotsSound
<1> QED BY <1>1, <1>2, <1>3

LEMMA CountsSame ==
  ASSUME C!ConstantsAssumption, ListsSound, SnapshotsSound, CountsSound,
         totals' = totals, crossed' = crossed, made' = made, g_scenes' = g_scenes,
         restarts' = restarts,
         ScenesOf(tree', file', g_scenes') \subseteq Scenes
  PROVE  CountsSound'
BY CountsNow, CountsFrom

LEMMA TrackCounts ==
  ASSUME C!ConstantsAssumption, ListsSound, SnapshotsSound, CountsSound,
         C!Counting_Process_Completed_Track
  PROVE  CountsSound'
<1>1. /\ made' = made /\ restarts' = restarts
      /\ tree' = tree /\ file' = file /\ g_scenes' = g_scenes
  BY DEF C!Counting_Process_Completed_Track
<1>2. PICK ids \in SUBSET DOMAIN totals :
         /\ totals' = [id \in DOMAIN totals |-> totals[id] + (IF id \in ids THEN 1 ELSE 0)]
         /\ crossed' = [m \in DOMAIN crossed |->
              IF \E s \in C!Elements(g_scenes) : s.id \in ids /\ s.made = m
              THEN crossed[m] + 1 ELSE crossed[m]]
  BY DEF C!Counting_Process_Completed_Track
<1>3. \A s \in C!Elements(g_scenes) : s.id \in C!Ids(g_scenes)
  BY DEF C!Ids
<1>4. \A m \in 1 .. MaxScenes : crossed[m] \in Nat
  BY DEF SnapshotsSound
<1>5. ASSUME NEW s \in C!Elements(g_scenes)
      PROVE  crossed'[s.made] = IF s.id \in ids THEN crossed[s.made] + 1 ELSE crossed[s.made]
  <2>1. s.made \in DOMAIN crossed
    BY CountsNow
  <2>2. (\E o \in C!Elements(g_scenes) : o.id \in ids /\ o.made = s.made) <=> s.id \in ids
    BY CountsNow
  <2> QED BY ONLY <1>2, <2>1, <2>2
<1>6. ASSUME restarts = 0, NEW s \in C!Elements(g_scenes)
      PROVE  totals'[s.id] = crossed'[s.made]
  <2>1. totals[s.id] = crossed[s.made] /\ s.id \in DOMAIN totals /\ crossed[s.made] \in Nat
    BY <1>3, <1>4, <1>6, CountsNow
  <2> QED BY ONLY <1>2, <1>5, <2>1
<1>7. ASSUME NEW m \in 1 .. MaxScenes, \A s \in C!Elements(g_scenes) : s.made # m
      PROVE  crossed'[m] = crossed[m]
  BY <1>2, <1>7, CountsNow
<1>8. \A m \in 1 .. MaxScenes : m > made => crossed'[m] = 0
  <2>1. \A m \in 1 .. MaxScenes : m > made => \A s \in C!Elements(g_scenes) : s.made # m
    BY CountsNow
  <2> QED BY <1>7, <2>1, CountsNow
<1>9. ASSUME restarts = 0, NEW s \in Scenes, s \notin C!Elements(g_scenes)
      PROVE  crossed'[s.made] = 0
  <2>1. \A o \in C!Elements(g_scenes) : o.made # s.made
    BY <1>9, CountsNow
  <2> QED BY <1>7, <1>9, <2>1, CountsNow
<1> QED BY <1>1, <1>6, <1>8, <1>9, CountsFrom DEF Scenes, ScenesOf

\* A list takes the place of the settings, of the file and of what is counted for.
LEMMA LoadCounts ==
  ASSUME C!ConstantsAssumption, ListsSound, SnapshotsSound, CountsSound,
         NEW list \in Seq(C!Scene), restarts' = restarts, made' \in Nat, made <= made',
         \A s \in C!Elements(list) : s.made <= made' /\ (s \in Scenes \/ s.made = made + 1),
         \A s, o \in Scenes \cup C!Elements(list) : s.made = o.made => s = o,
         tree' = list, file' = list, g_scenes' = list,
         totals' = C!Kept(list), crossed' = C!Inherited(list)
  PROVE  CountsSound'
<1>1. \A s \in C!Elements(list) : s.id \in C!Ids(list) /\ s.made \in 1 .. MaxScenes
  BY SceneElements
<1>2. ASSUME NEW m \in 1 .. MaxScenes,
             ~ \E s \in C!Elements(list) : s.made = m /\ s.id \in C!Ids(g_scenes)
      PROVE  crossed'[m] = crossed[m]
  BY <1>2, CountsNow DEF C!Inherited
<1>3. ASSUME restarts = 0, NEW s \in C!Elements(list)
      PROVE  totals'[s.id] = crossed'[s.made]
  <2>1. totals'[s.id] = C!TotalOf(totals, s.id)
    BY <1>1 DEF C!Kept
  <2>2. CASE s.id \in C!Ids(g_scenes)
    <3>1. (CHOOSE o \in C!Elements(list) : o.made = s.made /\ o.id \in C!Ids(g_scenes)) = s
      <4>1. \A o \in C!Elements(list) : o.made = s.made => o = s
        OBVIOUS
      <4>2. s.made = s.made /\ s.id \in C!Ids(g_scenes)
        BY <2>2
      <4> QED BY ONLY <4>1, <4>2, s \in C!Elements(list)
    <3>2. crossed'[s.made] = crossed[(CHOOSE o \in C!Elements(g_scenes) : o.id = s.id).made]
      <4>1. \E o \in C!Elements(list) : o.made = s.made /\ o.id \in C!Ids(g_scenes)
        BY <2>2
      <4>2. s.made \in DOMAIN crossed
        BY <1>1, CountsNow
      <4>3. crossed'[s.made] =
              LET o1 == CHOOSE o \in C!Elements(list) :
                          o.made = s.made /\ o.id \in C!Ids(g_scenes)
              IN crossed[(CHOOSE o \in C!Elements(g_scenes) : o.id = o1.id).made]
        BY <4>1, <4>2 DEF C!Inherited
      <4> QED BY ONLY <3>1, <4>3
    <3> DEFINE o == CHOOSE o \in C!Elements(g_scenes) : o.id = s.id
    <3>3. o \in C!Elements(g_scenes) /\ o.id = s.id
      BY <2>2 DEF C!Ids
    <3> HIDE DEF o
    <3>4. totals[o.id] = crossed[o.made]
      BY <1>3, <3>3, CountsNow
    <3>5. C!TotalOf(totals, s.id) = totals[s.id]
      BY <2>2, CountsNow DEF C!TotalOf
    <3> QED BY <2>1, <3>2, <3>3, <3>4, <3>5 DEF o
  <2>3. CASE s.id \notin C!Ids(g_scenes)
    <3>1. C!TotalOf(totals, s.id) = 0
      BY <2>3, CountsNow DEF C!TotalOf
    <3>2. crossed'[s.made] = crossed[s.made]
      BY <1>1, <1>2, <2>3
    <3>3. s \notin C!Elements(g_scenes)
      BY <2>3 DEF C!Ids
    <3>4. CASE s \in Scenes
      BY <1>3, <2>1, <3>1, <3>2, <3>3, <3>4, CountsNow
    <3>5. CASE s \notin Scenes
      <4>1. s.made = made + 1
        BY <3>5
      <4>2. crossed[s.made] = 0
        BY <1>1, <4>1, CountsNow
      <4> QED BY <2>1, <3>1, <3>2, <4>2
    <3> QED BY <3>4, <3>5
  <2> QED BY <2>2, <2>3
<1>4. ASSUME NEW m \in 1 .. MaxScenes, m > made'
      PROVE  crossed'[m] = 0
  <2>1. \A s \in C!Elements(list) : s.made # m
    BY <1>4
  <2>2. crossed[m] = 0
    BY <1>4, CountsNow
  <2> QED BY <1>2, <2>1, <2>2
<1>5. ScenesOf(tree', file', g_scenes') = C!Elements(g_scenes')
  BY DEF ScenesOf
<1> QED BY <1>3, <1>4, <1>5, CountsFrom

\* A list that is only offered so far.
LEMMA OfferCounts ==
  ASSUME C!ConstantsAssumption, ListsSound, SnapshotsSound, CountsSound,
         NEW list, Offered(list), restarts' = restarts, made' = C!Made(list),
         tree' = list \/ tree' = tree, file' = list, g_scenes' = g_scenes,
         totals' = totals, crossed' = crossed
  PROVE  CountsSound'
<1>1. /\ made' \in Nat /\ made <= made'
      /\ \A s \in C!Elements(list) : s \in Scenes \/ s.made = made + 1
  BY OfferedApart, C!ConstantsAssumption DEF C!ConstantsAssumption
<1>2. \A s \in ScenesOf(tree', file', g_scenes') : s \in Scenes \/ s \in C!Elements(list)
  BY DEF ScenesOf, Scenes
<1>3. \A s \in C!Elements(list) : s.made \in 1 .. MaxScenes
  BY SceneElements DEF Offered
<1>4. ASSUME restarts = 0, NEW s \in ScenesOf(tree', file', g_scenes'),
             s \notin C!Elements(g_scenes)
      PROVE  crossed[s.made] = 0
  <2>1. CASE s \in Scenes
    BY <1>4, <2>1, CountsNow
  <2>2. CASE s \notin Scenes
    <3>1. s.made = made + 1 /\ s.made \in 1 .. MaxScenes
      BY <1>1, <1>2, <1>3, <2>2
    <3> QED BY <3>1, CountsNow
  <2> QED BY <2>1, <2>2
<1>5. \A m \in 1 .. MaxScenes : m > made' => crossed'[m] = 0
  BY <1>1, CountsNow
<1> QED BY <1>4, <1>5, CountsNow, CountsFrom

LEMMA RequestCounts ==
  ASSUME C!ConstantsAssumption, ListsSound, SnapshotsSound, CountsSound, NEW list, Offered(list),
         C!ACAP_ENDPOINT_settings(list) \/ C!OTA_Counting_Persist(list)
  PROVE  CountsSound'
<1>1. restarts' = restarts /\ made' = C!Made(list) /\ file' = list /\ (tree' = list \/ tree' = tree)
  BY DEF C!ACAP_ENDPOINT_settings, C!OTA_Counting_Persist
<1>2. CASE g_scenes' = g_scenes /\ totals' = totals /\ crossed' = crossed
  BY <1>1, <1>2, OfferCounts
<1>3. CASE /\ tree' = list /\ g_scenes' = list /\ totals' = C!Kept(list)
           /\ crossed' = C!Inherited(list)
  <2>1. /\ made' \in Nat /\ made <= made' /\ list \in Seq(C!Scene)
        /\ \A s \in C!Elements(list) : s.made <= made' /\ (s \in Scenes \/ s.made = made + 1)
        /\ \A s, o \in Scenes \cup C!Elements(list) : s.made = o.made => s = o
    BY <1>1, OfferedApart DEF Offered, C!ConstantsAssumption
  <2> QED BY <1>1, <1>3, <2>1, LoadCounts
<1> QED BY <1>2, <1>3 DEF C!ACAP_ENDPOINT_settings, C!OTA_Counting_Persist,
                          C!Load_Counting_Scenes, C!history

LEMMA ApplyCounts ==
  ASSUME C!ConstantsAssumption, ListsSound, SnapshotsSound, CountsSound,
         C!OTA_Counting_Apply
  PROVE  CountsSound'
<1>1. restarts' = restarts /\ made' = made /\ file' = file /\ tree' = file
  BY DEF C!OTA_Counting_Apply, C!bounds
<1>2. C!Elements(file) \subseteq Scenes /\ C!Elements(g_scenes) \subseteq Scenes
  BY DEF Scenes
<1>3. CASE g_scenes' = g_scenes /\ totals' = totals /\ crossed' = crossed
  <2>1. ScenesOf(tree', file', g_scenes') \subseteq Scenes
    BY <1>1, <1>2, <1>3 DEF ScenesOf
  <2> QED BY <1>1, <1>3, <2>1, CountsSame
<1>4. CASE g_scenes' = file /\ totals' = C!Kept(file) /\ crossed' = C!Inherited(file)
  <2>1. /\ made' \in Nat /\ made <= made' /\ file \in Seq(C!Scene)
        /\ \A s \in C!Elements(file) : s.made <= made' /\ (s \in Scenes \/ s.made = made + 1)
        /\ \A s, o \in Scenes \cup C!Elements(file) : s.made = o.made => s = o
    BY <1>1, <1>2, CountsNow DEF ListsSound
  <2> QED BY <1>1, <1>4, <2>1, LoadCounts
<1> QED BY <1>3, <1>4 DEF C!OTA_Counting_Apply, C!Load_Counting_Scenes

LEMMA ResetCounts ==
  ASSUME C!ConstantsAssumption, ListsSound, SnapshotsSound, CountsSound, C!Reset_All_State
  PROVE  CountsSound'
<1>1. /\ restarts' = restarts /\ made' = made /\ file' = file /\ tree' = tree
      /\ g_scenes' = g_scenes /\ totals' = [id \in DOMAIN totals |-> 0]
      /\ crossed' = [m \in DOMAIN crossed |->
           IF \E s \in C!Elements(g_scenes) : s.made = m THEN 0 ELSE crossed[m]]
  BY DEF C!Reset_All_State
<1>2. \A s \in C!Elements(g_scenes) : totals'[s.id] = 0 /\ crossed'[s.made] = 0
  <2>1. \A s \in C!Elements(g_scenes) : s.id \in DOMAIN totals /\ s.made \in DOMAIN crossed
    BY CountsNow DEF C!Ids
  <2> QED BY ONLY <1>1, <2>1
<1>3. \A m \in 1 .. MaxScenes : crossed[m] = 0 => crossed'[m] = 0
  BY <1>1, CountsNow
<1>4. ScenesOf(tree', file', g_scenes') = Scenes
  BY <1>1 DEF ScenesOf, Scenes
<1> QED BY <1>1, <1>2, <1>3, <1>4, CountsNow, CountsFrom

LEMMA ProcessCounts ==
  ASSUME C!ConstantsAssumption, ListsSound, SnapshotsSound, CountsSound, BoundsSound,
         C!Restart \/ C!Counting_Load_Counters
  PROVE  CountsSound'
<1>1. restarts' # 0 /\ made' = made /\ crossed' = crossed
  BY DEF C!Restart, C!Counting_Load_Counters, BoundsSound, C!bounds, C!history
<1> QED BY <1>1, CountsNow, CountsFrom

LEMMA OtherCounts ==
  ASSUME C!ConstantsAssumption, ListsSound, SnapshotsSound, CountsSound, NEW t,
         \/ C!Publish_Counting_Build(t) \/ C!Send_LoRa_Payload(t)
         \/ C!Counting_Save_Counters(t) \/ C!Shutdown
  PROVE  CountsSound'
<1>1. /\ restarts' = restarts /\ made' = made /\ file' = file /\ tree' = tree
      /\ g_scenes' = g_scenes /\ totals' = totals /\ crossed' = crossed
  BY DEF C!Publish_Counting_Build, C!Send_LoRa_Payload, C!Counting_Save_Counters, C!Shutdown,
         C!Save_Open, C!Save_Write, C!Save_Rename, C!Save_Fails, C!bounds, C!history
<1>2. ScenesOf(tree', file', g_scenes') \subseteq Scenes
  BY <1>1 DEF ScenesOf, Scenes
<1> QED BY <1>1, <1>2, CountsSame

-----------------------------------------------------------------------------
(***************************************************************************)
(* The files.                                                              *)
(***************************************************************************)
LEMMA DiskSame ==
  ASSUME DiskSound, inode' = inode, counters' = counters, temporary' = temporary,
         raced' = raced
  PROVE  DiskSound'
BY Names DEF DiskSound

LEMMA SaveDisk ==
  ASSUME ThreadsSound, DiskSound, NEW t \in C!Thread, C!Counting_Save_Counters(t)
  PROVE  DiskSound'
<1>1. /\ DOMAIN inode = C!Inode /\ \A i \in C!Inode : inode[i].whole \in BOOLEAN
      /\ counters \in C!Inode \cup {C!NoFile} /\ temporary \in C!Inode \cup {C!NoFile}
      /\ raced \in BOOLEAN
  BY DEF DiskSound
<1>2. C!Empty.whole \in BOOLEAN
  BY DEF C!Empty
<1>3. raced' \in BOOLEAN
  BY <1>1 DEF C!Counting_Save_Counters, C!Save_Open, C!Save_Write, C!Save_Rename,
              C!Save_Fails, C!history, C!Overlaps
<1>4. DOMAIN inode' = C!Inode /\ \A i \in C!Inode : inode'[i].whole \in BOOLEAN
  <2>1. \A i \in C!Inode : inode'[i] = inode[i] \/ inode'[i] = C!Empty
                             \/ inode'[i] = [whole |-> TRUE, totals |-> pc[t].totals]
    BY <1>1 DEF C!Counting_Save_Counters, C!Save_Open, C!Save_Write, C!Save_Rename,
                C!Save_Fails, C!Named
  <2>2. DOMAIN inode' = C!Inode
    BY <1>1 DEF C!Counting_Save_Counters, C!Save_Open, C!Save_Write, C!Save_Rename,
                C!Save_Fails, C!Named
  <2>3. [whole |-> TRUE, totals |-> pc[t].totals].whole \in BOOLEAN
    OBVIOUS
  <2>4. ASSUME NEW i \in C!Inode
        PROVE  inode'[i].whole \in BOOLEAN
    BY ONLY <1>1, <1>2, <2>1, <2>3, i \in C!Inode, Zenon
  <2> QED BY ONLY <2>2, <2>4
<1>5. counters' \in C!Inode \cup {C!NoFile} /\ temporary' \in C!Inode \cup {C!NoFile}
  <2>1. CASE C!Save_Open(t)
    <3>1. /\ C!At(t, "open") /\ counters' = counters
          /\ temporary' = IF temporary # C!NoFile THEN temporary ELSE C!FreeInode
      BY <2>1 DEF C!Save_Open
    <3> QED BY <1>1, <3>1, FreeInodeFound
  <2>2. CASE C!Save_Write(t)
    BY <1>1, <2>2 DEF C!Save_Write
  <2>3. CASE C!Save_Rename(t)
    BY <1>1, <2>3 DEF C!Save_Rename
  <2>4. CASE C!Save_Fails(t)
    BY <1>1, <2>4 DEF C!Save_Fails
  <2> QED BY <2>1, <2>2, <2>3, <2>4 DEF C!Counting_Save_Counters
<1> QED BY <1>3, <1>4, <1>5, Names DEF DiskSound

\* What the invariant says while one thread saves at a time, of the next state.
LEMMA FilesFrom ==
  ASSUME counters' # C!NoFile => inode'[counters'].whole /\ counters' # temporary',
         \A u \in C!Thread : Writes(pc'[u]) =>
           /\ temporary' # C!NoFile /\ pc'[u].inode = temporary'
           /\ \A v \in C!Thread \ {u} : ~Writes(pc'[v]),
         \A u \in C!Thread : pc'[u].at = "rename" =>
           inode'[temporary'].whole /\ inode'[temporary'].totals = pc'[u].totals
  PROVE  FilesSound'
BY Names DEF FilesSound, Writes

LEMMA FlooredFrom ==
  ASSUME DOMAIN floor' # {} => counters' # C!NoFile /\ AtLeast(inode'[counters'].totals, floor'),
         DOMAIN floor' \subseteq DOMAIN totals',
         up' # "starting" => AtLeast(totals', floor'),
         \A u \in C!Thread :
           /\ pc'[u].at \in {"open", "write", "rename"}
           /\ \A v \in C!Thread \ {u} : pc'[v].at \notin {"open", "write", "rename"}
           => AtLeast(pc'[u].totals, floor') /\ AtLeast(totals', pc'[u].totals)
  PROVE  Floored'
<1>1. \A u \in C!Thread : C!Saving(u)' <=> pc'[u].at \in {"open", "write", "rename"}
  BY DEF C!Saving
<1>2. \A u \in C!Thread : C!Saving(u)' /\ ~C!Overlaps(u)' =>
        AtLeast(pc'[u].totals, floor') /\ AtLeast(totals', pc'[u].totals)
  BY <1>1, Names DEF C!Overlaps
<1> QED BY <1>2, Names DEF Floored, AtLeast

\* No file is touched, and no thread comes to write one.
LEMMA FilesStay ==
  ASSUME FilesSound, inode' = inode, counters' = counters, temporary' = temporary,
         \A u \in C!Thread : pc'[u] = pc[u] \/ ~Writes(pc'[u])
  PROVE  FilesSound'
<1>1. \A u \in C!Thread : Writes(pc'[u]) => pc'[u] = pc[u]
  OBVIOUS
<1>2. \A u \in C!Thread : pc'[u].at = "rename" => Writes(pc'[u])
  BY DEF Writes
<1>3. ASSUME NEW u \in C!Thread, Writes(pc'[u])
      PROVE  /\ temporary' # C!NoFile /\ pc'[u].inode = temporary'
             /\ \A v \in C!Thread \ {u} : ~Writes(pc'[v])
  <2>1. pc'[u] = pc[u] /\ Writes(pc[u])
    BY <1>1, <1>3
  <2>2. /\ temporary # C!NoFile /\ pc[u].inode = temporary
        /\ \A v \in C!Thread \ {u} : ~Writes(pc[v])
    BY <2>1 DEF FilesSound
  <2>3. \A v \in C!Thread \ {u} : ~Writes(pc'[v])
    BY <1>1, <2>2
  <2> QED BY <2>1, <2>2, <2>3
<1>4. ASSUME NEW u \in C!Thread, pc'[u].at = "rename"
      PROVE  inode'[temporary'].whole /\ inode'[temporary'].totals = pc'[u].totals
  <2>1. pc'[u] = pc[u]
    BY <1>1, <1>2, <1>4
  <2> QED BY <1>4, <2>1 DEF FilesSound
<1>5. counters' # C!NoFile => inode'[counters'].whole /\ counters' # temporary'
  BY DEF FilesSound
<1> QED BY <1>3, <1>4, <1>5, FilesFrom

InSave(p) == p.at \in {"open", "write", "rename"}

\* A floor that is part of the one before.
PartOf(f, g) == \A id \in DOMAIN f : id \in DOMAIN g /\ f[id] = g[id]

LEMMA AtLeastSelf ==
  ASSUME NEW n \in Nat, NEW f, Within(f, n)
  PROVE  AtLeast(f, f)
BY DEF Within, AtLeast

LEMMA AtLeastPart ==
  ASSUME NEW h, NEW f, NEW g, PartOf(f, g), AtLeast(h, g)
  PROVE  AtLeast(h, f)
BY DEF AtLeast, PartOf

LEMMA FloorOfPart ==
  ASSUME NEW list
  PROVE  PartOf(C!FloorOf(list), floor) /\ DOMAIN C!FloorOf(list) \subseteq C!Ids(list)
BY DEF PartOf, C!FloorOf, C!Ids

\* A thread that did not save steps to a save of at least the floor, or to none.
LEMMA FlooredGo ==
  ASSUME ThreadsSound, Floored, inode' = inode, counters' = counters,
         NEW t \in C!Thread, NEW p, C!Go(t, p), ~InSave(pc[t]),
         PartOf(floor', floor), DOMAIN floor' \subseteq DOMAIN totals',
         up' # "starting" => AtLeast(totals', floor'),
         InSave(p) => AtLeast(p.totals, floor') /\ AtLeast(totals', p.totals),
         ~InSave(p) => totals' = totals \/ up = "starting"
  PROVE  Floored'
<1>1. DOMAIN floor' # {} => counters' # C!NoFile /\ AtLeast(inode'[counters'].totals, floor')
  <2>1. DOMAIN floor' # {} => DOMAIN floor # {}
    BY DEF PartOf
  <2> QED BY <2>1, AtLeastPart DEF Floored
<1>2. ASSUME NEW u \in C!Thread, InSave(pc'[u]), \A v \in C!Thread \ {u} : ~InSave(pc'[v])
      PROVE  AtLeast(pc'[u].totals, floor') /\ AtLeast(totals', pc'[u].totals)
  <2>1. pc'[t] = p /\ \A v \in C!Thread \ {t} : pc'[v] = pc[v]
    BY GoTo
  <2>2. CASE u = t
    BY <1>2, <2>1, <2>2
  <2>3. CASE u # t
    <3>1. pc'[u] = pc[u] /\ InSave(pc[u]) /\ ~InSave(p)
      BY <1>2, <2>1, <2>3
    <3>2. \A v \in C!Thread \ {u} : ~InSave(pc[v])
      BY <1>2, <2>1, <2>3
    <3>3. C!Saving(u) /\ ~C!Overlaps(u)
      BY <3>1, <3>2 DEF C!Saving, C!Overlaps, InSave
    <3>4. AtLeast(pc[u].totals, floor) /\ AtLeast(totals, pc[u].totals)
      BY <3>3 DEF Floored
    <3>5. up # "starting"
      BY <3>1 DEF ThreadsSound, ThreadAt, InSave
    <3>6. totals' = totals
      BY <3>1, <3>5
    <3> QED BY <3>1, <3>4, <3>6, AtLeastPart
  <2> QED BY <2>2, <2>3
<1> QED BY <1>1, <1>2, FlooredFrom DEF InSave

\* The same with the files.
LEMMA SafeGo ==
  ASSUME ThreadsSound, OneAtATime, inode' = inode, counters' = counters,
         temporary' = temporary, raced' = raced,
         NEW t \in C!Thread, NEW p, C!Go(t, p), ~InSave(pc[t]), ~Writes(p),
         ~raced => /\ PartOf(floor', floor) /\ DOMAIN floor' \subseteq DOMAIN totals'
                   /\ up' # "starting" => AtLeast(totals', floor')
                   /\ InSave(p) => AtLeast(p.totals, floor') /\ AtLeast(totals', p.totals)
                   /\ ~InSave(p) => totals' = totals \/ up = "starting"
  PROVE  OneAtATime'
<1>1. SUFFICES ASSUME ~raced
               PROVE  FilesSound' /\ Floored'
  BY DEF OneAtATime
<1>2. FilesSound /\ Floored
  BY <1>1 DEF OneAtATime
<1>3. FilesSound'
  <2>1. \A u \in C!Thread : pc'[u] = pc[u] \/ ~Writes(pc'[u])
    BY GoTo
  <2> QED BY <1>2, <2>1, FilesStay
<1>4. Floored'
  BY <1>1, <1>2, FlooredGo
<1> QED BY <1>3, <1>4

LEMMA SafeSame ==
  ASSUME OneAtATime, inode' = inode, counters' = counters, temporary' = temporary,
         raced' = raced, pc' = pc, totals' = totals, floor' = floor, up' = up
  PROVE  OneAtATime'
BY Names DEF OneAtATime, FilesSound, Floored, Writes, AtLeast, C!Saving, C!Overlaps

LEMMA LoadSafe ==
  ASSUME ThreadsSound, SnapshotsSound, ListsSound, OneAtATime, up' = up,
         inode' = inode, counters' = counters,
         temporary' = temporary, raced' = raced, NEW list \in Seq(C!Scene),
         ~InSave(pc[C!FCGI]), C!Load_Counting_Scenes(list)
  PROVE  OneAtATime'
<1>1. CASE C!Counting_Validate_Config(list)
  <2> DEFINE p == IF up # "starting" THEN C!Save(FALSE, C!Kept(list)) ELSE C!Idle
  <2>1. /\ totals' = C!Kept(list) /\ floor' = C!FloorOf(list) /\ C!Go(C!FCGI, p)
    BY <1>1 DEF C!Load_Counting_Scenes, C!SavesOnLoad
  <2>2. ~Writes(p) /\ (~InSave(p) => up = "starting") /\ (InSave(p) => p.totals = C!Kept(list))
    BY DEF Writes, InSave, C!Save, C!Idle
  <2> HIDE DEF p
  <2>3. AtLeast(C!Kept(list), C!Kept(list))
    <3>1. Within(C!Kept(list), tracks) /\ tracks \in Nat
      BY KeptWithin DEF SnapshotsSound
    <3> QED BY ONLY <3>1, AtLeastSelf
  <2>4. ASSUME ~raced, up # "starting"
        PROVE  AtLeast(C!Kept(list), C!FloorOf(list))
    <3>1. AtLeast(totals, C!FloorOf(list))
      BY <2>4, FloorOfPart, AtLeastPart DEF OneAtATime, Floored
    <3>2. \A id \in DOMAIN C!FloorOf(list) : C!Kept(list)[id] = totals[id] /\ id \in DOMAIN C!Kept(list)
      BY <3>1, FloorOfPart DEF C!Kept, C!TotalOf, AtLeast
    <3> QED BY <3>1, <3>2 DEF AtLeast
  <2>5. PartOf(floor', floor) /\ DOMAIN floor' \subseteq DOMAIN totals'
    BY <2>1, FloorOfPart, KeptWithin
  <2>6. ~raced => /\ PartOf(floor', floor) /\ DOMAIN floor' \subseteq DOMAIN totals'
                  /\ up' # "starting" => AtLeast(totals', floor')
                  /\ InSave(p) => AtLeast(p.totals, floor') /\ AtLeast(totals', p.totals)
                  /\ ~InSave(p) => totals' = totals \/ up = "starting"
    <3>1. ~raced /\ InSave(p) /\ up = "starting" => AtLeast(p.totals, floor')
      BY DEF InSave, C!Idle, p
    <3> QED BY <2>1, <2>2, <2>3, <2>4, <2>5, <3>1
  <2> QED BY <2>1, <2>2, <2>6, SafeGo, Names
<1>2. CASE ~C!Counting_Validate_Config(list)
  <2>1. pc' = pc /\ totals' = totals /\ floor' = floor
    BY <1>2 DEF C!Load_Counting_Scenes
  <2> QED BY <2>1, SafeSame
<1> QED BY <1>1, <1>2

LEMMA FloorSelf ==
  PartOf(floor, floor)
BY DEF PartOf

LEMMA PublishSafe ==
  ASSUME ThreadsSound, SnapshotsSound, OneAtATime, NEW t \in C!Thread,
         C!Publish_Counting_Build(t) \/ C!Send_LoRa_Payload(t)
  PROVE  OneAtATime'
<1>1. /\ inode' = inode /\ counters' = counters /\ temporary' = temporary /\ raced' = raced
      /\ totals' = totals /\ floor' = floor /\ up' = up
  BY DEF C!Publish_Counting_Build, C!Send_LoRa_Payload, C!disk, C!history
<1>2. ~InSave(pc[t])
  <2>1. pc[t] = C!Idle \/ pc[t].at = "sending"
    BY DEF C!Publish_Counting_Build, C!Send_LoRa_Payload, C!MayStart, C!At
  <2>2. C!Idle.at = "idle"
    BY DEF C!Idle
  <2> QED BY ONLY <2>1, <2>2 DEF InSave
<1>3. PICK p : /\ C!Go(t, p)
               /\ p = [C!Idle EXCEPT !.at = "sending"] \/ p = C!Idle
                    \/ (p = C!Save(TRUE, totals) /\ up # "starting")
  <2>1. CASE C!Publish_Counting_Build(t)
    BY <2>1 DEF C!Publish_Counting_Build
  <2>2. CASE C!Send_LoRa_Payload(t)
    <3>1. up # "starting"
      BY <2>2 DEF C!Send_LoRa_Payload, C!At, ThreadsSound, ThreadAt
    <3> QED BY <2>2, <3>1 DEF C!Send_LoRa_Payload
  <2> QED BY <2>1, <2>2
<1>4. ~Writes(p) /\ (InSave(p) => p.totals = totals /\ up # "starting")
  BY <1>3 DEF Writes, InSave, C!Save, C!Idle
<1>5. AtLeast(totals, totals)
  BY AtLeastSelf DEF SnapshotsSound
<1>6. ~raced => DOMAIN floor \subseteq DOMAIN totals /\ (up # "starting" => AtLeast(totals, floor))
  BY DEF OneAtATime, Floored
<1> QED BY <1>1, <1>2, <1>3, <1>4, <1>5, <1>6, FloorSelf, SafeGo

LEMMA RequestSafe ==
  ASSUME ThreadsSound, SnapshotsSound, ListsSound, OneAtATime, NEW list, Offered(list),
         \/ C!ACAP_ENDPOINT_settings(list) \/ C!OTA_Counting_Persist(list)
         \/ C!OTA_Counting_Apply \/ C!Reset_All_State
  PROVE  OneAtATime'
<1>1. /\ inode' = inode /\ counters' = counters /\ temporary' = temporary /\ raced' = raced
      /\ up' = up
  BY DEF C!ACAP_ENDPOINT_settings, C!OTA_Counting_Persist, C!OTA_Counting_Apply,
         C!Reset_All_State, C!disk, C!history
<1>2. ~InSave(pc[C!FCGI])
  <2>1. pc[C!FCGI] = C!Idle \/ pc[C!FCGI].at = "apply"
    BY DEF C!ACAP_ENDPOINT_settings, C!OTA_Counting_Persist, C!OTA_Counting_Apply,
           C!Reset_All_State, C!Request, C!MayStart, C!At
  <2>2. C!Idle.at = "idle"
    BY DEF C!Idle
  <2> QED BY ONLY <2>1, <2>2 DEF InSave
<1>3. CASE C!ACAP_ENDPOINT_settings(list)
  BY <1>1, <1>2, <1>3, LoadSafe DEF C!ACAP_ENDPOINT_settings, Offered
<1>4. ASSUME NEW p, C!Go(C!FCGI, p), ~InSave(p), totals' = totals, floor' = floor
      PROVE  OneAtATime'
  <2>1. ~Writes(p)
    BY <1>4 DEF Writes, InSave
  <2>2. ~raced => DOMAIN floor \subseteq DOMAIN totals /\ (up # "starting" => AtLeast(totals, floor))
    BY DEF OneAtATime, Floored
  <2> QED BY <1>1, <1>2, <1>4, <2>1, <2>2, FloorSelf, SafeGo, Names
<1>5. CASE C!OTA_Counting_Persist(list)
  <2>1. /\ C!Go(C!FCGI, [C!Idle EXCEPT !.at = "apply"])
        /\ totals' = totals /\ floor' = floor
    BY <1>5 DEF C!OTA_Counting_Persist, C!history
  <2>2. ~InSave([C!Idle EXCEPT !.at = "apply"])
    BY DEF InSave, C!Idle
  <2> QED BY <1>4, <2>1, <2>2
<1>6. CASE C!OTA_Counting_Apply
  <2>1. CASE C!Load_Counting_Scenes(file)
    BY <1>1, <1>2, <2>1, LoadSafe DEF ListsSound
  <2>2. CASE C!Go(C!FCGI, C!Idle) /\ UNCHANGED <<g_scenes, totals, floor, crossed>>
    <3>1. ~InSave(C!Idle)
      BY DEF InSave, C!Idle
    <3> QED BY <1>4, <2>2, <3>1
  <2> QED BY <1>6, <2>1, <2>2 DEF C!OTA_Counting_Apply
<1>7. CASE C!Reset_All_State
  <2>1. /\ C!Go(C!FCGI, C!Save(FALSE, totals')) /\ totals' = [id \in DOMAIN totals |-> 0]
        /\ floor' = C!NoTotals
    BY <1>7 DEF C!Reset_All_State
  <2>2. /\ ~Writes(C!Save(FALSE, totals')) /\ InSave(C!Save(FALSE, totals'))
        /\ C!Save(FALSE, totals').totals = totals'
    BY DEF Writes, InSave, C!Save
  <2>3. AtLeast(totals', totals')
    BY <2>1 DEF AtLeast
  <2>4. /\ PartOf(floor', floor) /\ DOMAIN floor' \subseteq DOMAIN totals'
        /\ AtLeast(totals', floor')
    BY <2>1 DEF PartOf, AtLeast, C!NoTotals
  <2> QED BY <1>1, <1>2, <2>1, <2>2, <2>3, <2>4, SafeGo, Names
<1> QED BY <1>3, <1>5, <1>6, <1>7

LEMMA TrackSafe ==
  ASSUME SnapshotsSound, OneAtATime, C!Counting_Process_Completed_Track
  PROVE  OneAtATime'
<1>1. /\ inode' = inode /\ counters' = counters /\ temporary' = temporary /\ raced' = raced
      /\ floor' = floor /\ up' = up /\ pc' = pc
  BY DEF C!Counting_Process_Completed_Track, C!disk
<1>2. PICK ids \in SUBSET DOMAIN totals :
         totals' = [id \in DOMAIN totals |-> totals[id] + (IF id \in ids THEN 1 ELSE 0)]
  BY DEF C!Counting_Process_Completed_Track
<1>3. DOMAIN totals' = DOMAIN totals /\ \A id \in DOMAIN totals : totals[id] <= totals'[id]
  BY <1>2 DEF SnapshotsSound, Within
<1>4. ASSUME NEW f, Within(f, tracks), AtLeast(totals, f)
      PROVE  AtLeast(totals', f)
  <2>1. \A id \in DOMAIN totals : totals[id] \in Nat /\ totals'[id] \in Nat
    BY <1>2 DEF SnapshotsSound, Within
  <2>2. \A id \in DOMAIN f : f[id] \in Nat
    BY <1>4 DEF Within, SnapshotsSound
  <2> QED BY ONLY <1>3, <1>4, <2>1, <2>2 DEF AtLeast
<1>5. SUFFICES ASSUME ~raced
               PROVE  FilesSound' /\ Floored'
  BY <1>1 DEF OneAtATime
<1>6. FilesSound /\ Floored
  BY <1>5 DEF OneAtATime
<1>7. FilesSound'
  BY <1>1, <1>6, FilesStay
<1>8. ASSUME NEW u \in C!Thread, InSave(pc'[u]), \A v \in C!Thread \ {u} : ~InSave(pc'[v])
      PROVE  AtLeast(pc'[u].totals, floor') /\ AtLeast(totals', pc'[u].totals)
  <2>1. C!Saving(u) /\ ~C!Overlaps(u)
    BY <1>1, <1>8 DEF C!Saving, C!Overlaps, InSave
  <2>2. AtLeast(pc[u].totals, floor) /\ AtLeast(totals, pc[u].totals)
    BY <1>6, <2>1 DEF Floored
  <2> QED BY <1>1, <1>4, <2>2 DEF SnapshotsSound
<1>9. /\ DOMAIN floor' # {} => counters' # C!NoFile /\ AtLeast(inode'[counters'].totals, floor')
      /\ DOMAIN floor' \subseteq DOMAIN totals'
      /\ up' # "starting" => AtLeast(totals', floor')
  BY <1>1, <1>3, <1>4, <1>6 DEF Floored, SnapshotsSound
<1> QED BY <1>7, <1>8, <1>9, FlooredFrom DEF InSave

\* A save that no other overlaps: the thread is the only one in a save.
LEMMA AloneIn ==
  ASSUME NEW t \in C!Thread, ~C!Overlaps(t), NEW u \in C!Thread \ {t}
  PROVE  ~InSave(pc[u]) /\ ~Writes(pc[u])
BY DEF C!Overlaps, C!Saving, InSave, Writes

\* After the step it is so still.
LEMMA AloneAfter ==
  ASSUME ThreadsSound, NEW t \in C!Thread, ~C!Overlaps(t), NEW p, C!Go(t, p)
  PROVE  /\ pc'[t] = p
         /\ \A u \in C!Thread \ {t} : ~InSave(pc'[u]) /\ ~Writes(pc'[u])
BY GoTo, AloneIn

LEMMA OpenSafe ==
  ASSUME ThreadsSound, SnapshotsSound, DiskSound, OneAtATime, NEW t \in C!Thread,
         C!Save_Open(t)
  PROVE  OneAtATime'
<1> DEFINE i == IF temporary # C!NoFile THEN temporary ELSE C!FreeInode
           p == [pc[t] EXCEPT !.at = "write", !.inode = i]
<1>1. SUFFICES ASSUME ~raced'
               PROVE  FilesSound' /\ Floored'
  BY DEF OneAtATime
<1>2. /\ C!At(t, "open") /\ temporary' = i /\ inode' = [inode EXCEPT ![i] = C!Empty]
      /\ C!Go(t, p) /\ ~raced /\ ~C!Overlaps(t)
      /\ up' = up /\ totals' = totals /\ counters' = counters /\ floor' = floor
  BY <1>1 DEF C!Save_Open, DiskSound
<1>3. FilesSound /\ Floored /\ C!NoFile \notin C!Inode /\ DOMAIN inode = C!Inode
  BY <1>2, Names DEF OneAtATime, DiskSound
<1>4. i \in C!Inode /\ (counters # C!NoFile => i # counters)
  BY <1>2, <1>3, FreeInodeFound DEF FilesSound, DiskSound, C!Free
<1>5. p.at = "write" /\ p.inode = i /\ p.totals = pc[t].totals
  BY DEF ThreadsSound, ThreadAt, Field
<1> HIDE DEF p, i
<1>6. pc'[t] = p /\ \A u \in C!Thread \ {t} : ~InSave(pc'[u]) /\ ~Writes(pc'[u])
  BY <1>2, AloneAfter
<1>7. counters' # C!NoFile => inode'[counters'] = inode[counters]
  BY <1>2, <1>3, <1>4 DEF DiskSound
<1>8. FilesSound'
  <2>1. counters' # C!NoFile => inode'[counters'].whole /\ counters' # temporary'
    BY <1>2, <1>3, <1>4, <1>7 DEF FilesSound
  <2>2. \A u \in C!Thread : Writes(pc'[u]) =>
           /\ temporary' # C!NoFile /\ pc'[u].inode = temporary'
           /\ \A v \in C!Thread \ {u} : ~Writes(pc'[v])
    BY <1>2, <1>3, <1>4, <1>5, <1>6
  <2>3. \A u \in C!Thread : pc'[u].at # "rename"
    BY <1>5, <1>6 DEF Writes
  <2> QED BY <2>1, <2>2, <2>3, FilesFrom
<1>9. Floored'
  <2>1. AtLeast(pc[t].totals, floor) /\ AtLeast(totals, pc[t].totals)
    BY <1>2, <1>3 DEF Floored, C!Saving, C!At
  <2>2. \A u \in C!Thread : InSave(pc'[u]) =>
          AtLeast(pc'[u].totals, floor') /\ AtLeast(totals', pc'[u].totals)
    BY <1>2, <1>5, <1>6, <2>1
  <2>3. /\ DOMAIN floor' # {} => counters' # C!NoFile /\ AtLeast(inode'[counters'].totals, floor')
        /\ DOMAIN floor' \subseteq DOMAIN totals'
        /\ up' # "starting" => AtLeast(totals', floor')
    BY <1>2, <1>3, <1>7 DEF Floored
  <2> QED BY <2>2, <2>3, FlooredFrom DEF InSave
<1> QED BY <1>8, <1>9

LEMMA WriteSafe ==
  ASSUME ThreadsSound, SnapshotsSound, DiskSound, OneAtATime, NEW t \in C!Thread,
         C!Save_Write(t)
  PROVE  OneAtATime'
<1> DEFINE p == [pc[t] EXCEPT !.at = "rename"]
<1>1. SUFFICES ASSUME ~raced
               PROVE  FilesSound' /\ Floored'
  BY DEF OneAtATime, C!Save_Write, C!history
<1>2. /\ C!At(t, "write")
      /\ inode' = [inode EXCEPT ![pc[t].inode] = [whole |-> TRUE, totals |-> pc[t].totals]]
      /\ C!Go(t, p) /\ up' = up /\ totals' = totals /\ counters' = counters /\ floor' = floor
      /\ temporary' = temporary
  BY DEF C!Save_Write, C!history
<1>3. FilesSound /\ Floored /\ DOMAIN inode = C!Inode
  BY <1>1 DEF OneAtATime, DiskSound
<1>4. /\ Writes(pc[t]) /\ pc[t].inode = temporary /\ temporary # C!NoFile
      /\ \A u \in C!Thread \ {t} : ~Writes(pc[u])
      /\ temporary \in C!Inode
  BY <1>2, <1>3 DEF FilesSound, Writes, C!At, DiskSound
<1>5. p.at = "rename" /\ p.inode = temporary /\ p.totals = pc[t].totals
  BY <1>4 DEF ThreadsSound, ThreadAt, Field
<1> HIDE DEF p
<1>6. pc'[t] = p /\ \A u \in C!Thread \ {t} : pc'[u] = pc[u]
  BY <1>2, GoTo
<1>7. /\ counters' # C!NoFile => inode'[counters'] = inode[counters] /\ counters # temporary
      /\ inode'[temporary] = [whole |-> TRUE, totals |-> pc[t].totals]
  BY <1>2, <1>3, <1>4 DEF DiskSound, FilesSound
<1>8. FilesSound'
  <2>1. counters' # C!NoFile => inode'[counters'].whole /\ counters' # temporary'
    BY <1>2, <1>3, <1>7 DEF FilesSound
  <2>2. \A u \in C!Thread : Writes(pc'[u]) =>
           /\ temporary' # C!NoFile /\ pc'[u].inode = temporary'
           /\ \A v \in C!Thread \ {u} : ~Writes(pc'[v])
    BY <1>2, <1>4, <1>5, <1>6
  <2>3. \A u \in C!Thread : pc'[u].at = "rename" => u = t
    BY <1>4, <1>6 DEF Writes
  <2>4. \A u \in C!Thread : pc'[u].at = "rename" =>
          inode'[temporary'].whole /\ inode'[temporary'].totals = pc'[u].totals
    BY <1>2, <1>5, <1>6, <1>7, <2>3
  <2> QED BY <2>1, <2>2, <2>4, FilesFrom
<1>9. Floored'
  <2>1. ASSUME NEW u \in C!Thread, InSave(pc'[u]), \A v \in C!Thread \ {u} : ~InSave(pc'[v])
        PROVE  AtLeast(pc'[u].totals, floor') /\ AtLeast(totals', pc'[u].totals)
    <3>1. u = t
      BY <1>5, <1>6, <2>1 DEF InSave
    <3>2. C!Saving(t) /\ ~C!Overlaps(t)
      BY <1>2, <1>6, <2>1, <3>1 DEF C!Saving, C!Overlaps, InSave, C!At
    <3>3. AtLeast(pc[t].totals, floor) /\ AtLeast(totals, pc[t].totals)
      BY <1>3, <3>2 DEF Floored
    <3> QED BY <1>2, <1>5, <1>6, <3>1, <3>3
  <2>2. /\ DOMAIN floor' # {} => counters' # C!NoFile /\ AtLeast(inode'[counters'].totals, floor')
        /\ DOMAIN floor' \subseteq DOMAIN totals'
        /\ up' # "starting" => AtLeast(totals', floor')
    BY <1>2, <1>3, <1>7 DEF Floored
  <2> QED BY <2>1, <2>2, FlooredFrom DEF InSave
<1> QED BY <1>8, <1>9

\* The end of a save: the file that is counters.json by then is left as it is.
LEMMA NamedKeeps ==
  ASSUME inode' = C!Named, counters' \in C!Inode
  PROVE  inode'[counters'] = inode[counters']
BY DEF C!Named

LEMMA EndSafe ==
  ASSUME ThreadsSound, SnapshotsSound, DiskSound, OneAtATime, NEW t \in C!Thread,
         C!Save_Rename(t) \/ C!Save_Fails(t)
  PROVE  OneAtATime'
<1>1. SUFFICES ASSUME ~raced'
               PROVE  FilesSound' /\ Floored'
  BY DEF OneAtATime
<1>2. /\ C!Go(t, C!Idle) /\ inode' = C!Named /\ ~raced /\ ~C!Overlaps(t)
      /\ up' = up /\ totals' = totals
  BY <1>1 DEF C!Save_Rename, C!Save_Fails, DiskSound
<1>3. FilesSound /\ Floored
  BY <1>2 DEF OneAtATime
<1>4. C!NoFile \notin C!Inode
  BY Names
<1>5. C!Idle.at = "idle"
  BY DEF C!Idle
<1>6. \A u \in C!Thread : ~InSave(pc'[u]) /\ ~Writes(pc'[u])
  BY <1>2, <1>5, AloneAfter DEF InSave, Writes
<1>7. \A u \in C!Thread : pc'[u].at # "rename"
  BY <1>6 DEF Writes
<1>8. CASE C!Save_Rename(t)
  <2>1. /\ pc[t].at = "rename" /\ temporary' = C!NoFile
        /\ IF temporary = C!NoFile THEN UNCHANGED <<counters, floor>>
           ELSE counters' = temporary /\ floor' = IF pc[t].publish THEN pc[t].totals ELSE floor
    BY <1>8 DEF C!Save_Rename, C!At
  <2>2. /\ temporary # C!NoFile /\ temporary \in C!Inode
        /\ inode[temporary].whole /\ inode[temporary].totals = pc[t].totals
    BY <1>3, <2>1 DEF FilesSound, Writes, DiskSound
  <2>3. inode'[counters'] = inode[temporary] /\ counters' = temporary
    BY <1>2, <2>1, <2>2, NamedKeeps
  <2>4. FilesSound'
    BY <1>4, <1>6, <1>7, <2>1, <2>2, <2>3, FilesFrom
  <2>5. AtLeast(pc[t].totals, floor) /\ AtLeast(totals, pc[t].totals)
    BY <1>2, <1>3, <2>1 DEF Floored, C!Saving
  <2>6. AtLeast(totals, floor) /\ AtLeast(pc[t].totals, pc[t].totals)
    <3>1. up # "starting"
      BY <2>1 DEF ThreadsSound, ThreadAt
    <3>2. AtLeast(pc[t].totals, pc[t].totals)
      BY AtLeastSelf DEF SnapshotsSound
    <3> QED BY <1>3, <3>1, <3>2 DEF Floored
  <2>7. floor' = pc[t].totals \/ floor' = floor
    BY <2>1, <2>2
  <2>8. AtLeast(pc[t].totals, floor') /\ AtLeast(totals, floor')
    BY <2>5, <2>6, <2>7
  <2>9. Floored'
    <3>1. DOMAIN floor' \subseteq DOMAIN totals'
      BY <1>2, <2>8 DEF AtLeast
    <3> QED BY <1>2, <1>6, <2>2, <2>3, <2>8, <3>1, FlooredFrom DEF InSave
  <2> QED BY <2>4, <2>9
<1>9. CASE C!Save_Fails(t)
  <2>1. /\ counters' = counters /\ floor' = floor
        /\ temporary' = IF C!At(t, "open") THEN temporary ELSE C!NoFile
    BY <1>9 DEF C!Save_Fails
  <2>2. counters # C!NoFile => inode'[counters'] = inode[counters]
    BY <1>2, <2>1, NamedKeeps DEF DiskSound
  <2>3. FilesSound'
    <3>1. counters' # C!NoFile => inode'[counters'].whole /\ counters' # temporary'
      BY <1>3, <2>1, <2>2 DEF FilesSound
    <3> QED BY <1>6, <1>7, <3>1, FilesFrom
  <2>4. Floored'
    <3>1. /\ DOMAIN floor' # {} => counters' # C!NoFile /\ AtLeast(inode'[counters'].totals, floor')
          /\ DOMAIN floor' \subseteq DOMAIN totals'
          /\ up' # "starting" => AtLeast(totals', floor')
      BY <1>2, <1>3, <2>1, <2>2 DEF Floored
    <3> QED BY <1>6, <3>1, FlooredFrom DEF InSave
  <2> QED BY <2>3, <2>4
<1> QED BY <1>8, <1>9

LEMMA SaveSafe ==
  ASSUME ThreadsSound, SnapshotsSound, DiskSound, OneAtATime, NEW t \in C!Thread,
         C!Counting_Save_Counters(t)
  PROVE  OneAtATime'
BY OpenSafe, WriteSafe, EndSafe DEF C!Counting_Save_Counters

LEMMA ProcessSafe ==
  ASSUME ThreadsSound, SnapshotsSound, DiskSound, ListsSound, OneAtATime,
         C!Shutdown \/ C!Restart \/ C!Counting_Load_Counters
  PROVE  OneAtATime'
<1>1. inode' = inode /\ counters' = counters /\ temporary' = temporary /\ raced' = raced
  BY DEF C!Shutdown, C!Restart, C!Counting_Load_Counters, C!disk, C!history
<1>2. CASE C!Shutdown
  <2>1. /\ up = "running" /\ C!Go(C!Main, C!Save(FALSE, totals)) /\ totals' = totals
        /\ floor' = floor
    BY <1>2 DEF C!Shutdown, C!history
  <2>2. ~InSave(pc[C!Main])
    BY <2>1, Names DEF ThreadsSound, ThreadAt, InSave
  <2>3. /\ ~Writes(C!Save(FALSE, totals)) /\ InSave(C!Save(FALSE, totals))
        /\ C!Save(FALSE, totals).totals = totals
    BY DEF Writes, InSave, C!Save
  <2>4. AtLeast(totals, totals)
    BY AtLeastSelf DEF SnapshotsSound
  <2>5. ~raced => DOMAIN floor \subseteq DOMAIN totals /\ AtLeast(totals, floor)
    BY <2>1 DEF OneAtATime, Floored
  <2> QED BY <1>1, <2>1, <2>2, <2>3, <2>4, <2>5, FloorSelf, SafeGo, Names
<1>3. SUFFICES ASSUME ~raced, C!Restart \/ C!Counting_Load_Counters
               PROVE  FilesSound' /\ Floored'
  BY <1>1, <1>2 DEF OneAtATime
<1>4. FilesSound /\ Floored
  BY <1>3 DEF OneAtATime
<1>5. \A u \in C!Thread : pc'[u].at = "idle"
  <2>1. CASE C!Restart
    BY <2>1 DEF C!Restart, C!Idle
  <2>2. CASE C!Counting_Load_Counters
    BY <2>2 DEF C!Counting_Load_Counters, ThreadsSound, ThreadAt
  <2> QED BY <1>3, <2>1, <2>2
<1>6. FilesSound'
  BY <1>1, <1>4, <1>5, FilesStay DEF Writes
<1>7. CASE C!Restart
  <2>1. /\ up' = "starting" /\ floor' = C!FloorOf(g_scenes') /\ DOMAIN totals' = C!Ids(g_scenes')
    BY <1>7 DEF C!Restart
  <2>2. PartOf(floor', floor) /\ DOMAIN floor' \subseteq DOMAIN totals'
    BY <2>1, FloorOfPart
  <2>3. DOMAIN floor' # {} => counters' # C!NoFile /\ AtLeast(inode'[counters'].totals, floor')
    <3>1. DOMAIN floor' # {} => DOMAIN floor # {}
      BY <2>2 DEF PartOf
    <3> QED BY <1>1, <1>4, <2>2, <3>1, AtLeastPart DEF Floored
  <2>4. Floored'
    BY <1>5, <2>1, <2>2, <2>3, FlooredFrom
  <2> QED BY <1>6, <2>4
<1>8. CASE C!Counting_Load_Counters
  <2> DEFINE saved == IF counters = C!NoFile \/ ~inode[counters].whole THEN C!NoTotals
                      ELSE inode[counters].totals
  <2>1. /\ totals' = [id \in DOMAIN totals |-> IF id \in DOMAIN saved THEN saved[id]
                                              ELSE totals[id]]
        /\ floor' = floor
    BY <1>8 DEF C!Counting_Load_Counters, C!history
  <2>2. DOMAIN floor # {} => AtLeast(saved, floor)
    BY <1>4 DEF FilesSound, Floored
  <2>3. DOMAIN floor \subseteq DOMAIN totals
    BY <1>4 DEF Floored
  <2> HIDE DEF saved
  <2>4. AtLeast(totals', floor') /\ DOMAIN floor' \subseteq DOMAIN totals'
    <3>1. \A id \in DOMAIN floor : id \in DOMAIN saved /\ floor[id] <= saved[id]
      BY ONLY <2>2 DEF AtLeast
    <3> QED BY ONLY <2>1, <2>3, <3>1 DEF AtLeast
  <2>5. Floored'
    BY <1>1, <1>4, <1>5, <2>1, <2>4, FlooredFrom DEF Floored
  <2> QED BY <1>6, <2>5
<1> QED BY <1>3, <1>7, <1>8

-----------------------------------------------------------------------------
(***************************************************************************)
(* Every step of the counting scenes keeps all of it.                      *)
(***************************************************************************)
LEMMA CompletedTrackKeeps ==
  ASSUME C!ConstantsAssumption, CInv, C!Counting_Process_Completed_Track
  PROVE  CInv'
<1>1. /\ up' = up /\ tree' = tree /\ file' = file /\ g_scenes' = g_scenes /\ pc' = pc
      /\ made' = made /\ requests' = requests /\ restarts' = restarts
      /\ DOMAIN totals' = DOMAIN totals
      /\ inode' = inode /\ counters' = counters /\ temporary' = temporary /\ raced' = raced
  BY DEF C!Counting_Process_Completed_Track, C!disk
<1>2. ListsSound'
  BY <1>1, ListsSame DEF CInv
<1>3. SnapshotsSound' /\ CountsSound'
  BY TrackWithin, TrackCounts DEF CInv
<1>4. ThreadsSound' /\ DiskSound' /\ OneAtATime'
  BY <1>1, NoneSteps, DiskSame, TrackSafe DEF CInv
<1>5. BoundsSound'
  BY <1>1 DEF CInv, BoundsSound
<1> QED BY <1>2, <1>3, <1>4, <1>5 DEF CInv

LEMMA PublishKeeps ==
  ASSUME C!ConstantsAssumption, CInv, NEW t \in C!Thread,
         C!Publish_Counting_Build(t) \/ C!Send_LoRa_Payload(t)
  PROVE  CInv'
<1>1. /\ up' = up /\ tree' = tree /\ file' = file /\ g_scenes' = g_scenes
      /\ made' = made /\ requests' = requests /\ restarts' = restarts /\ totals' = totals
      /\ inode' = inode /\ counters' = counters /\ temporary' = temporary /\ raced' = raced
  BY DEF C!Publish_Counting_Build, C!Send_LoRa_Payload, C!disk, C!bounds, C!history
<1>2. ListsSound'
  <2>1. PICK p : C!Go(t, p) /\ p.at # "apply"
    <3>1. C!Idle.at # "apply" /\ C!Save(TRUE, totals).at # "apply"
          /\ [C!Idle EXCEPT !.at = "sending"].at # "apply"
      BY DEF C!Idle, C!Save
    <3> QED BY <3>1 DEF C!Publish_Counting_Build, C!Send_LoRa_Payload
  <2>2. pc'[C!FCGI].at # "apply" => pc[C!FCGI].at # "apply"
    <3>1. pc[t] = C!Idle \/ pc[t].at = "sending"
      BY DEF C!Publish_Counting_Build, C!Send_LoRa_Payload, C!MayStart, C!At
    <3>2. pc[t].at # "apply"
      BY <3>1 DEF C!Idle
    <3> QED BY <2>1, <3>2, GoTo, Names DEF CInv
  <2> QED BY <1>1, <2>2, ListsSame DEF CInv
<1>3. SnapshotsSound' /\ CountsSound'
  BY PublishWithin, OtherCounts DEF CInv
<1>4. ThreadsSound' /\ DiskSound' /\ OneAtATime'
  BY <1>1, PublishThreads, DiskSame, PublishSafe DEF CInv
<1>5. BoundsSound'
  BY <1>1 DEF CInv, BoundsSound
<1> QED BY <1>2, <1>3, <1>4, <1>5 DEF CInv

LEMMA SaveKeeps ==
  ASSUME C!ConstantsAssumption, CInv, NEW t \in C!Thread, C!Counting_Save_Counters(t)
  PROVE  CInv'
<1>1. /\ up' = up /\ tree' = tree /\ file' = file /\ g_scenes' = g_scenes
      /\ made' = made /\ requests' = requests /\ restarts' = restarts /\ totals' = totals
  BY DEF C!Counting_Save_Counters, C!Save_Open, C!Save_Write, C!Save_Rename, C!Save_Fails,
         C!bounds
<1>2. ListsSound'
  <2>1. PICK p : C!Go(t, p)
    BY DEF C!Counting_Save_Counters, C!Save_Open, C!Save_Write, C!Save_Rename, C!Save_Fails
  <2>2. pc[t].at # "apply"
    BY DEF C!Counting_Save_Counters, C!Save_Open, C!Save_Write, C!Save_Rename, C!Save_Fails,
           C!At, C!Saving
  <2>3. pc'[C!FCGI].at # "apply" => pc[C!FCGI].at # "apply"
    BY <2>1, <2>2, GoTo, Names DEF CInv
  <2> QED BY <1>1, <2>3, ListsSame DEF CInv
<1>3. SnapshotsSound' /\ CountsSound'
  BY SaveWithin, OtherCounts DEF CInv
<1>4. ThreadsSound' /\ DiskSound' /\ OneAtATime'
  BY SaveThreads, SaveDisk, SaveSafe DEF CInv
<1>5. BoundsSound'
  BY <1>1 DEF CInv, BoundsSound
<1> QED BY <1>2, <1>3, <1>4, <1>5 DEF CInv

LEMMA RequestKeeps ==
  ASSUME C!ConstantsAssumption, CInv, NEW list, Offered(list),
         \/ C!ACAP_ENDPOINT_settings(list) \/ C!OTA_Counting_Persist(list)
         \/ C!OTA_Counting_Apply \/ C!Reset_All_State
  PROVE  CInv'
<1>1. /\ up' = up /\ restarts' = restarts
      /\ inode' = inode /\ counters' = counters /\ temporary' = temporary /\ raced' = raced
  BY DEF C!ACAP_ENDPOINT_settings, C!OTA_Counting_Persist, C!OTA_Counting_Apply,
         C!Reset_All_State, C!disk, C!bounds, C!history
<1>2. ListsSound'
  <2>1. CASE C!Reset_All_State
    <3>1. /\ tree' = tree /\ file' = file /\ g_scenes' = g_scenes /\ made' = made
          /\ DOMAIN totals' = DOMAIN totals /\ pc[C!FCGI] = C!Idle
      BY <2>1 DEF C!Reset_All_State, C!Request, C!MayStart
    <3>2. C!Idle.at # "apply"
      BY DEF C!Idle
    <3> QED BY <3>1, <3>2, ListsSame DEF CInv
  <2> QED BY <2>1, PostedLists, PersistedLists, AppliedLists DEF CInv
<1>3. SnapshotsSound' /\ CountsSound'
  BY RequestWithin, RequestCounts, ApplyCounts, ResetCounts DEF CInv
<1>4. ThreadsSound' /\ DiskSound' /\ OneAtATime'
  BY <1>1, RequestThreads, DiskSame, RequestSafe DEF CInv
<1>5. BoundsSound'
  <2>1. requests' = requests \/ (requests < MaxRequests /\ requests' = requests + 1)
    BY DEF C!ACAP_ENDPOINT_settings, C!OTA_Counting_Persist, C!OTA_Counting_Apply,
           C!Reset_All_State, C!Request, C!bounds
  <2> QED BY <1>1, <2>1 DEF CInv, BoundsSound, C!ConstantsAssumption
<1> QED BY <1>2, <1>3, <1>4, <1>5 DEF CInv

LEMMA ProcessKeeps ==
  ASSUME C!ConstantsAssumption, CInv, C!Shutdown \/ C!Restart \/ C!Counting_Load_Counters
  PROVE  CInv'
<1>1. /\ inode' = inode /\ counters' = counters /\ temporary' = temporary /\ raced' = raced
      /\ requests' = requests
  BY DEF C!Shutdown, C!Restart, C!Counting_Load_Counters, C!disk, C!bounds, C!history
<1>2. ListsSound'
  <2>1. CASE C!Shutdown
    <3>1. /\ tree' = tree /\ file' = file /\ g_scenes' = g_scenes /\ made' = made
          /\ totals' = totals /\ C!Go(C!Main, C!Save(FALSE, totals))
      BY <2>1 DEF C!Shutdown, C!bounds
    <3>2. pc'[C!FCGI] = pc[C!FCGI]
      BY <3>1, GoTo, Names DEF CInv
    <3> QED BY <3>1, <3>2, ListsSame DEF CInv
  <2>2. CASE C!Counting_Load_Counters
    <3>1. /\ tree' = tree /\ file' = file /\ g_scenes' = g_scenes /\ made' = made
          /\ DOMAIN totals' = DOMAIN totals /\ pc' = pc
      BY <2>2 DEF C!Counting_Load_Counters, C!bounds
    <3> QED BY <3>1, ListsSame DEF CInv
  <2> QED BY <2>1, <2>2, RestartedLists DEF CInv
<1>3. DOMAIN totals' \subseteq SceneId
  BY <1>2, SceneElements DEF ListsSound
<1>4. SnapshotsSound' /\ CountsSound'
  BY <1>3, ProcessWithin, ProcessCounts, OtherCounts DEF CInv
<1>5. ThreadsSound' /\ DiskSound' /\ OneAtATime'
  BY <1>1, ProcessThreads, DiskSame, ProcessSafe DEF CInv
<1>6. BoundsSound'
  <2>1. \/ restarts' = restarts /\ up' # "starting"
        \/ restarts < MaxRestarts /\ restarts' = restarts + 1
    BY DEF C!Shutdown, C!Restart, C!Counting_Load_Counters, C!bounds
  <2> QED BY <1>1, <2>1 DEF CInv, BoundsSound, C!ConstantsAssumption
<1> QED BY <1>2, <1>4, <1>5, <1>6 DEF CInv

LEMMA CountingInitial ==
  ASSUME C!ConstantsAssumption, C!Init
  PROVE  CInv
<1>1. /\ up = "running" /\ tree = <<>> /\ file = <<>> /\ g_scenes = <<>> /\ totals = C!NoTotals
      /\ inode = [i \in C!Inode |-> C!Empty] /\ counters = C!NoFile /\ temporary = C!NoFile
      /\ pc = [t \in C!Thread |-> C!Idle]
      /\ made = 0 /\ requests = 0 /\ tracks = 0 /\ restarts = 0
      /\ crossed = [m \in 1 .. MaxScenes |-> 0] /\ floor = C!NoTotals /\ raced = FALSE
      /\ MaxTracks \in Nat /\ MaxScenes \in Nat /\ MaxRequests \in Nat /\ MaxRestarts \in Nat
      /\ COUNTING_MAX_SCENES \in Nat
  BY DEF C!Init, C!ConstantsAssumption
<1>2. C!Elements(<<>>) = {} /\ C!Ids(<<>>) = {} /\ Scenes = {}
  <2>1. C!Elements(<<>>) = {}
    BY DEF C!Elements
  <2> QED BY <1>1, <2>1 DEF Scenes, C!Ids
<1>3. ListsSound
  <2>1. C!Counting_Validate_Config(<<>>)
    BY <1>1, <1>2 DEF C!Counting_Validate_Config
  <2>2. ScenesApart
    BY <1>1, <1>2 DEF ScenesApart
  <2>3. <<>> \in Seq(C!Scene) /\ DOMAIN totals = {}
    BY <1>1 DEF C!NoTotals
  <2>4. C!ActiveIsConfigured
    BY <1>1 DEF C!ActiveIsConfigured
  <2> QED BY <1>1, <1>2, <2>1, <2>2, <2>3, <2>4 DEF ListsSound
<1>4. SnapshotsSound
  <2>1. \A i \in C!Inode : Within(inode[i].totals, tracks)
    BY <1>1, NoneWithin DEF C!Empty
  <2>2. \A t \in C!Thread : Within(pc[t].totals, tracks)
    BY <1>1, NoneWithin DEF C!Idle
  <2> QED BY <1>1, <2>1, <2>2, NoneWithin DEF SnapshotsSound
<1>5. CountsSound
  BY <1>1, <1>2 DEF CountsSound, C!TotalsExact, NeverCrossed
<1>6. ThreadsSound
  BY <1>1, IdleAt DEF ThreadsSound
<1>7. DiskSound
  BY <1>1 DEF DiskSound, C!Empty
<1>8. OneAtATime
  <2>1. \A t \in C!Thread : pc[t].at = "idle"
    BY <1>1 DEF C!Idle
  <2>2. FilesSound
    BY <1>1, <2>1 DEF FilesSound, Writes
  <2>3. Floored
    BY <1>1, <2>1 DEF Floored, AtLeast, C!NoTotals, C!Saving
  <2> QED BY <2>2, <2>3 DEF OneAtATime
<1>9. BoundsSound
  BY <1>1 DEF BoundsSound
<1> QED BY <1>3, <1>4, <1>5, <1>6, <1>7, <1>8, <1>9 DEF CInv

LEMMA CountingKeeps ==
  ASSUME C!ConstantsAssumption, CInv, C!Next
  PROVE  CInv'
<1>1. CASE C!Counting_Process_Completed_Track
  BY <1>1, CompletedTrackKeeps
<1>2. CASE C!FCGI_Thread
  <2>1. tree \in Brought
    BY DEF Brought, C!Posted
  <2>2. PICK list \in Brought :
          \/ C!ACAP_ENDPOINT_settings(list) \/ C!OTA_Counting_Persist(list)
          \/ C!OTA_Counting_Apply \/ C!Reset_All_State
    BY <1>2, <2>1 DEF C!FCGI_Thread, Brought
  <2>3. Offered(list)
    BY OfferedLists DEF CInv
  <2> QED BY <2>2, <2>3, RequestKeeps
<1>3. ASSUME NEW t \in C!Thread,
             \/ C!Publish_Counting_Build(t) \/ C!Send_LoRa_Payload(t)
             \/ C!Counting_Save_Counters(t)
      PROVE  CInv'
  BY <1>3, PublishKeeps, SaveKeeps
<1>4. CASE C!Shutdown \/ C!Restart \/ C!Counting_Load_Counters
  BY <1>4, ProcessKeeps
<1> QED BY <1>1, <1>2, <1>3, <1>4 DEF C!Next

LEMMA CountingSame ==
  ASSUME CInv, UNCHANGED cvars
  PROVE  CInv'
<1>1. /\ up' = up /\ tree' = tree /\ file' = file /\ g_scenes' = g_scenes /\ totals' = totals
      /\ inode' = inode /\ counters' = counters /\ temporary' = temporary /\ pc' = pc
      /\ made' = made /\ requests' = requests /\ tracks' = tracks /\ restarts' = restarts
      /\ crossed' = crossed /\ floor' = floor /\ raced' = raced
  BY DEF cvars
<1>2. ListsSound' /\ ThreadsSound' /\ DiskSound' /\ OneAtATime' /\ BoundsSound'
  BY <1>1, ListsSame, NoneSteps, DiskSame, SafeSame DEF CInv, BoundsSound
<1>3. SnapshotsSound'
  BY <1>1, SnapshotsStay DEF CInv, SnapshotsSound
<1>4. CountsSound'
  BY <1>1 DEF CInv, CountsSound, C!TotalsExact, NeverCrossed, Scenes, C!Elements
<1> QED BY <1>2, <1>3, <1>4 DEF CInv

LEMMA CountingHolds ==
  ASSUME C!ConstantsAssumption
  PROVE  TrafficSpec => []CInv
<1>1. TrafficInit => CInv
  BY CountingInitial DEF TrafficInit
<1>2. CInv /\ [Tracked \/ Counted]_tvars => CInv'
  BY CountingKeeps, CountingSame DEF Tracked, Counted, tvars
<1> QED BY <1>1, <1>2, PTL DEF TrafficSpec

-----------------------------------------------------------------------------
\* Within one run of the process every scene's total counts the tracks that crossed that
\* scene, and the scene that it replaced under its id, since it was counted for or reset,
\* whatever lists of scenes are posted, sent over the air, refused or half applied, and what
\* is counted for is what the settings say unless they are invalid (counting.c,
\* ota_counting.c); with the types of the variables.
THEOREM TotalsHold ==
  ASSUME C!ConstantsAssumption
  PROVE  TrafficSpec => []TotalsExact
<1>1. CInv => TotalsExact
  <2> SUFFICES ASSUME CInv
               PROVE  TotalsExact
    OBVIOUS
  <2>1. ListsSound /\ SnapshotsSound /\ CountsSound /\ ThreadsSound /\ DiskSound /\ BoundsSound
    BY DEF CInv
  <2>2. \A f : Within(f, tracks) => C!Snapshot(f)
    BY DEF Within, C!Snapshot
  <2>3. C!TypeOK
    <3>1. \A t \in C!Thread :
            /\ pc[t].at \in {"idle", "sending", "apply", "open", "write", "rename"}
            /\ C!Snapshot(pc[t].totals) /\ pc[t].inode \in C!Inode \cup {C!NoFile}
      BY <2>1, <2>2 DEF ThreadsSound, ThreadAt, Point, SnapshotsSound
    <3>2. /\ C!Snapshot(totals) /\ C!Snapshot(floor)
          /\ \A i \in C!Inode : inode[i].whole \in BOOLEAN /\ C!Snapshot(inode[i].totals)
          /\ crossed \in [1 .. MaxScenes -> 0 .. tracks] /\ tracks \in 0 .. MaxTracks
      BY <2>1, <2>2 DEF SnapshotsSound, DiskSound
    <3>3. /\ up \in {"starting", "running", "stopping"} /\ raced \in BOOLEAN
          /\ counters \in C!Inode \cup {C!NoFile} /\ temporary \in C!Inode \cup {C!NoFile}
          /\ requests \in 0 .. MaxRequests /\ restarts \in 0 .. MaxRestarts
      BY <2>1 DEF ThreadsSound, DiskSound, BoundsSound
    <3>4. /\ tree \in Seq(C!Scene) /\ file \in Seq(C!Scene) /\ g_scenes \in Seq(C!Scene)
          /\ C!Counting_Validate_Config(g_scenes) /\ DOMAIN totals = C!Ids(g_scenes)
          /\ made \in 0 .. MaxScenes
      BY <2>1 DEF ListsSound
    <3> QED BY <3>1, <3>2, <3>3, <3>4 DEF C!TypeOK
  <2> QED BY <2>1, <2>3 DEF TotalsExact, ListsSound, CountsSound
<1> QED BY <1>1, CountingHolds, PTL

\* Wherever the process is killed, counters.json is absent or whole unless two saves ever ran
\* at once, and unless they did no scene that keeps its id falls behind the totals that a
\* completed publish saved, through restarts, changed settings and failed saves
\* (Counting_Save_Counters and Counting_Load_Counters, radar/app/main.c).
THEOREM PublishedKept ==
  ASSUME C!ConstantsAssumption
  PROVE  TrafficSpec => []CountersSurvive
<1>1. CInv => CountersSurvive
  <2> SUFFICES ASSUME CInv
               PROVE  CountersSurvive
    OBVIOUS
  <2>1. C!OnlyRacesTear
    BY DEF CInv, OneAtATime, FilesSound, C!OnlyRacesTear, C!CountersFileWhole
  <2>2. C!PublishedTotalsSurvive
    <3>1. ASSUME up # "starting", ~raced, NEW s \in C!Elements(g_scenes), s.id \in DOMAIN floor
          PROVE  totals[s.id] >= floor[s.id]
      <4>1. AtLeast(totals, floor)
        BY <3>1 DEF CInv, OneAtATime, Floored
      <4> QED BY <3>1, <4>1 DEF AtLeast, CInv, SnapshotsSound, Within
    <3> QED BY <3>1 DEF C!PublishedTotalsSurvive
  <2> QED BY <2>1, <2>2 DEF CountersSurvive
<1> QED BY <1>1, CountingHolds, PTL
=============================================================================
