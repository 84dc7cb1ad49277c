---------------------------- MODULE MCAppParts ------------------------------
(***************************************************************************)
(* The parts of the apps, for TLC, with the frames in which aoa is asked   *)
(* and in which it tells of itself, one at a time: subject says which one  *)
(* moves, the others stay in their initial states.                         *)
(***************************************************************************)
EXTENDS AppParts, OtaFrames, TLC

CONSTANT Subject

VARIABLE subject

Config(points) == [publish |-> "slow", aoi |-> FALSE, points |-> points]
Defaults == [config |-> [g \in Group |-> Config(3)], schedule |-> "always"]

\* Boxes of a class that overlap by a third, as sure as each other or not, and one of
\* another class in the same place.
Car(c, objectness, x) == [classIndex |-> 0, c |-> c, objectness |-> objectness, x |-> x]
Left == Car(60, 70, 0)
Middle == Car(80, 90, 1)
Right == Car(60, 90, 2)
Bus == [Middle EXCEPT !.classIndex = 1]
Detection(objectness, chosen, include) ==
  [objectness |-> objectness, confidence |-> 50, selected |-> chosen, include |-> include]
Boxes == {Left, Middle, Right, Bus}
Frames == {<<>>, <<Left, Right, Middle>>, <<Bus, Middle, Left>>}
DetectionSettings == {Detection(50, {}, {}), Detection(80, {0}, {0, 1, 2})}

\* One alert, and a file of each version that is brought into this one in a way of its own.
Scenario(s) == [door |-> [schedule |-> s]]
AoaFiles == {<<>>,
  <<[old |-> [interval |-> 5, enabled |-> TRUE], lorawan |-> [port |-> 0]]>>,
  <<[version |-> 2, counting |-> [port |-> 0, interval |-> 5]]>>,
  <<[version |-> 6, presence |-> [enabled |-> TRUE, port |-> 3, scenarios |-> Scenario("none")]]>>,
  <<[version |-> 7, disabled |-> {"CAPS"},
     presence |-> [enabled |-> TRUE, schedule |-> "nights", scenarios |-> Scenario("none")]]>>,
  <<[version |-> 8, disabled |-> {"SET"}]>>}

\* A bundle that is right, and bundles each wrong in a way of its own.
Good == [contract |-> TRUE, hashes |-> TRUE, tensors |-> TRUE, classes |-> 2,
         labels |-> <<"car", "bus">>, targets |-> {"artpec8"}]
Bundles ==
  {Good, [Good EXCEPT !.contract = FALSE], [Good EXCEPT !.hashes = FALSE],
   [Good EXCEPT !.tensors = FALSE], [Good EXCEPT !.classes = 1],
   [Good EXCEPT !.labels = <<"car", "car">>], [Good EXCEPT !.labels = <<"car", "">>]}
DetectxFiles ==
  {[variant |-> "detectx", selected |-> <<"car">>],
   [variant |-> "detectx", selected |-> <<"bus", "car">>],
   [variant |-> "aoa", selected |-> <<"cat">>]}

\* Requests with as many corners as fit one page, or less, or more; and scenes drawn by
\* hand, off the thousandths of the frames, that differ in fields, in number, or in where
\* corners are.
Corners(n) ==
  SubSeq(<< <<0, 1000>>, <<1000, 0>>, <<500, 333>>, <<667, 1>>, <<512, 255>>, <<256, 511>>,
            <<1000, 1000>>, <<0, 0>>, <<999, 2>>, <<1, 998>> >>, 1, n)
Drawn(n, seed) ==
  [i \in 1 .. n |-> <<((i * 7919 + seed) % 65535) - 32767, 32767 - ((i * 6553 * seed) % 65535)>>]
AlertScene(n) == [classes |-> {0, 5}, threshold |-> 101, delay |-> 7200,
             schedule |-> <<TRUE, 1439, 256>>, points |-> Corners(n)]
Area(n) == [classes |-> {1}, threshold |-> 1, delay |-> 0,
            schedule |-> <<FALSE, 1080, 360>>, points |-> Drawn(n, 1)]
Requests ==
  {[sender |-> s, port |-> 131,
    config |-> [rightToLeft |-> TRUE, classes |-> {0, 3}, points |-> Corners(8)]] : s \in {"encoder", "older"}}
  \cup {[sender |-> s, port |-> 132,
         config |-> [classes |-> {}, value |-> 2, points |-> Corners(10)]] : s \in {"encoder", "older"}}
  \cup [sender : {"encoder", "older"}, port : {133}, config : {AlertScene(8), AlertScene(10)}]
  \cup [sender : {"encoder"}, port : {110},
        config : {[dataRate |-> <<5>>, adr |-> <<>>], [dataRate |-> <<>>, adr |-> <<TRUE>>]}]
  \cup [sender : {"encoder"}, port : {130},
        config : {[useCase |-> 1, enabled |-> TRUE, interval |-> 60],
                  [useCase |-> 3, enabled |-> FALSE, interval |-> 0]}]
  \cup [sender : {"encoder"}, port : {100}, config : [action : {1, 2}]]
Versions ==
  (100 :> {[action |-> 0]}) @@ (110 :> [dataRate : {0, 4}, adr : {FALSE}])
  @@ (130 :> {[useCase |-> 1, enabled |-> FALSE, interval |-> 5],
              [useCase |-> 3, enabled |-> TRUE, interval |-> 0]})
  @@ (131 :> {[rightToLeft |-> FALSE, classes |-> {}, points |-> Drawn(2, 3)]})
  @@ (132 :> {[classes |-> {2}, value |-> 1, points |-> Drawn(4, 3)]})
  @@ (133 :> {Area(10), [Area(10) EXCEPT !.points = Drawn(10, 5)],
              [Area(10) EXCEPT !.threshold = 2], Area(9)})

\* Names that just fit one answer, or not, or fill pages so that a number lies on two.
Told(type, lengths, values) ==
  [type |-> type, fields |-> [i \in DOMAIN lengths |-> [value |-> values[i], length |-> lengths[i]]]]
Devices ==
  {Told("camera", <<l, 12, 7, n, 5>>, <<1, 1, 1, v, 1>>) : l \in {13, 14, 18, 21}, n \in {2, 3}, v \in {1, 2}}
  \cup {Told("bridge", <<12, 5, l, 10, 3, n, 8>>, <<1, 1, 1, 1, v, v, 1>>) : l \in {3, 50}, n \in {2, 3}, v \in {1, 2}}

ASSUME R!ConstantsAssumption /\ A!ConstantsAssumption /\ S!ConstantsAssumption
       /\ M!ConstantsAssumption /\ D!ConstantsAssumption
       /\ T!ConstantsAssumption /\ I!ConstantsAssumption

vars == <<subject, rvars, svars, dvars, avars, mvars, tvars, ivars>>

\* In "one scene" AOA has one scene only, for progress.
Init ==
  /\ subject \in Subject
  /\ R!Init /\ (subject # "settings" => settings_file = <<>>)
  /\ A!Init /\ (subject # "upgrade" => aoa_file = <<>>)
  /\ S!Init /\ DOMAIN scenes = (IF subject = "scenes" THEN Id ELSE {1})
  /\ \A id \in DOMAIN scenes : scenes[id].name = "door"
  /\ M!Init /\ (subject # "start" => bundle = Good /\ platform = "artpec8" /\ selected = <<>>)
  /\ D!Init /\ g_nms = 20 /\ g_detection_config = Detection(50, {}, {})
  /\ T!Init /\ (subject # "translator" => port = 100)
  /\ I!Init
  /\ subject # "information" => facts = Told("camera", <<13, 12, 7, 2, 5>>, <<1, 1, 1, 1, 1>>)

Moves(s) == subject = s /\ UNCHANGED subject
OneScene(step) ==
  /\ Moves("one scene") /\ step /\ DOMAIN scenes' \subseteq {1}
  /\ UNCHANGED <<rvars, dvars, avars, mvars, tvars, ivars>>
Next ==
  \/ Moves("settings") /\ R!Next /\ UNCHANGED <<svars, dvars, avars, mvars, tvars, ivars>>
  \/ Moves("upgrade") /\ A!Next /\ UNCHANGED <<rvars, svars, dvars, mvars, tvars, ivars>>
  \/ Moves("scenes") /\ S!Next /\ UNCHANGED <<rvars, dvars, avars, mvars, tvars, ivars>>
  \/ OneScene(S!Next)
  \/ Moves("start") /\ M!Next /\ UNCHANGED <<rvars, svars, dvars, avars, tvars, ivars>>
  \/ Moves("frames") /\ D!Next /\ UNCHANGED <<rvars, svars, avars, mvars, tvars, ivars>>
  \/ Moves("translator") /\ T!Next /\ UNCHANGED <<rvars, svars, dvars, avars, mvars, ivars>>
  \/ Moves("information") /\ I!Next /\ UNCHANGED <<rvars, svars, dvars, avars, mvars, tvars>>

Spec == Init /\ [][Next]_vars

\* Steady(1) of the one scene, and the fairness of the frames.
Begins == OneScene(S!Begin(1, 1))
Heard(page) == OneScene(S!Validate_Set_Page(1, page))
Completed(page) == OneScene(S!Complete(1, page))
Expires == OneScene(S!OTA_SCENE_PENDING_TIMEOUT)
Applies == OneScene(S!Apply_Pending)
Set == OneScene(S!Apply_AOA_Configuration("set"))
Written == OneScene(S!ACAP_FILE_Write("written"))
Pipeline == Moves("frames") /\ UNCHANGED <<rvars, svars, avars, mvars, tvars, ivars>>
Fetches == Pipeline /\ \E newBuffer \in Buffer : D!threadEntry(newBuffer, TRUE)
Processes == Pipeline /\ D!Process_Frame
Fairness ==
  /\ WF_vars(Begins) /\ \A page \in {0, 1} : SF_vars(Heard(page)) /\ SF_vars(Completed(page))
  /\ WF_vars(Expires) /\ WF_vars(Applies) /\ SF_vars(Set) /\ SF_vars(Written)
  /\ WF_vars(Fetches) /\ WF_vars(Processes)

FairSpec == Spec /\ Fairness
-----------------------------------------------------------------------------
\* What goes on in these parts (ota_scene.c, imgprovider.c), commented where it is stated:
\* TransfersRecur of the one scene and FramesFlow of the frames.
PartsRecur ==
  subject \in {"one scene", "frames"} =>
    []<>(IF subject = "frames" THEN D!Counted ELSE S!Taken)
=============================================================================
