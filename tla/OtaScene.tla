------------------------------ MODULE OtaScene ------------------------------
(***************************************************************************)
(* The scenes of AXIS Object Analytics as they are set over LoRaWAN        *)
(* (aoa/app/ota_scene.c): a scene is sent in pages, each a downlink of its *)
(* own, that say which scene and which set of scenes they are meant for.   *)
(* Pages are lost, repeated and come in any order; a transfer that was     *)
(* begun keeps others out until it times out.                              *)
(*                                                                         *)
(* When all pages are there the corners go to AOA and the rest to the      *)
(* settings file: AOA's whole configuration is read, changed and set, the  *)
(* file is written, and AOA is set back if that failed.  Each of these     *)
(* fails on its own, the user of AOA changes scenes meanwhile, and the app *)
(* stops.                                                                  *)
(*                                                                         *)
(* One of the three ports, which have a pending transfer each.  The use    *)
(* case reloads its configuration in the step that replaces the settings.  *)
(* apart and acked are history variables.                                  *)
(***************************************************************************)
EXTENDS Integers, Sequences, FiniteSets

CONSTANTS Id,           \* ids AOA gives to scenes
          Name,         \* names a scene may have
          Transfer,     \* transaction ids of senders: each names the scene data it is for
          Domain,       \* "counting", "occupancy" or "presence"
          ConfigVersion,\* OTA_SCENE_CONFIG_VERSION_Q15 or _INTEGER
          TotalPoints,  \* corners of the scenes that are sent
          MaxChanges    \* bound: changes by the user of AOA, and restarts

\* Static_Field_Length, Coordinate_Bytes, Points_Per_Page.
OTA_MAX_BODY_SIZE == 47
Static_Field_Length == IF Domain = "presence" THEN 9 ELSE 3
Coordinate_Bytes == IF ConfigVersion = 2 THEN 3 ELSE 4
Points_Per_Page == (OTA_MAX_BODY_SIZE - 13 - Static_Field_Length) \div Coordinate_Bytes
Page_Count == (TotalPoints + Points_Per_Page - 1) \div Points_Per_Page
Page == 0 .. Page_Count - 1
Point == 0 .. TotalPoints - 1

\* The corners on a page: expected_start, and up to expected_count of them.
On(page) == {i \in Point : i \div Points_Per_Page = page}

ConstantsAssumption ==
  /\ Id \subseteq Nat \ {0} /\ IsFiniteSet(Id)
  /\ Domain \in {"counting", "occupancy", "presence"} /\ ConfigVersion \in {1, 2}
  /\ TotalPoints \in (IF Domain = "counting" THEN 2 ELSE 3) .. 10
  /\ MaxChanges \in Nat

VARIABLES
  scenes,    \* AOA: its scenes of this domain, by id, with name and corners
  transfers, \* what each sender read of the map when it began: <<>> or <<target>>
  pending,   \* g_pending of the port: <<>> or <<transfer>>
  memory,    \* the settings of a scene, by its name
  file,      \* localdata/settings.json: <<settings>>, or <<>> if unreadable
  call,      \* the transfer that is being applied: <<>> or <<call>>
  apart,     \* names of scenes that AOA and the settings may differ about
  acked,     \* the last transfer that was applied was acknowledged OK
  changes

vars == <<scenes, transfers, pending, memory, file, call, apart, acked, changes>>
-----------------------------------------------------------------------------
\* Corners and settings are named by what they were sent for and by whom: <<>> is what
\* the user of AOA drew.
Data == {<<>>} \cup [transfer : Transfer, id : Id, name : Name]
Drawn == [i \in Point |-> <<>>]

\* Scene_Fingerprint and the fingerprint of the map, taken to tell all scenes apart.
Scene_Fingerprint(data, id) == <<id, data[id].name>>
Map_Fingerprint(data) == {Scene_Fingerprint(data, id) : id \in DOMAIN data}

\* Build_Scene_Map: scenes are numbered in the order of their ids.
Index(data, id) == Cardinality({j \in DOMAIN data : j <= id})

\* What a sender puts on its pages, from the LIST and GET commands.
Target(data, id) ==
  [index |-> Index(data, id), id |-> id, name |-> data[id].name, map |-> Map_Fingerprint(data)]

SceneName(target) == <<target.id, target.name>>
Content(t, target) == [transfer |-> t, id |-> target.id, name |-> target.name]

\* Validate_Set_Page: the scene with the index of the page has its fingerprint, and so
\* has the map.
Addressed_ByIndex(data, target) == target.index \in {Index(data, id) : id \in DOMAIN data}
Addressed(data, target) ==
  /\ \E id \in DOMAIN data :
       /\ Index(data, id) = target.index
       /\ id = target.id /\ Scene_Fingerprint(data, id) = <<target.id, target.name>>
  /\ Map_Fingerprint(data) = target.map

\* PendingSceneUpdate.  One that was last updated two minutes ago is cleared by the next
\* page, and is as good as none from then on.
NewPending(t) ==
  [transfer |-> t, target |-> transfers[t][1], received |-> {}, points |-> Drawn]
Begun(t) == IF pending = <<>> THEN NewPending(t) ELSE pending[1]
NeverExpired == pending
Expired == <<>>

SameScene(p, t) == p.target = transfers[t][1]
SameTransfer(p, t) == p.transfer = t /\ SameScene(p, t)

\* One corner of a bad page, its last, cannot be read: those before it are stored.
WithPage(p, t, points) ==
  [p EXCEPT !.points = [i \in Point |-> IF i \in points THEN Content(t, p.target) ELSE @[i]]]
LastOn(page) == CHOOSE i \in On(page) : \A j \in On(page) : j <= i
-----------------------------------------------------------------------------
Init ==
  /\ \E drawn \in SUBSET Id : scenes \in [drawn -> [name : Name, points : {Drawn}]]
  /\ transfers = [t \in Transfer |-> <<>>]
  /\ pending = <<>>
  /\ memory = [n \in Id \X Name |-> <<>>] /\ file = <<memory>>
  /\ call = <<>> /\ apart = {} /\ acked = FALSE /\ changes = 0

\* A sender reads the map and begins a transfer; it begins again from a newer map.
Begin(t, id) ==
  /\ id \in DOMAIN scenes
  /\ transfers[t] # <<>> => ~Addressed(scenes, transfers[t][1])
  /\ transfers' = [transfers EXCEPT ![t] = <<Target(scenes, id)>>]
  /\ UNCHANGED <<scenes, pending, memory, file, call, apart, acked, changes>>

\* OTA_Scene_Handle, SET: AOA's configuration was read, and the page is for a scene of it.
Page_Received(t) == call = <<>> /\ transfers[t] # <<>> /\ Addressed(scenes, transfers[t][1])

\* The last page: Apply_Pending goes on with the configuration that was read.
Apply(p) == [stage |-> "aoa", pending |-> p, data |-> scenes]

Validate_Set_Page(t, page) ==
  /\ Page_Received(t)
  /\ SameTransfer(Begun(t), t) /\ page \notin Begun(t).received
  /\ LET p == [WithPage(Begun(t), t, On(page)) EXCEPT !.received = @ \cup {page}]
     IN /\ pending' = <<p>>
        /\ call' = IF p.received = Page THEN <<Apply(p)>> ELSE <<>>
  /\ acked' = FALSE
  /\ UNCHANGED <<scenes, transfers, memory, file, apart, changes>>

\* A page with a corner that is out of range does not count, but leaves the corners
\* before it; a first page leaves updated_at 0, which is two minutes ago at once.  The
\* pages of another transfer, and those already there, are refused and change nothing.
Bad_Set_Page(t, page) ==
  /\ Page_Received(t) /\ pending # <<>>
  /\ SameTransfer(Begun(t), t) /\ page \notin Begun(t).received
  /\ pending' = <<WithPage(Begun(t), t, On(page) \ {LastOn(page)})>>
  /\ UNCHANGED <<scenes, transfers, memory, file, call, apart, acked, changes>>

\* Two minutes without a page.
OTA_SCENE_PENDING_TIMEOUT ==
  /\ call = <<>> /\ pending # <<>>
  /\ pending' = Expired
  /\ UNCHANGED <<scenes, transfers, memory, file, call, apart, acked, changes>>
-----------------------------------------------------------------------------
Applying(stage) == call # <<>> /\ call[1].stage = stage
Applied == call[1].pending
AppliedName == SceneName(Applied.target)

\* The pending transfer is forgotten once it is answered.
Answered(ok) == call' = <<>> /\ pending' = <<>> /\ acked' = ok
Goes(stage) == call' = <<[call[1] EXCEPT !.stage = stage]>> /\ UNCHANGED <<pending, acked>>

\* Replace_Vertices, and all of the configuration that was read with it.
Candidate == [call[1].data EXCEPT ![Applied.target.id].points = Applied.points]

\* setConfiguration may be refused, or its answer may be lost.
Apply_AOA_Configuration(outcome) ==
  /\ Applying("aoa")
  /\ scenes' = IF outcome = "refused" THEN scenes ELSE Candidate
  /\ IF outcome = "set" THEN Goes("file") ELSE Answered(FALSE)
  /\ apart' = IF outcome = "lost" THEN apart \cup {AppliedName} ELSE apart
  /\ UNCHANGED <<transfers, memory, file, changes>>

\* The user has not touched the scene since.
Undisturbed ==
  Applied.target.id \in DOMAIN scenes /\ scenes[Applied.target.id] = Candidate[Applied.target.id]

\* Update_Scene_Settings in a copy of the settings.
CandidateSettings == [memory EXCEPT ![AppliedName] = Content(Applied.transfer, Applied.target)]

\* ACAP_FILE_Write: what the file holds, and what is returned.
Outcome == {"written", "not_opened", "cut", "cut_unnoticed"}
Returns(outcome) == outcome \in {"written", "cut_unnoticed"}
AfterFailure_Nothing == Answered(FALSE)
AfterFailure == Goes("rollback")

ACAP_FILE_Write(outcome) ==
  /\ Applying("file")
  /\ file' = CASE outcome = "written" -> <<CandidateSettings>>
               [] outcome = "not_opened" -> file
               [] OTHER -> <<>>
  /\ \/ /\ Returns(outcome)
        /\ memory' = CandidateSettings
        /\ Answered(TRUE)
        /\ apart' = IF Undisturbed THEN apart \ {AppliedName} ELSE apart
     \/ /\ ~Returns(outcome)
        /\ AfterFailure
        /\ UNCHANGED <<memory, apart>>
  /\ UNCHANGED <<scenes, transfers, changes>>

\* AOA is set back, or it is not: nobody looks.
Rollback(done) ==
  /\ Applying("rollback")
  /\ scenes' = IF done THEN call[1].data ELSE scenes
  /\ apart' = IF done THEN apart ELSE apart \cup {AppliedName}
  /\ Answered(FALSE)
  /\ UNCHANGED <<transfers, memory, file, changes>>
-----------------------------------------------------------------------------
\* The user of AOA renames a scene and draws it anew, removes one, or makes one.
Change == changes < MaxChanges /\ changes' = changes + 1
Edit(id, name) ==
  /\ Change
  /\ scenes' = [j \in DOMAIN scenes \cup {id} |->
                  IF j = id THEN [name |-> name, points |-> Drawn] ELSE scenes[j]]
  /\ apart' = apart \cup {<<id, name>>}
  /\ UNCHANGED <<transfers, pending, memory, file, call, acked>>

Remove(id) ==
  /\ Change /\ id \in DOMAIN scenes
  /\ scenes' = [j \in DOMAIN scenes \ {id} |-> scenes[j]]
  /\ UNCHANGED <<transfers, pending, memory, file, call, apart, acked>>

\* The app stops, also between the steps of a transfer, and starts from the file.
Restart ==
  /\ Change
  /\ memory' = IF file = <<>> THEN [n \in Id \X Name |-> <<>>] ELSE file[1]
  /\ apart' = IF file = <<>> THEN Id \X Name
              ELSE apart \cup (IF call = <<>> THEN {} ELSE {AppliedName})
  /\ pending' = <<>> /\ call' = <<>>
  /\ UNCHANGED <<scenes, transfers, file, acked>>

Set_Page(t, page) == Validate_Set_Page(t, page) \/ Bad_Set_Page(t, page)
Apply_Pending ==
  \/ \E outcome \in {"set", "lost", "refused"} : Apply_AOA_Configuration(outcome)
  \/ \E outcome \in Outcome : ACAP_FILE_Write(outcome)
  \/ \E done \in BOOLEAN : Rollback(done)

Next ==
  \/ \E t \in Transfer, id \in Id : Begin(t, id)
  \/ \E t \in Transfer, page \in Page : Set_Page(t, page)
  \/ OTA_SCENE_PENDING_TIMEOUT
  \/ Apply_Pending
  \/ \E id \in Id, name \in Name : Edit(id, name)
  \/ \E id \in Id : Remove(id)
  \/ Restart

Spec == Init /\ [][Next]_vars

\* The page of t that comes last comes within two minutes of the one before.
Complete(t, page) ==
  /\ pending # <<>> /\ pending[1].received = Page \ {page}
  /\ Validate_Set_Page(t, page)

\* A sender t that goes on sending to a scene, beginning again whenever the map has
\* changed, is now and then heard with each of its pages, and now and then with all of
\* them in time; AOA and the file now and then take what they are given; time passes.
Steady(t) ==
  /\ \A id \in Id : WF_vars(Begin(t, id))
  /\ WF_vars(OTA_SCENE_PENDING_TIMEOUT)
  /\ \A page \in Page : SF_vars(Validate_Set_Page(t, page)) /\ SF_vars(Complete(t, page))
  /\ WF_vars(Apply_Pending)
  /\ SF_vars(Apply_AOA_Configuration("set")) /\ SF_vars(ACAP_FILE_Write("written"))
-----------------------------------------------------------------------------
\* The types.
TypeOK ==
  /\ DOMAIN scenes \subseteq Id
  /\ \A id \in DOMAIN scenes : scenes[id] \in [name : Name, points : [Point -> Data]]
  /\ pending = <<>> \/ pending[1].received \subseteq Page
  /\ memory \in [Id \X Name -> Data]
  /\ apart \subseteq Id \X Name
  /\ changes \in 0 .. MaxChanges

\* A scene has the corners its user drew, or all the corners of one transfer that was
\* sent for it, under the name it has: never those of two, with some missing, or those
\* of the scene that had its number before (Validate_Set_Page, ota_scene.c:644-755).
WholeTransfers ==
  \A id \in DOMAIN scenes :
    LET s == scenes[id] IN
    /\ \A i \in Point : s.points[i] = s.points[0]
    /\ s.points[0] # <<>> => s.points[0].id = id /\ s.points[0].name = s.name

\* Between transfers AOA's corners and the settings of a scene are of the same transfer,
\* also after one that failed, unless AOA's answer was lost, it could not be set back,
\* the app stopped halfway, the file was cut, or the user drew the scene anew
\* (Apply_Pending, ota_scene.c:533-642).
Together ==
  call = <<>> =>
    \A id \in DOMAIN scenes \ {j \in DOMAIN scenes : <<j, scenes[j].name>> \in apart} :
      memory[<<id, scenes[id].name>>] = scenes[id].points[0]

\* While there is a scene and a sender that goes on, transfers are acknowledged OK again
\* and again: what another sender left behind does not keep it out for ever
\* (ota_scene.c:706-731).
Taken == acked \/ DOMAIN scenes = {}
TransfersRecur == []<>Taken
=============================================================================
