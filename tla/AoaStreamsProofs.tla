-------------------------- MODULE AoaStreamsProofs --------------------------
(***************************************************************************)
(* Proofs about the streams of the aoa app.                                *)
(*                                                                         *)
(* Presence, for any areas, trigger delays and number of settings:         *)
(* ClearArmed is inductive together with the types, PresenceAnnounced with *)
(* what the uplink in progress says.  What an action does to one area is a *)
(* lemma of its own.                                                       *)
(*                                                                         *)
(* Occupancy, for any areas, samples and selections: StatusCurrent is      *)
(* inductive with what each renewal has built.                             *)
(*                                                                         *)
(* Counting, for any scenarios, publishers and bounds: NoOvercount is      *)
(* inductive with the differences between the sums that AOA reports, in    *)
(* the order in which they are processed, and what an answer may say that  *)
(* was not overtaken.                                                      *)
(***************************************************************************)
EXTENDS AoaStreams, Sequences, FiniteSetTheorems, SequenceTheorems, TLAPS

Due == Nat \cup {Never}
Areas == AreaType(Due)

\* The part of ClearArmed that is about one area.
Armed(r) == r.clear_due # Never <=> r.active /\ ~r.aoa_active

IInv == TypeOK /\ ClearArmed

\* The invariant of the areas alone.
AreasSound == area \in [Area -> Areas] /\ \A a \in Area : Armed(area[a])

\* Before the first payload there is an empty one.
LEMMA NothingTyped == Nothing \in Payload /\ Idle \in PublisherType
<1>1. Nothing \in [{} -> BOOLEAN]
  BY DEF Nothing
<1>2. Nothing \in Payload
  BY <1>1 DEF Payload
<1> QED BY <1>2 DEF Idle, PublisherType

\* Everything but what the areas keep.
OthersTyped ==
  /\ areas \in SUBSET Area /\ g_enabled \in BOOLEAN /\ g_pending \in BOOLEAN
  /\ initializing \in SUBSET Area /\ publisher \in PublisherType /\ heard \in Payload
  /\ settings \in 0 .. MaxSettings /\ unannounced \in BOOLEAN

\* The invariant is that of the areas and the types of the rest.
LEMMA Parts == IInv <=> AreasSound /\ OthersTyped
BY DEF IInv, TypeOK, ClearArmed, AreasSound, OthersTyped, Armed, Areas, Due, AreaType

-----------------------------------------------------------------------------
\* An area that was just configured has no clear and needs none.
LEMMA NewAreaSound == NewArea \in Areas /\ Armed(NewArea)
BY DEF NewArea, Areas, AreaType, Due, Armed, Never

\* An event of AOA arms the clear of an active area or takes it back.
LEMMA EventSound ==
  ASSUME NEW r \in Areas, Armed(r), NEW v \in BOOLEAN, NEW delay \in Nat
  PROVE  AfterEvent(r, v, delay) \in Areas /\ Armed(AfterEvent(r, v, delay))
<1> DEFINE clears == ~v /\ r.active /\ delay = 0
           active == IF v THEN r.active \/ r.allowed ELSE r.active /\ ~clears
           clear == IF v \/ ~active THEN Never ELSE 2 * delay
<1>1. AfterEvent(r, v, delay) = [r EXCEPT !.known = TRUE, !.aoa_active = v,
                                          !.active = active, !.clear_due = clear]
  BY DEF AfterEvent
<1>2. /\ r.active \in BOOLEAN /\ r.allowed \in BOOLEAN /\ r.matched \in BOOLEAN
      /\ r.clear_due \in Due
  BY DEF Areas, AreaType
<1>3. active \in BOOLEAN
  BY <1>2
<1>4. clear \in Due /\ (clear # Never <=> ~v /\ active)
  BY <1>3 DEF Due, Never
<1> HIDE DEF active, clear
<1>5. AfterEvent(r, v, delay) =
        [matched |-> r.matched, known |-> TRUE, aoa_active |-> v,
         active |-> active, clear_due |-> clear, allowed |-> r.allowed]
  BY <1>1 DEF Areas, AreaType
<1>6. AfterEvent(r, v, delay) \in Areas
  BY <1>2, <1>3, <1>4, <1>5 DEF Areas, AreaType
<1>7. Armed(AfterEvent(r, v, delay))
  <2>1. AfterEvent(r, v, delay).clear_due = clear
    BY <1>5
  <2>2. AfterEvent(r, v, delay).active = active
    BY <1>3, <1>5
  <2>3. AfterEvent(r, v, delay).aoa_active = v
    BY <1>5
  <2> QED BY <1>4, <2>1, <2>2, <2>3, Zenon DEF Armed
<1> QED BY <1>6, <1>7

\* The look at schedule and clock drops a clear with the activity it would end.
LEMMA UpdateSound ==
  ASSUME NEW r \in Areas, Armed(r)
  PROVE  Updated(r) \in Areas /\ Armed(Updated(r))
<1>1. /\ r.active \in BOOLEAN /\ r.aoa_active \in BOOLEAN /\ r.allowed \in BOOLEAN
      /\ r.clear_due \in Due
  BY DEF Areas, AreaType
<1>2. CASE ~r.allowed /\ r.active
  BY <1>2 DEF Updated, Areas, AreaType, Due, Armed
<1>3. CASE r.allowed /\ r.aoa_active /\ ~r.active
  BY <1>3 DEF Updated, Areas, AreaType, Due, Armed
<1>4. CASE r.allowed /\ r.active /\ ~r.aoa_active /\ r.clear_due = 0
  BY <1>4 DEF Updated, Areas, AreaType, Due, Armed
<1>5. CASE /\ ~(~r.allowed /\ r.active) /\ ~(r.allowed /\ r.aoa_active /\ ~r.active)
           /\ ~(r.allowed /\ r.active /\ ~r.aoa_active /\ r.clear_due = 0)
  <2>1. Updated(r) = r
    BY <1>1, <1>5 DEF Updated
  <2> QED BY <2>1
<1> QED BY <1>1, <1>2, <1>3, <1>4, <1>5

\* Time elapses a clear but never takes it away.
LEMMA TimeSound ==
  ASSUME NEW r \in Areas, Armed(r), NEW now \in BOOLEAN
  PROVE  Timed(r, now) \in Areas /\ Armed(Timed(r, now))
<1>1. r.clear_due \in Due
  BY DEF Areas, AreaType
<1>2. Counted(r.clear_due) \in Due /\ (Counted(r.clear_due) # Never <=> r.clear_due # Never)
  BY <1>1 DEF Counted, Due, Never
<1> QED BY <1>2 DEF Timed, Areas, AreaType, Armed

\* Loading the settings leaves an area sound.
LEMMA ReloadSound ==
  ASSUME AreasSound, NEW a \in Area, NEW allowed \in BOOLEAN
  PROVE  Reloaded(a, allowed) \in Areas /\ Armed(Reloaded(a, allowed))
<1> DEFINE r == IF a \in areas THEN area[a] ELSE NewArea
<1>1. r \in Areas /\ Armed(r)
  BY NewAreaSound DEF AreasSound
<1>2. Reloaded(a, allowed) =
        IF allowed THEN [r EXCEPT !.allowed = TRUE]
        ELSE [r EXCEPT !.allowed = FALSE, !.active = FALSE, !.clear_due = Never]
  BY DEF Reloaded
<1> HIDE DEF r
<1>3. CASE allowed
  BY <1>1, <1>2, <1>3 DEF Areas, AreaType, Armed
<1>4. CASE ~allowed
  BY <1>1, <1>2, <1>4 DEF Areas, AreaType, Armed, Due
<1> QED BY <1>3, <1>4

-----------------------------------------------------------------------------
\* What an uplink says of the areas is a payload.
LEMMA ActiveTyped ==
  ASSUME AreasSound, areas \in SUBSET Area
  PROVE  Active(areas, area) \in Payload
<1>1. \A a \in areas : area[a].active \in BOOLEAN
  BY DEF AreasSound, Areas, AreaType
<1>2. Active(areas, area) \in [areas -> BOOLEAN]
  BY <1>1 DEF Active
<1> QED BY <1>2 DEF Payload

\* A publisher that has been overtaken is still one.
LEMMA OvertakenTyped ==
  ASSUME publisher \in PublisherType
  PROVE  Overtaken \in PublisherType
BY DEF Overtaken, PublisherType

\* Queueing keeps the types of the flag and the publisher.
LEMMA QueueTyped ==
  ASSUME OthersTyped, NEW changed, Queue_Publish(changed)
  PROVE  g_pending' \in BOOLEAN /\ publisher' \in PublisherType
BY OvertakenTyped DEF Queue_Publish, OthersTyped

\* No action breaks the invariant: those that leave the areas alone keep their types, the
\* others are what the lemmas say of each area.
LEMMA Inductive ==
  ASSUME ConstantsAssumption, IInv, [Next]_vars
  PROVE  IInv'
<1>1. AreasSound /\ OthersTyped
  BY Parts
<1> USE <1>1
<1>2. ASSUME UNCHANGED area
      PROVE  AreasSound'
  BY <1>2 DEF AreasSound
<1>3. ASSUME NEW s \in [Area -> Areas], area' = s, \A a \in Area : Armed(s[a])
      PROVE  AreasSound'
  BY <1>3 DEF AreasSound
<1>4. AreasSound'
  <2>1. ASSUME NEW a \in Area, NEW v \in BOOLEAN, Presence_Process_AOA_Event(a, v)
        PROVE  AreasSound'
    <3>1. AfterEvent(area[a], v, Delay[a]) \in Areas /\ Armed(AfterEvent(area[a], v, Delay[a]))
      BY EventSound DEF AreasSound, ConstantsAssumption
    <3>2. area' = [area EXCEPT ![a] = AfterEvent(area[a], v, Delay[a])]
      BY <2>1 DEF Presence_Process_AOA_Event
    <3> QED BY <3>1, <3>2 DEF AreasSound
  <2>2. ASSUME Presence_Update
        PROVE  AreasSound'
    <3>1. area' = [a \in Area |-> IF a \in areas THEN Updated(area[a]) ELSE area[a]]
      BY <2>2 DEF Presence_Update
    <3>2. \A a \in Area : Updated(area[a]) \in Areas /\ Armed(Updated(area[a]))
      BY UpdateSound DEF AreasSound
    <3> QED BY <3>1, <3>2 DEF AreasSound
  <2>3. ASSUME TimePasses
        PROVE  AreasSound'
    <3>1. PICK now \in [Area -> BOOLEAN] :
            area' = [a \in Area |-> Timed(area[a], now[a])]
      BY <2>3 DEF TimePasses
    <3>2. \A a \in Area : Timed(area[a], now[a]) \in Areas /\ Armed(Timed(area[a], now[a]))
      BY TimeSound DEF AreasSound
    <3> QED BY <3>1, <3>2 DEF AreasSound
  <2>4. ASSUME NEW set \in SUBSET Area, NEW enabled \in BOOLEAN,
               Presence_Load_Config(set, enabled)
        PROVE  AreasSound'
    <3>1. PICK allowed \in [Area -> BOOLEAN] :
            area' = [a \in Area |-> IF a \in set THEN Reloaded(a, allowed[a]) ELSE NewArea]
      BY <2>4 DEF Presence_Load_Config
    <3>2. \A a \in Area : Reloaded(a, allowed[a]) \in Areas /\ Armed(Reloaded(a, allowed[a]))
      BY ReloadSound
    <3> QED BY <3>1, <3>2, NewAreaSound DEF AreasSound
  <2>5. ASSUME NEW a \in Area, NEW found \in BOOLEAN, Presence_Initialize_State(a, found)
        PROVE  AreasSound'
    <3> DEFINE s == [area[a] EXCEPT !.matched = @ \/ found]
    <3>1. area' = [area EXCEPT ![a] = s]
      BY <2>5 DEF Presence_Initialize_State
    <3>2. s \in Areas /\ Armed(s)
      BY DEF AreasSound, Areas, AreaType, Armed
    <3> HIDE DEF s
    <3> QED BY <3>1, <3>2 DEF AreasSound
  <2>6. ASSUME Presence_Reset_All
        PROVE  AreasSound'
    <3>1. area' = [a \in Area |-> [NewArea EXCEPT !.matched = area[a].matched,
                                                  !.allowed = area[a].allowed]]
      BY <2>6 DEF Presence_Reset_All
    <3>2. ASSUME NEW a \in Area
          PROVE  LET s == [NewArea EXCEPT !.matched = area[a].matched,
                                          !.allowed = area[a].allowed]
                 IN  s \in Areas /\ Armed(s)
      <4>1. area[a].matched \in BOOLEAN /\ area[a].allowed \in BOOLEAN
        BY DEF AreasSound, Areas, AreaType
      <4> QED BY <4>1 DEF NewArea, Areas, AreaType, Armed, Due
    <3> QED BY <3>1, <3>2 DEF AreasSound
  <2>7. ASSUME UNCHANGED vars \/ Publish_Thread \/ HTTP_Endpoint_publish
                 \/ (\E accepted \in BOOLEAN : B100_Send_Bytes(accepted))
                 \/ Presence_Mark_Published
        PROVE  AreasSound'
    <3>1. UNCHANGED area
      BY <2>7 DEF vars, state, Publish_Thread, HTTP_Endpoint_publish,
                  Presence_Build_Payload, B100_Send_Bytes, Presence_Mark_Published
    <3> QED BY <1>2, <3>1
  <2> QED BY <2>1, <2>2, <2>3, <2>4, <2>5, <2>6, <2>7 DEF Next, AOA, Initialize
<1>5. OthersTyped'
  <2> USE DEF OthersTyped, ConstantsAssumption
  <2>1. ASSUME NEW a \in Area, NEW v \in BOOLEAN, Presence_Process_AOA_Event(a, v)
        PROVE  OthersTyped'
    BY <2>1, QueueTyped DEF Presence_Process_AOA_Event, Unqueued
  <2>2. ASSUME Presence_Update
        PROVE  OthersTyped'
    BY <2>2, QueueTyped DEF Presence_Update, Unqueued
  <2>3. ASSUME NEW set \in SUBSET Area, NEW enabled \in BOOLEAN,
               Presence_Load_Config(set, enabled)
        PROVE  OthersTyped'
    BY <2>3, OvertakenTyped DEF Presence_Load_Config
  <2>4. ASSUME Presence_Reset_All
        PROVE  OthersTyped'
    BY <2>4, OvertakenTyped DEF Presence_Reset_All
  <2>5. ASSUME Presence_Build_Payload
        PROVE  OthersTyped'
    BY <2>5, ActiveTyped DEF Presence_Build_Payload, PublisherType, state, history
  <2>6. ASSUME NEW accepted \in BOOLEAN, B100_Send_Bytes(accepted)
        PROVE  OthersTyped'
    <3>1. publisher.payload \in Payload /\ [publisher EXCEPT !.at = "accepted"] \in PublisherType
      BY DEF PublisherType
    <3> QED BY <2>6, <3>1, NothingTyped DEF B100_Send_Bytes, state
  <2>7. ASSUME Presence_Mark_Published
        PROVE  OthersTyped'
    BY <2>7, NothingTyped DEF Presence_Mark_Published
  <2>8. ASSUME TimePasses \/ UNCHANGED vars
                 \/ \E a \in Area, found \in BOOLEAN : Presence_Initialize_State(a, found)
        PROVE  OthersTyped'
    BY <2>8 DEF TimePasses, Presence_Initialize_State, vars, state, history
  <2> QED BY <2>1, <2>2, <2>3, <2>4, <2>5, <2>6, <2>7, <2>8
          DEF Next, AOA, Initialize, Publish_Thread, HTTP_Endpoint_publish
<1> QED
  <2>1. IInv' <=> AreasSound' /\ OthersTyped'
    BY DEF IInv, TypeOK, ClearArmed, AreasSound, OthersTyped, Armed, Areas, Due, AreaType
  <2> QED BY <1>4, <1>5, <2>1

-----------------------------------------------------------------------------
\* The program starts with areas as they are configured and no clear.
LEMMA Initial == ConstantsAssumption /\ Init => IInv
<1> SUFFICES ASSUME ConstantsAssumption, Init PROVE IInv
  OBVIOUS
<1>1. AreasSound
  BY NewAreaSound DEF Init, AreasSound
<1>2. OthersTyped
  <2>1. settings \in 0 .. MaxSettings
    BY DEF Init, ConstantsAssumption
  <2>2. g_enabled \in BOOLEAN /\ g_pending \in BOOLEAN /\ unannounced \in BOOLEAN
    BY DEF Init
  <2>3. areas \in SUBSET Area /\ initializing \in SUBSET Area
    BY DEF Init
  <2> QED BY <2>1, <2>2, <2>3, NothingTyped DEF Init, OthersTyped
<1> QED BY <1>1, <1>2, Parts

\* Presence Alert keeps its types and, of every area in it, a clear exactly while the area
\* is active although AOA no longer reports it so (presence.c:389-470): no order of
\* events, schedules, settings, resets and uplinks leaves an area active for good.
THEOREM AreasClear ==
  ASSUME ConstantsAssumption
  PROVE  Spec => [](TypeOK /\ ClearArmed)
<1>1. Init => IInv
  BY Initial
<1>2. IInv /\ [Next]_vars => IInv'
  BY Inductive
<1>3. IInv => TypeOK /\ ClearArmed
  BY DEF IInv
<1> QED BY <1>1, <1>2, <1>3, PTL DEF Spec

-----------------------------------------------------------------------------
(***************************************************************************)
(* What the network was told.  Now is what a payload built now would say;  *)
(* nothing is owed if no change is pending and none was dropped.           *)
(***************************************************************************)
Now == Active(areas, area)
NothingOwed == ~g_pending /\ ~unannounced

\* A payload says what is so until a change overtakes it, and a change that does so is
\* owed; the one that was accepted is the last that the network heard.
Announced ==
  /\ NothingOwed => heard = Now
  /\ publisher.at = "sending" /\ NothingOwed => publisher.payload = Now
  /\ publisher.current => g_enabled /\ publisher.payload = Now
  /\ publisher.at = "accepted" => heard = publisher.payload

AInv == IInv /\ Announced

\* Where the areas say the same, and the uplink goes on or is overtaken, nothing changes.
LEMMA SameSaid ==
  ASSUME Announced, UNCHANGED heard, Now' = Now, g_enabled' = g_enabled,
         NothingOwed' => NothingOwed, publisher' \in {publisher, Overtaken},
         publisher \in PublisherType
  PROVE  Announced'
<1>1. /\ publisher'.at = publisher.at /\ publisher'.payload = publisher.payload
      /\ publisher'.current => publisher.current
  BY DEF Overtaken, PublisherType
<1> QED BY <1>1 DEF Announced

\* A change is owed from then on, and the uplink in progress is overtaken.
LEMMA ChangeOwed ==
  ASSUME Announced, UNCHANGED heard, ~NothingOwed', publisher' = Overtaken,
         publisher \in PublisherType
  PROVE  Announced'
<1>1. /\ publisher'.at = publisher.at /\ publisher'.payload = publisher.payload
      /\ publisher'.current = FALSE
  BY DEF Overtaken, PublisherType
<1> QED BY <1>1 DEF Announced

\* A change of the areas while the settings stay is queued, or hidden by a stream that is
\* disabled.
LEMMA QueueAnnounces ==
  ASSUME Announced, OthersTyped, NEW changed \in BOOLEAN, Now' # Now => changed,
         Queue_Publish(changed), Unqueued(changed), UNCHANGED <<heard, g_enabled>>
  PROVE  Announced'
<1>0. publisher \in PublisherType /\ g_enabled \in BOOLEAN /\ g_pending \in BOOLEAN
      /\ unannounced \in BOOLEAN
  BY DEF OthersTyped
<1>1. CASE changed /\ g_enabled
  <2>1. g_pending' /\ publisher' = Overtaken
    BY <1>1 DEF Queue_Publish
  <2> QED BY <1>0, <2>1, ChangeOwed DEF NothingOwed
<1>2. CASE changed /\ ~g_enabled
  <2>1. UNCHANGED <<g_pending, publisher>> /\ unannounced'
    BY <1>2 DEF Queue_Publish, Unqueued
  <2>2. ~publisher.current
    BY <1>2 DEF Announced
  <2> QED BY <2>1, <2>2 DEF Announced, NothingOwed
<1>3. CASE ~changed
  <2>1. UNCHANGED <<g_pending, publisher>> /\ unannounced' = unannounced
    BY <1>0, <1>3 DEF Queue_Publish, Unqueued
  <2> QED BY <1>0, <1>3, <2>1, SameSaid DEF NothingOwed
<1> QED BY <1>1, <1>2, <1>3

\* Settings and a reset overtake the uplink in progress; what they drop or hide is owed.
LEMMA DroppedIsOwed ==
  ASSUME Announced, OthersTyped, UNCHANGED heard, publisher' = Overtaken,
         unannounced' = (unannounced \/ (g_pending /\ ~g_pending') \/ Now' # Now),
         g_pending' => g_pending, g_pending' \in BOOLEAN
  PROVE  Announced'
<1>0. publisher \in PublisherType /\ g_pending \in BOOLEAN /\ unannounced \in BOOLEAN
  BY DEF OthersTyped
<1>1. CASE ~NothingOwed'
  BY <1>0, <1>1, ChangeOwed
<1>2. CASE NothingOwed'
  <2>1. ~unannounced /\ ~g_pending /\ Now' = Now
    BY <1>0, <1>2 DEF NothingOwed
  <2>2. NothingOwed
    BY <2>1 DEF NothingOwed
  <2>3. /\ publisher'.at = publisher.at /\ publisher'.payload = publisher.payload
        /\ publisher'.current = FALSE
    BY <1>0 DEF Overtaken, PublisherType
  <2> QED BY <2>1, <2>2, <2>3 DEF Announced
<1> QED BY <1>1, <1>2

LEMMA SameNow ==
  ASSUME areas' = areas, areas \in SUBSET Area,
         \A a \in Area : area'[a].active = area[a].active
  PROVE  Now' = Now
BY DEF Now, Active

LEMMA AnnouncedKept ==
  ASSUME ConstantsAssumption, AInv, [Next]_vars
  PROVE  Announced'
<1>0. Announced /\ AreasSound /\ OthersTyped /\ areas \in SUBSET Area /\ publisher \in PublisherType
  BY Parts DEF AInv, OthersTyped
<1>1. ASSUME NEW a \in Area, NEW v \in BOOLEAN, Presence_Process_AOA_Event(a, v)
      PROVE  Announced'
  <2> DEFINE r == AfterEvent(area[a], v, Delay[a])
             changed == r.active # area[a].active \/ ~area[a].known
  <2>1. /\ area' = [area EXCEPT ![a] = r] /\ Queue_Publish(changed) /\ Unqueued(changed)
        /\ UNCHANGED <<areas, g_enabled, heard>>
    BY <1>1 DEF Presence_Process_AOA_Event
  <2>2. changed \in BOOLEAN
    BY DEF AfterEvent
  <2>3. ASSUME ~changed
        PROVE  Now' = Now
    <3>1. area \in [Area -> Areas] /\ r.active = area[a].active
      BY <1>0, <2>3 DEF AreasSound
    <3> HIDE DEF r
    <3> QED BY <1>0, <2>1, <3>1, SameNow
  <2> HIDE DEF changed
  <2> QED BY <1>0, <2>1, <2>2, <2>3, QueueAnnounces
<1>2. CASE Presence_Update
  <2>1. /\ Queue_Publish(Now' # Now) /\ Unqueued(Now' # Now)
        /\ UNCHANGED <<areas, g_enabled, heard>>
    BY <1>2 DEF Presence_Update, Now
  <2>2. (Now' # Now) \in BOOLEAN
    OBVIOUS
  <2>3. PICK changed \in BOOLEAN : changed = (Now' # Now)
    BY <2>2
  <2> QED BY <1>0, <2>1, <2>3, QueueAnnounces
<1>3. CASE TimePasses
  <2>1. PICK now \in [Area -> BOOLEAN] : area' = [a \in Area |-> Timed(area[a], now[a])]
    BY <1>3 DEF TimePasses
  <2>2. \A a \in Area : area'[a].active = area[a].active
    BY <1>0, <2>1 DEF AreasSound, Areas, AreaType, Timed
  <2>3. UNCHANGED <<areas, g_enabled, g_pending, publisher, unannounced, heard>>
    BY <1>3 DEF TimePasses, history
  <2> QED BY <1>0, <2>2, <2>3, SameNow, SameSaid DEF NothingOwed
<1>4. ASSUME NEW set \in SUBSET Area, NEW enabled \in BOOLEAN,
             Presence_Load_Config(set, enabled)
      PROVE  Announced'
  <2>1. /\ publisher' = Overtaken /\ UNCHANGED heard /\ g_pending' = (g_pending /\ enabled)
        /\ unannounced' = (unannounced \/ g_pending # g_pending' \/ Now' # Now)
    BY <1>4 DEF Presence_Load_Config, Now
  <2>2. g_pending \in BOOLEAN /\ unannounced \in BOOLEAN
    BY <1>0 DEF OthersTyped
  <2>3. (g_pending # g_pending') <=> (g_pending /\ ~g_pending')
    BY <2>1, <2>2
  <2> QED BY <1>0, <2>1, <2>2, <2>3, DroppedIsOwed
<1>5. CASE Initialize
  <2>1. PICK a \in Area, found \in BOOLEAN : Presence_Initialize_State(a, found)
    BY <1>5 DEF Initialize
  <2>2. \A b \in Area : area'[b].active = area[b].active
    BY <1>0, <2>1 DEF Presence_Initialize_State, AreasSound, Areas, AreaType
  <2>3. UNCHANGED <<areas, g_enabled, g_pending, publisher, unannounced, heard>>
    BY <2>1 DEF Presence_Initialize_State, history
  <2> QED BY <1>0, <2>2, <2>3, SameNow, SameSaid DEF NothingOwed
<1>6. CASE Presence_Reset_All
  <2>1. /\ publisher' = Overtaken /\ UNCHANGED <<heard, areas>> /\ g_pending' = FALSE
        /\ unannounced' = (unannounced \/ g_pending \/ Now' # Now)
    BY <1>6 DEF Presence_Reset_All, Now
  <2>2. g_pending \in BOOLEAN /\ unannounced \in BOOLEAN
    BY <1>0 DEF OthersTyped
  <2> QED BY <1>0, <2>1, <2>2, DroppedIsOwed
<1>7. CASE Presence_Build_Payload
  <2>1. /\ publisher' = [at |-> "sending", payload |-> Now, current |-> TRUE] /\ g_enabled
        /\ UNCHANGED <<areas, area, g_enabled, g_pending, unannounced, heard>>
    BY <1>7 DEF Presence_Build_Payload, state, history, Now
  <2>2. Now' = Now
    BY <2>1 DEF Now
  <2> QED BY <1>0, <2>1, <2>2 DEF Announced, NothingOwed
<1>8. ASSUME NEW accepted \in BOOLEAN, B100_Send_Bytes(accepted)
      PROVE  Announced'
  <2>1. publisher.at = "sending" /\ UNCHANGED <<areas, area, g_enabled, g_pending, unannounced>>
    BY <1>8 DEF B100_Send_Bytes, state
  <2>2. Now' = Now
    BY <2>1 DEF Now
  <2>3. CASE accepted
    <3>1. heard' = publisher.payload /\ publisher' = [publisher EXCEPT !.at = "accepted"]
      BY <1>8, <2>3 DEF B100_Send_Bytes
    <3>2. /\ publisher'.at = "accepted" /\ publisher'.payload = publisher.payload
          /\ publisher'.current = publisher.current
      BY <1>0, <3>1 DEF PublisherType
    <3> QED BY <1>0, <2>1, <2>2, <3>1, <3>2 DEF Announced, NothingOwed
  <2>4. CASE ~accepted
    <3>1. publisher' = Idle /\ UNCHANGED heard
      BY <1>8, <2>4 DEF B100_Send_Bytes
    <3> QED BY <1>0, <2>1, <2>2, <3>1 DEF Announced, NothingOwed, Idle
  <2> QED BY <2>3, <2>4
<1>9. CASE Presence_Mark_Published
  <2>1. /\ publisher.at = "accepted" /\ publisher' = Idle
        /\ g_pending' = (g_pending /\ ~publisher.current)
        /\ unannounced' = (unannounced /\ ~publisher.current)
        /\ UNCHANGED <<areas, area, g_enabled, heard>>
    BY <1>9 DEF Presence_Mark_Published, Clears
  <2>2. Now' = Now
    BY <2>1 DEF Now
  <2>3. heard = publisher.payload /\ (publisher.current => heard = Now)
    BY <1>0, <2>1 DEF Announced
  <2> QED BY <1>0, <2>1, <2>2, <2>3 DEF Announced, NothingOwed, Idle
<1>10. CASE UNCHANGED vars
  BY <1>0, <1>10 DEF vars, state, history, Announced, NothingOwed, Now
<1> QED BY <1>1, <1>2, <1>3, <1>4, <1>5, <1>6, <1>7, <1>8, <1>9, <1>10
        DEF Next, AOA, Publish_Thread, HTTP_Endpoint_publish

\* A network that was told of no pending change knows the state of every area, for any
\* areas and delays: a change that falls into an uplink that is being sent is not taken
\* for sent, whichever thread made it (presence.c:129, 508).
THEOREM ChangesAnnounced ==
  ASSUME ConstantsAssumption
  PROVE  Spec => []PresenceAnnounced
<1>1. Init => AInv
  <2>1. Init => Announced
    BY DEF Init, Announced, NothingOwed, Idle
  <2> QED BY <2>1, Initial DEF AInv
<1>2. AInv /\ [Next]_vars => AInv'
  BY Inductive, AnnouncedKept DEF AInv
<1>3. AInv => PresenceAnnounced
  BY DEF AInv, Announced, NothingOwed, PresenceAnnounced, Now
<1> QED BY <1>1, <1>2, <1>3, PTL DEF Spec
-----------------------------------------------------------------------------
(***************************************************************************)
(* Occupancy: the renewals of the status object.                           *)
(***************************************************************************)

\* Some renewal has yet to build the areas.
Pending == \E t \in O!Updater : updater[t].at \in {"loading", "updating"}
Built(t, behind) == updater[t].at = "built" /\ updater[t].behind = behind

UpdatersTyped ==
  /\ DOMAIN updater = O!Updater
  /\ \A t \in O!Updater :
       /\ DOMAIN updater[t] = {"at", "areas", "behind"}
       /\ updater[t].at \in {"idle", "loading", "updating", "built"}
       /\ updater[t].behind \in {"no", "older", "overtaken"}

\* With nothing yet to build, what was built last is the truth; what is older than that
\* has a newer one beside it; and what was stored last is the truth unless the renewals
\* crossed or the truth is yet to be stored.
RenewalsSound ==
  /\ \A t \in O!Updater : Built(t, "older") => \E u \in O!Updater : Built(u, "no")
  /\ ~Pending =>
       /\ \A t \in O!Updater : Built(t, "no") => updater[t].areas = O!Areas
       /\ (\E t \in O!Updater : Built(t, "no")) \/ crossed \/ status = O!Areas

OInv == UpdatersTyped /\ RenewalsSound

LEMMA AreasSame ==
  ASSUME UNCHANGED <<g_occupancy, g_occupancy_publish>>
  PROVE  O!Areas' = O!Areas
<1>1. \A a : O!Occupancy_Config_For_Scenario(a)' = O!Occupancy_Config_For_Scenario(a)
  BY DEF O!Occupancy_Config_For_Scenario
<1>2. \A x : O!Selected(x)' = O!Selected(x)
  OBVIOUS
<1>3. \A r : O!AreaStatus(r)' = O!AreaStatus(r)
  BY <1>1, <1>2 DEF O!AreaStatus, O!Occupancy_Class_Value
<1> QED BY <1>3 DEF O!Areas

LEMMA OccupancyStarts == O!Init => OInv
<1> SUFFICES ASSUME O!Init
             PROVE  OInv
  OBVIOUS
<1>1. UpdatersTyped /\ \A t \in O!Updater : updater[t].at = "idle"
  BY DEF O!Init, O!Ready, UpdatersTyped
<1>2. O!Areas = <<>>
  BY DEF O!Areas, O!Init
<1> QED BY <1>1, <1>2 DEF O!Init, OInv, RenewalsSound, Built

\* A step after which a renewal is to come.
LEMMA GoesOn ==
  ASSUME OInv, NEW t \in O!Updater, NEW point \in {"loading", "updating"}, O!Go(t, point),
         updater[t].at # "built"
  PROVE  OInv'
<1>1. /\ updater' = [updater EXCEPT ![t] = [updater[t] EXCEPT !.at = point]]
      /\ UpdatersTyped
  BY DEF O!Go, OInv
<1>2. /\ updater'[t].at = point /\ updater'[t].behind = updater[t].behind
      /\ DOMAIN updater'[t] = {"at", "areas", "behind"}
  BY <1>1 DEF UpdatersTyped
<1>3. \A u \in O!Updater : u # t => updater'[u] = updater[u]
  BY <1>1 DEF UpdatersTyped
<1>4. UpdatersTyped'
  BY <1>1, <1>2, <1>3 DEF UpdatersTyped
<1>5. Pending'
  BY <1>2 DEF Pending
<1>6. \A u \in O!Updater : Built(u, "older")' <=> Built(u, "older")
  BY <1>2, <1>3 DEF Built
<1>7. \A u \in O!Updater : Built(u, "no")' <=> Built(u, "no")
  BY <1>2, <1>3 DEF Built
<1> QED BY <1>4, <1>5, <1>6, <1>7 DEF OInv, RenewalsSound

LEMMA BuildSound ==
  ASSUME OInv, NEW t \in O!Updater, O!BuildAreas(t)
  PROVE  OInv'
<1>1. /\ updater[t].at = "updating" /\ UpdatersTyped
      /\ updater' = O!Others(t, [at |-> "built", areas |-> O!Areas, behind |-> "no"], "no", "older")
      /\ UNCHANGED <<g_occupancy, g_occupancy_publish, status, crossed>>
  BY DEF O!BuildAreas, OInv
<1>2. updater'[t] = [at |-> "built", areas |-> O!Areas, behind |-> "no"]
  BY <1>1 DEF O!Others
<1>3. ASSUME NEW u \in O!Updater, u # t
      PROVE  /\ updater'[u].at = updater[u].at /\ DOMAIN updater'[u] = {"at", "areas", "behind"}
             /\ updater'[u].behind = IF Built(u, "no") THEN "older" ELSE updater[u].behind
  BY <1>1, <1>3 DEF O!Others, UpdatersTyped, Built
<1>4. UpdatersTyped'
  BY <1>1, <1>2, <1>3 DEF UpdatersTyped, O!Others
<1>5. Built(t, "no")' /\ \A u \in O!Updater : Built(u, "no")' => u = t
  BY <1>2, <1>3 DEF Built
<1>6. O!Areas' = O!Areas
  BY <1>1, AreasSame
<1>7. updater'[t].areas = O!Areas'
  BY <1>2, <1>6
<1> QED BY <1>4, <1>5, <1>7 DEF OInv, RenewalsSound

LEMMA StoreSound ==
  ASSUME OInv, NEW t \in O!Updater, O!ACAP_STATUS_SetObject(t)
  PROVE  OInv'
<1>1. /\ updater[t].at = "built" /\ UpdatersTyped
      /\ status' = updater[t].areas /\ crossed' = (updater[t].behind = "overtaken")
      /\ updater' = O!Others(t, O!Ready, "older", "overtaken")
      /\ UNCHANGED <<g_occupancy, g_occupancy_publish>>
  BY DEF O!ACAP_STATUS_SetObject, OInv
<1>2. updater'[t] = O!Ready
  BY <1>1 DEF O!Others
<1>3. ASSUME NEW u \in O!Updater, u # t
      PROVE  /\ updater'[u].at = updater[u].at /\ DOMAIN updater'[u] = {"at", "areas", "behind"}
             /\ updater'[u].areas = updater[u].areas
             /\ updater'[u].behind = IF Built(u, "older") THEN "overtaken" ELSE updater[u].behind
  BY <1>1, <1>3 DEF O!Others, UpdatersTyped, Built
<1>4. UpdatersTyped'
  BY <1>1, <1>2, <1>3 DEF UpdatersTyped, O!Others, O!Ready
<1>5. ~Built(t, "older")' /\ ~Built(t, "no")' /\ \A u \in O!Updater : ~Built(u, "older")'
  BY <1>2, <1>3 DEF Built, O!Ready
<1>6. \A u \in O!Updater : u # t => (Built(u, "no")' <=> Built(u, "no"))
  BY <1>3 DEF Built
<1>7. O!Areas' = O!Areas
  BY <1>1, AreasSame
<1>8. Pending' <=> Pending
  BY <1>1, <1>2, <1>3 DEF Pending, O!Ready
<1>9. ASSUME ~Pending
      PROVE  /\ \A u \in O!Updater : Built(u, "no")' => updater'[u].areas = O!Areas'
             /\ (\E u \in O!Updater : Built(u, "no")') \/ crossed' \/ status' = O!Areas'
  <2>1. \A u \in O!Updater : Built(u, "no")' => updater'[u].areas = O!Areas'
    BY <1>3, <1>5, <1>6, <1>7, <1>9 DEF OInv, RenewalsSound
  <2>2. CASE updater[t].behind = "no"
    BY <1>1, <1>7, <1>9, <2>1, <2>2 DEF OInv, RenewalsSound, Built
  <2>3. CASE updater[t].behind = "older"
    BY <1>1, <1>6, <2>1, <2>3 DEF OInv, RenewalsSound, Built
  <2>4. CASE updater[t].behind = "overtaken"
    BY <1>1, <2>1, <2>4
  <2> QED BY <1>1, <2>2, <2>3, <2>4 DEF UpdatersTyped
<1> QED BY <1>4, <1>5, <1>8, <1>9 DEF OInv, RenewalsSound

LEMMA OccupancyStepSound ==
  ASSUME OInv, [O!Next]_(O!vars)
  PROVE  OInv'
<1>1. CASE O!Event
  <2>1. PICK a \in Area, s \in Sample : O!Occupancy_Process_AOA_Event(a, s)
    BY <1>1 DEF O!Event
  <2> QED BY <2>1, GoesOn DEF O!Occupancy_Process_AOA_Event, O!AfterEvent, O!Updater
<1>2. CASE O!Occupancy_Reset_All
  BY <1>2, GoesOn DEF O!Occupancy_Reset_All, O!Updater
<1>3. CASE O!Settings
  <2>1. PICK table : O!Occupancy_Load_Config(table)
    BY <1>3 DEF O!Settings
  <2> QED BY <2>1, GoesOn DEF O!Occupancy_Load_Config, O!Updater
<1>4. CASE O!Load_Scenario_Publish_Config
  BY <1>4, GoesOn DEF O!Load_Scenario_Publish_Config, O!Updater
<1>5. CASE O!Update
  BY <1>5, BuildSound, StoreSound DEF O!Update
<1>6. CASE UNCHANGED O!vars
  <2>1. O!Areas' = O!Areas
    BY <1>6, AreasSame DEF O!vars
  <2> QED BY <1>6, <2>1 DEF O!vars, OInv, UpdatersTyped, RenewalsSound, Pending, Built
<1> QED BY <1>1, <1>2, <1>3, <1>4, <1>5, <1>6 DEF O!Next

\* For any areas, classes, samples and selections: once no renewal is under way, the
\* status from which payloads are made is that of the last samples and settings,
\* unless older areas were stored over newer ones.
THEOREM StatusHolds == O!Spec => []StatusCurrent
<1>1. O!Init => OInv
  BY OccupancyStarts
<1>2. OInv /\ [O!Next]_(O!vars) => OInv'
  BY OccupancyStepSound
<1>3. OInv => StatusCurrent
  BY DEF OInv, RenewalsSound, Pending, Built, StatusCurrent, O!StatusCurrent, O!Quiescent
<1> QED BY <1>1, <1>2, <1>3, PTL DEF O!Spec
-----------------------------------------------------------------------------
(***************************************************************************)
(* Counting: the sums that AOA reports, and the totals made of them.       *)
(***************************************************************************)

CountEvent == [scenario : Scenario, sum : Nat]
PublisherPoint == {"idle", "asking", "answered", "sending", "accepted"}
AskingType ==
  [at : PublisherPoint, ask : SUBSET Scenario, of : SUBSET Scenario, sum : Nat, crossed : BOOLEAN]
KnownCounter == [total : Nat, reference : Nat \cup {C!None}]

CountsTyped ==
  /\ DOMAIN aoa \subseteq Scenario /\ aoa \in [DOMAIN aoa -> 0 .. MaxCount]
  /\ event \in Seq(CountEvent) /\ Len(event) <= MaxEvents
  /\ DOMAIN g_counters \subseteq Scenario /\ g_counters \in [DOMAIN g_counters -> KnownCounter]
  /\ IsFiniteSet(DOMAIN g_counters) /\ Cardinality(DOMAIN g_counters) <= MaxItems
  /\ DOMAIN file \subseteq Scenario /\ file \in [DOMAIN file -> Nat]
  /\ IsFiniteSet(DOMAIN file) /\ Cardinality(DOMAIN file) <= MaxItems
  /\ saving \subseteq Thread \cup {"main_loop", "FCGI"}
  /\ g_counting_enabled \in BOOLEAN /\ due \in BOOLEAN
  /\ counting_publisher \in [Thread -> AskingType]
  /\ crossings \in [Scenario -> Nat] /\ latest \in [Scenario -> Nat \cup {C!None}]

\* What AOA says of s after the place i of the queue q: it reports a sum at most one
\* larger, or if it reports none any more, its sum is no larger.
Later(q, s, i) == {j \in DOMAIN q : j > i /\ q[j].scenario = s}
Follows(q, sums, s, sum, i) ==
  /\ \A j \in Later(q, s, i) : (\A k \in Later(q, s, i) : j <= k) => q[j].sum <= sum + 1
  /\ Later(q, s, i) = {} /\ s \in DOMAIN sums => sums[s] <= sum

Trusted == DOMAIN g_counters \ overtaken
Referenced(s) == s \in Trusted /\ g_counters[s].reference # C!None

\* No two events of a scenario that follow each other differ by more than the crossing
\* between them, nor do a reference and the event after it.
SumsFollow ==
  /\ \A i \in DOMAIN event : Follows(event, aoa, event[i].scenario, event[i].sum, i)
  /\ \A s \in Scenario : Referenced(s) => Follows(event, aoa, s, g_counters[s].reference, 0)

\* An answer that was not overtaken, and overtakes no event, says nothing new.
AnswersFollow ==
  \A t \in Thread : \A s \in counting_publisher[t].of :
    C!At(t, "answered") /\ ~counting_publisher[t].crossed /\ Later(event, s, 0) = {} =>
      /\ Referenced(s) => counting_publisher[t].sum <= g_counters[s].reference
      /\ s \in DOMAIN aoa => aoa[s] <= counting_publisher[t].sum

\* A total holds at most the crossings whose events are not under way.
TotalsBounded ==
  /\ \A s \in Scenario : C!UnderWay(s) <= crossings[s]
  /\ \A s \in Trusted : g_counters[s].total + C!UnderWay(s) <= crossings[s]

CInv == CountsTyped /\ SumsFollow /\ AnswersFollow /\ TotalsBounded

\* What AoaCounting counts.
LEMMA SameCardinality == \A S : C!Cardinality(S) = Cardinality(S)
BY DEF C!Cardinality, Cardinality

\* The queue is finite, and the number of events under way is that of those after its start.
LEMMA LaterIs ==
  ASSUME NEW q \in Seq(CountEvent), NEW s, NEW i \in Nat
  PROVE  /\ Later(q, s, i) \subseteq 1 .. Len(q) /\ Len(q) \in Nat /\ DOMAIN q = 1 .. Len(q)
         /\ IsFiniteSet(Later(q, s, i)) /\ Cardinality(Later(q, s, i)) \in Nat
<1>1. Len(q) \in Nat /\ DOMAIN q = 1 .. Len(q)
  BY LenProperties
<1>2. IsFiniteSet(1 .. Len(q))
  BY <1>1, FS_Interval
<1>3. Later(q, s, i) \subseteq 1 .. Len(q)
  BY <1>1 DEF Later
<1> QED BY <1>1, <1>2, <1>3, FS_Subset, FS_CardinalityType

LEMMA UnderWayIs ==
  ASSUME CountsTyped, NEW s
  PROVE  C!UnderWay(s) = Cardinality(Later(event, s, 0))
<1>1. DOMAIN event = 1 .. Len(event) /\ Len(event) \in Nat
  BY LenProperties DEF CountsTyped
<1>2. Later(event, s, 0) = {i \in DOMAIN event : event[i].scenario = s}
  BY <1>1 DEF Later
<1> QED BY <1>2, SameCardinality DEF C!UnderWay

\* A crossing adds its event at the end.
LEMMA LaterAppended ==
  ASSUME NEW q \in Seq(CountEvent), NEW e \in CountEvent, NEW s, NEW i \in 0 .. Len(q)
  PROVE  Later(Append(q, e), s, i)
           = Later(q, s, i) \cup (IF e.scenario = s THEN {Len(q) + 1} ELSE {})
<1> DEFINE u == Append(q, e)
<1>1. /\ u \in Seq(CountEvent) /\ Len(u) = Len(q) + 1 /\ u[Len(q) + 1] = e
      /\ \A j \in 1 .. Len(q) : u[j] = q[j]
  BY AppendProperties
<1>2. Len(q) \in Nat /\ DOMAIN q = 1 .. Len(q) /\ DOMAIN u = 1 .. Len(u)
  BY <1>1, LenProperties
<1> HIDE DEF u
<1> QED BY <1>1, <1>2 DEF Later, u

\* The event that is taken is the first.
LEMMA LaterTaken ==
  ASSUME NEW q \in Seq(CountEvent), q # <<>>, NEW s
  PROVE  /\ Later(q, s, 0) = Later(q, s, 1) \cup (IF Head(q).scenario = s THEN {1} ELSE {})
         /\ \A i \in Nat, j \in Int : j \in Later(Tail(q), s, i) <=> j + 1 \in Later(q, s, i + 1)
         /\ \A j \in DOMAIN Tail(q) : Tail(q)[j] = q[j + 1]
<1> DEFINE u == Tail(q)
<1>1. /\ u \in Seq(CountEvent) /\ Len(u) = Len(q) - 1
      /\ \A j \in 1 .. Len(u) : u[j] = q[j + 1]
  BY HeadTailProperties
<1>2. Len(q) \in Nat /\ DOMAIN q = 1 .. Len(q) /\ Len(u) \in Nat /\ DOMAIN u = 1 .. Len(u)
  BY <1>1, LenProperties
<1>3. Head(q) = q[1]
  OBVIOUS
<1> HIDE DEF u
<1>4. Later(q, s, 0) = Later(q, s, 1) \cup (IF Head(q).scenario = s THEN {1} ELSE {})
  BY <1>1, <1>2, <1>3 DEF Later
<1>5. ASSUME NEW i \in Nat, NEW j \in Int
      PROVE  j \in Later(u, s, i) <=> j + 1 \in Later(q, s, i + 1)
  <2>1. j \in 1 .. Len(u) <=> j + 1 \in 2 .. Len(q)
    BY <1>1, <1>2
  <2>2. j > i <=> j + 1 > i + 1
    OBVIOUS
  <2> QED BY <1>1, <1>2, <2>1, <2>2 DEF Later
<1> QED BY <1>1, <1>2, <1>4, <1>5 DEF u

LEMMA NumberAppended ==
  ASSUME NEW q \in Seq(CountEvent), NEW e \in CountEvent, NEW s
  PROVE  Cardinality(Later(Append(q, e), s, 0))
           = Cardinality(Later(q, s, 0)) + (IF e.scenario = s THEN 1 ELSE 0)
<1>1. Len(q) + 1 \notin Later(q, s, 0) /\ IsFiniteSet(Later(q, s, 0)) /\ 0 \in 0 .. Len(q)
      /\ Cardinality(Later(q, s, 0)) \in Nat
  BY LaterIs
<1>2. Later(Append(q, e), s, 0)
        = Later(q, s, 0) \cup (IF e.scenario = s THEN {Len(q) + 1} ELSE {})
  BY <1>1, LaterAppended
<1> DEFINE before == Later(q, s, 0)
           after == Later(Append(q, e), s, 0)
           next == Len(q) + 1
<1> HIDE DEF before, after, next
<1>3. CASE e.scenario = s
  <2>1. after = before \cup {next} /\ next \notin before /\ IsFiniteSet(before)
    BY <1>1, <1>2, <1>3 DEF before, after, next
  <2>2. Cardinality(after) = Cardinality(before) + 1
    BY <2>1, FS_AddElement
  <2> QED BY <1>3, <2>2 DEF before, after
<1>4. CASE e.scenario # s
  <2>1. after = before /\ Cardinality(before) \in Nat
    BY <1>1, <1>2, <1>4 DEF before, after
  <2>2. Cardinality(after) = Cardinality(before) + 0
    BY <2>1
  <2> QED BY <1>4, <2>2 DEF before, after
<1> QED BY <1>3, <1>4

LEMMA NumberTaken ==
  ASSUME NEW q \in Seq(CountEvent), q # <<>>, NEW s
  PROVE  Cardinality(Later(q, s, 0))
           = Cardinality(Later(Tail(q), s, 0)) + (IF Head(q).scenario = s THEN 1 ELSE 0)
<1> DEFINE A == Later(Tail(q), s, 0)
           B == Later(q, s, 1)
           f == [j \in A |-> j + 1]
<1>1. Tail(q) \in Seq(CountEvent)
  BY HeadTailProperties
<1>2. A \subseteq Int /\ IsFiniteSet(A) /\ Cardinality(A) \in Nat
  <2> DEFINE u == Tail(q)
  <2> HIDE DEF u
  <2>1. Later(u, s, 0) \subseteq 1 .. Len(u) /\ Len(u) \in Nat /\ IsFiniteSet(Later(u, s, 0))
    BY <1>1, LaterIs DEF u
  <2> QED BY <2>1, FS_CardinalityType DEF u
<1>3. B \subseteq Int /\ IsFiniteSet(B) /\ 1 \notin B
  <2>1. IsFiniteSet(B) /\ B \subseteq 1 .. Len(q) /\ Len(q) \in Nat
    BY LaterIs
  <2> QED BY <2>1 DEF Later
<1>4. \A j \in Int : j \in A <=> j + 1 \in B
  BY LaterTaken
<1> HIDE DEF A, B
<1>5. f \in Bijection(A, B)
  <2>1. \A j \in A : j + 1 \in B
    BY <1>2, <1>4
  <2>2. \A k \in B : k - 1 \in A /\ f[k - 1] = k
    <3>1. TAKE k \in B
    <3>2. k - 1 \in Int /\ (k - 1) + 1 = k
      BY <1>3
    <3>3. k - 1 \in A
      BY <1>4, <3>2
    <3> QED BY <3>2, <3>3
  <2>3. \A j, k \in A : f[j] = f[k] => j = k
    BY <1>2
  <2> QED BY <2>1, <2>2, <2>3 DEF Bijection, Injection, Surjection, IsInjective
<1>6. Cardinality(B) = Cardinality(A)
  BY <1>2, <1>5, FS_Bijection DEF ExistsBijection
<1>7. Later(q, s, 0) = B \cup (IF Head(q).scenario = s THEN {1} ELSE {})
  BY LaterTaken DEF B
<1> DEFINE before == Later(q, s, 0)
           one == 1
<1> HIDE DEF before, one
<1>8. CASE Head(q).scenario = s
  <2>1. before = B \cup {one} /\ one \notin B
    BY <1>3, <1>7, <1>8 DEF before, one
  <2>2. Cardinality(before) = Cardinality(B) + 1
    BY <1>3, <2>1, FS_AddElement
  <2> QED BY <1>6, <1>8, <2>2 DEF before, A
<1>9. CASE Head(q).scenario # s
  BY <1>2, <1>6, <1>7, <1>9 DEF A
<1> QED BY <1>8, <1>9

\* A crossing is one more than what AOA said before.
LEMMA FollowsAppended ==
  ASSUME NEW q \in Seq(CountEvent), NEW S, NEW sums \in [S -> Nat], NEW c \in S,
         NEW e \in CountEvent, e.scenario = c, e.sum = sums[c] + 1,
         NEW s, NEW sum \in Nat
  PROVE  LET after == [sums EXCEPT ![c] = @ + 1] IN
         /\ \A i \in 0 .. Len(q) : Follows(q, sums, s, sum, i) => Follows(Append(q, e), after, s, sum, i)
         /\ Follows(Append(q, e), after, c, e.sum, Len(q) + 1)
<1> DEFINE after == [sums EXCEPT ![c] = @ + 1]
           u == Append(q, e)
           last == Len(q) + 1
<1>1. /\ u \in Seq(CountEvent) /\ Len(u) = last /\ u[last] = e
      /\ \A j \in 1 .. Len(q) : u[j] = q[j]
  BY AppendProperties
<1>2. Len(q) \in Nat /\ DOMAIN q = 1 .. Len(q) /\ DOMAIN u = 1 .. Len(u)
  BY <1>1, LenProperties
<1>3. \A i \in 0 .. Len(q) :
        Later(u, s, i) = Later(q, s, i) \cup (IF e.scenario = s THEN {last} ELSE {})
  BY LaterAppended
<1>4. DOMAIN after = S /\ after[c] = e.sum /\ \A x \in S : x # c => after[x] = sums[x]
  OBVIOUS
<1> HIDE DEF u, after
<1>5. ASSUME NEW i \in 0 .. Len(q), Follows(q, sums, s, sum, i)
      PROVE  Follows(u, after, s, sum, i)
  <2>1. \A j \in Later(q, s, i) : j \in 1 .. Len(q) /\ u[j] = q[j] /\ j < last
    BY <1>1, <1>2 DEF Later
  <2>2. ASSUME NEW j \in Later(u, s, i), \A k \in Later(u, s, i) : j <= k
        PROVE  u[j].sum <= sum + 1
    <3>1. CASE j \in Later(q, s, i)
      BY <1>3, <1>5, <2>1, <2>2, <3>1 DEF Follows
    <3>2. CASE j \notin Later(q, s, i)
      <4>1. j = last /\ s = c
        BY <1>3, <2>2, <3>2
      <4>2. Later(q, s, i) \subseteq Later(u, s, i)
        BY <1>3
      <4>3. ASSUME NEW k \in Later(q, s, i)
            PROVE  FALSE
        <5>1. j <= k /\ k < last /\ k \in Int
          BY <1>2, <2>1, <2>2, <4>2, <4>3
        <5> QED BY <1>2, <4>1, <5>1
      <4>4. Later(q, s, i) = {}
        BY <4>3
      <4>5. sums[s] <= sum /\ u[j].sum = sums[s] + 1 /\ sums[s] \in Nat
        BY <1>1, <1>5, <4>1, <4>4 DEF Follows
      <4> QED BY <4>5
    <3> QED BY <3>1, <3>2
  <2>3. ASSUME Later(u, s, i) = {}, s \in DOMAIN after
        PROVE  after[s] <= sum
    BY <1>3, <1>4, <1>5, <2>3 DEF Follows
  <2> QED BY <2>2, <2>3 DEF Follows
<1>6. Follows(u, after, c, e.sum, last)
  <2>1. Later(u, c, last) = {}
    BY <1>1, <1>2 DEF Later
  <2>2. e.sum \in Nat
    BY DEF CountEvent
  <2> QED BY <1>4, <2>1, <2>2 DEF Follows
<1> QED BY <1>5, <1>6 DEF u, after

\* To take the first event loses nothing that follows another.
LEMMA FollowsTaken ==
  ASSUME NEW q \in Seq(CountEvent), q # <<>>, NEW sums, NEW s, NEW sum, NEW i \in Nat,
         Follows(q, sums, s, sum, i + 1)
  PROVE  Follows(Tail(q), sums, s, sum, i)
<1> DEFINE u == Tail(q)
<1>1. u \in Seq(CountEvent)
  BY HeadTailProperties
<1> HIDE DEF u
<1>2. Later(u, s, i) \subseteq Int /\ Later(q, s, i + 1) \subseteq Int
  <2>1. Later(u, s, i) \subseteq 1 .. Len(u) /\ Len(u) \in Nat
    BY <1>1, LaterIs
  <2>2. Later(q, s, i + 1) \subseteq 1 .. Len(q) /\ Len(q) \in Nat
    BY LaterIs
  <2> QED BY <2>1, <2>2
<1>3. /\ \A j \in Int : j \in Later(u, s, i) <=> j + 1 \in Later(q, s, i + 1)
      /\ \A j \in DOMAIN u : u[j] = q[j + 1]
  BY LaterTaken DEF u
<1>4. ASSUME NEW j \in Later(u, s, i), \A k \in Later(u, s, i) : j <= k
      PROVE  u[j].sum <= sum + 1
  <2>1. j + 1 \in Later(q, s, i + 1) /\ u[j] = q[j + 1]
    BY <1>2, <1>3, <1>4 DEF Later
  <2>2. ASSUME NEW k \in Later(q, s, i + 1)
        PROVE  j + 1 <= k
    <3>1. k - 1 \in Int /\ (k - 1) + 1 = k
      BY <1>2
    <3>2. k - 1 \in Later(u, s, i)
      BY <1>3, <3>1
    <3> QED BY <1>2, <1>4, <3>2
  <2> QED BY <2>1, <2>2 DEF Follows
<1>5. ASSUME Later(u, s, i) = {}
      PROVE  Later(q, s, i + 1) = {}
  <2>1. SUFFICES ASSUME NEW k \in Later(q, s, i + 1)
                 PROVE  FALSE
    OBVIOUS
  <2>2. k - 1 \in Int /\ (k - 1) + 1 = k
    BY <1>2
  <2> QED BY <1>3, <1>5, <2>2
<1> QED BY <1>4, <1>5 DEF Follows, u

LEMMA FollowsNotTaken ==
  ASSUME NEW q \in Seq(CountEvent), q # <<>>, NEW sums, NEW s, NEW sum,
         Head(q).scenario # s, Follows(q, sums, s, sum, 0)
  PROVE  Follows(Tail(q), sums, s, sum, 0)
<1>1. Later(q, s, 0) = Later(q, s, 1)
  <2>1. Later(q, s, 0) = Later(q, s, 1) \cup (IF Head(q).scenario = s THEN {1} ELSE {})
    BY LaterTaken
  <2> QED BY <2>1
<1>2. Follows(q, sums, s, sum, 0 + 1)
  BY <1>1 DEF Follows
<1> QED BY <1>2, FollowsTaken

\* AOA starts over, or loses a scenario.
LEMMA FollowsLess ==
  ASSUME NEW q, NEW S, NEW sums \in [S -> Nat], NEW T \in SUBSET S, NEW less \in [T -> Nat],
         \A x \in T : less[x] <= sums[x],
         NEW s, NEW sum \in Nat, NEW i, Follows(q, sums, s, sum, i)
  PROVE  Follows(q, less, s, sum, i)
BY DEF Follows

-----------------------------------------------------------------------------
(***************************************************************************)
(* What the steps that process nothing keep.                               *)
(***************************************************************************)

LEMMA SumsKept ==
  ASSUME CountsTyped, SumsFollow, CountsTyped', event' = event,
         DOMAIN aoa' \subseteq DOMAIN aoa, \A x \in DOMAIN aoa' : aoa'[x] <= aoa[x],
         \A s \in Scenario : Referenced(s)' =>
           Referenced(s) /\ g_counters'[s].reference = g_counters[s].reference
  PROVE  SumsFollow'
<1>1. /\ aoa \in [DOMAIN aoa -> Nat] /\ aoa' \in [DOMAIN aoa' -> Nat]
      /\ event \in Seq(CountEvent)
  BY DEF CountsTyped
<1>2. ASSUME NEW s, NEW sum \in Nat, NEW i, Follows(event, aoa, s, sum, i)
      PROVE  Follows(event', aoa', s, sum, i)
  BY <1>1, <1>2, FollowsLess
<1>3. \A i \in DOMAIN event : event[i].sum \in Nat
  <2>1. \A i \in DOMAIN event : event[i] \in CountEvent
    BY <1>1, LenProperties
  <2> QED BY <2>1 DEF CountEvent
<1>4. \A s \in Scenario : Referenced(s) => g_counters[s].reference \in Nat
  BY DEF CountsTyped, KnownCounter, Referenced, Trusted
<1>5. \A i \in DOMAIN event' : Follows(event', aoa', event'[i].scenario, event'[i].sum, i)
  BY <1>2, <1>3 DEF SumsFollow
<1>6. \A s \in Scenario : Referenced(s)' => Follows(event', aoa', s, g_counters'[s].reference, 0)
  BY <1>2, <1>4 DEF SumsFollow
<1> QED BY <1>5, <1>6 DEF SumsFollow

\* What a publisher has that answers, and was not overtaken.
Uncrossed(t, s) ==
  s \in counting_publisher[t].of /\ C!At(t, "answered") /\ ~counting_publisher[t].crossed

LEMMA AnswersKept ==
  ASSUME CountsTyped, AnswersFollow, CountsTyped', event' = event,
         DOMAIN aoa' \subseteq DOMAIN aoa, \A x \in DOMAIN aoa' : aoa'[x] <= aoa[x],
         \A s \in Scenario : Referenced(s)' =>
           Referenced(s) /\ g_counters'[s].reference = g_counters[s].reference,
         NEW t \in Thread, NEW s \in Scenario, Uncrossed(t, s),
         counting_publisher'[t].sum = counting_publisher[t].sum,
         Later(event, s, 0) = {}
  PROVE  /\ Referenced(s)' => counting_publisher'[t].sum <= g_counters'[s].reference
         /\ s \in DOMAIN aoa' => aoa'[s] <= counting_publisher'[t].sum
<1>1. /\ Referenced(s) => counting_publisher[t].sum <= g_counters[s].reference
      /\ s \in DOMAIN aoa => aoa[s] <= counting_publisher[t].sum
  BY DEF AnswersFollow, Uncrossed
<1>2. counting_publisher[t].sum \in Nat
  BY DEF CountsTyped, AskingType
<1>3. \A x \in DOMAIN aoa : aoa[x] \in Nat
  BY DEF CountsTyped
<1>4. \A x \in DOMAIN aoa' : aoa'[x] \in Nat
  BY DEF CountsTyped
<1> QED BY <1>1, <1>2, <1>3, <1>4

LEMMA TotalsKept ==
  ASSUME TotalsBounded, event' = event, crossings' = crossings,
         \A s \in Trusted' : s \in Trusted /\ g_counters'[s].total = g_counters[s].total
  PROVE  TotalsBounded'
<1>1. \A s : C!UnderWay(s)' = C!UnderWay(s)
  BY SameCardinality DEF C!UnderWay
<1> QED BY <1>1 DEF TotalsBounded

\* Only the publisher t goes on, and no answer comes of it.
LEMMA PublisherTyped ==
  ASSUME CountsTyped, NEW t \in Thread, NEW p \in AskingType, C!Go(t, p)
  PROVE  /\ counting_publisher' \in [Thread -> AskingType]
         /\ counting_publisher'[t] = p
         /\ \A u \in Thread : u # t => counting_publisher'[u] = counting_publisher[u]
BY DEF CountsTyped, C!Go

LEMMA AskingTyped ==
  ASSUME NEW p \in AskingType, NEW at \in PublisherPoint,
         NEW ask \in SUBSET Scenario, NEW of \in SUBSET Scenario, NEW sum \in Nat
  PROVE  /\ C!Ready \in AskingType
         /\ [p EXCEPT !.crossed = TRUE] \in AskingType
         /\ [p EXCEPT !.ask = ask] \in AskingType
         /\ [p EXCEPT !.at = at, !.ask = ask, !.of = of, !.sum = sum] \in AskingType
         /\ [C!Ready EXCEPT !.at = at, !.ask = ask] \in AskingType
         /\ [C!Ready EXCEPT !.at = at, !.of = of] \in AskingType
         /\ [C!Ready EXCEPT !.at = at] \in AskingType
<1> DEFINE no == FALSE
           yes == TRUE
           Flags == {no, yes}
           T == [at : PublisherPoint, ask : SUBSET Scenario, of : SUBSET Scenario, sum : Nat,
                 crossed : Flags]
           r == [at |-> "idle", ask |-> {}, of |-> {}, sum |-> 0, crossed |-> no]
<1>1. AskingType = T /\ C!Ready = r
  BY DEF AskingType, C!Ready
<1>2. no \in Flags /\ yes \in Flags /\ "idle" \in PublisherPoint
  BY DEF PublisherPoint
<1> HIDE DEF no, yes, Flags
<1>3. r \in T
  BY <1>2
<1>4. p \in T
  BY <1>1
<1> QED BY <1>1, <1>2, <1>3, <1>4 DEF yes

\* A step that processes nothing, after which no one has an answer who had none.
LEMMA QuietSound ==
  ASSUME CInv, CountsTyped', UNCHANGED <<event, g_counters, crossings, overtaken>>,
         DOMAIN aoa' \subseteq DOMAIN aoa, \A x \in DOMAIN aoa' : aoa'[x] <= aoa[x],
         \A t \in Thread : \A s : Uncrossed(t, s)' =>
           Uncrossed(t, s) /\ counting_publisher'[t].sum = counting_publisher[t].sum
  PROVE  CInv'
<1>1. \A s \in Scenario : Referenced(s)' =>
        Referenced(s) /\ g_counters'[s].reference = g_counters[s].reference
  BY DEF Referenced, Trusted
<1>2. SumsFollow'
  BY <1>1, SumsKept DEF CInv
<1>3. \A t \in Thread : \A s : Uncrossed(t, s)' /\ Later(event', s, 0) = {} =>
        /\ Referenced(s)' => counting_publisher'[t].sum <= g_counters'[s].reference
        /\ s \in DOMAIN aoa' => aoa'[s] <= counting_publisher'[t].sum
  <2>1. SUFFICES ASSUME NEW t \in Thread, NEW s, Uncrossed(t, s)', Later(event', s, 0) = {}
                 PROVE  /\ Referenced(s)' => counting_publisher'[t].sum <= g_counters'[s].reference
                        /\ s \in DOMAIN aoa' => aoa'[s] <= counting_publisher'[t].sum
    OBVIOUS
  <2>2. Uncrossed(t, s) /\ counting_publisher'[t].sum = counting_publisher[t].sum
    BY <2>1
  <2>3. s \in Scenario
    BY <2>2 DEF Uncrossed, CInv, CountsTyped, AskingType
  <2> QED BY <1>1, <2>1, <2>2, <2>3, AnswersKept DEF CInv
<1>4. AnswersFollow'
  BY <1>3 DEF AnswersFollow, Uncrossed
<1>5. TotalsBounded'
  BY TotalsKept DEF CInv, Trusted
<1> QED BY <1>2, <1>4, <1>5 DEF CInv

\* The same, if a publisher goes on.
LEMMA PublisherSound ==
  ASSUME CInv, NEW t \in Thread, NEW p \in AskingType, C!Go(t, p), p.at # "answered",
         UNCHANGED <<aoa, event, g_counting_enabled, file, changes, g_counters, saving,
                     crossings, overtaken, latest>>,
         due' \in BOOLEAN
  PROVE  CInv'
<1>1. /\ counting_publisher' \in [Thread -> AskingType] /\ counting_publisher'[t] = p
      /\ \A u \in Thread : u # t => counting_publisher'[u] = counting_publisher[u]
  BY PublisherTyped DEF CInv
<1>2. CountsTyped'
  BY <1>1 DEF CInv, CountsTyped
<1>3. \A u \in Thread : \A s : Uncrossed(u, s)' =>
        Uncrossed(u, s) /\ counting_publisher'[u].sum = counting_publisher[u].sum
  BY <1>1 DEF Uncrossed, C!At
<1>4. \A x \in DOMAIN aoa : aoa[x] \in Int
  BY DEF CInv, CountsTyped
<1> QED BY <1>2, <1>3, <1>4, QuietSound

LEMMA SaveSound ==
  ASSUME CInv, NEW t \in saving, C!Counting_Save_To_File(t)
  PROVE  CInv'
<1>1. /\ file' = [s \in DOMAIN g_counters |-> g_counters[s].total] /\ saving' = saving \ {t}
      /\ UNCHANGED <<aoa, event, g_counters, g_counting_enabled, due, counting_publisher, changes,
                     crossings, overtaken, latest>>
  BY DEF C!Counting_Save_To_File, C!Totals, C!counting, C!history
<1>2. file' \in [DOMAIN g_counters -> Nat]
  BY <1>1 DEF CInv, CountsTyped, KnownCounter
<1>3. CountsTyped'
  BY <1>1, <1>2 DEF CInv, CountsTyped
<1>4. \A x \in DOMAIN aoa : aoa[x] \in Int
  BY DEF CInv, CountsTyped
<1>5. \A u \in Thread : \A s : Uncrossed(u, s)' => Uncrossed(u, s)
  BY <1>1 DEF Uncrossed, C!At
<1> QED BY <1>1, <1>3, <1>4, <1>5, QuietSound

\* AOA starts over or loses a scenario.
LEMMA AoaSound ==
  ASSUME C!ConstantsAssumption, CInv, C!AoaChanges
  PROVE  CInv'
<1>1. UNCHANGED <<event, g_counters, g_counting_enabled, due, file, saving, counting_publisher,
                  crossings, overtaken, latest>>
  BY DEF C!AoaChanges, C!counting, C!history
<1>2. /\ aoa \in [DOMAIN aoa -> 0 .. MaxCount] /\ DOMAIN aoa \subseteq Scenario
      /\ MaxCount \in Nat
  BY DEF CInv, CountsTyped, C!ConstantsAssumption
<1>3. /\ DOMAIN aoa' \subseteq DOMAIN aoa /\ aoa' \in [DOMAIN aoa' -> 0 .. MaxCount]
      /\ \A x \in DOMAIN aoa' : aoa'[x] <= aoa[x]
  <2>1. CASE aoa' = [s \in DOMAIN aoa |-> 0]
    BY <1>2, <2>1
  <2>2. CASE \E s \in DOMAIN aoa : aoa' = C!Restrict(aoa, DOMAIN aoa \ {s})
    BY <1>2, <2>2 DEF C!Restrict
  <2> QED BY <2>1, <2>2 DEF C!AoaChanges
<1>4. CountsTyped'
  BY <1>1, <1>2, <1>3 DEF CInv, CountsTyped
<1>5. \A u \in Thread : \A s : Uncrossed(u, s)' => Uncrossed(u, s)
  BY <1>1 DEF Uncrossed, C!At
<1> QED BY <1>1, <1>3, <1>4, <1>5, QuietSound

LEMMA TimeOrStutter ==
  ASSUME CInv,
         UNCHANGED <<aoa, event, g_counters, file, saving, counting_publisher,
                     crossings, overtaken, latest>>,
         due' \in BOOLEAN, g_counting_enabled' \in BOOLEAN
  PROVE  CInv'
<1>1. CountsTyped'
  BY DEF CInv, CountsTyped
<1>2. \A x \in DOMAIN aoa : aoa[x] \in Int
  BY DEF CInv, CountsTyped
<1>3. \A u \in Thread : \A s : Uncrossed(u, s)' => Uncrossed(u, s)
  BY DEF Uncrossed, C!At
<1> QED BY <1>1, <1>2, <1>3, QuietSound

-----------------------------------------------------------------------------
(***************************************************************************)
(* The steps that change the totals otherwise.                             *)
(***************************************************************************)

\* The operator changes, resets or deletes counters: those without a reference
\* account for the events under way.
LEMMA ChangeSound ==
  ASSUME C!ConstantsAssumption, CInv, NEW S \in SUBSET DOMAIN g_counters,
         NEW counters \in [S -> KnownCounter],
         \A s \in S : counters[s].reference # C!None => counters[s] = g_counters[s],
         C!ChangeTotals(counters)
  PROVE  CInv'
<1>1. /\ g_counters' = counters /\ saving' = saving \cup {"FCGI"}
      /\ crossings' = [s \in Scenario |-> IF s \in S /\ counters[s].reference = C!None
                                         THEN counters[s].total + C!UnderWay(s) ELSE crossings[s]]
      /\ overtaken' = {s \in overtaken : s \in S /\ counters[s].reference # C!None}
      /\ UNCHANGED <<aoa, event, g_counting_enabled, due, file, counting_publisher, latest>>
  BY DEF C!ChangeTotals
<1>2. S \subseteq Scenario /\ IsFiniteSet(S) /\ Cardinality(S) <= MaxItems
  <2>1. /\ IsFiniteSet(DOMAIN g_counters) /\ Cardinality(DOMAIN g_counters) <= MaxItems
        /\ DOMAIN g_counters \subseteq Scenario
    BY DEF CInv, CountsTyped
  <2>2. IsFiniteSet(S) /\ Cardinality(S) <= Cardinality(DOMAIN g_counters)
    BY <2>1, FS_Subset
  <2>3. Cardinality(S) \in Nat /\ Cardinality(DOMAIN g_counters) \in Nat /\ MaxItems \in Nat
    BY <2>1, <2>2, FS_CardinalityType DEF C!ConstantsAssumption
  <2> QED BY <2>1, <2>2, <2>3
<1>3. \A s \in Scenario : C!UnderWay(s) \in Nat /\ C!UnderWay(s)' = C!UnderWay(s)
  <2>1. TAKE s \in Scenario
  <2>2. C!UnderWay(s) = Cardinality(Later(event, s, 0)) /\ event \in Seq(CountEvent)
    BY UnderWayIs DEF CInv, CountsTyped
  <2>3. C!UnderWay(s) \in Nat
    BY <2>2, LaterIs
  <2> QED BY <1>1, <2>3, SameCardinality DEF C!UnderWay
<1>4. \A s \in S : counters[s].total \in Nat
  BY DEF KnownCounter
<1>5. CountsTyped'
  <2>1. crossings' \in [Scenario -> Nat]
    <3>1. crossings \in [Scenario -> Nat]
      BY DEF CInv, CountsTyped
    <3> QED BY <1>1, <1>3, <1>4, <3>1
  <2>2. g_counters' \in [DOMAIN g_counters' -> KnownCounter] /\ DOMAIN g_counters' = S
    BY <1>1
  <2> QED BY <1>1, <1>2, <2>1, <2>2 DEF CInv, CountsTyped
<1>6. \A s \in Scenario : Referenced(s)' => Referenced(s) /\ g_counters'[s] = g_counters[s]
  BY <1>1 DEF Referenced, Trusted
<1>7. \A x \in DOMAIN aoa : aoa[x] \in Int
  BY DEF CInv, CountsTyped
<1>8. SumsFollow'
  BY <1>1, <1>5, <1>6, <1>7, SumsKept DEF CInv
<1>9. AnswersFollow'
  <2>1. \A t \in Thread : counting_publisher[t].of \subseteq Scenario
    BY DEF CInv, CountsTyped, AskingType
  <2>2. \A t \in Thread : C!At(t, "answered")' <=> C!At(t, "answered")
    BY <1>1 DEF C!At
  <2> QED BY <1>1, <1>6, <2>1, <2>2 DEF CInv, AnswersFollow
<1>10. TotalsBounded'
  <2>1. \A s \in Scenario : C!UnderWay(s) <= crossings[s] /\ crossings[s] \in Nat
    BY DEF CInv, TotalsBounded, CountsTyped
  <2>2. ASSUME NEW s \in Scenario
        PROVE  C!UnderWay(s)' <= crossings'[s]
    BY <1>1, <1>3, <1>4, <2>1
  <2>3. ASSUME NEW s \in Trusted'
        PROVE  g_counters'[s].total + C!UnderWay(s)' <= crossings'[s]
    <3>1. s \in S /\ s \in Scenario /\ s \notin overtaken'
      BY <1>1, <1>2, <2>3 DEF Trusted
    <3>2. CASE counters[s].reference = C!None
      BY <1>1, <1>3, <1>4, <3>1, <3>2
    <3>3. CASE counters[s].reference # C!None
      <4>1. counters[s] = g_counters[s] /\ s \in Trusted
        BY <1>1, <3>1, <3>3 DEF Trusted
      <4> QED BY <1>1, <1>3, <3>1, <3>3, <4>1 DEF CInv, TotalsBounded
    <3> QED BY <3>2, <3>3
  <2> QED BY <2>2, <2>3 DEF TotalsBounded
<1> QED BY <1>5, <1>8, <1>9, <1>10 DEF CInv

LEMMA OperatorSound ==
  ASSUME C!ConstantsAssumption, CInv, C!Operator
  PROVE  CInv'
<1>1. /\ g_counters \in [DOMAIN g_counters -> KnownCounter] /\ MaxCount \in Nat
      /\ C!Known = DOMAIN g_counters /\ C!New \in KnownCounter /\ C!New.reference = C!None
  BY DEF CInv, CountsTyped, C!Known, C!New, KnownCounter, C!ConstantsAssumption
<1>2. CASE C!Counting_Load_Config
  <2>1. due \in BOOLEAN /\ g_counting_enabled' \in BOOLEAN
    BY <1>2 DEF C!Counting_Load_Config, CInv, CountsTyped
  <2>2. due' \in BOOLEAN
    BY <1>2, <2>1 DEF C!Counting_Load_Config
  <2> QED BY <1>2, <2>1, <2>2, TimeOrStutter DEF C!Counting_Load_Config, C!history
<1>3. CASE C!Counting_Reset_All
  <2> DEFINE counters == [s \in DOMAIN g_counters |-> C!New]
  <2>1. counters \in [DOMAIN g_counters -> KnownCounter]
        /\ \A s \in DOMAIN g_counters : counters[s].reference = C!None
    BY <1>1
  <2>2. C!ChangeTotals(counters)
    BY <1>1, <1>3 DEF C!Counting_Reset_All
  <2> HIDE DEF counters
  <2> QED BY <2>1, <2>2, ChangeSound
<1>4. ASSUME NEW s \in Scenario, C!Counting_Set_Values_From_JSON(s, MaxCount)
      PROVE  CInv'
  <2> DEFINE set == [total |-> MaxCount, reference |-> C!None]
             counters == [g_counters EXCEPT ![s] = set]
  <2>1. set \in KnownCounter /\ set.reference = C!None
    BY <1>1 DEF KnownCounter
  <2>2. s \in DOMAIN g_counters /\ C!ChangeTotals(counters)
    BY <1>1, <1>4 DEF C!Counting_Set_Values_From_JSON
  <2> HIDE DEF set
  <2>3. /\ counters \in [DOMAIN g_counters -> KnownCounter]
        /\ \A k \in DOMAIN g_counters : counters[k].reference # C!None => counters[k] = g_counters[k]
    BY <1>1, <2>1, <2>2
  <2> HIDE DEF counters
  <2> QED BY <2>2, <2>3, ChangeSound
<1>5. ASSUME NEW keep, C!Counting_Sync_With_AOA_List(keep)
      PROVE  CInv'
  <2> DEFINE S == DOMAIN g_counters \cap keep
             counters == [s \in S |-> g_counters[s]]
  <2>1. C!ChangeTotals(counters)
    BY <1>1, <1>5 DEF C!Counting_Sync_With_AOA_List, C!Restrict
  <2>2. /\ counters \in [S -> KnownCounter] /\ S \subseteq DOMAIN g_counters
        /\ \A k \in S : counters[k] = g_counters[k]
    BY <1>1
  <2> HIDE DEF S, counters
  <2> QED BY <2>1, <2>2, ChangeSound
<1> QED BY <1>2, <1>3, <1>4, <1>5 DEF C!Operator

\* Nothing is under way after a start, and nothing is referenced.
LEMMA RestartSound ==
  ASSUME C!ConstantsAssumption, CInv, C!Restart
  PROVE  CInv'
<1>1. /\ g_counters' = [s \in DOMAIN file' |-> [total |-> file'[s], reference |-> C!None]]
      /\ event' = <<>> /\ saving' = {} /\ due' = FALSE
      /\ counting_publisher' = [t \in Thread |-> C!Ready]
      /\ crossings' = [s \in Scenario |-> IF s \in DOMAIN file' THEN file'[s] ELSE 0]
      /\ overtaken' = {} /\ latest' = [s \in Scenario |-> C!None]
      /\ UNCHANGED <<aoa, g_counting_enabled>>
  BY DEF C!Restart, C!LoadedReference
<1>2. /\ DOMAIN file' \subseteq Scenario /\ file' \in [DOMAIN file' -> Nat]
      /\ IsFiniteSet(DOMAIN file') /\ Cardinality(DOMAIN file') <= MaxItems
  <2>1. CASE file' = [s \in DOMAIN g_counters |-> g_counters[s].total]
    BY <2>1 DEF CInv, CountsTyped, KnownCounter
  <2>2. CASE file' = file
    BY <2>2 DEF CInv, CountsTyped
  <2>3. CASE file' = <<>>
    <3>1. DOMAIN file' = {}
      BY <2>3
    <3> QED BY <3>1, FS_EmptySet DEF C!ConstantsAssumption
  <2> QED BY <2>1, <2>2, <2>3 DEF C!Restart, C!Totals
<1>3. /\ C!Ready \in AskingType /\ event' \in Seq(CountEvent) /\ Len(event') <= MaxEvents
      /\ DOMAIN event' = {}
  <2>1. C!Ready \in AskingType
    BY DEF C!Ready, AskingType, PublisherPoint
  <2> QED BY <1>1, <2>1 DEF C!ConstantsAssumption
<1>4. CountsTyped'
  <2>1. g_counters' \in [DOMAIN file' -> KnownCounter] /\ DOMAIN g_counters' = DOMAIN file'
    BY <1>1, <1>2 DEF KnownCounter
  <2>2. crossings' \in [Scenario -> Nat]
    BY <1>1, <1>2
  <2>3. latest' \in [Scenario -> Nat \cup {C!None}]
    BY <1>1
  <2> QED BY <1>1, <1>2, <1>3, <2>1, <2>2, <2>3 DEF CInv, CountsTyped
<1>5. SumsFollow'
  BY <1>1, <1>3 DEF SumsFollow, Referenced, Trusted
<1>6. AnswersFollow'
  BY <1>1 DEF AnswersFollow, C!At, C!Ready
<1>7. \A s : C!UnderWay(s)' = 0
  <2>1. \A s : {i \in DOMAIN event' : event'[i].scenario = s} = {}
    BY <1>3
  <2> QED BY <2>1, FS_EmptySet, SameCardinality DEF C!UnderWay
<1>8. TotalsBounded'
  BY <1>1, <1>2, <1>7 DEF TotalsBounded, Trusted
<1> QED BY <1>4, <1>5, <1>6, <1>8 DEF CInv

\* A crossing: one more event, and one more crossing that totals may hold.
LEMMA CrossingSound ==
  ASSUME C!ConstantsAssumption, CInv, NEW s \in Scenario, C!Crossing(s)
  PROVE  CInv'
<1> DEFINE e == [scenario |-> s, sum |-> aoa[s] + 1]
<1>1. /\ s \in DOMAIN aoa /\ aoa[s] < MaxCount /\ Len(event) < MaxEvents
      /\ aoa' = [aoa EXCEPT ![s] = @ + 1] /\ event' = Append(event, e)
      /\ crossings' = [crossings EXCEPT ![s] = @ + 1]
      /\ UNCHANGED <<g_counters, g_counting_enabled, due, file, saving, counting_publisher,
                     overtaken, latest>>
  BY DEF C!Crossing, C!counting
<1>2. /\ aoa \in [DOMAIN aoa -> 0 .. MaxCount] /\ MaxCount \in Nat /\ event \in Seq(CountEvent)
      /\ crossings \in [Scenario -> Nat] /\ DOMAIN aoa \subseteq Scenario /\ CountsTyped
      /\ MaxEvents \in Nat
  BY DEF CInv, CountsTyped, C!ConstantsAssumption
<1>3. e \in CountEvent /\ e.scenario = s /\ e.sum = aoa[s] + 1 /\ e.sum \in Nat
  BY <1>1, <1>2 DEF CountEvent
<1> HIDE DEF e
<1>4. /\ event' \in Seq(CountEvent) /\ Len(event') = Len(event) + 1 /\ event'[Len(event) + 1] = e
      /\ \A i \in 1 .. Len(event) : event'[i] = event[i]
  BY <1>1, <1>2, <1>3, AppendProperties
<1>5. /\ Len(event) \in Nat /\ DOMAIN event = 1 .. Len(event)
      /\ DOMAIN event' = 1 .. Len(event) + 1
  BY <1>2, <1>4, LenProperties
<1>6. CountsTyped'
  <2>1. aoa' \in [DOMAIN aoa -> 0 .. MaxCount] /\ DOMAIN aoa' = DOMAIN aoa
    BY <1>1, <1>2
  <2>2. crossings' \in [Scenario -> Nat]
    BY <1>1, <1>2
  <2>3. Len(event') <= MaxEvents
    BY <1>1, <1>2, <1>4, <1>5
  <2> QED BY <1>1, <1>4, <2>1, <2>2, <2>3 DEF CInv, CountsTyped
<1>7. ASSUME NEW x, NEW sum \in Nat
      PROVE  /\ \A i \in 0 .. Len(event) :
                  Follows(event, aoa, x, sum, i) => Follows(event', aoa', x, sum, i)
             /\ Follows(event', aoa', s, e.sum, Len(event) + 1)
  <2>1. aoa \in [DOMAIN aoa -> Nat]
    BY <1>2
  <2> QED BY <1>1, <1>2, <1>3, <2>1, FollowsAppended
<1>8. SumsFollow'
  <2>1. ASSUME NEW i \in DOMAIN event'
        PROVE  Follows(event', aoa', event'[i].scenario, event'[i].sum, i)
    <3>1. CASE i \in DOMAIN event
      <4>1. event'[i] = event[i] /\ i \in 0 .. Len(event) /\ event[i] \in CountEvent
        BY <1>2, <1>4, <1>5, <3>1, LenProperties
      <4>2. event[i].sum \in Nat
        BY <4>1 DEF CountEvent
      <4>3. Follows(event, aoa, event[i].scenario, event[i].sum, i)
        BY <3>1 DEF CInv, SumsFollow
      <4> QED BY <1>7, <4>1, <4>2, <4>3
    <3>2. CASE i \notin DOMAIN event
      <4>1. i = Len(event) + 1
        BY <1>5, <2>1, <3>2
      <4>2. event'[i].scenario = s /\ event'[i].sum = e.sum
        BY <1>3, <1>4, <4>1
      <4> QED BY <1>3, <1>7, <4>1, <4>2
    <3> QED BY <3>1, <3>2
  <2>2. ASSUME NEW x \in Scenario, Referenced(x)'
        PROVE  Follows(event', aoa', x, g_counters'[x].reference, 0)
    <3>1. Referenced(x) /\ g_counters'[x].reference = g_counters[x].reference
      BY <1>1, <2>2 DEF Referenced, Trusted
    <3>2. g_counters[x].reference \in Nat
      BY <1>2, <3>1 DEF CountsTyped, KnownCounter, Referenced, Trusted
    <3>3. 0 \in 0 .. Len(event)
      BY <1>5
    <3>4. Follows(event, aoa, x, g_counters[x].reference, 0)
      BY <3>1 DEF CInv, SumsFollow
    <3> QED BY <1>7, <3>1, <3>2, <3>3, <3>4
  <2> QED BY <2>1, <2>2 DEF SumsFollow
<1>9. AnswersFollow'
  <2>1. ASSUME NEW t \in Thread, NEW x \in counting_publisher'[t].of, C!At(t, "answered")',
               ~counting_publisher'[t].crossed, Later(event', x, 0) = {}
        PROVE  /\ Referenced(x)' => counting_publisher'[t].sum <= g_counters'[x].reference
               /\ x \in DOMAIN aoa' => aoa'[x] <= counting_publisher'[t].sum
    <3>1. 0 \in 0 .. Len(event)
      BY <1>5
    <3>2. Later(event', x, 0) = Later(event, x, 0) \cup (IF e.scenario = x THEN {Len(event) + 1} ELSE {})
      <4>1. Later(Append(event, e), x, 0)
              = Later(event, x, 0) \cup (IF e.scenario = x THEN {Len(event) + 1} ELSE {})
        BY <1>2, <1>3, <3>1, LaterAppended
      <4> QED BY <1>1, <4>1
    <3>3. x # s /\ Later(event, x, 0) = {}
      BY <1>3, <2>1, <3>2
    <3>4. C!At(t, "answered") /\ counting_publisher' = counting_publisher
      BY <1>1, <2>1 DEF C!At
    <3>5. /\ Referenced(x) => counting_publisher[t].sum <= g_counters[x].reference
          /\ x \in DOMAIN aoa => aoa[x] <= counting_publisher[t].sum
      BY <2>1, <3>3, <3>4 DEF CInv, AnswersFollow
    <3>6. x \in DOMAIN aoa' => x \in DOMAIN aoa /\ aoa'[x] = aoa[x]
      BY <1>1, <1>2, <3>3
    <3>7. Referenced(x)' => Referenced(x) /\ g_counters' = g_counters
      BY <1>1 DEF Referenced, Trusted
    <3> QED BY <3>4, <3>5, <3>6, <3>7
  <2> QED BY <2>1 DEF AnswersFollow
<1>10. TotalsBounded'
  <2>1. ASSUME NEW x \in Scenario
        PROVE  /\ C!UnderWay(x) \in Nat /\ crossings[x] \in Nat
               /\ C!UnderWay(x)' = C!UnderWay(x) + (IF x = s THEN 1 ELSE 0)
               /\ crossings'[x] = crossings[x] + (IF x = s THEN 1 ELSE 0)
    <3>1. C!UnderWay(x) = Cardinality(Later(event, x, 0))
      BY <1>2, UnderWayIs
    <3>2. C!UnderWay(x)' = Cardinality(Later(event', x, 0))
      <4>1. Later(event', x, 0) = {i \in DOMAIN event' : event'[i].scenario = x}
        BY <1>5 DEF Later
      <4> QED BY <4>1, SameCardinality DEF C!UnderWay
    <3>3. Cardinality(Later(event', x, 0))
            = Cardinality(Later(event, x, 0)) + (IF e.scenario = x THEN 1 ELSE 0)
      BY <1>1, <1>2, <1>3, NumberAppended
    <3>4. Cardinality(Later(event, x, 0)) \in Nat
      BY <1>2, LaterIs
    <3> QED BY <1>1, <1>2, <1>3, <3>1, <3>2, <3>3, <3>4
  <2>2. \A x \in Trusted' : x \in Trusted /\ x \in Scenario
                             /\ g_counters'[x] = g_counters[x] /\ g_counters[x].total \in Nat
    BY <1>1, <1>2 DEF Trusted, CountsTyped, KnownCounter
  <2> QED BY <2>1, <2>2 DEF CInv, TotalsBounded
<1> QED BY <1>6, <1>8, <1>9, <1>10 DEF CInv

-----------------------------------------------------------------------------
(***************************************************************************)
(* The steps that process a sum.                                           *)
(***************************************************************************)

\* What a sum makes of the counters.
LEMMA Processes ==
  ASSUME C!ConstantsAssumption, CountsTyped, NEW s \in Scenario, NEW sum \in Nat, C!Process(s, sum)
  PROVE  /\ DOMAIN g_counters' \subseteq Scenario
         /\ g_counters' \in [DOMAIN g_counters' -> KnownCounter]
         /\ IsFiniteSet(DOMAIN g_counters') /\ Cardinality(DOMAIN g_counters') <= MaxItems
         /\ latest' \in [Scenario -> Nat \cup {C!None}]
         /\ \A x : x # s => (x \in DOMAIN g_counters' <=> x \in DOMAIN g_counters)
         /\ \A x \in DOMAIN g_counters : x # s => g_counters'[x] = g_counters[x]
         /\ s \in DOMAIN g_counters' => g_counters'[s].reference = sum /\ latest'[s] = sum
         /\ s \in DOMAIN g_counters' =>
              g_counters'[s].total =
                IF s \notin DOMAIN g_counters THEN 0
                ELSE IF g_counters[s].reference # C!None /\ sum > g_counters[s].reference
                     THEN g_counters[s].total + sum - g_counters[s].reference
                     ELSE g_counters[s].total
         /\ s \notin DOMAIN g_counters' => latest' = latest
         /\ \A x \in Scenario : x # s => latest'[x] = latest[x]
<1>1. /\ DOMAIN g_counters \subseteq Scenario /\ g_counters \in [DOMAIN g_counters -> KnownCounter]
      /\ IsFiniteSet(DOMAIN g_counters) /\ Cardinality(DOMAIN g_counters) <= MaxItems
      /\ latest \in [Scenario -> Nat \cup {C!None}]
      /\ Cardinality(DOMAIN g_counters) \in Nat /\ MaxItems \in Nat
  BY FS_CardinalityType DEF CountsTyped, C!ConstantsAssumption
<1> DEFINE none == C!None
           c == IF s \in DOMAIN g_counters THEN g_counters[s] ELSE [total |-> 0, reference |-> none]
           more == c.reference # none /\ sum > c.reference
           made == [total |-> IF more THEN c.total + sum - c.reference ELSE c.total,
                    reference |-> sum]
<1>2. /\ C!Find(s) <=> s \in DOMAIN g_counters \/ Cardinality(DOMAIN g_counters) < MaxItems
      /\ C!Find(s) => g_counters' = [k \in DOMAIN g_counters \cup {s} |-> IF k = s THEN made
                                                                    ELSE g_counters[k]]
      /\ ~C!Find(s) => g_counters' = g_counters
      /\ C!Find(s) => latest' = [latest EXCEPT ![s] = sum]
      /\ ~C!Find(s) => latest' = latest
  BY SameCardinality
     DEF C!Process, C!With, C!Processed, C!New, C!Known, C!Find
<1>3. c \in KnownCounter
  BY <1>1 DEF KnownCounter
<1>4. made \in KnownCounter
  <2> HIDE DEF c
  <2>1. c.total \in Nat /\ (c.reference # none => c.reference \in Nat)
    BY <1>3 DEF KnownCounter
  <2> HIDE DEF none
  <2>2. (IF more THEN c.total + sum - c.reference ELSE c.total) \in Nat
    BY <2>1
  <2> QED BY <2>2 DEF KnownCounter
<1>5. /\ s \in DOMAIN g_counters => c = g_counters[s]
      /\ s \notin DOMAIN g_counters => c.total = 0 /\ c.reference = C!None
  OBVIOUS
<1>6. made.reference = sum
      /\ made.total = IF c.reference # C!None /\ sum > c.reference THEN c.total + sum - c.reference
                      ELSE c.total
  OBVIOUS
<1> HIDE DEF c, made
<1>7. CASE C!Find(s)
  <2>1. DOMAIN g_counters' = DOMAIN g_counters \cup {s} /\ g_counters'[s] = made
        /\ \A k \in DOMAIN g_counters : k # s => g_counters'[k] = g_counters[k]
    BY <1>2, <1>7
  <2>2. IsFiniteSet(DOMAIN g_counters') /\ Cardinality(DOMAIN g_counters') <= MaxItems
    <3> DEFINE D == DOMAIN g_counters
               E == DOMAIN g_counters'
    <3>1. /\ IsFiniteSet(D) /\ E = D \cup {s} /\ Cardinality(D) \in Nat /\ Cardinality(D) <= MaxItems
          /\ s \notin D => Cardinality(D) < MaxItems
      BY <1>1, <1>2, <1>7, <2>1
    <3> HIDE DEF D, E
    <3>2. IsFiniteSet(E) /\ Cardinality(E) = IF s \in D THEN Cardinality(D) ELSE Cardinality(D) + 1
      BY <3>1, FS_AddElement
    <3>3. Cardinality(E) <= MaxItems
      BY <1>1, <3>1, <3>2
    <3> QED BY <3>2, <3>3 DEF E
  <2>3. /\ g_counters' \in [DOMAIN g_counters' -> KnownCounter]
        /\ latest' \in [Scenario -> Nat \cup {C!None}] /\ latest'[s] = sum
        /\ \A x \in Scenario : x # s => latest'[x] = latest[x]
    BY <1>1, <1>2, <1>4, <1>7
  <2> QED BY <1>1, <1>5, <1>6, <2>1, <2>2, <2>3
<1>8. CASE ~C!Find(s)
  BY <1>1, <1>2, <1>8
<1> QED BY <1>7, <1>8

\* A publisher whose answer is about what is processed has been crossed.
LEMMA CrossedTyped ==
  ASSUME CountsTyped, NEW s
  PROVE  /\ C!Crossed(s) \in [Thread -> AskingType]
         /\ \A t \in Thread : ~C!Crossed(s)[t].crossed =>
              /\ C!Crossed(s)[t] = counting_publisher[t]
              /\ C!At(t, "answered") => s \notin counting_publisher[t].of
<1>1. ASSUME NEW t \in Thread
      PROVE  /\ counting_publisher[t] \in AskingType
             /\ [counting_publisher[t] EXCEPT !.crossed = TRUE] \in AskingType
             /\ [counting_publisher[t] EXCEPT !.crossed = TRUE].crossed
  <2>1. counting_publisher[t] \in AskingType
    BY DEF CountsTyped
  <2>2. "idle" \in PublisherPoint /\ {} \in SUBSET Scenario /\ 0 \in Nat
    BY DEF PublisherPoint
  <2> DEFINE p == counting_publisher[t]
  <2> HIDE DEF p
  <2>3. p \in AskingType
    BY <2>1 DEF p
  <2>4. [p EXCEPT !.crossed = TRUE] \in AskingType
    BY <2>2, <2>3, AskingTyped
  <2>5. [p EXCEPT !.crossed = TRUE].crossed
    BY <2>3 DEF AskingType
  <2> QED BY <2>1, <2>4, <2>5 DEF p
<1> QED BY <1>1 DEF C!Crossed, C!At

\* What is not under way any more, when the event taken is not of s, was not before.
LEMMA NoneTaken ==
  ASSUME NEW q \in Seq(CountEvent), q # <<>>, NEW s,
         Head(q).scenario # s, Later(Tail(q), s, 0) = {}
  PROVE  Later(q, s, 0) = {}
<1> DEFINE before == Later(q, s, 0)
           after == Later(Tail(q), s, 0)
<1>1. Cardinality(before) = Cardinality(after) + 0
  BY NumberTaken
<1>2. IsFiniteSet(before)
  BY LaterIs
<1>3. after = {}
  OBVIOUS
<1> HIDE DEF before, after
<1>4. Cardinality(before) = 0
  BY <1>1, <1>3, FS_EmptySet
<1> QED BY <1>2, <1>4, FS_EmptySet DEF before

\* The main loop takes an event: a total grows by at most the crossing it is about.
LEMMA TakenSound ==
  ASSUME C!ConstantsAssumption, CInv, NEW minute, C!AOA_Event_Callback(minute)
  PROVE  CInv'
<1> DEFINE s == Head(event).scenario
           sum == Head(event).sum
<1>1. /\ event # <<>> /\ event' = Tail(event) /\ C!Process(s, sum)
      /\ counting_publisher' = C!Crossed(s)
      /\ saving' = saving \/ saving' = saving \cup {"main_loop"}
      /\ UNCHANGED <<aoa, g_counting_enabled, due, file, crossings, overtaken>>
  BY DEF C!AOA_Event_Callback
<1>2. /\ event \in Seq(CountEvent) /\ CountsTyped /\ aoa \in [DOMAIN aoa -> 0 .. MaxCount]
      /\ MaxEvents \in Nat /\ Len(event) <= MaxEvents
  BY DEF CInv, CountsTyped, C!ConstantsAssumption
<1>3. /\ event' \in Seq(CountEvent) /\ Len(event') = Len(event) - 1
      /\ \A i \in 1 .. Len(event') : event'[i] = event[i + 1]
      /\ Head(event) \in CountEvent
  BY <1>1, <1>2, HeadTailProperties
<1>4. /\ Len(event) \in Nat /\ DOMAIN event = 1 .. Len(event) /\ Len(event') \in Nat
      /\ DOMAIN event' = 1 .. Len(event') /\ Head(event) = event[1] /\ 1 \in DOMAIN event
  <2>1. Len(event) \in Nat /\ DOMAIN event = 1 .. Len(event) /\ Head(event) = event[1]
    BY <1>2, LenProperties
  <2>2. Len(event') \in Nat /\ DOMAIN event' = 1 .. Len(event')
    BY <1>3, LenProperties
  <2> QED BY <1>3, <2>1, <2>2
<1>5. s \in Scenario /\ sum \in Nat
  BY <1>3 DEF CountEvent
<1> HIDE DEF s, sum
<1>6. /\ DOMAIN g_counters' \subseteq Scenario /\ g_counters' \in [DOMAIN g_counters' -> KnownCounter]
      /\ IsFiniteSet(DOMAIN g_counters') /\ Cardinality(DOMAIN g_counters') <= MaxItems
      /\ latest' \in [Scenario -> Nat \cup {C!None}]
      /\ \A x : x # s => (x \in DOMAIN g_counters' <=> x \in DOMAIN g_counters)
      /\ \A x \in DOMAIN g_counters : x # s => g_counters'[x] = g_counters[x]
      /\ s \in DOMAIN g_counters' => g_counters'[s].reference = sum
      /\ s \in DOMAIN g_counters' =>
           g_counters'[s].total =
             IF s \notin DOMAIN g_counters THEN 0
             ELSE IF g_counters[s].reference # C!None /\ sum > g_counters[s].reference
                  THEN g_counters[s].total + sum - g_counters[s].reference
                  ELSE g_counters[s].total
  BY <1>1, <1>2, <1>5, Processes
<1>7. /\ counting_publisher' \in [Thread -> AskingType]
      /\ \A t \in Thread : ~counting_publisher'[t].crossed =>
           /\ counting_publisher'[t] = counting_publisher[t]
           /\ C!At(t, "answered") => s \notin counting_publisher[t].of
  BY <1>1, <1>2, CrossedTyped
<1>8. CountsTyped'
  BY <1>1, <1>2, <1>3, <1>4, <1>6, <1>7 DEF CountsTyped
<1>9. SumsFollow'
  <2>1. ASSUME NEW i \in DOMAIN event'
        PROVE  Follows(event', aoa', event'[i].scenario, event'[i].sum, i)
    <3>1. i \in Nat /\ event'[i] = event[i + 1] /\ i + 1 \in DOMAIN event
      BY <1>3, <1>4, <2>1
    <3>2. Follows(event, aoa, event[i + 1].scenario, event[i + 1].sum, i + 1)
      BY <3>1 DEF CInv, SumsFollow
    <3> QED BY <1>1, <1>2, <3>1, <3>2, FollowsTaken
  <2>2. ASSUME NEW x \in Scenario, Referenced(x)'
        PROVE  Follows(event', aoa', x, g_counters'[x].reference, 0)
    <3>1. CASE x = s
      <4>1. Follows(event, aoa, s, sum, 0 + 1)
        <5>1. Follows(event, aoa, event[1].scenario, event[1].sum, 1)
          BY <1>4 DEF CInv, SumsFollow
        <5> QED BY <1>4, <5>1 DEF s, sum
      <4>2. Follows(Tail(event), aoa, s, sum, 0)
        BY <1>1, <1>2, <4>1, FollowsTaken
      <4> QED BY <1>1, <1>6, <2>2, <3>1, <4>2 DEF Referenced, Trusted
    <3>2. CASE x # s
      <4>1. Referenced(x) /\ g_counters'[x].reference = g_counters[x].reference
        BY <1>1, <1>6, <2>2, <3>2 DEF Referenced, Trusted
      <4>2. Follows(event, aoa, x, g_counters[x].reference, 0)
        BY <4>1 DEF CInv, SumsFollow
      <4>3. Follows(Tail(event), aoa, x, g_counters[x].reference, 0)
        BY <1>1, <1>2, <3>2, <4>2, FollowsNotTaken DEF s
      <4> QED BY <1>1, <4>1, <4>3
    <3> QED BY <3>1, <3>2
  <2> QED BY <2>1, <2>2 DEF SumsFollow
<1>10. AnswersFollow'
  <2>1. ASSUME NEW t \in Thread, NEW x \in counting_publisher'[t].of, C!At(t, "answered")',
               ~counting_publisher'[t].crossed, Later(event', x, 0) = {}
        PROVE  /\ Referenced(x)' => counting_publisher'[t].sum <= g_counters'[x].reference
               /\ x \in DOMAIN aoa' => aoa'[x] <= counting_publisher'[t].sum
    <3>1. /\ counting_publisher'[t] = counting_publisher[t] /\ C!At(t, "answered") /\ x # s
          /\ x \in counting_publisher[t].of
      BY <1>7, <2>1 DEF C!At
    <3>2. Later(event, x, 0) = {}
      BY <1>1, <1>2, <2>1, <3>1, NoneTaken DEF s
    <3>3. /\ Referenced(x) => counting_publisher[t].sum <= g_counters[x].reference
          /\ x \in DOMAIN aoa => aoa[x] <= counting_publisher[t].sum
      BY <2>1, <3>1, <3>2 DEF CInv, AnswersFollow
    <3>4. Referenced(x)' => Referenced(x) /\ g_counters'[x] = g_counters[x]
      BY <1>1, <1>6, <3>1 DEF Referenced, Trusted
    <3> QED BY <1>1, <3>1, <3>3, <3>4
  <2> QED BY <2>1 DEF AnswersFollow
<1>11. TotalsBounded'
  <2>1. ASSUME NEW x \in Scenario
        PROVE  /\ C!UnderWay(x)' \in Nat
               /\ C!UnderWay(x) = C!UnderWay(x)' + (IF x = s THEN 1 ELSE 0)
    <3>1. C!UnderWay(x) = Cardinality(Later(event, x, 0))
      BY <1>2, UnderWayIs
    <3>2. C!UnderWay(x)' = Cardinality(Later(event', x, 0))
      <4>1. Later(event', x, 0) = {i \in DOMAIN event' : event'[i].scenario = x}
        BY <1>4 DEF Later
      <4> QED BY <4>1, SameCardinality DEF C!UnderWay
    <3>3. Cardinality(Later(event, x, 0))
            = Cardinality(Later(Tail(event), x, 0)) + (IF Head(event).scenario = x THEN 1 ELSE 0)
      BY <1>1, <1>2, NumberTaken
    <3>4. Cardinality(Later(event', x, 0)) \in Nat
      BY <1>3, LaterIs
    <3> QED BY <1>1, <3>1, <3>2, <3>3, <3>4 DEF s
  <2>2. \A x \in Scenario : crossings'[x] = crossings[x] /\ crossings[x] \in Nat
    BY <1>1, <1>2 DEF CountsTyped
  <2>3. \A x \in Scenario : C!UnderWay(x)' <= crossings'[x]
    BY <2>1, <2>2 DEF CInv, TotalsBounded
  <2>4. ASSUME NEW x \in Trusted'
        PROVE  g_counters'[x].total + C!UnderWay(x)' <= crossings'[x]
    <3>1. x \in Scenario /\ x \in DOMAIN g_counters' /\ x \notin overtaken
      BY <1>1, <1>6, <2>4 DEF Trusted
    <3>2. ASSUME x \in DOMAIN g_counters
          PROVE  /\ g_counters[x].total \in Nat
                 /\ g_counters[x].total + C!UnderWay(x) <= crossings[x]
      BY <1>2, <3>1, <3>2 DEF CInv, TotalsBounded, Trusted, CountsTyped, KnownCounter
    <3>3. CASE x # s
      <4>1. x \in DOMAIN g_counters /\ g_counters'[x] = g_counters[x]
        BY <1>6, <3>1, <3>3
      <4> QED BY <2>1, <2>2, <3>1, <3>2, <3>3, <4>1
    <3>4. CASE x = s /\ s \notin DOMAIN g_counters
      BY <1>6, <2>1, <2>2, <2>3, <3>1, <3>4
    <3>5. CASE x = s /\ Referenced(s)
      <4>1. g_counters[s].reference \in Nat /\ s \in DOMAIN g_counters
        BY <1>2, <3>5 DEF Referenced, Trusted, CountsTyped, KnownCounter
      <4>2. sum <= g_counters[s].reference + 1
        <5>1. Follows(event, aoa, s, g_counters[s].reference, 0)
          BY <1>5, <3>5 DEF CInv, SumsFollow
        <5>2. 1 \in Later(event, s, 0) /\ \A k \in Later(event, s, 0) : 1 <= k
          BY <1>4 DEF Later, s
        <5>3. event[1].sum <= g_counters[s].reference + 1
          BY <5>1, <5>2 DEF Follows
        <5> QED BY <1>4, <5>3 DEF sum
      <4>3. g_counters'[s].total \in Nat /\ g_counters'[s].total <= g_counters[s].total + 1
        BY <1>5, <1>6, <3>1, <3>2, <3>5, <4>1, <4>2
      <4> QED BY <2>1, <2>2, <3>1, <3>2, <3>5, <4>1, <4>3
    <3>6. CASE x = s /\ s \in DOMAIN g_counters /\ ~Referenced(s)
      <4>1. g_counters[s].reference = C!None
        BY <3>1, <3>6 DEF Referenced, Trusted
      <4> QED BY <1>6, <2>1, <2>2, <3>1, <3>2, <3>6, <4>1
    <3> QED BY <3>3, <3>4, <3>5, <3>6
  <2> QED BY <2>3, <2>4 DEF TotalsBounded
<1> QED BY <1>8, <1>9, <1>10, <1>11 DEF CInv

\* An answer that crosses no event of its scenario adds nothing.
LEMMA AnswerSound ==
  ASSUME C!ConstantsAssumption, CInv, NEW t \in Thread, NEW s \in Scenario, NEW minute,
         C!Answer(t, s, minute)
  PROVE  CInv'
<1> DEFINE sum == counting_publisher[t].sum
           asks == [C!Ready EXCEPT !.at = "asking", !.ask = counting_publisher[t].ask]
           lone == ~counting_publisher[t].crossed /\ Later(event, s, 0) = {}
<1>1. /\ C!At(t, "answered") /\ s \in counting_publisher[t].of /\ C!Process(s, sum)
      /\ overtaken' = IF counting_publisher[t].crossed \/ \E i \in DOMAIN event : event[i].scenario = s
                     THEN overtaken \cup {s} ELSE overtaken
      /\ saving' = saving \/ saving' = saving \cup {t}
      /\ counting_publisher' = [C!Crossed(s) EXCEPT ![t] = asks]
      /\ UNCHANGED <<aoa, event, g_counting_enabled, file, changes, due, crossings>>
  BY DEF C!Answer, C!Rest
<1>2. /\ event \in Seq(CountEvent) /\ CountsTyped /\ counting_publisher[t] \in AskingType
  BY DEF CInv, CountsTyped
<1>3. sum \in Nat /\ asks \in AskingType /\ asks.at # "answered"
  <2>1. /\ "asking" \in PublisherPoint /\ {} \in SUBSET Scenario /\ 0 \in Nat
        /\ counting_publisher[t].ask \in SUBSET Scenario /\ sum \in Nat
    BY <1>2 DEF PublisherPoint, AskingType
  <2>2. asks \in AskingType
    BY <1>2, <2>1, AskingTyped
  <2> QED BY <2>1, <2>2 DEF C!Ready
<1>4. /\ overtaken \subseteq overtaken' /\ overtaken' \subseteq overtaken \cup {s}
      /\ s \in overtaken' \/ lone
  <2>1. DOMAIN event = 1 .. Len(event) /\ Len(event) \in Nat
    BY <1>2, LenProperties
  <2> QED BY <1>1, <2>1 DEF Later
<1>5. /\ lone /\ Referenced(s) => sum <= g_counters[s].reference
      /\ lone /\ s \in DOMAIN aoa => aoa[s] <= sum
  BY <1>1 DEF CInv, AnswersFollow
<1> HIDE DEF sum, asks
<1>6. /\ DOMAIN g_counters' \subseteq Scenario /\ g_counters' \in [DOMAIN g_counters' -> KnownCounter]
      /\ IsFiniteSet(DOMAIN g_counters') /\ Cardinality(DOMAIN g_counters') <= MaxItems
      /\ latest' \in [Scenario -> Nat \cup {C!None}]
      /\ \A x : x # s => (x \in DOMAIN g_counters' <=> x \in DOMAIN g_counters)
      /\ \A x \in DOMAIN g_counters : x # s => g_counters'[x] = g_counters[x]
      /\ s \in DOMAIN g_counters' => g_counters'[s].reference = sum
      /\ s \in DOMAIN g_counters' =>
           g_counters'[s].total =
             IF s \notin DOMAIN g_counters THEN 0
             ELSE IF g_counters[s].reference # C!None /\ sum > g_counters[s].reference
                  THEN g_counters[s].total + sum - g_counters[s].reference
                  ELSE g_counters[s].total
  BY <1>1, <1>2, <1>3, Processes
<1>7. /\ counting_publisher' \in [Thread -> AskingType] /\ counting_publisher'[t] = asks
      /\ \A u \in Thread : u # t /\ ~counting_publisher'[u].crossed =>
           /\ counting_publisher'[u] = counting_publisher[u]
           /\ C!At(u, "answered") => s \notin counting_publisher[u].of
  <2>1. /\ C!Crossed(s) \in [Thread -> AskingType]
        /\ \A u \in Thread : ~C!Crossed(s)[u].crossed =>
             /\ C!Crossed(s)[u] = counting_publisher[u]
             /\ C!At(u, "answered") => s \notin counting_publisher[u].of
    BY <1>2, CrossedTyped
  <2> QED BY <1>1, <1>3, <2>1
<1>8. CountsTyped'
  BY <1>1, <1>2, <1>6, <1>7 DEF CountsTyped
<1>9. \A x : x # s /\ Referenced(x)' => Referenced(x) /\ g_counters'[x] = g_counters[x]
  BY <1>4, <1>6 DEF Referenced, Trusted
<1>10. SumsFollow'
  <2>1. ASSUME NEW x \in Scenario, Referenced(x)'
        PROVE  Follows(event', aoa', x, g_counters'[x].reference, 0)
    <3>1. CASE x = s
      <4>1. lone /\ g_counters'[s].reference = sum
        BY <1>4, <1>6, <2>1, <3>1 DEF Referenced, Trusted
      <4> QED BY <1>1, <1>5, <3>1, <4>1 DEF Follows
    <3>2. CASE x # s
      BY <1>1, <1>9, <2>1, <3>2 DEF CInv, SumsFollow
    <3> QED BY <3>1, <3>2
  <2> QED BY <1>1, <2>1 DEF CInv, SumsFollow
<1>11. AnswersFollow'
  <2>1. ASSUME NEW u \in Thread, NEW x \in counting_publisher'[u].of, C!At(u, "answered")',
               ~counting_publisher'[u].crossed, Later(event', x, 0) = {}
        PROVE  /\ Referenced(x)' => counting_publisher'[u].sum <= g_counters'[x].reference
               /\ x \in DOMAIN aoa' => aoa'[x] <= counting_publisher'[u].sum
    <3>1. u # t
      BY <1>3, <1>7, <2>1 DEF C!At
    <3>2. /\ counting_publisher'[u] = counting_publisher[u] /\ C!At(u, "answered") /\ x # s
          /\ x \in counting_publisher[u].of
      BY <1>7, <2>1, <3>1 DEF C!At
    <3>3. /\ Referenced(x) => counting_publisher[u].sum <= g_counters[x].reference
          /\ x \in DOMAIN aoa => aoa[x] <= counting_publisher[u].sum
      BY <1>1, <2>1, <3>2 DEF CInv, AnswersFollow
    <3> QED BY <1>1, <1>9, <3>2, <3>3
  <2> QED BY <2>1 DEF AnswersFollow
<1>12. TotalsBounded'
  <2>1. \A x \in Scenario : /\ C!UnderWay(x)' = C!UnderWay(x) /\ C!UnderWay(x) \in Nat
                            /\ C!UnderWay(x) <= crossings[x] /\ crossings'[x] = crossings[x]
                            /\ crossings[x] \in Nat
    <3>1. TAKE x \in Scenario
    <3>2. C!UnderWay(x) = Cardinality(Later(event, x, 0))
      BY <1>2, UnderWayIs
    <3>3. C!UnderWay(x) \in Nat
      BY <1>2, <3>2, LaterIs
    <3> QED BY <1>1, <1>2, <3>3, SameCardinality DEF C!UnderWay, CInv, TotalsBounded, CountsTyped
  <2>2. ASSUME NEW x \in Trusted'
        PROVE  g_counters'[x].total + C!UnderWay(x)' <= crossings'[x]
    <3>1. x \in Scenario /\ x \in DOMAIN g_counters' /\ x \notin overtaken /\ x \notin overtaken'
      BY <1>4, <1>6, <2>2 DEF Trusted
    <3>2. ASSUME x \in DOMAIN g_counters
          PROVE  /\ g_counters[x].total \in Nat
                 /\ g_counters[x].total + C!UnderWay(x) <= crossings[x]
      BY <1>2, <3>1, <3>2 DEF CInv, TotalsBounded, Trusted, CountsTyped, KnownCounter
    <3>3. CASE x # s
      <4>1. x \in DOMAIN g_counters /\ g_counters'[x] = g_counters[x]
        BY <1>6, <3>1, <3>3
      <4> QED BY <2>1, <3>1, <3>2, <4>1
    <3>4. CASE x = s /\ s \notin DOMAIN g_counters
      BY <1>6, <2>1, <3>1, <3>4
    <3>5. CASE x = s /\ Referenced(s)
      <4>1. g_counters[s].reference \in Nat /\ s \in DOMAIN g_counters
        BY <1>2, <3>5 DEF Referenced, Trusted, CountsTyped, KnownCounter
      <4>2. sum <= g_counters[s].reference
        BY <1>4, <1>5, <3>1, <3>5
      <4>3. g_counters'[s].total = g_counters[s].total
        BY <1>3, <1>6, <3>1, <3>5, <4>1, <4>2
      <4> QED BY <2>1, <3>1, <3>2, <3>5, <4>1, <4>3
    <3>6. CASE x = s /\ s \in DOMAIN g_counters /\ ~Referenced(s)
      <4>1. g_counters[s].reference = C!None
        BY <3>1, <3>6 DEF Referenced, Trusted
      <4> QED BY <1>6, <2>1, <3>1, <3>2, <3>6, <4>1
    <3> QED BY <3>3, <3>4, <3>5, <3>6
  <2> QED BY <2>1, <2>2 DEF TotalsBounded
<1> QED BY <1>8, <1>10, <1>11, <1>12 DEF CInv

\* An answer that AOA gives now, with no event under way, is no larger than the reference.
LEMMA AskSound ==
  ASSUME CInv, NEW t \in Thread, NEW s \in Scenario, NEW answers, C!Ask(t, s, answers)
  PROVE  CInv'
<1> DEFINE p == counting_publisher[t]
           answered == [p EXCEPT !.at = "answered", !.ask = @ \ {s}, !.of = {s}, !.sum = aoa[s]]
           unanswered == [p EXCEPT !.ask = @ \ {s}]
<1>1. /\ p \in AskingType /\ p.at = "asking" /\ p.ask \in SUBSET Scenario /\ CountsTyped
      /\ \A x \in DOMAIN aoa : aoa[x] \in Nat
      /\ UNCHANGED <<aoa, event, g_counting_enabled, file, changes, g_counters, due, saving,
                     crossings, overtaken, latest>>
  BY DEF C!Ask, C!Rest, C!history, C!At, CInv, CountsTyped, AskingType
<1>2. CASE C!Go(t, unanswered)
  <2>1. p.ask \ {s} \in SUBSET Scenario /\ 0 \in Nat /\ "asking" \in PublisherPoint
    BY <1>1 DEF PublisherPoint
  <2> HIDE DEF p
  <2>2. unanswered \in AskingType
    BY <1>1, <2>1, AskingTyped
  <2>3. unanswered.at # "answered"
    BY <1>1 DEF AskingType
  <2>4. due' \in BOOLEAN
    BY <1>1 DEF CountsTyped
  <2> HIDE DEF unanswered
  <2> QED BY <1>1, <1>2, <2>2, <2>3, <2>4, PublisherSound
<1>3. CASE C!Go(t, answered) /\ s \in DOMAIN aoa
  <2>1. /\ p.ask \ {s} \in SUBSET Scenario /\ {s} \in SUBSET Scenario /\ aoa[s] \in Nat
        /\ "answered" \in PublisherPoint
    BY <1>1, <1>3 DEF PublisherPoint
  <2> HIDE DEF p
  <2>2. answered \in AskingType
    BY <1>1, <2>1, AskingTyped
  <2>3. answered.of = {s} /\ answered.sum = aoa[s]
    BY <1>1 DEF AskingType
  <2> HIDE DEF answered
  <2>4. /\ counting_publisher' \in [Thread -> AskingType] /\ counting_publisher'[t] = answered
        /\ \A u \in Thread : u # t => counting_publisher'[u] = counting_publisher[u]
    BY <1>1, <1>3, <2>2, PublisherTyped
  <2>5. CountsTyped'
    BY <1>1, <2>4 DEF CountsTyped
  <2>6. \A x : Referenced(x)' <=> Referenced(x)
    BY <1>1 DEF Referenced, Trusted
  <2>7. SumsFollow'
    BY <1>1, <2>6 DEF CInv, SumsFollow
  <2>8. TotalsBounded'
    BY <1>1, TotalsKept DEF CInv, Trusted
  <2>9. ASSUME NEW u \in Thread, NEW x \in counting_publisher'[u].of, C!At(u, "answered")',
               ~counting_publisher'[u].crossed, Later(event', x, 0) = {}
        PROVE  /\ Referenced(x)' => counting_publisher'[u].sum <= g_counters'[x].reference
               /\ x \in DOMAIN aoa' => aoa'[x] <= counting_publisher'[u].sum
    <3>1. CASE u # t
      <4>1. counting_publisher'[u] = counting_publisher[u]
        BY <2>4, <3>1
      <4> QED BY <1>1, <2>6, <2>9, <4>1 DEF CInv, AnswersFollow, C!At
    <3>2. CASE u = t
      <4>1. x = s /\ counting_publisher'[u].sum = aoa[s] /\ Later(event, s, 0) = {}
        BY <1>1, <2>3, <2>4, <2>9, <3>2
      <4>2. Referenced(s) => aoa[s] <= g_counters[s].reference
        BY <1>3, <4>1 DEF CInv, SumsFollow, Follows
      <4>3. aoa[s] \in Nat
        BY <2>1
      <4> QED BY <1>1, <2>6, <4>1, <4>2, <4>3
    <3> QED BY <3>1, <3>2
  <2>10. AnswersFollow'
    BY <2>9 DEF AnswersFollow
  <2> QED BY <2>5, <2>7, <2>8, <2>10 DEF CInv
<1> QED BY <1>2, <1>3 DEF C!Ask, C!Known

LEMMA CountingPublishSound ==
  ASSUME C!ConstantsAssumption, CInv, NEW t \in Thread, C!Publish(t)
  PROVE  CInv'
<1>1. /\ DOMAIN aoa \in SUBSET Scenario /\ {} \in SUBSET Scenario /\ 0 \in Nat
      /\ DOMAIN g_counters \in SUBSET Scenario /\ due \in BOOLEAN
      /\ counting_publisher[t] \in AskingType
  BY DEF CInv, CountsTyped
<1>2. /\ "asking" \in PublisherPoint /\ "sending" \in PublisherPoint
      /\ "accepted" \in PublisherPoint
  BY DEF PublisherPoint
<1>3. C!Ready \in AskingType /\ C!Ready.at # "answered"
  BY <1>1, <1>2, AskingTyped DEF C!Ready
<1>4. CASE C!Publish_Counters_To_LoRa(t)
  <2>1. PICK ask \in {{}, DOMAIN aoa} :
          C!Go(t, [C!Ready EXCEPT !.at = "asking",
                                  !.ask = IF C!Counting_References_Ready THEN {} ELSE ask])
    BY <1>4 DEF C!Publish_Counters_To_LoRa
  <2> DEFINE asked == IF C!Counting_References_Ready THEN {} ELSE ask
             p == [C!Ready EXCEPT !.at = "asking", !.ask = asked]
  <2>2. asked \in SUBSET Scenario
    BY <1>1
  <2>3. C!Go(t, p)
    BY <2>1
  <2> HIDE DEF asked
  <2>4. p \in AskingType
    BY <1>1, <1>2, <2>2, AskingTyped
  <2>5. p.at # "answered"
    BY DEF C!Ready
  <2> HIDE DEF p
  <2> QED BY <1>1, <1>4, <2>3, <2>4, <2>5, PublisherSound
          DEF C!Publish_Counters_To_LoRa, C!Rest, C!history
<1>5. CASE C!Counting_Build_Payload(t)
  <2> DEFINE p == [C!Ready EXCEPT !.at = "sending", !.of = DOMAIN g_counters]
  <2>1. C!Go(t, p) \/ C!Go(t, C!Ready)
    BY <1>5 DEF C!Counting_Build_Payload, C!Known
  <2>2. p \in AskingType
    BY <1>1, <1>2, AskingTyped
  <2>3. p.at # "answered"
    BY DEF C!Ready
  <2> HIDE DEF p
  <2> QED BY <1>1, <1>3, <1>5, <2>1, <2>2, <2>3, PublisherSound
          DEF C!Counting_Build_Payload, C!Rest, C!history
<1>6. CASE C!Counting_Mark_Published(t)
  <2>1. due' \in BOOLEAN /\ C!Go(t, C!Ready)
    BY <1>6 DEF C!Counting_Mark_Published
  <2> QED BY <1>3, <1>6, <2>1, PublisherSound DEF C!Counting_Mark_Published, C!Rest, C!history
<1>7. ASSUME NEW accepted, C!B100_Send_Bytes(t, accepted)
      PROVE  CInv'
  <2> DEFINE p == [C!Ready EXCEPT !.at = "accepted"]
  <2>1. C!Go(t, p) \/ C!Go(t, C!Ready)
    BY <1>7 DEF C!B100_Send_Bytes
  <2>2. p \in AskingType
    BY <1>1, <1>2, AskingTyped
  <2>3. p.at # "answered"
    BY DEF C!Ready
  <2> HIDE DEF p
  <2> QED BY <1>1, <1>3, <1>7, <2>1, <2>2, <2>3, PublisherSound
          DEF C!B100_Send_Bytes, C!Rest, C!history
<1> QED BY <1>4, <1>5, <1>6, <1>7, AskSound, AnswerSound DEF C!Publish

LEMMA CountingStarts == C!ConstantsAssumption /\ C!Init => CInv /\ C!PublishesFresh
<1> SUFFICES ASSUME C!ConstantsAssumption, C!Init
             PROVE  CInv /\ C!PublishesFresh
  OBVIOUS
<1>1. /\ aoa \in [Scenario -> {0}] /\ event = <<>> /\ g_counters = <<>> /\ file = <<>>
      /\ saving = {} /\ g_counting_enabled = TRUE /\ due = FALSE
      /\ counting_publisher = [t \in Thread |-> C!Ready]
      /\ crossings = [s \in Scenario |-> 0] /\ overtaken = {}
      /\ latest = [s \in Scenario |-> C!None]
      /\ MaxCount \in Nat /\ MaxItems \in Nat /\ MaxEvents \in Nat
  BY DEF C!Init, C!ConstantsAssumption
<1>2. DOMAIN g_counters = {} /\ DOMAIN file = {} /\ DOMAIN event = {} /\ DOMAIN aoa = Scenario
  BY <1>1
<1>3. C!Ready \in AskingType /\ C!Ready.at = "idle"
  BY DEF C!Ready, AskingType, PublisherPoint
<1>4. IsFiniteSet({}) /\ Cardinality({}) = 0
  BY FS_EmptySet
<1>5. CountsTyped
  <2>1. g_counters \in [{} -> KnownCounter] /\ file \in [{} -> Nat]
    BY <1>1
  <2>2. event \in Seq(CountEvent) /\ Len(event) = 0 /\ aoa \in [Scenario -> 0 .. MaxCount]
    BY <1>1
  <2>3. Len(event) <= MaxEvents
    BY <1>1, <2>2
  <2>4. /\ IsFiniteSet(DOMAIN g_counters) /\ Cardinality(DOMAIN g_counters) <= MaxItems
        /\ IsFiniteSet(DOMAIN file) /\ Cardinality(DOMAIN file) <= MaxItems
    BY <1>1, <1>2, <1>4
  <2>5. /\ counting_publisher \in [Thread -> AskingType] /\ crossings \in [Scenario -> Nat]
        /\ latest \in [Scenario -> Nat \cup {C!None}]
    BY <1>1, <1>3
  <2>6. saving \subseteq Thread \cup {"main_loop", "FCGI"} /\ g_counting_enabled \in BOOLEAN /\ due \in BOOLEAN
    BY <1>1
  <2> QED BY <1>2, <2>1, <2>2, <2>3, <2>4, <2>5, <2>6 DEF CountsTyped
<1>6. SumsFollow
  BY <1>2 DEF SumsFollow, Referenced, Trusted
<1>7. AnswersFollow
  BY <1>1, <1>3 DEF AnswersFollow, C!At
<1>8. TotalsBounded
  <2>1. ASSUME NEW s \in Scenario
        PROVE  C!UnderWay(s) = 0
    <3>1. {i \in DOMAIN event : event[i].scenario = s} = {}
      BY <1>2
    <3> QED BY <1>4, <3>1, SameCardinality DEF C!UnderWay
  <2> QED BY <1>1, <1>2, <2>1 DEF TotalsBounded, Trusted
<1>9. C!PublishesFresh
  BY <1>1, <1>2, <1>3 DEF C!PublishesFresh, C!Known, C!At
<1> QED BY <1>5, <1>6, <1>7, <1>8, <1>9 DEF CInv

LEMMA CountingStepSound ==
  ASSUME C!ConstantsAssumption, CInv, [C!Next]_(C!vars)
  PROVE  CInv'
<1>1. ASSUME NEW s \in Scenario, C!Crossing(s)
      PROVE  CInv'
  BY <1>1, CrossingSound
<1>2. ASSUME NEW minute \in BOOLEAN, C!AOA_Event_Callback(minute)
      PROVE  CInv'
  BY <1>2, TakenSound
<1>3. ASSUME NEW t \in saving, C!Counting_Save_To_File(t)
      PROVE  CInv'
  BY <1>3, SaveSound
<1>4. CASE C!AoaChanges
  BY <1>4, AoaSound
<1>5. CASE C!Operator
  BY <1>5, OperatorSound
<1>6. CASE C!Restart
  BY <1>6, RestartSound
<1>7. CASE C!TimePasses
  <2>1. due' \in BOOLEAN /\ g_counting_enabled' \in BOOLEAN
    BY <1>7 DEF C!TimePasses, CInv, CountsTyped
  <2> QED BY <1>7, <2>1, TimeOrStutter DEF C!TimePasses, C!history
<1>8. ASSUME NEW t \in Thread, C!Publish(t)
      PROVE  CInv'
  BY <1>8, CountingPublishSound
<1>9. CASE UNCHANGED C!vars
  <2>1. due' \in BOOLEAN /\ g_counting_enabled' \in BOOLEAN
    BY <1>9 DEF C!vars, C!counting, CInv, CountsTyped
  <2> QED BY <1>9, <2>1, TimeOrStutter DEF C!vars, C!counting, C!history
<1> QED BY <1>1, <1>2, <1>3, <1>4, <1>5, <1>6, <1>7, <1>8, <1>9 DEF C!Next

-----------------------------------------------------------------------------
(***************************************************************************)
(* What is published is fresh.                                             *)
(***************************************************************************)

\* The two parts of PublishesFresh.
FreshReference(s) == g_counters[s].reference # C!None => g_counters[s].reference = latest[s]
FreshPayload(t) ==
  counting_publisher[t].at = "sending" => \A s \in counting_publisher[t].of : latest[s] # C!None

LEMMA FreshIs ==
  C!PublishesFresh <=> /\ \A s \in DOMAIN g_counters : FreshReference(s)
                       /\ \A t \in Thread : FreshPayload(t)
BY DEF C!PublishesFresh, C!Known, C!At, FreshReference, FreshPayload

\* What was processed last is forgotten by a restart only.
LEMMA FreshStays ==
  ASSUME CInv, C!PublishesFresh,
         \A s \in DOMAIN g_counters' : FreshReference(s)',
         \A s \in Scenario : latest[s] # C!None => latest'[s] # C!None,
         \A t \in Thread : counting_publisher'[t].at = "sending" =>
           counting_publisher[t].at = "sending" /\ counting_publisher'[t].of = counting_publisher[t].of
  PROVE  C!PublishesFresh'
<1>1. \A t \in Thread : counting_publisher[t].of \subseteq Scenario
  BY DEF CInv, CountsTyped, AskingType
<1>2. \A t \in Thread : FreshPayload(t)'
  BY <1>1, FreshIs DEF FreshPayload
<1> QED BY <1>2 DEF C!PublishesFresh, C!Known, C!At, FreshReference, FreshPayload

LEMMA FreshProcessed ==
  ASSUME C!ConstantsAssumption, CInv, C!PublishesFresh, NEW s \in Scenario, NEW sum \in Nat,
         C!Process(s, sum)
  PROVE  /\ \A x \in DOMAIN g_counters' : FreshReference(x)'
         /\ \A x \in Scenario : latest[x] # C!None => latest'[x] # C!None
<1>1. /\ DOMAIN g_counters' \subseteq Scenario
      /\ \A x : x # s => (x \in DOMAIN g_counters' <=> x \in DOMAIN g_counters)
      /\ \A x \in DOMAIN g_counters : x # s => g_counters'[x] = g_counters[x]
      /\ s \in DOMAIN g_counters' => g_counters'[s].reference = sum /\ latest'[s] = sum
      /\ s \notin DOMAIN g_counters' => latest' = latest
      /\ \A x \in Scenario : x # s => latest'[x] = latest[x]
  BY Processes DEF CInv
<1>2. sum # C!None
  BY DEF C!None
<1>3. \A x \in DOMAIN g_counters' : FreshReference(x)'
  BY <1>1, FreshIs DEF FreshReference
<1> QED BY <1>1, <1>2, <1>3

LEMMA CrossedSends ==
  ASSUME NEW s
  PROVE  \A t \in Thread : C!Crossed(s)[t].at = "sending" => C!Crossed(s)[t] = counting_publisher[t]
<1>1. \A t \in Thread : C!Crossed(s)[t] # counting_publisher[t] =>
        /\ counting_publisher[t].at = "answered"
        /\ C!Crossed(s)[t] = [counting_publisher[t] EXCEPT !.crossed = TRUE]
  BY DEF C!Crossed, C!At
<1>2. \A p : [p EXCEPT !.crossed = TRUE].at = "sending" => p.at = "sending"
  OBVIOUS
<1> QED BY <1>1, <1>2

LEMMA FreshKept ==
  ASSUME C!ConstantsAssumption, CInv, C!PublishesFresh, [C!Next]_(C!vars)
  PROVE  C!PublishesFresh'
<1> DEFINE Old(t) == /\ counting_publisher[t].at = "sending"
                     /\ counting_publisher'[t].of = counting_publisher[t].of
           Sends(t) == counting_publisher'[t].at = "sending"
<1>1. /\ event \in Seq(CountEvent) /\ counting_publisher \in [Thread -> AskingType]
      /\ C!Known = DOMAIN g_counters
  BY DEF CInv, CountsTyped, C!Known
<1>2. \A s \in DOMAIN g_counters : FreshReference(s)
  BY FreshIs
<1>3. ASSUME UNCHANGED <<g_counters, latest>>, \A t \in Thread : Sends(t) => Old(t)
      PROVE  C!PublishesFresh'
  <2>1. \A s \in DOMAIN g_counters' : FreshReference(s)'
    BY <1>2, <1>3 DEF FreshReference
  <2> QED BY <1>3, <2>1, FreshStays
<1>4. ASSUME NEW s \in Scenario, C!Crossing(s)
      PROVE  C!PublishesFresh'
  BY <1>3, <1>4 DEF C!Crossing, C!counting
<1>5. ASSUME NEW minute, C!AOA_Event_Callback(minute)
      PROVE  C!PublishesFresh'
  <2> DEFINE s == Head(event).scenario
             sum == Head(event).sum
  <2>1. event # <<>> /\ C!Process(s, sum) /\ counting_publisher' = C!Crossed(s)
    BY <1>5 DEF C!AOA_Event_Callback
  <2>2. s \in Scenario /\ sum \in Nat
    <3>1. Head(event) \in CountEvent
      BY <1>1, <2>1, HeadTailProperties
    <3> QED BY <3>1 DEF CountEvent
  <2> HIDE DEF s, sum
  <2>3. \A t \in Thread : Sends(t) => Old(t)
    BY <2>1, CrossedSends
  <2> QED BY <2>1, <2>2, <2>3, FreshProcessed, FreshStays
<1>6. ASSUME NEW t \in saving, C!Counting_Save_To_File(t)
      PROVE  C!PublishesFresh'
  BY <1>3, <1>6 DEF C!Counting_Save_To_File, C!counting, C!history
<1>7. CASE C!AoaChanges
  BY <1>3, <1>7 DEF C!AoaChanges, C!counting, C!history
<1>8. ASSUME NEW counters, C!ChangeTotals(counters),
             \A s \in DOMAIN counters :
               counters[s].reference # C!None => s \in DOMAIN g_counters /\ counters[s] = g_counters[s]
      PROVE  C!PublishesFresh'
  <2>1. g_counters' = counters /\ UNCHANGED <<counting_publisher, latest>>
    BY <1>8 DEF C!ChangeTotals
  <2>2. \A s \in DOMAIN g_counters' : FreshReference(s)'
    BY <1>2, <1>8, <2>1 DEF FreshReference
  <2> QED BY <2>1, <2>2, FreshStays
<1>9. CASE C!Operator
  <2>1. CASE C!Counting_Load_Config
    BY <1>3, <2>1 DEF C!Counting_Load_Config, C!history
  <2>2. CASE C!Counting_Reset_All
    BY <1>1, <1>8, <2>2 DEF C!Counting_Reset_All, C!New
  <2>3. ASSUME NEW s \in Scenario, C!Counting_Set_Values_From_JSON(s, MaxCount)
        PROVE  C!PublishesFresh'
    <3> DEFINE counters == [g_counters EXCEPT ![s] = [total |-> MaxCount, reference |-> C!None]]
    <3>1. s \in DOMAIN g_counters /\ C!ChangeTotals(counters)
      BY <1>1, <2>3 DEF C!Counting_Set_Values_From_JSON
    <3>2. \A k \in DOMAIN counters :
            counters[k].reference # C!None => k \in DOMAIN g_counters /\ counters[k] = g_counters[k]
      BY <1>1, <3>1 DEF CInv, CountsTyped
    <3> HIDE DEF counters
    <3> QED BY <1>8, <3>1, <3>2
  <2>4. ASSUME NEW keep, C!Counting_Sync_With_AOA_List(keep)
        PROVE  C!PublishesFresh'
    BY <1>1, <1>8, <2>4 DEF C!Counting_Sync_With_AOA_List, C!Restrict
  <2> QED BY <1>9, <2>1, <2>2, <2>3, <2>4 DEF C!Operator
<1>10. CASE C!Restart
  <2>1. /\ g_counters' = [s \in DOMAIN file' |-> [total |-> file'[s], reference |-> C!None]]
        /\ counting_publisher' = [t \in Thread |-> C!Ready]
    BY <1>10 DEF C!Restart, C!LoadedReference
  <2>2. \A s \in DOMAIN g_counters' : g_counters'[s].reference = C!None
    BY <2>1
  <2>3. \A t \in Thread : counting_publisher'[t].at = "idle"
    BY <2>1 DEF C!Ready
  <2> QED BY <2>2, <2>3 DEF C!PublishesFresh, C!Known, C!At
<1>11. CASE C!TimePasses
  BY <1>3, <1>11 DEF C!TimePasses, C!history
<1>12. ASSUME NEW t \in Thread, C!Publish(t)
       PROVE  C!PublishesFresh'
  <2>1. \A p : C!Go(t, p) => /\ counting_publisher'[t] = p
                              /\ \A u \in Thread : u # t => counting_publisher'[u] = counting_publisher[u]
    BY <1>1 DEF C!Go
  <2>2. C!Ready.at = "idle" /\ DOMAIN C!Ready = {"at", "ask", "of", "sum", "crossed"}
    BY DEF C!Ready
  <2>3. ASSUME NEW p, C!Go(t, p), p.at # "sending", UNCHANGED <<g_counters, latest>>
        PROVE  C!PublishesFresh'
    BY <1>3, <2>1, <2>3
  <2>4. CASE C!Publish_Counters_To_LoRa(t)
    BY <2>2, <2>3, <2>4 DEF C!Publish_Counters_To_LoRa, C!Rest, C!history
  <2>5. ASSUME NEW s \in Scenario, NEW answers, C!Ask(t, s, answers)
        PROVE  C!PublishesFresh'
    <3>1. /\ counting_publisher[t] \in AskingType /\ counting_publisher[t].at = "asking"
          /\ UNCHANGED <<g_counters, latest>>
      BY <1>1, <2>5 DEF C!Ask, C!At, C!history
    <3> DEFINE p == counting_publisher[t]
               answered == [p EXCEPT !.at = "answered", !.ask = @ \ {s}, !.of = {s}, !.sum = aoa[s]]
               unanswered == [p EXCEPT !.ask = @ \ {s}]
    <3>2. C!Go(t, answered) \/ C!Go(t, unanswered)
      BY <2>5 DEF C!Ask
    <3> HIDE DEF p
    <3>3. answered.at = "answered" /\ unanswered.at = "asking"
      BY <3>1 DEF AskingType, p
    <3> HIDE DEF answered, unanswered
    <3> QED BY <2>3, <3>1, <3>2, <3>3
  <2>6. ASSUME NEW s \in Scenario, NEW minute, C!Answer(t, s, minute)
        PROVE  C!PublishesFresh'
    <3> DEFINE p == [C!Ready EXCEPT !.at = "asking", !.ask = counting_publisher[t].ask]
    <3>1. /\ C!Process(s, counting_publisher[t].sum)
          /\ counting_publisher' = [C!Crossed(s) EXCEPT ![t] = p]
      BY <2>6 DEF C!Answer
    <3>2. counting_publisher[t].sum \in Nat /\ p.at = "asking"
      BY <1>1, <2>2 DEF AskingType
    <3>3. \A u \in Thread : Sends(u) => Old(u)
      <4>1. DOMAIN C!Crossed(s) = Thread
        BY DEF C!Crossed
      <4> HIDE DEF p
      <4>2. \A u \in Thread : counting_publisher'[u] = IF u = t THEN p ELSE C!Crossed(s)[u]
        BY <3>1, <4>1
      <4> QED BY <3>2, <4>2, CrossedSends
    <3> QED BY <3>1, <3>2, <3>3, FreshProcessed, FreshStays
  <2>7. CASE C!Counting_Build_Payload(t)
    <3> DEFINE p == [C!Ready EXCEPT !.at = "sending", !.of = DOMAIN g_counters]
    <3>1. UNCHANGED <<g_counters, latest>>
      BY <2>7 DEF C!Counting_Build_Payload, C!history
    <3>2. CASE C!Counting_References_Ready /\ C!Go(t, p)
      <4>1. p.at = "sending" /\ p.of = DOMAIN g_counters
        BY <2>2
      <4> HIDE DEF p
      <4>2. \A s \in DOMAIN g_counters : latest'[s] # C!None
        BY <1>1, <1>2, <3>1, <3>2 DEF C!Counting_References_Ready, FreshReference
      <4>3. \A u \in Thread : FreshPayload(u)'
        BY <2>1, <3>1, <3>2, <4>1, <4>2, FreshIs DEF FreshPayload
      <4>4. \A s \in DOMAIN g_counters' : FreshReference(s)'
        BY <1>2, <3>1 DEF FreshReference
      <4> QED BY <4>3, <4>4 DEF C!PublishesFresh, C!Known, C!At, FreshReference, FreshPayload
    <3>3. CASE C!Go(t, C!Ready)
      BY <2>2, <2>3, <3>1, <3>3
    <3> QED BY <1>1, <2>7, <3>2, <3>3 DEF C!Counting_Build_Payload, C!Payload
  <2>8. CASE C!Counting_Mark_Published(t)
    BY <2>2, <2>3, <2>8 DEF C!Counting_Mark_Published, C!history
  <2>9. ASSUME NEW accepted, C!B100_Send_Bytes(t, accepted)
        PROVE  C!PublishesFresh'
    BY <2>2, <2>3, <2>9 DEF C!B100_Send_Bytes, C!history
  <2> QED BY <1>12, <2>4, <2>5, <2>6, <2>7, <2>8, <2>9 DEF C!Publish
<1>13. CASE UNCHANGED C!vars
  BY <1>3, <1>13 DEF C!vars, C!counting, C!history
<1> QED BY <1>4, <1>5, <1>6, <1>7, <1>9, <1>10, <1>11, <1>12, <1>13 DEF C!Next

\* For any scenarios, publishers and bounds: every reference, and every value published,
\* is a sum that AOA has given since the start, however settings, resets, restarts and
\* answers interleave.
THEOREM FreshHolds ==
  ASSUME C!ConstantsAssumption
  PROVE  C!Spec => []PublishesFresh
<1>1. C!Init => CInv /\ C!PublishesFresh
  BY CountingStarts
<1>2. CInv /\ C!PublishesFresh /\ [C!Next]_(C!vars) => (CInv /\ C!PublishesFresh)'
  BY CountingStepSound, FreshKept
<1>3. CInv /\ C!PublishesFresh => PublishesFresh
  BY DEF PublishesFresh
<1> QED BY <1>1, <1>2, <1>3, PTL DEF C!Spec

\* For any scenarios, publishers and bounds: a total holds no more than the crossings since
\* it was loaded or set, whatever overtakes what, unless an event and an answer of its
\* scenario overtook each other.
THEOREM CountsHold ==
  ASSUME ConstantsAssumption, C!ConstantsAssumption
  PROVE  Spec /\ C!Spec => []NoOvercount
<1>1. Init /\ C!Init => IInv /\ CInv
  BY Initial, CountingStarts
<1>2. IInv /\ CInv /\ [Next]_vars /\ [C!Next]_(C!vars) => (IInv /\ CInv)'
  BY Inductive, CountingStepSound
<1>3. IInv /\ CInv => NoOvercount
  <2> SUFFICES ASSUME IInv, CInv
               PROVE  C!TypeOK /\ C!NoOvercount
    BY DEF NoOvercount, IInv
  <2>2. \A t \in Thread : counting_publisher[t].at \in PublisherPoint
    BY DEF CInv, CountsTyped, AskingType
  <2>3. C!TypeOK
    BY <2>2, SameCardinality
       DEF CInv, CountsTyped, KnownCounter, PublisherPoint, C!TypeOK, C!Known, C!Counter, C!At
  <2>4. ASSUME NEW s \in DOMAIN g_counters \ overtaken
        PROVE  g_counters[s].total <= crossings[s]
    <3>1. s \in Scenario /\ g_counters[s].total \in Nat /\ crossings[s] \in Nat
      BY <2>4 DEF CInv, CountsTyped, KnownCounter
    <3>2. C!UnderWay(s) \in Nat
      <4>1. event \in Seq(CountEvent)
        BY DEF CInv, CountsTyped
      <4>2. Cardinality(Later(event, s, 0)) \in Nat
        BY <4>1, LaterIs
      <4> QED BY <4>2, UnderWayIs DEF CInv
    <3>3. g_counters[s].total + C!UnderWay(s) <= crossings[s]
      BY <2>4 DEF CInv, TotalsBounded, Trusted
    <3> QED BY <3>1, <3>2, <3>3
  <2> QED BY <2>3, <2>4 DEF C!NoOvercount, C!Known
<1> QED BY <1>1, <1>2, <1>3, PTL DEF Spec, C!Spec
=============================================================================
