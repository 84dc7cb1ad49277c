--------------------------- MODULE AoaUplinksProofs ---------------------------
(***************************************************************************)
(* Proofs about what the aoa app sends up: the confirmed uplinks and the   *)
(* parameters of the bridge, in the composition of what its threads serve  *)
(* (the queues are in OtaQueueProofs), and the frames it is asked in and   *)
(* answers with.                                                           *)
(*                                                                         *)
(* The uplinks, for any CONFIRM_EVERY and any number of refused uplinks    *)
(* and restarts.  RunBounded is not inductive: it says nothing of the      *)
(* flags that publishers have taken and not yet sent.  The invariant       *)
(* counts them: as long as no confirmed uplink is on its way and none was  *)
(* lost, the uplinks since the last confirmed one, sent or about to be,    *)
(* are at most one more than the counter says, the one whose flag was      *)
(* taken before that of the confirmed uplink and which was sent after it.  *)
(*                                                                         *)
(* The parameters, for any bridges, data rates, network parameters and     *)
(* number of changes: the way round through /lan.html keeps a bridge in    *)
(* its network.  The invariant says what a thread that is to send network  *)
(* parameters back has in hand.                                            *)
(*                                                                         *)
(* The frames, for any scenes and any changes to them that the assumptions *)
(* on the constants allow, and for any device: the invariants say of every *)
(* answer which version of the scene, or of the device, it was made from.  *)
(***************************************************************************)
EXTENDS AoaUplinks, OtaFrames, SequenceTheorems, FiniteSetTheorems, TLAPS

-----------------------------------------------------------------------------
(***************************************************************************)
(* The confirmed uplinks.                                                  *)
(***************************************************************************)
Points == {"idle", "sending", "deciding", "reading", "clearing"}

\* A publisher has an unconfirmed uplink to send.
Plain(t) == IF point[t] = "sending" /\ ~use_confirmed[t] THEN 1 ELSE 0
NoneConfirmed == ~use_confirmed["Publish_Thread"] /\ ~use_confirmed["FCGI"]

FlagsSent ==
  /\ point \in [U!Thread -> Points]
  /\ \A t \in U!Publisher : use_confirmed[t] => point[t] = "sending"
RunCounted ==
  ~excused /\ NoneConfirmed
    => run + Plain("Publish_Thread") + Plain("FCGI") <= g_unconf_count + 1

UplinksIInv == U!TypeOK /\ FlagsSent /\ RunCounted

LEMMA UplinkBounds ==
  ASSUME U!ConstantsAssumption
  PROVE
  /\ CONFIRM_EVERY \in Nat \ {0} /\ MaxRefused \in Nat /\ MaxRestarts \in Nat
  /\ U!Thread = {"Publish_Thread", "FCGI", U!Health} /\ U!Health \notin U!Publisher
  /\ U!Publisher = {"Publish_Thread", "FCGI"}
  BY DEF U!ConstantsAssumption, U!Thread, U!Publisher, U!Health

LEMMA UplinksInitial ==
  ASSUME U!ConstantsAssumption
  PROVE  U!Init => UplinksIInv
  <1>. SUFFICES ASSUME U!Init
                PROVE  UplinksIInv
    OBVIOUS
  <1>1. U!TypeOK
    <2>1. 0 \in 0 .. CONFIRM_EVERY - 1 /\ 0 \in 0 .. CONFIRM_EVERY + 1
          /\ 0 \in 0 .. MaxRefused /\ 0 \in 0 .. MaxRestarts
      BY UplinkBounds
    <2>. QED  BY <2>1, UplinkBounds, Zenon DEF U!Init, U!TypeOK, U!Code, U!NoStatus
  <1>2. FlagsSent
    BY UplinkBounds DEF U!Init, FlagsSent, Points
  <1>3. RunCounted
    BY UplinkBounds DEF U!Init, RunCounted, Plain
  <1>. QED  BY <1>1, <1>2, <1>3 DEF UplinksIInv

\* A publisher takes the flag of its next uplink.
LEMMA FlagTaken ==
  ASSUME U!ConstantsAssumption, UplinksIInv, NEW t \in U!Publisher, U!Next_Confirmed_Flag(t)
  PROVE  UplinksIInv'
  <1>. USE UplinkBounds DEF U!Next_Confirmed_Flag, U!Goto, UplinksIInv
  <1>1. U!TypeOK'
    BY DEF U!TypeOK, FlagsSent, U!Due, U!CountAfter, Points, U!g_status, U!bounds, U!history
  <1>2. FlagsSent'
    BY DEF U!TypeOK, FlagsSent, Points
  <1>3. RunCounted'
    <2>1. CASE U!Due
      <3>1. ~NoneConfirmed'
        BY <2>1 DEF U!TypeOK, NoneConfirmed
      <3>. QED  BY <3>1 DEF RunCounted
    <2>2. CASE ~U!Due
      <3>1. g_unconf_count' = g_unconf_count + 1 /\ run' = run /\ excused' = excused
        BY <2>2 DEF U!CountAfter, U!history
      <3>2. /\ use_confirmed' = [use_confirmed EXCEPT ![t] = FALSE]
            /\ point' = [point EXCEPT ![t] = "sending"]
        <4>1. U!Due = FALSE
          BY <2>2 DEF U!Due
        <4>. QED  BY <4>1
      <3>3. NoneConfirmed' => NoneConfirmed
        BY <3>2 DEF NoneConfirmed, U!TypeOK, FlagsSent
      <3>4. Plain(t) = 0 /\ Plain(t)' = 1
        BY <3>2 DEF Plain, U!TypeOK, FlagsSent
      <3>5. \A s \in U!Publisher \ {t} : Plain(s)' = Plain(s)
        BY <3>2 DEF Plain, U!TypeOK, FlagsSent
      <3>. QED  BY <3>1, <3>3, <3>4, <3>5 DEF RunCounted, U!TypeOK, Plain
    <2>. QED  BY <2>1, <2>2
  <1>. QED  BY <1>1, <1>2, <1>3

\* The bridge takes an uplink.
LEMMA UplinkTaken ==
  ASSUME U!ConstantsAssumption, UplinksIInv, NEW t \in U!Publisher, U!B100_Send_Bytes(t)
  PROVE  UplinksIInv'
  <1>. USE UplinkBounds DEF U!B100_Send_Bytes, U!Goto, UplinksIInv
  <1>1. U!TypeOK'
    BY DEF U!TypeOK, FlagsSent, Points, U!health_state, U!g_status, U!bounds
  <1>2. FlagsSent'
    BY DEF U!TypeOK, FlagsSent, Points
  <1>3. RunCounted'
    <2>0. /\ g_unconf_count' = g_unconf_count /\ g_unconf_count \in Nat
          /\ use_confirmed' = [use_confirmed EXCEPT ![t] = FALSE]
          /\ point' = [point EXCEPT ![t] = "idle"]
      BY DEF U!health_state, U!TypeOK
    <2>1. Plain(t)' = 0
      BY <2>0 DEF Plain, U!TypeOK, FlagsSent
    <2>2. \A s \in U!Publisher \ {t} : Plain(s)' = Plain(s) /\ Plain(s) \in {0, 1}
      BY <2>0 DEF Plain, U!TypeOK, FlagsSent
    <2>3. CASE use_confirmed[t]
      BY <2>0, <2>1, <2>2, <2>3 DEF RunCounted
    <2>4. CASE ~use_confirmed[t]
      <3>1. Plain(t) = 1
        BY <2>4 DEF Plain
      <3>2. /\ NoneConfirmed' => NoneConfirmed
            /\ excused => excused'
        BY <2>0, <2>4 DEF NoneConfirmed, U!TypeOK
      <3>3. run' <= run + 1 /\ run' \in Nat /\ run \in Nat
        BY <2>4 DEF U!TypeOK
      <3>4. CASE t = "Publish_Thread"
        <4>1. Plain("FCGI")' = Plain("FCGI") /\ Plain("FCGI") \in {0, 1}
          BY <2>2, <3>4
        <4>2. Plain("Publish_Thread")' = 0 /\ Plain("Publish_Thread") = 1
          BY <2>1, <3>1, <3>4
        <4>3. RunCounted /\ g_unconf_count' = g_unconf_count /\ g_unconf_count \in Nat
          BY <2>0
        <4>. QED  BY ONLY <3>2, <3>3, <4>1, <4>2, <4>3 DEF RunCounted
      <3>5. CASE t = "FCGI"
        <4>1. Plain("Publish_Thread")' = Plain("Publish_Thread") /\ Plain("Publish_Thread") \in {0, 1}
          BY <2>2, <3>5
        <4>2. Plain("FCGI")' = 0 /\ Plain("FCGI") = 1
          BY <2>1, <3>1, <3>5
        <4>3. RunCounted /\ g_unconf_count' = g_unconf_count /\ g_unconf_count \in Nat
          BY <2>0
        <4>. QED  BY ONLY <3>2, <3>3, <4>1, <4>2, <4>3 DEF RunCounted
      <3>. QED  BY <3>4, <3>5
    <2>. QED  BY <2>3, <2>4
  <1>. QED  BY <1>1, <1>2, <1>3

\* The bridge does not take it.
LEMMA UplinkRefused ==
  ASSUME U!ConstantsAssumption, UplinksIInv, NEW t \in U!Publisher, U!B100_Send_Refused(t)
  PROVE  UplinksIInv'
  <1>. USE UplinkBounds DEF U!B100_Send_Refused, U!Goto, UplinksIInv
  <1>1. U!TypeOK'
    BY DEF U!TypeOK, FlagsSent, Points, U!health_state, U!g_status
  <1>2. FlagsSent'
    BY DEF U!TypeOK, FlagsSent, Points
  <1>3. RunCounted'
    <2>0. /\ g_unconf_count' = g_unconf_count /\ g_unconf_count \in Nat
          /\ run' = run /\ run \in Nat
          /\ use_confirmed' = [use_confirmed EXCEPT ![t] = FALSE]
          /\ point' = [point EXCEPT ![t] = "idle"]
      BY DEF U!health_state, U!TypeOK
    <2>1. Plain(t)' = 0 /\ Plain(t) \in {0, 1}
      BY <2>0 DEF Plain, U!TypeOK, FlagsSent
    <2>2. \A s \in U!Publisher \ {t} : Plain(s)' = Plain(s) /\ Plain(s) \in {0, 1}
      BY <2>0 DEF Plain, U!TypeOK, FlagsSent
    <2>3. ~excused' => ~excused /\ ~use_confirmed[t]
      OBVIOUS
    <2>4. ~use_confirmed[t] /\ NoneConfirmed' => NoneConfirmed
      BY <2>0 DEF NoneConfirmed, U!TypeOK
    <2>. QED  BY <2>0, <2>1, <2>2, <2>3, <2>4 DEF RunCounted
  <1>. QED  BY <1>1, <1>2, <1>3

\* The health thread, the bridge and time leave flags and their count alone, or the
\* health thread clears the count and excuses it.
LEMMA UplinksElsewhere ==
  ASSUME U!ConstantsAssumption, UplinksIInv,
         U!Health_Monitor_Thread \/ U!B100_Process_Status_Callback
           \/ U!BridgeRestarts \/ U!BridgeJoins \/ U!TimePasses
  PROVE  UplinksIInv'
  <1>. USE UplinkBounds DEF UplinksIInv, U!TypeOK, FlagsSent, Points, U!Code, U!NoStatus, U!Goto
  <1>1. CASE U!Health_Snapshot
    BY <1>1 DEF U!Health_Snapshot, U!health_state, U!g_status, U!bounds, U!history, RunCounted,
                NoneConfirmed, Plain
  <1>2. CASE U!Health_Restarted
    <2>1. 0 \in 0 .. CONFIRM_EVERY - 1 /\ U!NoStatus \in [statusCode : U!Code, joined : BOOLEAN]
      OBVIOUS
    <2>2. U!TypeOK'
      BY <1>2, <2>1 DEF U!Health_Restarted, U!g_status, U!bounds
    <2>3. FlagsSent' /\ RunCounted'
      BY <1>2 DEF U!Health_Restarted, RunCounted
    <2>. QED  BY <2>2, <2>3
  <1>3. CASE U!Health_Confirmed
    BY <1>3 DEF U!Health_Confirmed, U!g_status, U!bounds, U!history, RunCounted, NoneConfirmed,
                Plain
  <1>4. CASE U!Health_Read
    BY <1>4 DEF U!Health_Read, U!Overdue, U!health_state, U!g_status, U!bounds, U!history,
                RunCounted, NoneConfirmed, Plain
  <1>5. CASE U!Health_Clear
    BY <1>5 DEF U!Health_Clear, U!g_status, U!bounds, U!history, RunCounted, NoneConfirmed,
                Plain
  <1>6. CASE U!B100_Process_Status_Callback
    BY <1>6 DEF U!B100_Process_Status_Callback, U!health_state, U!locals, U!bounds, U!history,
                RunCounted, NoneConfirmed, Plain
  <1>7. CASE U!BridgeRestarts
    <2>1. restarts' \in 0 .. MaxRestarts
      BY <1>7 DEF U!BridgeRestarts
    <2>2. U!TypeOK' /\ FlagsSent'
      BY <1>7, <2>1 DEF U!BridgeRestarts, U!health_state, U!locals, U!history
    <2>3. RunCounted'
      BY <1>7 DEF U!BridgeRestarts, U!health_state, U!locals, U!history, RunCounted,
                  NoneConfirmed, Plain
    <2>. QED  BY <2>2, <2>3
  <1>8. CASE U!BridgeJoins
    BY <1>8 DEF U!BridgeJoins, U!health_state, U!locals, U!bounds, U!history, RunCounted,
                NoneConfirmed, Plain
  <1>9. CASE U!TimePasses
    BY <1>9 DEF U!TimePasses, U!g_status, U!locals, U!bounds, U!history, RunCounted,
                NoneConfirmed, Plain
  <1>. QED
    BY <1>1, <1>2, <1>3, <1>4, <1>5, <1>6, <1>7, <1>8, <1>9 DEF U!Health_Monitor_Thread

LEMMA UplinksInductive ==
  ASSUME U!ConstantsAssumption
  PROVE  UplinksIInv /\ [U!Next]_U!vars => UplinksIInv'
  <1>. SUFFICES ASSUME UplinksIInv, [U!Next]_U!vars
                PROVE  UplinksIInv'
    OBVIOUS
  <1>1. CASE UNCHANGED U!vars
    BY <1>1 DEF U!vars, U!health_state, U!g_status, U!locals, U!bounds, U!history,
                UplinksIInv, U!TypeOK, FlagsSent, RunCounted, NoneConfirmed, Plain
  <1>2. ASSUME NEW t \in U!Publisher, U!Next_Confirmed_Flag(t) \/ U!Publish_To_LoRa(t)
        PROVE  UplinksIInv'
    BY <1>2, FlagTaken, UplinkTaken, UplinkRefused DEF U!Publish_To_LoRa
  <1>. QED  BY <1>1, <1>2, UplinksElsewhere DEF U!Next

LEMMA UplinksInvariant ==
  ASSUME U!ConstantsAssumption
  PROVE  U!Spec => []UplinksIInv
  BY UplinksInitial, UplinksInductive, PTL DEF U!Spec

LEMMA UplinksBounded ==
  ASSUME U!ConstantsAssumption
  PROVE  U!Spec => []RunBounded
  <1>1. UplinksIInv => RunBounded
    <2>. SUFFICES ASSUME UplinksIInv, ~excused, NoneConfirmed
                  PROVE  run <= CONFIRM_EVERY
      BY UplinkBounds DEF RunBounded, U!RunBounded, U!EveryTenthConfirmed, NoneConfirmed,
                          UplinksIInv
    <2>1. Plain("Publish_Thread") \in {0, 1} /\ Plain("FCGI") \in {0, 1}
      BY DEF Plain
    <2>. QED  BY <2>1, UplinkBounds DEF UplinksIInv, U!TypeOK, RunCounted
  <1>. QED  BY <1>1, UplinksInvariant, PTL

-----------------------------------------------------------------------------
(***************************************************************************)
(* The parameters of the bridge.                                           *)
(***************************************************************************)
\* A thread on its way to /lan.html has all parameters, and, if they are not outdated, the
\* network parameters asked of the bridge that it will send them to.
InHand(c, ip, others, nets) ==
  c.op \in {"fallback", "lan"} =>
    /\ c.answer \in B!Params
    /\ c.outdated \/ ip \in others \/ c.answer.net = nets[ip]

Calls == \A t \in B!Thread : call[t] # <<>> => InHand(call[t][1], g_ip, crossed, asked)
BridgesTyped == bridge \in [Address -> B!Params] /\ g_ip \in Address /\ asked \in [Address -> Net]
RestTyped ==
  /\ g_status \in [data_rate : B!Known(Rate), adr_enable : B!Known(BOOLEAN)]
  /\ crossed \in SUBSET Address /\ changes \in 0 .. MaxChanges
ParamsIInv == B!TypeOK /\ Calls /\ B!NetworkKept

-----------------------------------------------------------------------------
\* What is known of one value.
LEMMA KnownOne ==
  ASSUME NEW S, NEW k \in B!Known(S), k # <<>>
  PROVE  k[1] \in S /\ k = <<k[1]>>
BY DEF B!Known

LEMMA KnownNew ==
  ASSUME NEW S, NEW v \in S
  PROVE  <<v>> \in B!Known(S) /\ <<v>> # <<>> /\ <<v>>[1] = v
BY DEF B!Known

LEMMA KnownNothing == \A S : <<>> \in B!Known(S)
BY DEF B!Known

\* Parameters that are set replace those of the bridge: network parameters.
LEMMA WithNet ==
  ASSUME NEW params \in B!Params, NEW body \in B!Body
  PROVE  /\ B!With(params, body) \in B!Params /\ B!With(params, body).net = body.net
         /\ "net" \in DOMAIN body /\ body.net \in Net
<1>1. PICK n \in Net : body = [net |-> n]
  BY DEF B!Body
<1>2. B!With(params, body) = [params EXCEPT !.net = n]
  BY <1>1 DEF B!With, B!Params
<1> QED BY <1>1, <1>2 DEF B!Params

\* Parameters that are set replace those of the bridge: others leave the network's.
LEMMA WithMasked ==
  ASSUME NEW params \in B!Params, NEW body \in B!Masked
  PROVE  /\ B!With(params, body) \in B!Params /\ B!With(params, body).net = params.net
         /\ "net" \notin DOMAIN body
<1>1. CASE \E r \in Rate : body = [data_rate |-> r]
  <2>1. PICK r \in Rate : body = [data_rate |-> r]
    BY <1>1
  <2>2. B!With(params, body) = [params EXCEPT !.data_rate = r]
    BY <2>1 DEF B!With, B!Params
  <2> QED BY <2>1, <2>2 DEF B!Params
<1>2. CASE \E a \in BOOLEAN : body = [adr_enable |-> a]
  <2>1. PICK a \in BOOLEAN : body = [adr_enable |-> a]
    BY <1>2
  <2>2. B!With(params, body) = [params EXCEPT !.adr_enable = a]
    BY <2>1 DEF B!With, B!Params
  <2> QED BY <2>1, <2>2 DEF B!Params
<1>3. CASE \E r \in Rate, a \in BOOLEAN : body = [data_rate |-> r, adr_enable |-> a]
  <2>1. PICK r \in Rate, a \in BOOLEAN : body = [data_rate |-> r, adr_enable |-> a]
    BY <1>3
  <2> DEFINE q == [params EXCEPT !.data_rate = r]
  <2>2. q \in B!Params /\ q.net = params.net
    BY DEF B!Params
  <2>3. B!With(params, body) = B!With(q, [adr_enable |-> a])
    BY <2>1 DEF B!With, B!Params
  <2> HIDE DEF q
  <2>4. B!With(q, [adr_enable |-> a]) = [q EXCEPT !.adr_enable = a]
    BY <2>2 DEF B!With, B!Params
  <2> QED BY <2>1, <2>2, <2>3, <2>4 DEF B!Params
<1> QED BY <1>1, <1>2, <1>3 DEF B!Masked

-----------------------------------------------------------------------------
\* What the app sets is parameters: those of a page, those of a mask, those of a join.
LEMMA BodyKinds ==
  ASSUME NEW params \in B!Params, NEW body \in B!Body \cup B!Masked
  PROVE  /\ B!With(params, body) \in B!Params
         /\ "net" \in DOMAIN body => body.net \in Net /\ B!With(params, body).net = body.net
         /\ "net" \notin DOMAIN body => B!With(params, body).net = params.net
BY WithNet, WithMasked

LEMMA JoinBody ==
  ASSUME B!ConstantsAssumption
  PROVE  [data_rate |-> B!JoinRate, adr_enable |-> TRUE] \in B!Masked
<1>1. B!JoinRate \in Rate /\ TRUE \in BOOLEAN
  BY DEF B!ConstantsAssumption
<1> DEFINE body == [data_rate |-> B!JoinRate, adr_enable |-> TRUE]
<1>2. \E r \in Rate, a \in BOOLEAN : body = [data_rate |-> r, adr_enable |-> a]
  BY <1>1
<1> HIDE DEF body
<1>3. body \in {[data_rate |-> r, adr_enable |-> a] : r \in Rate, a \in BOOLEAN}
  BY <1>2
<1>4. body \in B!Masked
  BY <1>3 DEF B!Masked
<1> QED BY <1>4 DEF body

\* A thread whose parameters are outdated has nothing in hand that could mislead.
LEMMA OutdatedSound ==
  ASSUME NEW calls \in [B!Thread -> B!Known(B!Call)],
         \A t \in B!Thread : calls[t] # <<>> /\ calls[t][1].op \in {"fallback", "lan"}
                             => calls[t][1].answer \in B!Params
  PROVE  /\ B!Outdated(calls) \in [B!Thread -> B!Known(B!Call)]
         /\ \A t \in B!Thread : B!Outdated(calls)[t] # <<>>
                                /\ B!Outdated(calls)[t][1].op \in {"fallback", "lan"}
              => /\ B!Outdated(calls)[t][1].answer \in B!Params
                 /\ B!Outdated(calls)[t][1].outdated
<1> SUFFICES ASSUME NEW t \in B!Thread
             PROVE  /\ B!Outdated(calls)[t] \in B!Known(B!Call)
                    /\ B!Outdated(calls)[t] # <<>>
                         /\ B!Outdated(calls)[t][1].op \in {"fallback", "lan"}
                       => /\ B!Outdated(calls)[t][1].answer \in B!Params
                          /\ B!Outdated(calls)[t][1].outdated
  BY DEF B!Outdated
<1>1. CASE calls[t] # <<>> /\ calls[t][1].op \in {"fallback", "lan"}
  <2> DEFINE c == [calls[t][1] EXCEPT !.outdated = TRUE]
  <2>1. calls[t][1] \in B!Call
    BY <1>1, KnownOne
  <2>2. c \in B!Call /\ c.answer = calls[t][1].answer /\ c.outdated
    BY <2>1 DEF B!Call
  <2>3. B!Outdated(calls)[t] = <<c>>
    BY <1>1 DEF B!Outdated
  <2> HIDE DEF c
  <2> QED BY <1>1, <2>2, <2>3, KnownNew
<1>2. CASE ~(calls[t] # <<>> /\ calls[t][1].op \in {"fallback", "lan"})
  <2>1. B!Outdated(calls)[t] = calls[t]
    BY <1>2 DEF B!Outdated
  <2> QED BY <1>2, <2>1
<1> QED BY <1>1, <1>2

\* When other network parameters are asked for, or another bridge is addressed, every
\* thread's are outdated.
LEMMA CallsOutdated ==
  ASSUME NEW calls \in [B!Thread -> B!Known(B!Call)], call' = B!Outdated(calls),
         \A t \in B!Thread : calls[t] # <<>> /\ calls[t][1].op \in {"fallback", "lan"}
                             => calls[t][1].answer \in B!Params
  PROVE  call' \in [B!Thread -> B!Known(B!Call)] /\ Calls'
BY OutdatedSound DEF Calls, InHand

\* A thread is left with another call, or none.
LEMMA CallChanged ==
  ASSUME call \in [B!Thread -> B!Known(B!Call)], Calls, NEW t \in B!Thread, NEW c \in B!Known(B!Call),
         call' = [call EXCEPT ![t] = c], UNCHANGED g_ip,
         crossed \subseteq crossed', asked'[g_ip] = asked[g_ip] \/ g_ip \in crossed,
         c # <<>> => InHand(c[1], g_ip', crossed', asked')
  PROVE  call' \in [B!Thread -> B!Known(B!Call)] /\ Calls'
<1>1. call' \in [B!Thread -> B!Known(B!Call)]
  OBVIOUS
<1>2. ASSUME NEW u \in B!Thread, call'[u] # <<>>
      PROVE  InHand(call'[u][1], g_ip', crossed', asked')
  <2>1. CASE u = t
    BY <1>2, <2>1
  <2>2. CASE u # t
    <3>1. call'[u] = call[u]
      BY <2>2
    <3>2. InHand(call[u][1], g_ip, crossed, asked)
      BY <1>2, <3>1 DEF Calls
    <3> QED BY <3>1, <3>2 DEF InHand
  <2> QED BY <2>1, <2>2
<1> QED BY <1>1, <1>2 DEF Calls

-----------------------------------------------------------------------------
\* What an action leaves alone stays as it is.
LEMMA SameCalls ==
  ASSUME call \in [B!Thread -> B!Known(B!Call)], Calls, UNCHANGED <<call, g_ip, crossed>>,
         asked'[g_ip] = asked[g_ip]
  PROVE  call' \in [B!Thread -> B!Known(B!Call)] /\ Calls'
BY DEF Calls, InHand

\* The answer to B100_Get_Params is all parameters of the bridge that was asked.
LEMMA GetSound ==
  ASSUME ParamsIInv, NEW t \in B!Thread, NEW op \in {"get", "fallback"}, B!B100_Get_Params(t, op),
         UNCHANGED <<bridge, g_ip, g_status, changes, asked, crossed>>
  PROVE  ParamsIInv'
<1> DEFINE c == [op |-> op, answer |-> bridge[g_ip], outdated |-> FALSE]
<1>1. bridge[g_ip] \in B!Params
  BY DEF ParamsIInv, B!TypeOK
<1>2. c \in B!Call
  BY <1>1 DEF B!Call
<1>3. g_ip \in crossed \/ bridge[g_ip].net = asked[g_ip]
  BY DEF ParamsIInv, B!TypeOK, B!NetworkKept
<1>4. InHand(c, g_ip, crossed, asked)
  BY <1>1, <1>3 DEF InHand
<1>5. call' = [call EXCEPT ![t] = <<c>>]
  BY DEF B!B100_Get_Params
<1> HIDE DEF c
<1>6. call' \in [B!Thread -> B!Known(B!Call)] /\ Calls'
  BY <1>2, <1>4, <1>5, KnownNew, CallChanged DEF ParamsIInv, B!TypeOK
<1> QED BY <1>6 DEF ParamsIInv, B!TypeOK, B!NetworkKept

\* Remembering an answer gives it to g_status and, on the way to /lan.html, keeps it.
LEMMA RememberSound ==
  ASSUME ParamsIInv, NEW t \in B!Thread, B!Remember(t)
  PROVE  ParamsIInv'
<1> DEFINE c == call[t][1]
<1>1. c \in B!Call /\ InHand(c, g_ip, crossed, asked)
  BY KnownOne DEF ParamsIInv, B!TypeOK, Calls, B!Remember, B!Idle
<1>2. g_status' \in [data_rate : B!Known(Rate), adr_enable : B!Known(BOOLEAN)]
  <2>1. \A f \in DOMAIN g_status : f \in {"data_rate", "adr_enable"}
    BY DEF ParamsIInv, B!TypeOK
  <2>2. "data_rate" \in DOMAIN c.answer => c.answer["data_rate"] \in Rate
    BY <1>1 DEF B!Call, B!Params, B!Body, B!Masked
  <2>3. "adr_enable" \in DOMAIN c.answer => c.answer["adr_enable"] \in BOOLEAN
    BY <1>1 DEF B!Call, B!Params, B!Body, B!Masked
  <2>4. g_status' = [f \in DOMAIN g_status |-> IF f \in DOMAIN c.answer
                                               THEN <<c.answer[f]>> ELSE g_status[f]]
    BY DEF B!Remember, B!Remembered
  <2> HIDE DEF c
  <2>5. DOMAIN g_status = {"data_rate", "adr_enable"}
    BY DEF ParamsIInv, B!TypeOK
  <2>6. g_status["data_rate"] \in B!Known(Rate) /\ g_status["adr_enable"] \in B!Known(BOOLEAN)
    BY DEF ParamsIInv, B!TypeOK
  <2>7. g_status'["data_rate"] \in B!Known(Rate) /\ g_status'["adr_enable"] \in B!Known(BOOLEAN)
    BY <2>2, <2>3, <2>4, <2>5, <2>6, KnownNew
  <2>8. g_status' = [data_rate |-> g_status'["data_rate"],
                     adr_enable |-> g_status'["adr_enable"]]
    BY <2>4, <2>5
  <2> QED BY <2>7, <2>8
<1>3. call' \in [B!Thread -> B!Known(B!Call)] /\ Calls'
  <2> DEFINE d == IF c.op = "fallback" THEN <<[c EXCEPT !.op = "lan"]>> ELSE <<>>
  <2>1. call' = [call EXCEPT ![t] = d]
    BY DEF B!Remember
  <2>2. [c EXCEPT !.op = "lan"] \in B!Call
        /\ [c EXCEPT !.op = "lan"].answer = c.answer
        /\ [c EXCEPT !.op = "lan"].outdated = c.outdated
    BY <1>1 DEF B!Call
  <2>3. c.op = "fallback" => InHand([c EXCEPT !.op = "lan"], g_ip, crossed, asked)
    BY <1>1, <2>2 DEF InHand
  <2>4. d \in B!Known(B!Call) /\ (d # <<>> => InHand(d[1], g_ip, crossed, asked))
    BY <2>2, <2>3, KnownNew, KnownNothing
  <2>5. UNCHANGED <<g_ip, asked, crossed>>
    BY DEF B!Remember
  <2> HIDE DEF d
  <2> QED BY <2>1, <2>4, <2>5, CallChanged DEF ParamsIInv, B!TypeOK
<1> QED BY <1>2, <1>3 DEF ParamsIInv, B!TypeOK, B!NetworkKept, B!Remember

\* Setting parameters asks for them if it asks for network parameters at all, and makes
\* what the threads have in hand outdated then.
LEMMA SetSound ==
  ASSUME ParamsIInv, NEW t \in B!Thread, NEW body \in B!Body \cup B!Masked, NEW outcome \in B!Outcome,
         B!B100_Set_Params(t, body, outcome), B!ConstantsAssumption
  PROVE  ParamsIInv'
<1> DEFINE set == outcome # "refused"
           mine == IF outcome = "answered"
                   THEN <<[op |-> "set", answer |-> body, outdated |-> FALSE]>> ELSE <<>>
           calls == [call EXCEPT ![t] = mine]
<1>1. /\ bridge' = [bridge EXCEPT ![g_ip] = IF set THEN B!With(@, body) ELSE @]
      /\ asked' = [asked EXCEPT ![g_ip] = IF set /\ "net" \in DOMAIN body THEN body.net ELSE @]
      /\ call' = IF set /\ "net" \in DOMAIN body THEN B!Outdated(calls) ELSE calls
      /\ UNCHANGED <<g_ip, g_status, crossed>> /\ changes' \in 0 .. MaxChanges
  BY DEF B!B100_Set_Params, B!Change, ParamsIInv, B!TypeOK, B!ConstantsAssumption
<1>2. /\ B!With(bridge[g_ip], body) \in B!Params
      /\ "net" \in DOMAIN body => body.net \in Net /\ B!With(bridge[g_ip], body).net = body.net
      /\ "net" \notin DOMAIN body => B!With(bridge[g_ip], body).net = bridge[g_ip].net
  BY BodyKinds DEF ParamsIInv, B!TypeOK
<1>3. BridgesTyped'
  BY <1>1, <1>2 DEF BridgesTyped, ParamsIInv, B!TypeOK
<1>4. mine \in B!Known(B!Call) /\ (mine # <<>> => mine[1].op = "set")
  <2> DEFINE c == [op |-> "set", answer |-> body, outdated |-> FALSE]
  <2>1. c \in B!Call /\ c.op = "set"
    BY DEF B!Call
  <2> HIDE DEF c
  <2> QED BY <2>1, KnownNew, KnownNothing DEF c
<1> HIDE DEF mine
<1>5. calls \in [B!Thread -> B!Known(B!Call)]
  BY <1>4 DEF ParamsIInv, B!TypeOK
<1>6. call' \in [B!Thread -> B!Known(B!Call)] /\ Calls'
  <2>1. CASE set /\ "net" \in DOMAIN body
    <3>1. ASSUME NEW u \in B!Thread, calls[u] # <<>>, calls[u][1].op \in {"fallback", "lan"}
          PROVE  calls[u][1].answer \in B!Params
      <4>1. u # t
        BY <1>4, <3>1 DEF ParamsIInv, B!TypeOK
      <4>2. calls[u] = call[u]
        BY <4>1 DEF ParamsIInv, B!TypeOK
      <4> QED BY <3>1, <4>2 DEF ParamsIInv, Calls, InHand
    <3> HIDE DEF calls
    <3> QED BY <1>1, <1>5, <2>1, <3>1, CallsOutdated
  <2>2. CASE ~(set /\ "net" \in DOMAIN body)
    <3>1. asked'[g_ip] = asked[g_ip]
      BY <1>1, <2>2 DEF ParamsIInv, B!TypeOK
    <3>2. mine # <<>> => InHand(mine[1], g_ip', crossed', asked')
      BY <1>4 DEF InHand
    <3> QED BY <1>1, <1>4, <2>2, <3>1, <3>2, CallChanged DEF ParamsIInv, B!TypeOK
  <2> QED BY <2>1, <2>2
<1>7. B!NetworkKept'
  <2> SUFFICES ASSUME NEW a \in Address, a \notin crossed
               PROVE  bridge'[a].net = asked'[a]
    BY <1>1 DEF B!NetworkKept
  <2>1. bridge[a].net = asked[a]
    BY DEF ParamsIInv, B!NetworkKept
  <2> QED BY <1>1, <1>2, <2>1 DEF ParamsIInv, B!TypeOK
<1> QED BY <1>1, <1>3, <1>6, <1>7 DEF ParamsIInv, B!TypeOK, BridgesTyped

\* The request to /lan.html gives the bridge back what was asked of it, or it is crossed.
LEMMA LanSound ==
  ASSUME ParamsIInv, NEW t \in B!Thread, NEW outcome \in B!Outcome, B!Lan_Html(t, outcome)
  PROVE  ParamsIInv'
<1> DEFINE c == call[t][1]
<1>1. c \in B!Call /\ InHand(c, g_ip, crossed, asked) /\ c.op = "lan"
  BY KnownOne DEF ParamsIInv, B!TypeOK, Calls, B!Lan_Html, B!Idle
<1>2. c.answer \in B!Params /\ c.answer.net \in Net
  BY <1>1 DEF InHand, B!Params
<1>3. UNCHANGED <<g_ip, g_status, changes, asked>> /\ call' = [call EXCEPT ![t] = <<>>]
  BY DEF B!Lan_Html
<1>4. /\ crossed' \in SUBSET Address /\ crossed \subseteq crossed'
      /\ BridgesTyped' /\ B!NetworkKept'
  <2>1. CASE outcome = "refused"
    BY <1>3, <2>1 DEF B!Lan_Html, ParamsIInv, B!TypeOK, BridgesTyped, B!NetworkKept
  <2>2. CASE outcome # "refused"
    <3>1. bridge' = [bridge EXCEPT ![g_ip].net = c.answer.net]
      BY <2>2 DEF B!Lan_Html, B!Sent
    <3>2. crossed' = IF c.outdated THEN crossed \cup {g_ip} ELSE crossed
      BY <2>2 DEF B!Lan_Html
    <3>3. g_ip \in crossed' \/ c.answer.net = asked[g_ip]
      BY <1>1, <3>2 DEF InHand
    <3> HIDE DEF c
    <3>4. [bridge[g_ip] EXCEPT !.net = c.answer.net] \in B!Params
          /\ [bridge[g_ip] EXCEPT !.net = c.answer.net].net = c.answer.net
      BY <1>2 DEF ParamsIInv, B!TypeOK, B!Params
    <3>5. bridge' \in [Address -> B!Params] /\ bridge'[g_ip].net = c.answer.net
          /\ \A a \in Address \ {g_ip} : bridge'[a] = bridge[a]
      BY <3>1, <3>4 DEF ParamsIInv, B!TypeOK
    <3>6. crossed' \in SUBSET Address /\ crossed \subseteq crossed'
      BY <3>2 DEF ParamsIInv, B!TypeOK
    <3>7. B!NetworkKept'
      BY <1>3, <3>3, <3>5, <3>6 DEF ParamsIInv, B!NetworkKept
    <3> QED BY <1>3, <3>5, <3>6, <3>7 DEF ParamsIInv, B!TypeOK, BridgesTyped
  <2> QED BY <2>1, <2>2
<1>5. call' \in [B!Thread -> B!Known(B!Call)] /\ Calls'
  BY <1>3, <1>4, KnownNothing, CallChanged DEF ParamsIInv, B!TypeOK
<1> QED BY <1>3, <1>4, <1>5 DEF ParamsIInv, B!TypeOK, BridgesTyped

\* Another bridge: what a thread has in hand is of the one before.
LEMMA AddressSound ==
  ASSUME ParamsIInv, NEW ip \in Address, B!B100_Set_IP(ip), B!ConstantsAssumption
  PROVE  ParamsIInv'
<1>1. /\ call' = B!Outdated(call) /\ g_ip' \in Address /\ changes' \in 0 .. MaxChanges
      /\ UNCHANGED <<bridge, g_status, asked, crossed>>
  BY DEF B!B100_Set_IP, B!Change, ParamsIInv, B!TypeOK, B!ConstantsAssumption
<1>2. call' \in [B!Thread -> B!Known(B!Call)] /\ Calls'
  BY <1>1, CallsOutdated DEF ParamsIInv, B!TypeOK, Calls, InHand
<1> QED BY <1>1, <1>2 DEF ParamsIInv, B!TypeOK, B!NetworkKept

\* Joining stores data rate and adaptive data rate only.
LEMMA JoinSound ==
  ASSUME ParamsIInv, NEW t \in B!Thread, B!B100_Join(t), B!ConstantsAssumption
  PROVE  ParamsIInv'
<1> DEFINE body == [data_rate |-> B!JoinRate, adr_enable |-> TRUE]
<1>1. /\ bridge' = [bridge EXCEPT ![g_ip] = B!With(@, body)] /\ changes' \in 0 .. MaxChanges
      /\ UNCHANGED <<g_ip, g_status, call, asked, crossed>>
  BY DEF B!B100_Join, B!Change, ParamsIInv, B!TypeOK, B!ConstantsAssumption
<1>2. B!With(bridge[g_ip], body) \in B!Params /\ B!With(bridge[g_ip], body).net = bridge[g_ip].net
  BY JoinBody, WithMasked DEF ParamsIInv, B!TypeOK
<1> HIDE DEF body
<1>3. BridgesTyped' /\ B!NetworkKept'
  BY <1>1, <1>2 DEF ParamsIInv, B!TypeOK, BridgesTyped, B!NetworkKept
<1> QED BY <1>1, <1>3, SameCalls DEF ParamsIInv, B!TypeOK, BridgesTyped

\* What the bridge's own page sets is asked for there.
LEMMA ElsewhereSound ==
  ASSUME ParamsIInv, NEW a \in Address, NEW body \in B!Body \cup B!Masked, B!Elsewhere(a, body),
         B!ConstantsAssumption
  PROVE  ParamsIInv'
<1>1. /\ bridge' = [bridge EXCEPT ![a] = B!With(@, body)]
      /\ asked' = [asked EXCEPT ![a] = bridge'[a].net]
      /\ call' = IF "net" \in DOMAIN body THEN B!Outdated(call) ELSE call
      /\ UNCHANGED <<g_ip, g_status, crossed>> /\ changes' \in 0 .. MaxChanges
  BY DEF B!Elsewhere, B!Change, ParamsIInv, B!TypeOK, B!ConstantsAssumption
<1>2. /\ B!With(bridge[a], body) \in B!Params
      /\ "net" \notin DOMAIN body => B!With(bridge[a], body).net = bridge[a].net
  BY BodyKinds DEF ParamsIInv, B!TypeOK
<1>3. /\ bridge' \in [Address -> B!Params] /\ bridge'[a] = B!With(bridge[a], body)
      /\ \A b \in Address \ {a} : bridge'[b] = bridge[b] /\ asked'[b] = asked[b]
      /\ asked' \in [Address -> Net] /\ asked'[a] = bridge'[a].net
  BY <1>1, <1>2 DEF ParamsIInv, B!TypeOK, B!Params
<1>4. call' \in [B!Thread -> B!Known(B!Call)] /\ Calls'
  <2>1. CASE "net" \in DOMAIN body
    BY <1>1, <2>1, CallsOutdated DEF ParamsIInv, B!TypeOK, Calls, InHand
  <2>2. CASE "net" \notin DOMAIN body
    <3>1. asked'[g_ip] = asked[g_ip] \/ g_ip \in crossed
      BY <1>2, <1>3, <2>2 DEF ParamsIInv, B!TypeOK, B!NetworkKept
    <3>2. UNCHANGED <<call, g_ip, crossed>>
      BY <1>1, <2>2
    <3> QED BY <3>1, <3>2 DEF ParamsIInv, B!TypeOK, Calls, InHand
  <2> QED BY <2>1, <2>2
<1>5. B!NetworkKept'
  BY <1>1, <1>3 DEF ParamsIInv, B!TypeOK, B!NetworkKept
<1> QED BY <1>1, <1>3, <1>4, <1>5 DEF ParamsIInv, B!TypeOK

-----------------------------------------------------------------------------
\* No action breaks the invariant.
LEMMA ParamsInductive ==
  ASSUME B!ConstantsAssumption, ParamsIInv, [B!Next]_B!vars
  PROVE  ParamsIInv'
<1>1. ASSUME NEW t \in B!Thread, B!Get(t) \/ B!B100_Configure_Callbacks(t)
      PROVE  ParamsIInv'
  BY <1>1, GetSound DEF B!Get, B!B100_Configure_Callbacks
<1>2. ASSUME NEW t \in B!Thread, B!Remember(t)
      PROVE  ParamsIInv'
  BY <1>2, RememberSound
<1>3. ASSUME NEW t \in B!Thread, B!B100_Join(t)
      PROVE  ParamsIInv'
  BY <1>3, JoinSound
<1>4. ASSUME NEW t \in B!Thread, NEW outcome \in B!Outcome, NEW body \in B!Body \cup B!Masked,
             B!B100_Set_Params(t, body, outcome)
      PROVE  ParamsIInv'
  BY <1>4, SetSound
<1>5. ASSUME NEW t \in B!Thread, NEW outcome \in B!Outcome, B!Lan_Html(t, outcome)
      PROVE  ParamsIInv'
  BY <1>5, LanSound
<1>6. ASSUME NEW ip \in Address, B!B100_Set_IP(ip)
      PROVE  ParamsIInv'
  BY <1>6, AddressSound
<1>7. ASSUME NEW a \in Address, NEW body \in B!Body \cup B!Masked, B!Elsewhere(a, body)
      PROVE  ParamsIInv'
  BY <1>7, ElsewhereSound
<1>8. CASE UNCHANGED B!vars
  BY <1>8 DEF B!vars, ParamsIInv, B!TypeOK, Calls, InHand, B!NetworkKept
<1> QED BY <1>1, <1>2, <1>3, <1>4, <1>5, <1>6, <1>7, <1>8 DEF B!Next

\* The program starts with nothing in hand and each bridge as it is.
LEMMA ParamsInitial == B!ConstantsAssumption /\ B!Init => ParamsIInv
<1> SUFFICES ASSUME B!ConstantsAssumption, B!Init PROVE ParamsIInv
  OBVIOUS
<1>1. BridgesTyped /\ B!NetworkKept
  BY DEF B!Init, BridgesTyped, B!NetworkKept, B!Params
<1>2. RestTyped
  BY KnownNothing DEF B!Init, RestTyped, B!ConstantsAssumption
<1>3. call \in [B!Thread -> B!Known(B!Call)] /\ Calls
  BY KnownNothing DEF B!Init, Calls
<1> QED BY <1>1, <1>2, <1>3 DEF ParamsIInv, B!TypeOK, BridgesTyped, RestTyped

LEMMA ParametersKept ==
  ASSUME B!ConstantsAssumption
  PROVE  B!Spec => []NetworkKept
<1>1. B!Init => ParamsIInv
  BY ParamsInitial
<1>2. ParamsIInv /\ [B!Next]_B!vars => ParamsIInv'
  BY ParamsInductive
<1>3. ParamsIInv => NetworkKept
  BY DEF ParamsIInv, NetworkKept
<1> QED BY <1>1, <1>2, <1>3, PTL DEF B!Spec

-----------------------------------------------------------------------------
(***************************************************************************)
(* The composition.                                                        *)
(***************************************************************************)
LEMMA Apart ==
  /\ AoaInit => U!Init /\ B!Init
  /\ [Queues \/ Uplinks \/ Parameters]_avars => [U!Next]_U!vars /\ [B!Next]_B!vars
<1>1. AoaInit => U!Init /\ B!Init
  BY DEF AoaInit
<1>2. UNCHANGED uvars => UNCHANGED U!vars
  BY DEF uvars, U!vars, U!health_state, U!g_status, U!locals, U!bounds, U!history
<1>3. UNCHANGED bvars => UNCHANGED B!vars
  BY DEF bvars, B!vars
<1>4. ASSUME [Queues \/ Uplinks \/ Parameters]_avars
      PROVE  [U!Next]_U!vars /\ [B!Next]_B!vars
  <2>1. \/ UNCHANGED <<uvars, bvars>>
        \/ U!Next /\ UNCHANGED bvars
        \/ B!Next /\ UNCHANGED uvars
    BY <1>4 DEF Queues, Uplinks, Parameters, avars
  <2> QED BY <1>2, <1>3, <2>1
<1> QED BY <1>1, <1>4

\* aoa/README.md:385: no more than CONFIRM_EVERY - 1 uplinks in a row are not confirmed, but
\* for one that two publishers swapped, unless a confirmed uplink was refused or the bridge
\* restarted; for any CONFIRM_EVERY, whatever the queues and the parameters do meanwhile.
THEOREM LinkObserved ==
  ASSUME U!ConstantsAssumption
  PROVE  AoaSpec => []RunBounded
<1>1. AoaSpec => U!Spec
  BY Apart, PTL DEF AoaSpec, U!Spec
<1> QED BY <1>1, UplinksBounded, PTL

\* A bridge keeps the network parameters that were last asked of it, unless the app sent
\* it those read before such a change or from another bridge (B100_Configure_Callbacks,
\* B100.c:1221-1291), whatever is lost, refused or done by two threads at once.
THEOREM NetworkStays ==
  ASSUME B!ConstantsAssumption
  PROVE  AoaSpec => []NetworkKept
<1>1. AoaSpec => B!Spec
  BY Apart, PTL DEF AoaSpec, B!Spec
<1> QED BY <1>1, ParametersKept, PTL
-----------------------------------------------------------------------------
(***************************************************************************)
(* The frames that aoa is asked in and answers with (OtaTranslator).       *)
(***************************************************************************)
\* Two bytes say a number, and three say two of ten bits.
TwoBytes(n) ==
  /\ n % 256 \in 0 .. 255 /\ (n \div 256) % 256 \in 0 .. 255
  /\ (n % 256) + 256 * ((n \div 256) % 256) = n
ThreeBytes(p, x, y) ==
  /\ p % 256 \in 0 .. 255 /\ (p \div 256) % 256 \in 0 .. 255 /\ (p \div 65536) % 16 \in 0 .. 15
  /\ (p % 256) + 256 * ((p \div 256) % 256) + 65536 * ((p \div 65536) % 16) = p
  /\ p % 1024 = x /\ p \div 1024 = y

LEMMA WireU16 ==
  ASSUME NEW n \in T!Word
  PROVE  TwoBytes(n)
<1>0. n \in Int /\ 0 <= n /\ n <= 65535
  BY DEF T!Word
<1>1. n % 256 \in 0 .. 255
  BY <1>0
<1>2. n \div 256 \in Int /\ 0 <= n \div 256 /\ n \div 256 <= 255
  BY <1>0
<1>3. (n % 256) + 256 * (n \div 256) = n
  BY <1>0
<1>4. (n \div 256) % 256 = n \div 256
  BY <1>2
<1> QED BY <1>0, <1>1, <1>2, <1>3, <1>4 DEF TwoBytes

LEMMA WireSigned ==
  ASSUME NEW q \in T!Vertex
  PROVE  q % 65536 \in T!Word /\ T!Signed(q % 65536) = q
<1>0. q \in Int /\ -32767 <= q /\ q <= 32767
  BY DEF T!Vertex
<1>1. q % 65536 \in Int /\ 0 <= q % 65536 /\ q % 65536 <= 65535
  BY <1>0
<1>2. q % 65536 = IF q >= 0 THEN q ELSE q + 65536
  BY <1>0
<1>3. q % 65536 \in T!Word
  BY <1>1 DEF T!Word
<1> QED BY <1>0, <1>1, <1>2, <1>3 DEF T!Signed

LEMMA WirePacked ==
  ASSUME NEW x \in T!Thousandth, NEW y \in T!Thousandth
  PROVE  ThreeBytes(x + 1024 * y, x, y)
<1>a. PICK p : p = x + 1024 * y
  OBVIOUS
<1>0. p = x + 1024 * y /\ x \in Int /\ y \in Int /\ 0 <= x /\ x <= 1000 /\ 0 <= y /\ y <= 1000
  BY <1>a DEF T!Thousandth
<1>1. p \in Int /\ 0 <= p /\ p <= 1025000
  BY <1>0
<1>2. p % 1024 = x /\ p \div 1024 = y
  BY <1>0
<1>3. p % 256 \in 0 .. 255 /\ (p \div 256) % 256 \in 0 .. 255
  BY <1>1
<1>4. p \div 65536 \in Int /\ 0 <= p \div 65536 /\ p \div 65536 <= 15
  BY <1>1
<1>5. (p \div 65536) % 16 = p \div 65536
  BY <1>4
<1>6. (p \div 256) \div 256 = p \div 65536
  BY <1>1
<1>7. p = 256 * (p \div 256) + (p % 256)
  BY <1>1
<1>8. (p \div 256) = 256 * ((p \div 256) \div 256) + ((p \div 256) % 256)
  BY <1>1
<1>9. (p % 256) + 256 * ((p \div 256) % 256) + 65536 * (p \div 65536) = p
  BY <1>1, <1>3, <1>4, <1>6, <1>7, <1>8
<1> QED BY <1>a, <1>0, <1>1, <1>2, <1>3, <1>4, <1>5, <1>9 DEF ThreeBytes

\* A vertex is shown in thousandths, and a thousandth taken for a vertex is shown as it was.
LEMMA ShownIs ==
  ASSUME NEW q \in T!Vertex
  PROVE  /\ T!Encode_Integer_Coordinate(q) = (1000 * q + 32799767) \div 65534
         /\ T!Encode_Integer_Coordinate(q) \in T!Thousandth
<1>0. q \in Int /\ -32767 <= q /\ q <= 32767
  BY DEF T!Vertex
<1>1. T!Encode_Integer_Coordinate(q) = (1000 * q + 32799767) \div 65534
  BY <1>0 DEF T!Encode_Integer_Coordinate, T!Rounded
<1>2. PICK n : n = (1000 * q + 32799767) \div 65534
  OBVIOUS
<1>3. n \in Int
  BY <1>0, <1>2
<1>4. 0 <= n
  BY <1>0, <1>2
<1>5. n <= 1000
  BY <1>0, <1>2
<1>6. n \in T!Thousandth
  BY <1>3, <1>4, <1>5 DEF T!Thousandth
<1> QED BY <1>1, <1>2, <1>6

LEMMA TakenIs ==
  ASSUME NEW n \in T!Thousandth
  PROVE  /\ T!Integer_Coordinate_To_Q15(n) \in T!Vertex
         /\ T!Encode_Integer_Coordinate(T!Integer_Coordinate_To_Q15(n)) = n
<1>0. n \in Int /\ 0 <= n /\ n <= 1000
  BY DEF T!Thousandth
<1>1. PICK q : q = T!Integer_Coordinate_To_Q15(n)
  OBVIOUS
<1>2. q \in Int /\ -32767 <= q
  BY <1>0, <1>1 DEF T!Integer_Coordinate_To_Q15, T!Rounded
<1>3. q <= 32767
  BY <1>0, <1>1 DEF T!Integer_Coordinate_To_Q15, T!Rounded
<1>4. (1000 * q + 32799767) \div 65534 = n
  BY <1>0, <1>1 DEF T!Integer_Coordinate_To_Q15, T!Rounded
<1>5. q \in T!Vertex
  BY <1>2, <1>3 DEF T!Vertex
<1>6. T!Encode_Integer_Coordinate(q) = n
  BY <1>4, <1>5, ShownIs
<1> QED BY <1>1, <1>5, <1>6

LEMMA ReadBack ==
  ASSUME NEW q \in T!Vertex, NEW r, r = T!Integer_Coordinate_To_Q15(T!Encode_Integer_Coordinate(q))
  PROVE  /\ 1000 * (r - q) <= 32767 + 500 /\ 1000 * (q - r) <= 32767 + 500
         /\ T!Integer_Coordinate_To_Q15(T!Encode_Integer_Coordinate(r)) = r
<1>0. q \in Int /\ -32767 <= q /\ q <= 32767
  BY DEF T!Vertex
<1>1. PICK n : n = T!Encode_Integer_Coordinate(q)
  OBVIOUS
<1>2. n \in T!Thousandth /\ n = (1000 * q + 32799767) \div 65534
  BY <1>1, ShownIs
<1>3. n \in Int /\ 0 <= n /\ n <= 1000
  BY <1>2 DEF T!Thousandth
<1>4. r = T!Integer_Coordinate_To_Q15(n)
  BY <1>1
<1>5. T!Encode_Integer_Coordinate(r) = n
  BY <1>2, <1>4, TakenIs
<1>6. 1000 * (r - q) <= 32767 + 500
  BY <1>0, <1>2, <1>3, <1>4 DEF T!Integer_Coordinate_To_Q15, T!Rounded
<1>7. 1000 * (q - r) <= 32767 + 500
  BY <1>0, <1>2, <1>3, <1>4 DEF T!Integer_Coordinate_To_Q15, T!Rounded
<1> QED BY <1>4, <1>5, <1>6, <1>7

LEMMA WireMask ==
  ASSUME NEW classes \in SUBSET (0 .. 5)
  PROVE  /\ T!Mask(classes) \in 0 .. 63 /\ T!Classes(T!Mask(classes)) = classes
         /\ classes # {} => T!Mask(classes) >= 1
<1> DEFINE b0 == IF 0 \in classes THEN 1 ELSE 0
           b1 == IF 1 \in classes THEN 1 ELSE 0
           b2 == IF 2 \in classes THEN 1 ELSE 0
           b3 == IF 3 \in classes THEN 1 ELSE 0
           b4 == IF 4 \in classes THEN 1 ELSE 0
           b5 == IF 5 \in classes THEN 1 ELSE 0
           m == b0 + 2 * b1 + 4 * b2 + 8 * b3 + 16 * b4 + 32 * b5
<1>1. T!Mask(classes) = m
  BY DEF T!Mask
<1>2. /\ b0 \in {0, 1} /\ b1 \in {0, 1} /\ b2 \in {0, 1} /\ b3 \in {0, 1}
      /\ b4 \in {0, 1} /\ b5 \in {0, 1}
  OBVIOUS
<1>3. /\ b0 = 1 <=> 0 \in classes
      /\ b1 = 1 <=> 1 \in classes
      /\ b2 = 1 <=> 2 \in classes
      /\ b3 = 1 <=> 3 \in classes
      /\ b4 = 1 <=> 4 \in classes
      /\ b5 = 1 <=> 5 \in classes
  OBVIOUS
<1>4. T!Bit(m, 0) <=> b0 = 1
  <2> HIDE DEF b0, b1, b2, b3, b4, b5
  <2> QED BY <1>2 DEF T!Bit
<1>5. T!Bit(m, 1) <=> b1 = 1
  <2> HIDE DEF b0, b1, b2, b3, b4, b5
  <2> QED BY <1>2 DEF T!Bit
<1>6. T!Bit(m, 2) <=> b2 = 1
  <2> HIDE DEF b0, b1, b2, b3, b4, b5
  <2> QED BY <1>2 DEF T!Bit
<1>7. T!Bit(m, 3) <=> b3 = 1
  <2> HIDE DEF b0, b1, b2, b3, b4, b5
  <2> QED BY <1>2 DEF T!Bit
<1>8. T!Bit(m, 4) <=> b4 = 1
  <2> HIDE DEF b0, b1, b2, b3, b4, b5
  <2> QED BY <1>2 DEF T!Bit
<1>9. T!Bit(m, 5) <=> b5 = 1
  <2> HIDE DEF b0, b1, b2, b3, b4, b5
  <2> QED BY <1>2 DEF T!Bit
<1>10. T!Classes(m) = classes
  <2> HIDE DEF m, b0, b1, b2, b3, b4, b5
  <2>1. ASSUME NEW i \in 0 .. 5
        PROVE  T!Bit(m, i) <=> i \in classes
    <3>1. i = 0 \/ i = 1 \/ i = 2 \/ i = 3 \/ i = 4 \/ i = 5
      OBVIOUS
    <3>2. CASE i = 0
      BY <3>2, <1>3, <1>4
    <3>3. CASE i = 1
      BY <3>3, <1>3, <1>5
    <3>4. CASE i = 2
      BY <3>4, <1>3, <1>6
    <3>5. CASE i = 3
      BY <3>5, <1>3, <1>7
    <3>6. CASE i = 4
      BY <3>6, <1>3, <1>8
    <3>7. CASE i = 5
      BY <3>7, <1>3, <1>9
    <3> QED BY <3>1, <3>2, <3>3, <3>4, <3>5, <3>6, <3>7
  <2>2. T!Classes(m) = {i \in 0 .. 5 : T!Bit(m, i)}
    BY DEF T!Classes
  <2> QED BY <2>1, <2>2
<1>11. m \in 0 .. 63 /\ (classes # {} => m >= 1)
  <2>1. ASSUME NEW i \in classes
        PROVE  b0 = 1 \/ b1 = 1 \/ b2 = 1 \/ b3 = 1 \/ b4 = 1 \/ b5 = 1
    <3> HIDE DEF b0, b1, b2, b3, b4, b5
    <3>1. i = 0 \/ i = 1 \/ i = 2 \/ i = 3 \/ i = 4 \/ i = 5
      OBVIOUS
    <3> QED BY <3>1, <1>3
  <2> HIDE DEF b0, b1, b2, b3, b4, b5
  <2>2. m \in Int /\ 0 <= m /\ m <= 63
    BY <1>2
  <2>3. ASSUME classes # {}
        PROVE  m >= 1
    <3>1. \E i : i \in classes
      BY <2>3
    <3>2. b0 = 1 \/ b1 = 1 \/ b2 = 1 \/ b3 = 1 \/ b4 = 1 \/ b5 = 1
      BY <3>1, <2>1
    <3> QED BY <1>2, <3>2
  <2> HIDE DEF m
  <2> QED BY <2>2, <2>3
<1> QED BY <1>1, <1>10, <1>11

\* The layouts that pages have, by version and length of the fields.
Layout(version, length) ==
  \/ version = 2 /\ length \in {3, 9}
  \/ version = 1 /\ length \in {3, 4}

LEMMA Paged ==
  ASSUME NEW version, NEW length, Layout(version, length), NEW n \in 2 .. 10
  PROVE  /\ T!Coordinate_Bytes(version) = IF version = 2 THEN 3 ELSE 4
         /\ T!Points_Per_Page(length, version) = IF version = 2 THEN IF length = 3 THEN 10 ELSE 8 ELSE 7
         /\ T!Pages(n, length, version) = IF n <= T!Points_Per_Page(length, version) THEN 1 ELSE 2
         /\ \A page \in 0 .. T!Pages(n, length, version) - 1 :
              /\ T!Count(n, page, T!Points_Per_Page(length, version)) \in 1 .. T!Points_Per_Page(length, version)
              /\ page = T!Pages(n, length, version) - 1 =>
                   T!Count(n, page, T!Points_Per_Page(length, version)) = n - page * T!Points_Per_Page(length, version)
              /\ page < T!Pages(n, length, version) - 1 =>
                   T!Count(n, page, T!Points_Per_Page(length, version)) = T!Points_Per_Page(length, version)
              /\ 13 + length + T!Count(n, page, T!Points_Per_Page(length, version)) * T!Coordinate_Bytes(version) <= 47
<1>1. PICK per : per = T!Points_Per_Page(length, version)
  OBVIOUS
<1>2. PICK pages : pages = T!Pages(n, length, version)
  OBVIOUS
<1>3. PICK size : size = T!Coordinate_Bytes(version)
  OBVIOUS
<1>4. size = IF version = 2 THEN 3 ELSE 4
  BY <1>3 DEF T!Coordinate_Bytes
<1>5. per = IF version = 2 THEN IF length = 3 THEN 10 ELSE 8 ELSE 7
  <2>1. CASE version = 2 /\ length = 3
    BY <2>1, <1>1 DEF T!Points_Per_Page, T!Coordinate_Bytes, T!OTA_MAX_BODY_SIZE
  <2>2. CASE version = 2 /\ length = 9
    BY <2>2, <1>1 DEF T!Points_Per_Page, T!Coordinate_Bytes, T!OTA_MAX_BODY_SIZE
  <2>3. CASE version = 1 /\ length = 3
    BY <2>3, <1>1 DEF T!Points_Per_Page, T!Coordinate_Bytes, T!OTA_MAX_BODY_SIZE
  <2>4. CASE version = 1 /\ length = 4
    BY <2>4, <1>1 DEF T!Points_Per_Page, T!Coordinate_Bytes, T!OTA_MAX_BODY_SIZE
  <2> QED BY <2>1, <2>2, <2>3, <2>4 DEF Layout
<1>6. pages = (n + per - 1) \div per
  BY <1>1, <1>2 DEF T!Pages, T!Ceiling
<1>7. pages = IF n <= per THEN 1 ELSE 2
  <2>1. CASE per = 10
    BY <2>1, <1>6
  <2>2. CASE per = 8
    BY <2>2, <1>6
  <2>3. CASE per = 7
    BY <2>3, <1>6
  <2> QED BY <2>1, <2>2, <2>3, <1>5
<1>8. ASSUME NEW page \in 0 .. pages - 1
      PROVE  /\ T!Count(n, page, per) \in 1 .. per
             /\ page = pages - 1 => T!Count(n, page, per) = n - page * per
             /\ page < pages - 1 => T!Count(n, page, per) = per
             /\ 13 + length + T!Count(n, page, per) * size <= 47
  <2>1. T!Count(n, page, per) = IF n - page * per > per THEN per ELSE n - page * per
    BY DEF T!Count
  <2>2. PICK count : count = T!Count(n, page, per)
    OBVIOUS
  <2>3. page = 0 \/ (page = 1 /\ n > per)
    <3>1. per \in Int
      BY <1>5
    <3> QED BY <3>1, <1>7
  <2>4. /\ count \in 1 .. per
        /\ page = pages - 1 => count = n - page * per
        /\ page < pages - 1 => count = per
    BY <2>1, <2>2, <2>3, <1>5, <1>7
  <2>5. 13 + length + count * size <= 47
    <3>1. CASE version = 2 /\ length = 3
      BY <2>4, <3>1, <1>4, <1>5
    <3>2. CASE version = 2 /\ length = 9
      BY <2>4, <3>2, <1>4, <1>5
    <3>3. CASE version = 1 /\ length \in {3, 4}
      BY <2>4, <3>3, <1>4, <1>5
    <3> QED BY <3>1, <3>2, <3>3 DEF Layout
  <2> QED BY <2>2, <2>4, <2>5
<1> QED BY <1>1, <1>2, <1>3, <1>4, <1>5, <1>7, <1>8

\* The bytes of each corner.
LEMMA Spread ==
  ASSUME NEW size \in {3, 4}, NEW i \in Nat, i >= 1, NEW j \in 1 .. size, NEW count \in Nat, i <= count,
         NEW k, k = (i - 1) * size + j
  PROVE  k \in 1 .. count * size /\ (k - 1) \div size = i - 1 /\ (k - 1) % size = j - 1
<1>1. CASE size = 3
  BY <1>1
<1>2. CASE size = 4
  BY <1>2
<1> QED BY <1>1, <1>2

Cornered(bytes, version, points, start, count, size) ==
  /\ bytes = [k \in 1 .. count * size |-> bytes[k]]
  /\ \A i \in 1 .. count : \A j \in 1 .. size :
       /\ (i - 1) * size + j \in 1 .. count * size
       /\ bytes[(i - 1) * size + j] = T!Point(version, points[start + i])[j]

LEMMA CornerBytes ==
  ASSUME NEW version \in {1, 2}, NEW points, NEW start \in Nat, NEW count \in Nat,
         NEW size \in {3, 4}, T!Coordinate_Bytes(version) = size
  PROVE  Cornered(T!Corner_Bytes(version, points, start, count), version, points, start, count, size)
<1> DEFINE bytes == T!Corner_Bytes(version, points, start, count)
<1>1. bytes = [k \in 1 .. count * size |->
                 T!Point(version, points[start + 1 + (k - 1) \div size])[1 + ((k - 1) % size)]]
  BY DEF T!Corner_Bytes
<1> HIDE DEF bytes
<1>2. bytes = [k \in 1 .. count * size |-> bytes[k]]
  BY <1>1
<1>3. ASSUME NEW i \in 1 .. count, NEW j \in 1 .. size
      PROVE  /\ (i - 1) * size + j \in 1 .. count * size
             /\ bytes[(i - 1) * size + j] = T!Point(version, points[start + i])[j]
  <2>1. PICK k : k = (i - 1) * size + j
    OBVIOUS
  <2>2. k \in 1 .. count * size /\ (k - 1) \div size = i - 1 /\ (k - 1) % size = j - 1
    BY <2>1, Spread
  <2>3. bytes[k] = T!Point(version, points[start + 1 + (k - 1) \div size])[1 + ((k - 1) % size)]
    BY <2>2, <1>1
  <2>4. start + 1 + (k - 1) \div size = start + i /\ 1 + ((k - 1) % size) = j
    BY <2>2
  <2> QED BY <2>1, <2>2, <2>3, <2>4
<1>4. Cornered(bytes, version, points, start, count, size)
  BY <1>2, <1>3 DEF Cornered
<1> QED BY <1>4 DEF bytes

\* What is where on a page.
Laid(body, version, fields, points, page) ==
  LET length == Len(fields)
      per == T!Points_Per_Page(length, version)
      count == T!Count(Len(points), page, per)
      size == T!Coordinate_Bytes(version)
  IN /\ Len(body) = 13 + length + count * size
     /\ body[1] = version /\ body[9] = page /\ body[10] = T!Pages(Len(points), length, version)
     /\ body[11] = page * per /\ body[12] = count /\ body[13] = Len(points)
     /\ \A i \in 1 .. length : body[13 + i] = fields[i]
     /\ \A i \in 1 .. count : \A j \in 1 .. size :
          body[13 + length + (i - 1) * size + j] = T!Point(version, points[page * per + i])[j]

\* One sequence is another followed by a third.
Follows(c, a, b) ==
  /\ Len(c) = Len(a) + Len(b)
  /\ \A i \in 1 .. Len(a) : c[i] = a[i]
  /\ \A i \in 1 .. Len(b) : c[Len(a) + i] = b[i]
LEMMA After ==
  ASSUME NEW S, NEW a \in Seq(S), NEW b \in Seq(S)
  PROVE  a \o b \in Seq(S) /\ Follows(a \o b, a, b)
<1>0. PICK c : c = a \o b
  OBVIOUS
<1>1. c \in Seq(S) /\ Len(c) = Len(a) + Len(b) /\ Len(a) \in Nat /\ Len(b) \in Nat
  BY <1>0
<1>2. \A i \in 1 .. Len(a) + Len(b) : c[i] = IF i <= Len(a) THEN a[i] ELSE b[i - Len(a)]
  BY <1>0, ConcatProperties
<1>3. ASSUME NEW i \in 1 .. Len(a) PROVE c[i] = a[i]
  BY <1>1, <1>2
<1>4. ASSUME NEW i \in 1 .. Len(b) PROVE c[Len(a) + i] = b[i]
  <2>1. PICK k : k = Len(a) + i
    OBVIOUS
  <2>2. k \in 1 .. Len(a) + Len(b) /\ ~(k <= Len(a)) /\ k - Len(a) = i
    BY <2>1, <1>1
  <2>3. c[k] = b[k - Len(a)]
    BY <2>2, <1>2
  <2> QED BY <2>1, <2>2, <2>3
<1>5. Follows(c, a, b)
  BY <1>1, <1>3, <1>4 DEF Follows
<1> QED BY <1>0, <1>1, <1>5


LEMMA Joined ==
  ASSUME NEW S, NEW a \in Seq(S), NEW b \in Seq(S), NEW c \in Seq(S), NEW ab, NEW d,
         Follows(ab, a, b), Follows(d, ab, c)
  PROVE  /\ Len(d) = Len(a) + Len(b) + Len(c)
         /\ \A i \in 1 .. Len(a) : d[i] = a[i]
         /\ \A i \in 1 .. Len(b) : d[Len(a) + i] = b[i]
         /\ \A i \in 1 .. Len(c) : d[Len(a) + Len(b) + i] = c[i]
<1>1. Len(a) \in Nat /\ Len(b) \in Nat /\ Len(c) \in Nat
  OBVIOUS
<1>2. Len(ab) = Len(a) + Len(b) /\ Len(d) = Len(ab) + Len(c)
  BY DEF Follows
<1>3. ASSUME NEW i \in 1 .. Len(a) PROVE d[i] = a[i]
  <2>1. ab[i] = a[i] /\ i \in 1 .. Len(ab)
    BY <1>1, <1>2 DEF Follows
  <2> QED BY <2>1 DEF Follows
<1>4. ASSUME NEW i \in 1 .. Len(b) PROVE d[Len(a) + i] = b[i]
  <2>1. ab[Len(a) + i] = b[i] /\ Len(a) + i \in 1 .. Len(ab)
    BY <1>1, <1>2 DEF Follows
  <2> QED BY <2>1 DEF Follows
<1>5. ASSUME NEW i \in 1 .. Len(c) PROVE d[Len(a) + Len(b) + i] = c[i]
  BY <1>2 DEF Follows
<1> QED BY <1>1, <1>2, <1>3, <1>4, <1>5

LEMMA Listed ==
  ASSUME NEW n \in Nat, NEW f, f = [k \in 1 .. n |-> f[k]],
         NEW S, \A k \in 1 .. n : f[k] \in S
  PROVE  f \in Seq(S) /\ Len(f) = n
<1>1. f \in [1 .. n -> S]
  OBVIOUS
<1> QED BY <1>1

\* A page is laid out as the app and the decoder expect it.
LEMMA PageLaid ==
  ASSUME NEW version, NEW fields \in Seq(Nat), Layout(version, Len(fields)),
         NEW points, Len(points) \in 2 .. 10,
         NEW page \in 0 .. T!Pages(Len(points), Len(fields), version) - 1
  PROVE  Laid(T!Page(version, fields, points, page), version, fields, points, page)
<1>1. PICK length : length = Len(fields)
  OBVIOUS
<1>2. PICK n : n = Len(points)
  OBVIOUS
<1>3. PICK per : per = T!Points_Per_Page(length, version)
  OBVIOUS
<1>4. PICK pages : pages = T!Pages(n, length, version)
  OBVIOUS
<1>5. PICK count : count = T!Count(n, page, per)
  OBVIOUS
<1>6. PICK size : size = T!Coordinate_Bytes(version)
  OBVIOUS
<1>7. /\ size \in {3, 4} /\ per \in {7, 8, 10} /\ count \in 1 .. per /\ page \in Nat
      /\ version \in {1, 2} /\ length \in Nat /\ pages \in Nat /\ n \in 2 .. 10
  <2>1. version \in {1, 2} /\ length \in {3, 4, 9} /\ Layout(version, length) /\ n \in 2 .. 10
    BY <1>1, <1>2 DEF Layout
  <2>2. /\ size = IF version = 2 THEN 3 ELSE 4
        /\ per = IF version = 2 THEN IF length = 3 THEN 10 ELSE 8 ELSE 7
        /\ pages = IF n <= per THEN 1 ELSE 2
    BY <2>1, <1>3, <1>4, <1>6, Paged
  <2>3. page \in 0 .. pages - 1
    BY <1>1, <1>2, <1>4
  <2>4. page \in Nat /\ pages \in Nat
    BY <2>2, <2>3
  <2>5. count \in 1 .. per
    BY <2>1, <2>3, <1>3, <1>4, <1>5, Paged
  <2> QED BY <2>1, <2>2, <2>4, <2>5
<1>8. count * size \in Nat /\ page * per \in Nat /\ count \in Nat
  BY <1>7
<1>9. PICK bytes : bytes = T!Corner_Bytes(version, points, page * per, count)
  OBVIOUS
<1>10. Cornered(bytes, version, points, page * per, count, size)
  BY <1>6, <1>7, <1>8, <1>9, CornerBytes
<1>11. PICK head : head = <<version, 1, 1, 0, 1, 0, 1, 0, page, pages, page * per, count, n>>
  OBVIOUS
<1>12. PICK S : S = Nat \cup {bytes[k] : k \in 1 .. count * size}
  OBVIOUS
<1>13. bytes \in Seq(S) /\ Len(bytes) = count * size
  <2>1. bytes = [k \in 1 .. count * size |-> bytes[k]]
    BY <1>10 DEF Cornered
  <2>2. \A k \in 1 .. count * size : bytes[k] \in S
    BY <1>12
  <2> QED BY <1>8, <2>1, <2>2, Listed
<1>14. head \in Seq(S) /\ fields \in Seq(S)
  <2>1. head \in Seq(Nat)
    BY <1>7, <1>8, <1>11
  <2>2. Nat \subseteq S
    BY <1>12
  <2> QED BY <2>1, <2>2
<1>15. /\ Len(head) = 13 /\ head[1] = version /\ head[9] = page /\ head[10] = pages
       /\ head[11] = page * per /\ head[12] = count /\ head[13] = n
  BY <1>11
<1>a. PICK both : both = head \o fields
  OBVIOUS
<1>b. both \in Seq(S) /\ Follows(both, head, fields)
  BY <1>14, <1>a, After
<1>16. PICK body : body = both \o bytes
  OBVIOUS
<1>c. Follows(body, both, bytes)
  BY <1>13, <1>16, <1>b, After
<1>17. /\ Len(body) = 13 + length + count * size
       /\ \A i \in 1 .. 13 : body[i] = head[i]
       /\ \A i \in 1 .. length : body[13 + i] = fields[i]
       /\ \A k \in 1 .. count * size : body[13 + length + k] = bytes[k]
  <2>1. /\ Len(body) = Len(head) + Len(fields) + Len(bytes)
        /\ \A i \in 1 .. Len(head) : body[i] = head[i]
        /\ \A i \in 1 .. Len(fields) : body[Len(head) + i] = fields[i]
        /\ \A i \in 1 .. Len(bytes) : body[Len(head) + Len(fields) + i] = bytes[i]
    BY <1>13, <1>14, <1>b, <1>c, Joined
  <2> QED BY <2>1, <1>1, <1>13, <1>15
<1>18. ASSUME NEW i \in 1 .. count, NEW j \in 1 .. size
       PROVE  body[13 + length + (i - 1) * size + j] = T!Point(version, points[page * per + i])[j]
  <2>1. PICK k : k = (i - 1) * size + j
    OBVIOUS
  <2>2. k \in 1 .. count * size /\ bytes[k] = T!Point(version, points[page * per + i])[j]
    BY <2>1, <1>10 DEF Cornered
  <2>3. 13 + length + (i - 1) * size + j = 13 + length + k
    BY <2>1, <1>7
  <2> QED BY <2>2, <2>3, <1>17
<1>19. /\ body[1] = version /\ body[9] = page /\ body[10] = pages
       /\ body[11] = page * per /\ body[12] = count /\ body[13] = n
  BY <1>15, <1>17
<1>20. T!Page(version, fields, points, page) = body
  BY <1>1, <1>2, <1>3, <1>4, <1>5, <1>9, <1>11, <1>16, <1>a DEF T!Page
<1>21. Laid(body, version, fields, points, page)
  BY <1>1, <1>2, <1>3, <1>4, <1>5, <1>6, <1>17, <1>18, <1>19 DEF Laid
<1> QED BY <1>20, <1>21

LEMMA IntegerPointRead ==
  ASSUME NEW x \in T!Thousandth, NEW y \in T!Thousandth, NEW body, NEW offset \in Nat,
         \A j \in 1 .. 3 : body[offset + j] = T!Write_Integer_Point(x, y)[j]
  PROVE  T!Read_Integer_Point(body, offset) = <<x, y>>
<1>1. PICK p : p = x + 1024 * y
  OBVIOUS
<1>2. PICK a : a = p % 256
  OBVIOUS
<1>3. PICK b : b = (p \div 256) % 256
  OBVIOUS
<1>4. PICK c : c = (p \div 65536) % 16
  OBVIOUS
<1>5. T!Write_Integer_Point(x, y) = <<a, b, c>>
  BY <1>1, <1>2, <1>3, <1>4 DEF T!Write_Integer_Point
<1>6. p \in Int /\ ThreeBytes(p, x, y)
  <2>1. x \in Int /\ y \in Int
    BY DEF T!Thousandth
  <2> QED BY <2>1, <1>1, WirePacked
<1>7. a \in 0 .. 255 /\ b \in 0 .. 255 /\ c \in 0 .. 15 /\ a + 256 * b + 65536 * c = p
  <2>1. a \in 0 .. 255 /\ b \in 0 .. 255 /\ c \in 0 .. 15
    BY <1>2, <1>3, <1>4, <1>6 DEF ThreeBytes
  <2>2. a + 256 * b + 65536 * c = p
    BY <1>2, <1>3, <1>4, <1>6 DEF ThreeBytes
  <2> QED BY <2>1, <2>2
<1>8. body[offset + 1] = a /\ body[offset + 2] = b /\ body[offset + 3] = c
  BY <1>5
<1>9. T!Read_Integer_Point(body, offset) = <<p % 1024, p \div 1024>>
  BY <1>7, <1>8 DEF T!Read_Integer_Point, T!Read_U16
<1>10. p % 1024 = x /\ p \div 1024 = y
  BY <1>6 DEF ThreeBytes
<1> QED BY <1>9, <1>10

LEMMA TwoAndTwo ==
  ASSUME NEW a1 \in Int, NEW a2 \in Int, NEW b1 \in Int, NEW b2 \in Int
  PROVE  <<a1, a2>> \o <<b1, b2>> = <<a1, a2, b1, b2>>
<1>1. PICK all : all = <<a1, a2>> \o <<b1, b2>>
  OBVIOUS
<1>2. <<a1, a2>> \in Seq(Int) /\ <<b1, b2>> \in Seq(Int)
  OBVIOUS
<1>3. all \in Seq(Int) /\ Follows(all, <<a1, a2>>, <<b1, b2>>)
  BY <1>1, <1>2, After
<1>4. Len(all) = 4 /\ all[1] = a1 /\ all[2] = a2 /\ all[3] = b1 /\ all[4] = b2
  BY <1>3 DEF Follows
<1>5. all = <<a1, a2, b1, b2>>
  BY <1>3, <1>4
<1> QED BY <1>1, <1>5
\* The bytes of a number and how they are read.
LEMMA NumberRead ==
  ASSUME NEW n \in T!Word
  PROVE  /\ T!U16(n) \in Seq(Nat) /\ Len(T!U16(n)) = 2
         /\ T!U16(n)[1] \in 0 .. 255 /\ T!U16(n)[2] \in 0 .. 255
         /\ T!U16(n)[1] + 256 * T!U16(n)[2] = n
         /\ T!U16(n) = <<T!U16(n)[1], T!U16(n)[2]>>
<1>1. PICK a : a = n % 256
  OBVIOUS
<1>2. PICK b : b = (n \div 256) % 256
  OBVIOUS
<1>3. T!U16(n) = <<a, b>>
  BY <1>1, <1>2 DEF T!U16, T!Low, T!High
<1>4. a \in 0 .. 255 /\ b \in 0 .. 255
  BY <1>1, <1>2, WireU16 DEF TwoBytes
<1>5. a + 256 * b = n
  BY <1>1, <1>2, WireU16 DEF TwoBytes
<1> QED BY <1>3, <1>4, <1>5

Says(bytes, x, y) ==
  \A body : \A offset \in Nat :
    (\A j \in 1 .. 4 : body[offset + j] = bytes[j]) =>
      /\ T!Signed(T!Read_U16(body, offset)) = x
      /\ T!Signed(T!Read_U16(body, offset + 2)) = y

LEMMA LegacyPointRead ==
  ASSUME NEW x, NEW y, NEW a \in T!Word, NEW b \in T!Word,
         T!Signed(a) = x, T!Signed(b) = y, NEW one, NEW other, one = T!U16(a), other = T!U16(b)
  PROVE  Says(one \o other, x, y)
<1>5. PICK a1 : a1 = T!U16(a)[1]
  OBVIOUS
<1>6. PICK a2 : a2 = T!U16(a)[2]
  OBVIOUS
<1>7. PICK b1 : b1 = T!U16(b)[1]
  OBVIOUS
<1>8. PICK b2 : b2 = T!U16(b)[2]
  OBVIOUS
<1>9. a1 \in Int /\ a2 \in Int /\ a1 + 256 * a2 = a /\ one = <<a1, a2>>
  BY <1>5, <1>6, NumberRead
<1>10. b1 \in Int /\ b2 \in Int /\ b1 + 256 * b2 = b /\ other = <<b1, b2>>
  BY <1>7, <1>8, NumberRead
<1>11. one \o other = <<a1, a2, b1, b2>>
  <2>1. <<a1, a2>> \o <<b1, b2>> = <<a1, a2, b1, b2>>
    BY <1>9, <1>10, TwoAndTwo
  <2> QED BY <2>1, <1>9, <1>10, Zenon
<1>12. ASSUME NEW body, NEW offset \in Nat,
              \A j \in 1 .. 4 : body[offset + j] = <<a1, a2, b1, b2>>[j]
       PROVE  /\ T!Signed(T!Read_U16(body, offset)) = x
              /\ T!Signed(T!Read_U16(body, offset + 2)) = y
  <2>1. /\ body[offset + 1] = a1 /\ body[offset + 2] = a2
        /\ body[offset + 3] = b1 /\ body[offset + 4] = b2
    BY <1>12
  <2>2. T!Read_U16(body, offset) = a
    BY <1>9, <2>1 DEF T!Read_U16
  <2>3. T!Read_U16(body, offset + 2) = b
    <3>1. body[offset + 2 + 1] = b1 /\ body[offset + 2 + 2] = b2
      BY <2>1
    <3> QED BY <3>1, <1>10 DEF T!Read_U16
  <2> QED BY <2>2, <2>3
<1>13. Says(<<a1, a2, b1, b2>>, x, y)
  BY <1>12 DEF Says
<1> QED BY <1>11, <1>13

\* The layouts of a port.
Suits(p, version, length) ==
  /\ p \in T!Scenes
  /\ \/ p # 133 /\ version \in {1, 2} /\ length = 3
     \/ p = 133 /\ version = 2 /\ length = 9
     \/ p = 133 /\ version = 1 /\ length = 4

\* The length of the fields is what the app and the decoder take it for.
LEMMA LengthFound ==
  ASSUME NEW p, NEW version, NEW fields, Suits(p, version, Len(fields)),
         NEW points, Len(points) \in 2 .. 10,
         NEW page \in 0 .. T!Pages(Len(points), Len(fields), version) - 1,
         NEW body, Laid(body, version, fields, points, page)
  PROVE  /\ T!Expected(body, Len(fields)) /\ Len(fields) \in T!Tried(p)
         /\ T!Static_Length(p, body) = Len(fields)
         /\ T!Field_Length(p, body) = Len(fields)
         /\ Len(body) <= 47
<1>1. PICK length : length = Len(fields)
  OBVIOUS
<1>2. PICK n : n = Len(points)
  OBVIOUS
<1>3. PICK count : count = T!Count(n, page, T!Points_Per_Page(length, version))
  OBVIOUS
<1>4. Layout(version, length) /\ version \in {1, 2} /\ length \in {3, 4, 9}
  BY <1>1 DEF Suits, Layout
<1>5. count \in Nat /\ page \in Nat /\ T!Coordinate_Bytes(version) = (IF version = 2 THEN 3 ELSE 4)
      /\ 13 + length + count * T!Coordinate_Bytes(version) <= 47
      /\ page < T!Pages(n, length, version)
  <2>1. n \in 2 .. 10
    BY <1>2
  <2>2. page \in 0 .. T!Pages(n, length, version) - 1
    BY <1>1, <1>2
  <2>3. T!Pages(n, length, version) \in {1, 2} /\ T!Points_Per_Page(length, version) \in {7, 8, 10}
    BY <2>1, <1>4, Paged
  <2>4. count \in 1 .. T!Points_Per_Page(length, version)
    BY <2>1, <2>2, <1>3, <1>4, Paged
  <2>5. 13 + length + count * T!Coordinate_Bytes(version) <= 47
    BY <2>1, <2>2, <1>3, <1>4, Paged
  <2>6. T!Coordinate_Bytes(version) = (IF version = 2 THEN 3 ELSE 4)
    BY DEF T!Coordinate_Bytes
  <2>7. page \in Nat /\ page < T!Pages(n, length, version)
    BY <2>2, <2>3
  <2>8. count \in Nat
    BY <2>3, <2>4
  <2> QED BY <2>5, <2>6, <2>7, <2>8
<1>6. /\ Len(body) = 13 + length + count * T!Coordinate_Bytes(version)
      /\ body[1] = version /\ body[9] = page /\ body[10] = T!Pages(n, length, version)
      /\ body[11] = page * T!Points_Per_Page(length, version) /\ body[12] = count /\ body[13] = n
  BY <1>1, <1>2, <1>3 DEF Laid
<1>7. T!Expected(body, length)
  BY <1>3, <1>5, <1>6 DEF T!Expected
<1>8. ASSUME NEW other \in {3, 4, 9}, T!Expected(body, other)
      PROVE  other = length
  <2>1. Len(body) = 13 + other + count * T!Coordinate_Bytes(version)
    BY <1>6, <1>8 DEF T!Expected
  <2>2. count * T!Coordinate_Bytes(version) \in Nat
    BY <1>5
  <2> QED BY <2>1, <2>2, <1>4, <1>6
<1>9. length \in T!Tried(p) /\ T!Tried(p) \subseteq {3, 4, 9}
  BY <1>1 DEF Suits, T!Tried, T!Static_Field_Length, T!Legacy_Static_Field_Length
<1>10. T!Static_Length(p, body) = length
  BY <1>7, <1>8, <1>9, <1>4 DEF T!Static_Length
<1>11. T!Field_Length(p, body) = length
  <2>1. CASE p # 133
    BY <2>1, <1>1 DEF T!Field_Length, Suits
  <2>2. CASE p = 133 /\ version = 2
    <3>a. length = 9
      BY <2>2, <1>1 DEF Suits
    <3>b. T!Coordinate_Bytes(version) = 3 /\ count \in Nat
      BY <2>2, <1>5
    <3>c. Len(body) = 13 + 9 + count * 3
      BY <1>6, <3>a, <3>b
    <3>1. length = 9 /\ Len(body) = 22 + 3 * count /\ count \in Nat
      BY <3>a, <3>b, <3>c
    <3>2. body[12] = count /\ body[1] = 2
      BY <2>2, <1>6
    <3> QED BY <2>2, <3>1, <3>2 DEF T!Field_Length
  <2>3. CASE p = 133 /\ version = 1
    BY <2>3, <1>1, <1>5, <1>6 DEF T!Field_Length, Suits
  <2> QED BY <2>1, <2>2, <2>3, <1>4
<1> QED BY <1>1, <1>5, <1>6, <1>7, <1>9, <1>10, <1>11

\* A corner as the app takes it.
Taken(q) == <<T!Integer_Coordinate_To_Q15(q[1]), T!Integer_Coordinate_To_Q15(q[2])>>
Grid == T!Thousandth \X T!Thousandth

CornerAt(version, q, body, offset) ==
  \A j \in 1 .. T!Coordinate_Bytes(version) : body[offset + j] = T!Point(version, q)[j]
CornerSaid(version, q, body, offset) ==
  /\ version = 2 => T!Read_Integer_Point(body, offset) = q
  /\ version = 1 => /\ T!Signed(T!Read_U16(body, offset)) = Taken(q)[1]
                    /\ T!Signed(T!Read_U16(body, offset + 2)) = Taken(q)[2]
                    /\ T!Coordinate(1, T!Read_U16(body, offset)) = q[1]
                    /\ T!Coordinate(1, T!Read_U16(body, offset + 2)) = q[2]

LEMMA CornerRead ==
  ASSUME NEW version \in {1, 2}, NEW q \in Grid, NEW body, NEW offset \in Nat,
         CornerAt(version, q, body, offset)
  PROVE  CornerSaid(version, q, body, offset)
<1>1. PICK x : x = q[1]
  OBVIOUS
<1>2. PICK y : y = q[2]
  OBVIOUS
<1>3. x \in T!Thousandth /\ y \in T!Thousandth /\ q = <<x, y>>
  BY <1>1, <1>2 DEF Grid
<1>4. CASE version = 2
  <2>1. T!Point(version, q) = T!Write_Integer_Point(x, y) /\ T!Coordinate_Bytes(version) = 3
    BY <1>1, <1>2, <1>4 DEF T!Point, T!Coordinate_Bytes
  <2>2. \A j \in 1 .. 3 : body[offset + j] = T!Write_Integer_Point(x, y)[j]
    BY <2>1 DEF CornerAt
  <2> QED BY <2>2, <1>3, <1>4, IntegerPointRead DEF CornerSaid
<1>5. CASE version = 1
  <2>1. PICK qx : qx = T!Integer_Coordinate_To_Q15(x)
    OBVIOUS
  <2>2. PICK qy : qy = T!Integer_Coordinate_To_Q15(y)
    OBVIOUS
  <2>3. qx \in T!Vertex /\ qy \in T!Vertex
    BY <1>3, <2>1, <2>2, TakenIs
  <2>4. PICK a : a = qx % 65536
    OBVIOUS
  <2>5. PICK b : b = qy % 65536
    OBVIOUS
  <2>6. a \in T!Word /\ b \in T!Word /\ T!Signed(a) = qx /\ T!Signed(b) = qy
    BY <2>3, <2>4, <2>5, WireSigned
  <2>7. PICK one : one = T!U16(a)
    OBVIOUS
  <2>8. PICK other : other = T!U16(b)
    OBVIOUS
  <2>9. PICK bytes : bytes = one \o other
    OBVIOUS
  <2>10. Says(bytes, qx, qy)
    BY <2>6, <2>7, <2>8, <2>9, LegacyPointRead
  <2>11. T!Point(version, q) = bytes /\ T!Coordinate_Bytes(version) = 4
    BY <1>1, <1>2, <1>5, <2>1, <2>2, <2>4, <2>5, <2>7, <2>8, <2>9 DEF T!Point, T!Coordinate_Bytes
  <2>12. \A j \in 1 .. 4 : body[offset + j] = bytes[j]
    BY <2>11 DEF CornerAt
  <2>13. T!Signed(T!Read_U16(body, offset)) = qx /\ T!Signed(T!Read_U16(body, offset + 2)) = qy
    BY <2>10, <2>12 DEF Says
  <2>14. qx = Taken(q)[1] /\ qy = Taken(q)[2]
    BY <1>1, <1>2, <2>1, <2>2 DEF Taken
  <2>15. T!Encode_Integer_Coordinate(qx) = x /\ T!Encode_Integer_Coordinate(qy) = y
    BY <1>3, <2>1, <2>2, TakenIs
  <2>16. \A value : T!Coordinate(1, value) = T!Encode_Integer_Coordinate(T!Signed(value))
    BY DEF T!Coordinate, T!Encode_Integer_Coordinate
  <2> QED BY <1>1, <1>2, <1>5, <2>13, <2>14, <2>15, <2>16 DEF CornerSaid
<1> QED BY <1>4, <1>5

\* The corners of a page are read as they were written.
Slice(body, points) == [i \in 1 .. body[12] |-> points[body[11] + i]]
CornersSaid(body, version, length, points, n) ==
  /\ body[12] \in 1 .. n /\ body[11] \in Nat /\ body[11] + body[12] <= n
  /\ T!Decoded_Points(body, length) = Slice(body, points)
  /\ T!Read_Points(body, length) = [i \in 1 .. body[12] |-> Taken(points[body[11] + i])]
  /\ version = 2 => \A i \in 1 .. body[12] :
       T!Read_Integer_Point(body, 13 + length + (i - 1) * 3) = points[body[11] + i]

LEMMA PointsRead ==
  ASSUME NEW version, NEW fields, NEW length \in Nat, length = Len(fields), Layout(version, length),
         NEW n \in 2 .. 10, NEW points \in [1 .. n -> Grid], Len(points) = n,
         NEW page \in 0 .. T!Pages(n, length, version) - 1,
         NEW body, Laid(body, version, fields, points, page)
  PROVE  CornersSaid(body, version, length, points, n)
<1>a. PICK start : start = body[11]
  OBVIOUS
<1>b. PICK count : count = body[12]
  OBVIOUS
<1>1. PICK size : size = T!Coordinate_Bytes(version)
  OBVIOUS
<1>2. version \in {1, 2} /\ size = IF version = 2 THEN 3 ELSE 4
  BY <1>1 DEF Layout, T!Coordinate_Bytes
<1>3. PICK per : per = T!Points_Per_Page(length, version)
  OBVIOUS
<1>4. /\ body[1] = version /\ count = T!Count(n, page, per) /\ start = page * per
      /\ \A i \in 1 .. count : \A j \in 1 .. size :
          body[13 + length + (i - 1) * size + j] = T!Point(version, points[start + i])[j]
  BY <1>a, <1>b, <1>1, <1>3 DEF Laid
<1>5. count \in 1 .. per /\ per \in {7, 8, 10} /\ page \in {0, 1}
  <2>a. per = IF version = 2 THEN IF length = 3 THEN 10 ELSE 8 ELSE 7
    BY <1>3, Paged
  <2>b. T!Pages(n, length, version) = IF n <= per THEN 1 ELSE 2
    BY <1>3, Paged
  <2>1. T!Pages(n, length, version) \in {1, 2} /\ per \in {7, 8, 10}
    BY <2>a, <2>b
  <2>2. count \in 1 .. per
    BY <1>3, <1>4, Paged
  <2> QED BY <2>1, <2>2
<1>6. count \in 1 .. n /\ start \in Nat /\ start + count <= n
  <2>1. page < T!Pages(n, length, version) /\ T!Pages(n, length, version) = IF n <= per THEN 1 ELSE 2
    <3>1. T!Pages(n, length, version) = IF n <= per THEN 1 ELSE 2
      BY <1>3, Paged
    <3> QED BY <3>1
  <2>2. T!Count(n, page, per) = IF n - page * per > per THEN per ELSE n - page * per
    BY DEF T!Count
  <2>3. CASE page = 0
    BY <2>2, <2>3, <1>4, <1>5
  <2>4. CASE page = 1
    BY <2>2, <2>4, <1>4, <1>5
  <2> QED BY <2>3, <2>4, <1>5
<1>7. ASSUME NEW i \in 1 .. count
      PROVE  /\ points[start + i] \in Grid
             /\ CornerSaid(version, points[start + i], body, 13 + length + (i - 1) * size)
  <2>1. points[start + i] \in Grid
    BY <1>6
  <2>2. PICK offset : offset = 13 + length + (i - 1) * size
    OBVIOUS
  <2>3. offset \in Nat
    BY <1>2, <2>2
  <2>4. PICK q : q = points[start + i]
    OBVIOUS
  <2>5. CornerAt(version, q, body, offset)
    BY <1>1, <1>4, <2>2, <2>4 DEF CornerAt
  <2>6. CornerSaid(version, q, body, offset)
    BY <1>2, <2>1, <2>3, <2>4, <2>5, CornerRead
  <2> QED BY <2>1, <2>2, <2>4, <2>6
<1>8. T!Decoded_Points(body, length) = [i \in 1 .. count |-> points[start + i]]
  <2>1. CASE version = 2
    <3>1. T!Decoded_Points(body, length) =
            [i \in 1 .. count |->
               <<T!Read_Integer_Point(body, 13 + length + (i - 1) * size)[1],
                 T!Read_Integer_Point(body, 13 + length + (i - 1) * size)[2]>>]
      BY <1>b, <1>1, <1>4, <2>1 DEF T!Decoded_Points, T!Coordinate
    <3>2. ASSUME NEW i \in 1 .. count
          PROVE  <<T!Read_Integer_Point(body, 13 + length + (i - 1) * size)[1],
                   T!Read_Integer_Point(body, 13 + length + (i - 1) * size)[2]>> = points[start + i]
      BY <1>7, <2>1 DEF CornerSaid, Grid
    <3> QED BY <3>1, <3>2
  <2>2. CASE version = 1
    <3>1. T!Decoded_Points(body, length) =
            [i \in 1 .. count |->
               <<T!Coordinate(1, T!Read_U16(body, 13 + length + (i - 1) * size)),
                 T!Coordinate(1, T!Read_U16(body, 13 + length + (i - 1) * size + 2))>>]
      BY <1>b, <1>1, <1>4, <2>2 DEF T!Decoded_Points
    <3>2. ASSUME NEW i \in 1 .. count
          PROVE  <<T!Coordinate(1, T!Read_U16(body, 13 + length + (i - 1) * size)),
                   T!Coordinate(1, T!Read_U16(body, 13 + length + (i - 1) * size + 2))>> = points[start + i]
      BY <1>7, <2>2 DEF CornerSaid, Grid
    <3> QED BY <3>1, <3>2
  <2> QED BY <2>1, <2>2, <1>2
<1>9. T!Read_Points(body, length) = [i \in 1 .. count |-> Taken(points[start + i])]
  <2>1. CASE version = 2
    <3>1. T!Read_Points(body, length) =
            [i \in 1 .. count |-> Taken(T!Read_Integer_Point(body, 13 + length + (i - 1) * size))]
      BY <1>b, <1>1, <1>4, <2>1 DEF T!Read_Points, Taken
    <3>2. ASSUME NEW i \in 1 .. count
          PROVE  T!Read_Integer_Point(body, 13 + length + (i - 1) * size) = points[start + i]
      BY <1>7, <2>1 DEF CornerSaid
    <3> QED BY <3>1, <3>2
  <2>2. CASE version = 1
    <3>1. T!Read_Points(body, length) =
            [i \in 1 .. count |->
               <<T!Signed(T!Read_U16(body, 13 + length + (i - 1) * size)),
                 T!Signed(T!Read_U16(body, 13 + length + (i - 1) * size + 2))>>]
      BY <1>b, <1>1, <1>4, <2>2 DEF T!Read_Points
    <3>2. ASSUME NEW i \in 1 .. count
          PROVE  <<T!Signed(T!Read_U16(body, 13 + length + (i - 1) * size)),
                   T!Signed(T!Read_U16(body, 13 + length + (i - 1) * size + 2))>> = Taken(points[start + i])
      BY <1>7, <2>2 DEF CornerSaid, Taken
    <3> QED BY <3>1, <3>2
  <2> QED BY <2>1, <2>2, <1>2
<1>10. version = 2 => \A i \in 1 .. count :
         T!Read_Integer_Point(body, 13 + length + (i - 1) * 3) = points[start + i]
  BY <1>2, <1>7 DEF CornerSaid
<1>11. Slice(body, points) = [i \in 1 .. count |-> points[start + i]]
  BY <1>a, <1>b DEF Slice
<1> QED BY <1>a, <1>b, <1>6, <1>8, <1>9, <1>10, <1>11 DEF CornersSaid

FieldLength(p, version) == IF p = 133 THEN (IF version = 2 THEN 9 ELSE 4) ELSE 3
SentFields(p, version, c) == IF version = 2 THEN T!Fields(p, c) ELSE T!Legacy_Fields(p, c)

\* The values that the fields of a scene may have, whatever its corners.
FieldsOf(p, c) ==
  /\ c.classes \subseteq 0 .. 5
  /\ p = 131 => c = [rightToLeft |-> c.rightToLeft, classes |-> c.classes, points |-> c.points]
                /\ c.rightToLeft \in BOOLEAN
  /\ p = 132 => c = [classes |-> c.classes, value |-> c.value, points |-> c.points]
                /\ c.value \in 0 .. 2
  /\ p = 133 => /\ c = [classes |-> c.classes, threshold |-> c.threshold, delay |-> c.delay,
                        schedule |-> c.schedule, points |-> c.points]
                /\ c.threshold \in 0 .. 255 /\ c.delay \in T!Word
                /\ c.schedule \in BOOLEAN \X T!Minute \X T!Minute

LEMMA SceneFields ==
  ASSUME NEW p \in T!Scenes, NEW side, NEW thresholds \in SUBSET (0 .. 255),
         NEW delays \in SUBSET T!Word, NEW c \in T!Scene(p, side, thresholds, delays)
  PROVE  FieldsOf(p, c) /\ c.points \in T!Corners(p, side)
<1>1. CASE p = 131
  BY <1>1 DEF T!Scene, FieldsOf
<1>2. CASE p = 132
  BY <1>2 DEF T!Scene, FieldsOf
<1>3. CASE p = 133
  BY <1>3 DEF T!Scene, FieldsOf
<1> QED BY <1>1, <1>2, <1>3 DEF T!Scenes

LEMMA ByteOf ==
  ASSUME NEW n \in T!Word
  PROVE  T!Low(n) \in 0 .. 255 /\ T!High(n) \in 0 .. 255 /\ T!Low(n) + 256 * T!High(n) = n
BY WireU16 DEF TwoBytes, T!Low, T!High

LEMMA TimesOfDay ==
  ASSUME NEW schedule \in BOOLEAN \X T!Minute \X T!Minute
  PROVE  /\ schedule = <<schedule[1], schedule[2], schedule[3]>> /\ schedule[1] \in BOOLEAN
         /\ schedule[2] \in T!Minute /\ schedule[3] \in T!Minute
         /\ schedule[2] \in T!Word /\ schedule[3] \in T!Word
<1>1. /\ schedule = <<schedule[1], schedule[2], schedule[3]>> /\ schedule[1] \in BOOLEAN
      /\ schedule[2] \in T!Minute /\ schedule[3] \in T!Minute
  OBVIOUS
<1>2. \A n \in T!Minute : n \in T!Word
  BY DEF T!Minute, T!Word
<1> QED BY <1>1, <1>2

LEMMA FieldsTyped ==
  ASSUME NEW p \in T!Scenes, NEW version \in {1, 2}, NEW c, FieldsOf(p, c)
  PROVE  /\ SentFields(p, version, c) \in Seq(Nat)
         /\ Len(SentFields(p, version, c)) = FieldLength(p, version)
         /\ \A i \in 1 .. FieldLength(p, version) : SentFields(p, version, c)[i] = T!Fields(p, c)[i]
         /\ Suits(p, version, FieldLength(p, version))
<1>1. T!Mask(c.classes) \in Nat
  BY WireMask DEF FieldsOf
<1>2. T!Fields(p, c) \in Seq(Nat) /\ Len(T!Fields(p, c)) = FieldLength(p, 2)
  <2>1. CASE p = 131
    BY <2>1, <1>1 DEF T!Fields, FieldLength, FieldsOf
  <2>2. CASE p = 132
    BY <2>2, <1>1 DEF T!Fields, FieldLength, FieldsOf
  <2>3. CASE p = 133
    <3>1. /\ T!Low(c.delay) \in Nat /\ T!High(c.delay) \in Nat
          /\ T!Low(c.schedule[2]) \in Nat /\ T!High(c.schedule[2]) \in Nat
          /\ T!Low(c.schedule[3]) \in Nat /\ T!High(c.schedule[3]) \in Nat
          /\ c.threshold \in Nat
      <4>1. c.delay \in T!Word /\ c.schedule[2] \in T!Word /\ c.schedule[3] \in T!Word
        BY <2>3, TimesOfDay DEF FieldsOf
      <4>2. /\ T!Low(c.delay) \in 0 .. 255 /\ T!High(c.delay) \in 0 .. 255
            /\ T!Low(c.schedule[2]) \in 0 .. 255 /\ T!High(c.schedule[2]) \in 0 .. 255
            /\ T!Low(c.schedule[3]) \in 0 .. 255 /\ T!High(c.schedule[3]) \in 0 .. 255
        BY <4>1, ByteOf
      <4>3. c.threshold \in Nat
        BY <2>3 DEF FieldsOf
      <4> QED BY <4>2, <4>3
    <3> QED BY <2>3, <3>1, <1>1 DEF T!Fields, FieldLength
  <2> QED BY <2>1, <2>2, <2>3 DEF T!Scenes
<1>3. CASE version = 2
  BY <1>2, <1>3 DEF SentFields, FieldLength, Suits
<1>4. CASE version = 1
  <2>1. SentFields(p, version, c) = SubSeq(T!Fields(p, c), 1, FieldLength(p, version))
    BY <1>4 DEF SentFields, T!Legacy_Fields, FieldLength
  <2>2. FieldLength(p, version) \in 1 .. FieldLength(p, 2)
    BY <1>4 DEF FieldLength
  <2>3. /\ SentFields(p, version, c) \in Seq(Nat)
        /\ Len(SentFields(p, version, c)) = FieldLength(p, version)
        /\ \A i \in 1 .. FieldLength(p, version) : SentFields(p, version, c)[i] = T!Fields(p, c)[i]
    BY <1>2, <2>1, <2>2
  <2> QED BY <1>4, <2>3 DEF FieldLength, Suits
<1> QED BY <1>3, <1>4

\* The fields as they stand on a page.
Fielded(p, version, c, body) ==
  \A i \in 1 .. FieldLength(p, version) : body[13 + i] = T!Fields(p, c)[i]

\* What they are taken for: an older sender knows no schedules.
Meant(p, version, c) ==
  IF p = 133 /\ version = 1 THEN [c EXCEPT !.schedule = <<FALSE, 1080, 360>>] ELSE c

LEMMA FieldsRead ==
  ASSUME NEW p \in T!Scenes, NEW version \in {1, 2}, NEW c, FieldsOf(p, c),
         NEW body, Fielded(p, version, c, body)
  PROVE  /\ p = 131 => body[14] = (IF c.rightToLeft THEN 1 ELSE 0) /\ body[15] = T!Mask(c.classes) /\ body[16] = 0
         /\ p = 132 => body[14] = T!Mask(c.classes) /\ body[15] = c.value /\ body[16] = 0
         /\ p = 133 => body[14] = T!Mask(c.classes) /\ body[15] = c.threshold
                       /\ body[16] = T!Low(c.delay) /\ body[17] = T!High(c.delay)
                       /\ T!Read_U16(body, 15) = c.delay
         /\ p = 133 /\ version = 2 =>
              /\ body[18] = (IF c.schedule[1] THEN 1 ELSE 0)
              /\ T!Read_U16(body, 18) = c.schedule[2] /\ T!Read_U16(body, 20) = c.schedule[3]
<1>1. CASE p = 131
  <2>1. body[13 + 1] = T!Fields(p, c)[1] /\ body[13 + 2] = T!Fields(p, c)[2] /\ body[13 + 3] = T!Fields(p, c)[3]
    BY <1>1 DEF Fielded, FieldLength
  <2> QED BY <1>1, <2>1 DEF T!Fields
<1>2. CASE p = 132
  <2>1. body[13 + 1] = T!Fields(p, c)[1] /\ body[13 + 2] = T!Fields(p, c)[2] /\ body[13 + 3] = T!Fields(p, c)[3]
    BY <1>2 DEF Fielded, FieldLength
  <2> QED BY <1>2, <2>1 DEF T!Fields
<1>3. CASE p = 133
  <2>1. /\ body[13 + 1] = T!Fields(p, c)[1] /\ body[13 + 2] = T!Fields(p, c)[2]
        /\ body[13 + 3] = T!Fields(p, c)[3] /\ body[13 + 4] = T!Fields(p, c)[4]
    BY <1>3 DEF Fielded, FieldLength
  <2>2. /\ body[14] = T!Mask(c.classes) /\ body[15] = c.threshold
        /\ body[16] = T!Low(c.delay) /\ body[17] = T!High(c.delay)
    BY <1>3, <2>1 DEF T!Fields
  <2>3. c.delay \in T!Word /\ c.schedule[2] \in T!Word /\ c.schedule[3] \in T!Word
    BY <1>3, TimesOfDay DEF FieldsOf
  <2>4. T!Read_U16(body, 15) = c.delay
    <3>1. T!Low(c.delay) + 256 * T!High(c.delay) = c.delay
      BY <2>3, ByteOf
    <3> QED BY <2>2, <3>1 DEF T!Read_U16
  <2>5. CASE version = 2
    <3>1. /\ body[13 + 5] = T!Fields(p, c)[5] /\ body[13 + 6] = T!Fields(p, c)[6]
          /\ body[13 + 7] = T!Fields(p, c)[7] /\ body[13 + 8] = T!Fields(p, c)[8]
          /\ body[13 + 9] = T!Fields(p, c)[9]
      BY <1>3, <2>5 DEF Fielded, FieldLength
    <3>2. /\ body[18] = (IF c.schedule[1] THEN 1 ELSE 0)
          /\ body[19] = T!Low(c.schedule[2]) /\ body[20] = T!High(c.schedule[2])
          /\ body[21] = T!Low(c.schedule[3]) /\ body[22] = T!High(c.schedule[3])
      BY <1>3, <3>1 DEF T!Fields
    <3>3. T!Read_U16(body, 18) = c.schedule[2] /\ T!Read_U16(body, 20) = c.schedule[3]
      <4>1. /\ T!Low(c.schedule[2]) + 256 * T!High(c.schedule[2]) = c.schedule[2]
            /\ T!Low(c.schedule[3]) + 256 * T!High(c.schedule[3]) = c.schedule[3]
        BY <2>3, ByteOf
      <4> QED BY <3>2, <4>1 DEF T!Read_U16
    <3> QED BY <1>3, <2>2, <2>4, <3>2, <3>3
  <2> QED BY <1>3, <2>2, <2>4, <2>5
<1> QED BY <1>1, <1>2, <1>3 DEF T!Scenes

On(b) == b # 0

\* What the fields of a page say.
FieldsSaid(p, version, c, body) ==
  /\ p = 131 => c.rightToLeft = On(body[14]) /\ (On(body[14]) <=> body[14] = 1)
                /\ c.classes = T!Classes(body[15])
                /\ body[14] <= 1 /\ body[15] <= 63 /\ body[16] = 0
  /\ p = 132 => c.classes = T!Classes(body[14]) /\ c.value = body[15]
                /\ body[14] <= 63 /\ body[15] <= 2 /\ body[16] = 0
  /\ p = 133 => c.classes = T!Classes(body[14]) /\ c.threshold = body[15]
                /\ c.delay = T!Read_U16(body, 15)
                /\ body[14] <= 63 /\ (c.classes # {} => body[14] >= 1) /\ body[14] \in Nat
  /\ p = 133 /\ version = 2 =>
       /\ c.schedule[1] = On(body[18]) /\ (On(body[18]) <=> body[18] = 1) /\ body[18] <= 1
       /\ c.schedule[2] = T!Read_U16(body, 18) /\ c.schedule[3] = T!Read_U16(body, 20)
       /\ T!Read_U16(body, 18) <= 1439 /\ T!Read_U16(body, 20) <= 1439

LEMMA FlagOn ==
  ASSUME NEW flag \in BOOLEAN, NEW b, b = (IF flag THEN 1 ELSE 0)
  PROVE  flag = On(b) /\ (On(b) <=> b = 1) /\ b <= 1
<1>1. b <= 1 /\ (b # 0 <=> b = 1)
  OBVIOUS
<1>2. CASE flag
  <2>1. b # 0
    BY <1>2
  <2> QED BY <1>1, <1>2, <2>1, Zenon DEF On
<1>3. CASE ~flag
  <2>1. b = 0
    BY <1>3
  <2> QED BY <1>1, <1>3, <2>1, Zenon DEF On
<1> QED BY <1>2, <1>3

LEMMA FieldsUnderstood ==
  ASSUME NEW p \in T!Scenes, NEW version \in {1, 2}, NEW c, FieldsOf(p, c),
         NEW body, Fielded(p, version, c, body)
  PROVE  FieldsSaid(p, version, c, body)
<1>1. PICK mask : mask = T!Mask(c.classes)
  OBVIOUS
<1>2. mask \in 0 .. 63 /\ T!Classes(mask) = c.classes /\ (c.classes # {} => mask >= 1)
  BY <1>1, WireMask DEF FieldsOf
<1>3. CASE p = 131
  <2>1. body[14] = (IF c.rightToLeft THEN 1 ELSE 0) /\ body[15] = mask /\ body[16] = 0
    BY <1>1, <1>3, FieldsRead
  <2>2. c.rightToLeft \in BOOLEAN
    BY <1>3 DEF FieldsOf
  <2>3. /\ c.rightToLeft = On(body[14]) /\ (On(body[14]) <=> body[14] = 1) /\ body[14] <= 1
    BY <2>1, <2>2, FlagOn
  <2> QED BY <1>2, <1>3, <2>1, <2>3 DEF FieldsSaid
<1>4. CASE p = 132
  <2>1. body[14] = mask /\ body[15] = c.value /\ body[16] = 0
    BY <1>1, <1>4, FieldsRead
  <2>2. c.value \in 0 .. 2
    BY <1>4 DEF FieldsOf
  <2> QED BY <1>2, <1>4, <2>1, <2>2 DEF FieldsSaid
<1>5. CASE p = 133
  <2>1. body[14] = mask /\ body[15] = c.threshold /\ T!Read_U16(body, 15) = c.delay
    BY <1>1, <1>5, FieldsRead
  <2>2. CASE version = 1
    BY <1>2, <1>5, <2>1, <2>2 DEF FieldsSaid
  <2>3. CASE version = 2
    <3>1. /\ body[18] = (IF c.schedule[1] THEN 1 ELSE 0)
          /\ T!Read_U16(body, 18) = c.schedule[2] /\ T!Read_U16(body, 20) = c.schedule[3]
      BY <1>5, <2>3, FieldsRead
    <3>2. c.schedule[1] \in BOOLEAN /\ c.schedule[2] \in T!Minute /\ c.schedule[3] \in T!Minute
      BY <1>5, TimesOfDay DEF FieldsOf
    <3>3. c.schedule[2] <= 1439 /\ c.schedule[3] <= 1439
      <4>1. c.schedule[2] \in T!Minute /\ c.schedule[3] \in T!Minute
        BY <3>2
      <4>2. \A n \in T!Minute : n <= 1439
        BY DEF T!Minute
      <4> QED BY <4>1, <4>2
    <3>4. /\ c.schedule[1] = On(body[18]) /\ (On(body[18]) <=> body[18] = 1) /\ body[18] <= 1
      BY <3>1, <3>2, FlagOn
    <3>5. /\ c.classes = T!Classes(body[14]) /\ c.threshold = body[15]
          /\ c.delay = T!Read_U16(body, 15)
          /\ body[14] <= 63 /\ (c.classes # {} => body[14] >= 1) /\ body[14] \in Nat
      BY <1>2, <2>1
    <3>6. /\ c.schedule[2] = T!Read_U16(body, 18) /\ c.schedule[3] = T!Read_U16(body, 20)
          /\ T!Read_U16(body, 18) <= 1439 /\ T!Read_U16(body, 20) <= 1439
      BY <3>1, <3>3
    <3>7. p # 131 /\ p # 132
      BY <1>5
    <3> QED BY ONLY <3>4, <3>5, <3>6, <3>7 DEF FieldsSaid
  <2> QED BY <2>2, <2>3
<1> QED BY <1>3, <1>4, <1>5 DEF T!Scenes

\* A scene with other corners.
Cut(p, version, c, points) == [Meant(p, version, c) EXCEPT !.points = points]

Times(version, c) == IF version = 2 THEN c.schedule ELSE <<FALSE, 1080, 360>>
CutSaid(p, version, c, points, cut) ==
  /\ p = 131 => cut = [rightToLeft |-> c.rightToLeft, classes |-> c.classes, points |-> points]
  /\ p = 132 => cut = [classes |-> c.classes, value |-> c.value, points |-> points]
  /\ p = 133 => cut = [classes |-> c.classes, threshold |-> c.threshold, delay |-> c.delay,
                       schedule |-> Times(version, c),
                       points |-> points]

LEMMA CutIs ==
  ASSUME NEW p \in T!Scenes, NEW version \in {1, 2}, NEW c, FieldsOf(p, c), NEW points
  PROVE  CutSaid(p, version, c, points, Cut(p, version, c, points))
<1>1. CASE p = 131
  BY <1>1 DEF Cut, Meant, FieldsOf, CutSaid
<1>2. CASE p = 132
  BY <1>2 DEF Cut, Meant, FieldsOf, CutSaid
<1>3. CASE p = 133
  <2>0. PICK old : old = c.points
    OBVIOUS
  <2>1. PICK classes : classes = c.classes
    OBVIOUS
  <2>2. PICK threshold : threshold = c.threshold
    OBVIOUS
  <2>3. PICK delay : delay = c.delay
    OBVIOUS
  <2>4. PICK schedule : schedule = c.schedule
    OBVIOUS
  <2>5. c = [classes |-> classes, threshold |-> threshold, delay |-> delay,
             schedule |-> schedule, points |-> old]
    BY <1>3, <2>1, <2>2, <2>3, <2>4, <2>0 DEF FieldsOf
  <2>6. PICK default : default = <<FALSE, 1080, 360>>
    OBVIOUS
  <2>7. p # 131 /\ p # 132
    BY <1>3
  <2>8. CASE version = 1
    <3>1. [[c EXCEPT !.schedule = default] EXCEPT !.points = points]
          = [classes |-> classes, threshold |-> threshold, delay |-> delay,
             schedule |-> default, points |-> points]
      <4>1. PICK timed : timed = [c EXCEPT !.schedule = default]
        OBVIOUS
      <4>2. timed = [classes |-> classes, threshold |-> threshold, delay |-> delay,
                     schedule |-> default, points |-> old]
        BY ONLY <2>5, <4>1
      <4>3. [timed EXCEPT !.points = points]
          = [classes |-> classes, threshold |-> threshold, delay |-> delay,
             schedule |-> default, points |-> points]
        BY ONLY <4>2
      <4> QED BY ONLY <4>1, <4>3, Zenon
    <3>2. Cut(p, version, c, points) = [[c EXCEPT !.schedule = default] EXCEPT !.points = points]
      BY ONLY <1>3, <2>6, <2>8, Zenon DEF Cut, Meant
    <3>3. version # 2
      BY <2>8
    <3>4. Times(version, c) = default
      BY ONLY <2>6, <3>3, Zenon DEF Times
    <3> QED BY ONLY <1>3, <2>1, <2>2, <2>3, <2>7, <3>1, <3>2, <3>4 DEF CutSaid
  <2>9. CASE version = 2
    <3>1. [c EXCEPT !.points = points]
          = [classes |-> classes, threshold |-> threshold, delay |-> delay,
             schedule |-> schedule, points |-> points]
      BY ONLY <2>5
    <3>2. version # 1
      BY <2>9
    <3>3. Cut(p, version, c, points) = [c EXCEPT !.points = points]
      BY ONLY <3>2, Zenon DEF Cut, Meant
    <3>4. Times(version, c) = schedule
      BY ONLY <2>4, <2>9, Zenon DEF Times
    <3> QED BY ONLY <1>3, <2>1, <2>2, <2>3, <2>7, <3>1, <3>3, <3>4 DEF CutSaid
  <2> QED BY <2>8, <2>9
<1> QED BY <1>1, <1>2, <1>3 DEF T!Scenes

\* A page as it is read again.
PageCount(p, version, n) == T!Pages(n, FieldLength(p, version), version)
Parsed(p, version, c, points, page, body) ==
  [config |-> Cut(p, version, c, Slice(body, points)), page |-> page,
   pageCount |-> PageCount(p, version, Len(points)), pointStart |-> body[11], total |-> Len(points)]
ParsedAs(p, body, config) ==
  T!parseFrame(p, body) = [config |-> config, page |-> body[9], pageCount |-> body[10],
                           pointStart |-> body[11], total |-> body[13]]

ReadTimes(length, body) ==
  IF length = 9 THEN <<body[18] # 0, T!Read_U16(body, 18), T!Read_U16(body, 20)>>
  ELSE <<FALSE, 1080, 360>>

ReadWell(p, version, c, n, points, page, body) ==
  /\ T!parseFrame(p, body) = Parsed(p, version, c, points, page, body)
  /\ CornersSaid(body, version, FieldLength(p, version), points, n)
  /\ FieldsSaid(p, version, c, body) /\ Fielded(p, version, c, body)
  /\ T!Static_Length(p, body) = FieldLength(p, version)
  /\ T!Expected(body, FieldLength(p, version)) /\ FieldLength(p, version) \in T!Tried(p)
  /\ Len(body) <= 47

LEMMA PageParsed ==
  ASSUME NEW p \in T!Scenes, NEW version \in {1, 2}, NEW c, FieldsOf(p, c),
         NEW n \in 2 .. 10, NEW points \in [1 .. n -> Grid], Len(points) = n,
         NEW page \in 0 .. PageCount(p, version, n) - 1,
         NEW body, Laid(body, version, SentFields(p, version, c), points, page)
  PROVE  ReadWell(p, version, c, n, points, page, body)
<1>1. PICK fields : fields = SentFields(p, version, c)
  OBVIOUS
<1>2. PICK length : length = FieldLength(p, version)
  OBVIOUS
<1>3. length \in Nat /\ Len(fields) = length /\ Suits(p, version, length)
  BY <1>1, <1>2, FieldsTyped DEF FieldLength
<1>4. Fielded(p, version, c, body)
  <2>1. \A i \in 1 .. length : body[13 + i] = fields[i]
    BY ONLY <1>1, <1>3, Laid(body, version, SentFields(p, version, c), points, page), Zenon DEF Laid
  <2>2. \A i \in 1 .. length : fields[i] = T!Fields(p, c)[i]
    BY ONLY <1>1, <1>2, FieldsTyped, p \in T!Scenes, version \in {1, 2}, FieldsOf(p, c), Zenon
  <2> QED BY ONLY <1>2, <2>1, <2>2, Zenon DEF Fielded
<1>5. FieldsSaid(p, version, c, body)
  BY <1>4, FieldsUnderstood
<1>6. /\ T!Field_Length(p, body) = length /\ T!Static_Length(p, body) = length
      /\ T!Expected(body, length) /\ length \in T!Tried(p) /\ Len(body) <= 47
  BY <1>1, <1>2, <1>3, LengthFound DEF PageCount
<1>7. CornersSaid(body, version, length, points, n)
  <2>1. Layout(version, length) /\ page \in 0 .. T!Pages(n, length, version) - 1
    BY <1>2, <1>3 DEF PageCount, Suits, Layout
  <2> QED BY <1>1, <1>3, <2>1, PointsRead
<1>8. PICK pts : pts = Slice(body, points)
  OBVIOUS
<1>9. T!Decoded_Points(body, length) = pts
  BY <1>7, <1>8 DEF CornersSaid
<1>10. /\ Len(body) = 13 + length + body[12] * T!Coordinate_Bytes(body[1])
       /\ body[9] = page /\ body[10] = T!Pages(n, length, version) /\ body[13] = n
  BY <1>1, <1>3 DEF Laid
<1>11. (length = 9 => T!Read_U16(body, 18) <= 1439 /\ T!Read_U16(body, 20) <= 1439)
  BY <1>2, <1>5 DEF FieldsSaid, FieldLength
<1>12. p = 131 =>
         ParsedAs(p, body, [rightToLeft |-> body[14] # 0, classes |-> T!Classes(body[15]), points |-> pts])
  BY <1>6, <1>9, <1>10, <1>11 DEF T!parseFrame, T!Scenes, ParsedAs
<1>13. p = 132 =>
         ParsedAs(p, body, [classes |-> T!Classes(body[14]), value |-> body[15], points |-> pts])
  BY <1>6, <1>9, <1>10, <1>11 DEF T!parseFrame, T!Scenes, ParsedAs
<1>14. p = 133 =>
         ParsedAs(p, body, [classes |-> T!Classes(body[14]), threshold |-> body[15],
                            delay |-> T!Read_U16(body, 15),
                            schedule |-> ReadTimes(length, body),
                            points |-> pts])
  BY <1>6, <1>9, <1>10, <1>11 DEF T!parseFrame, T!Scenes, ParsedAs, ReadTimes
<1>15. PICK cut : cut = Cut(p, version, c, pts)
  OBVIOUS
<1>16. CutSaid(p, version, c, pts, cut)
  BY <1>15, CutIs
<1>17. ParsedAs(p, body, cut)
  <2>15. CASE p = 131
    <3>1. c.rightToLeft = On(body[14]) /\ c.classes = T!Classes(body[15])
      BY <1>5, <2>15 DEF FieldsSaid
    <3>2. cut = [rightToLeft |-> c.rightToLeft, classes |-> c.classes, points |-> pts]
      BY <1>16, <2>15 DEF CutSaid
    <3>3. c.rightToLeft = (body[14] # 0)
      BY <3>1, Zenon DEF On
    <3>4. cut = [rightToLeft |-> body[14] # 0, classes |-> T!Classes(body[15]), points |-> pts]
      BY ONLY <3>1, <3>2, <3>3, Zenon
    <3> QED BY ONLY <2>15, <1>12, <3>4, Zenon
  <2>16. CASE p = 132
    <3>1. c.classes = T!Classes(body[14]) /\ c.value = body[15]
      BY <1>5, <2>16 DEF FieldsSaid
    <3>2. cut = [classes |-> c.classes, value |-> c.value, points |-> pts]
      BY <1>16, <2>16 DEF CutSaid
    <3> QED BY ONLY <2>16, <1>13, <3>1, <3>2, Zenon
  <2>17. CASE p = 133
    <3>1. c.classes = T!Classes(body[14]) /\ c.threshold = body[15] /\ c.delay = T!Read_U16(body, 15)
      BY <1>5, <2>17 DEF FieldsSaid
    <3>2. PICK schedule : schedule = Times(version, c)
      OBVIOUS
    <3>3. cut = [classes |-> c.classes, threshold |-> c.threshold, delay |-> c.delay,
                 schedule |-> schedule, points |-> pts]
      BY ONLY <1>16, <2>17, <3>2 DEF CutSaid
    <3>4. schedule = ReadTimes(length, body)
      <4>1. CASE version = 2
        <5>1. length = 9
          BY <1>2, <2>17, <4>1 DEF FieldLength
        <5>2. c.schedule[1] = On(body[18])
          BY <1>5, <2>17, <4>1 DEF FieldsSaid
        <5>3. c.schedule[2] = T!Read_U16(body, 18) /\ c.schedule[3] = T!Read_U16(body, 20)
          BY <1>5, <2>17, <4>1 DEF FieldsSaid
        <5>4. c.schedule = <<c.schedule[1], c.schedule[2], c.schedule[3]>>
          BY <2>17, TimesOfDay DEF FieldsOf
        <5>5. c.schedule[1] = (body[18] # 0)
          BY ONLY <5>2, Zenon DEF On
        <5>6. c.schedule = <<body[18] # 0, T!Read_U16(body, 18), T!Read_U16(body, 20)>>
          BY ONLY <5>3, <5>4, <5>5, Zenon
        <5>7. Times(version, c) = c.schedule
          BY ONLY <4>1, Zenon DEF Times
        <5>8. ReadTimes(length, body) = <<body[18] # 0, T!Read_U16(body, 18), T!Read_U16(body, 20)>>
          BY ONLY <5>1, Zenon DEF ReadTimes
        <5> QED BY ONLY <3>2, <5>6, <5>7, <5>8, Zenon
      <4>2. CASE version = 1
        <5>1. length # 9 /\ version # 2
          BY <1>2, <2>17, <4>2 DEF FieldLength
        <5> QED BY ONLY <3>2, <5>1, Zenon DEF Times, ReadTimes
      <4> QED BY <4>1, <4>2
    <3> QED BY ONLY <2>17, <1>14, <3>1, <3>3, <3>4, Zenon
  <2> QED BY <2>15, <2>16, <2>17 DEF T!Scenes
<1>18. T!parseFrame(p, body) = Parsed(p, version, c, points, page, body)
  BY <1>2, <1>8, <1>10, <1>15, <1>17 DEF Parsed, ParsedAs, PageCount
<1> QED BY <1>2, <1>4, <1>5, <1>6, <1>7, <1>18 DEF ReadWell

\* The fields as the app completes them.
Completed(f, body, length) ==
  /\ \A i \in 1 .. length : f[i] = body[13 + i]
  /\ length = 4 => /\ f[5] = 0 /\ T!Read_U16(f, 5) = 1080 /\ T!Read_U16(f, 7) = 360

LEMMA DefaultsAdded ==
  ASSUME NEW length \in {3, 4, 9}, NEW body, \A i \in 1 .. length : body[13 + i] \in Nat
  PROVE  Completed(T!Ensure_Presence_Schedule_Defaults([i \in 1 .. length |-> body[13 + i]]), body, length)
<1>1. PICK g : g = [i \in 1 .. length |-> body[13 + i]]
  OBVIOUS
<1>2. g \in Seq(Nat) /\ Len(g) = length /\ \A i \in 1 .. length : g[i] = body[13 + i]
  <2>1. \A i \in 1 .. length : g[i] = body[13 + i]
    BY <1>1
  <2>2. g = [i \in 1 .. length |-> g[i]] /\ length \in Nat
    BY <1>1
  <2> QED BY <2>1, <2>2, Listed
<1>3. PICK f : f = T!Ensure_Presence_Schedule_Defaults(g)
  OBVIOUS
<1>4. CASE length # 4
  <2>1. f = g
    BY <1>2, <1>3, <1>4 DEF T!Ensure_Presence_Schedule_Defaults
  <2> QED BY <1>1, <1>2, <1>3, <1>4, <2>1 DEF Completed
<1>5. CASE length = 4
  <2>1. T!Low(1080) = 56 /\ T!High(1080) = 4 /\ T!Low(360) = 104 /\ T!High(360) = 1
    BY DEF T!Low, T!High
  <2>2. PICK more : more = <<0, 56, 4, 104, 1>>
    OBVIOUS
  <2>3. f = g \o more
    <3>1. Len(g) = 4
      BY <1>2, <1>5
    <3>2. f = g \o <<0, T!Low(1080), T!High(1080), T!Low(360), T!High(360)>>
      BY ONLY <1>3, <3>1, Zenon DEF T!Ensure_Presence_Schedule_Defaults
    <3>3. <<0, T!Low(1080), T!High(1080), T!Low(360), T!High(360)>> = more
      BY ONLY <2>1, <2>2
    <3> QED BY ONLY <3>2, <3>3, Zenon
  <2>4. more \in Seq(Nat) /\ Len(more) = 5 /\ more[1] = 0 /\ more[2] = 56 /\ more[3] = 4
        /\ more[4] = 104 /\ more[5] = 1
    BY <2>2
  <2>5. Follows(f, g, more)
    BY <1>2, <2>3, <2>4, After
  <2>6. /\ \A i \in 1 .. 4 : f[i] = g[i]
        /\ \A i \in 1 .. 5 : f[4 + i] = more[i]
    BY <2>5, <1>2, <1>5, <2>4 DEF Follows
  <2>7. f[4 + 1] = 0 /\ f[4 + 2] = 56 /\ f[4 + 3] = 4 /\ f[4 + 4] = 104 /\ f[4 + 5] = 1
    BY <2>4, <2>6
  <2>8. f[5] = 0 /\ T!Read_U16(f, 5) = 1080 /\ T!Read_U16(f, 7) = 360
    BY <2>7 DEF T!Read_U16
  <2> QED BY <1>1, <1>2, <1>3, <1>5, <2>6, <2>8 DEF Completed
<1> QED BY <1>4, <1>5

\* What the app puts into effect is the scene that was sent, with these corners.
LEMMA PageApplied ==
  ASSUME NEW p \in T!Scenes, NEW version \in {1, 2}, NEW c, FieldsOf(p, c), NEW body,
         FieldsSaid(p, version, c, body), Fielded(p, version, c, body),
         T!Static_Length(p, body) = FieldLength(p, version), NEW pts
  PROVE  T!Applied(p, body, pts) = Cut(p, version, c, pts)
<1>1. PICK length : length = FieldLength(p, version)
  OBVIOUS
<1>2. length \in {3, 4, 9}
  BY <1>1 DEF FieldLength
<1>3. \A i \in 1 .. length : body[13 + i] \in Nat
  <2>0. \A i \in 1 .. FieldLength(p, version) : SentFields(p, version, c)[i] = T!Fields(p, c)[i]
    BY FieldsTyped
  <2>1. \A i \in 1 .. length : SentFields(p, version, c)[i] = body[13 + i]
    BY <1>1, <2>0 DEF Fielded
  <2>2. SentFields(p, version, c) \in Seq(Nat) /\ Len(SentFields(p, version, c)) = length
    BY <1>1, FieldsTyped
  <2> QED BY <2>1, <2>2
<1>4. PICK f : f = T!Ensure_Presence_Schedule_Defaults([i \in 1 .. length |-> body[13 + i]])
  OBVIOUS
<1>5. Completed(f, body, length)
  BY <1>2, <1>3, <1>4, DefaultsAdded
<1>6. PICK cut : cut = Cut(p, version, c, pts)
  OBVIOUS
<1>7. CutSaid(p, version, c, pts, cut)
  BY <1>6, CutIs
<1>8. CASE p = 131
  <2>1. T!Applied(p, body, pts) = [rightToLeft |-> f[1] = 1, classes |-> T!Classes(f[2]), points |-> pts]
    BY <1>1, <1>4, <1>8 DEF T!Applied
  <2>2. length = 3
    BY <1>1, <1>8 DEF FieldLength
  <2>3. f[1] = body[14] /\ f[2] = body[15]
    <3>1. f[1] = body[13 + 1] /\ f[2] = body[13 + 2]
      BY <1>5, <2>2 DEF Completed
    <3> QED BY <3>1
  <2>4. c.rightToLeft = On(body[14]) /\ (On(body[14]) <=> body[14] = 1) /\ c.classes = T!Classes(body[15])
    BY <1>8 DEF FieldsSaid
  <2>5. c.rightToLeft = (f[1] = 1)
    <3>1. c.rightToLeft = (body[14] # 0)
      BY <2>4, Zenon DEF On
    <3>2. (body[14] # 0) <=> (body[14] = 1)
      BY <2>4, Zenon DEF On
    <3>3. (body[14] # 0) = (body[14] = 1)
      BY ONLY <3>2
    <3>4. c.rightToLeft = (body[14] = 1)
      BY ONLY <3>1, <3>3, Zenon
    <3> QED BY ONLY <3>4, <2>3, Zenon
  <2>6. cut = [rightToLeft |-> c.rightToLeft, classes |-> c.classes, points |-> pts]
    BY <1>7, <1>8 DEF CutSaid
  <2>7. c.classes = T!Classes(f[2])
    BY ONLY <2>3, <2>4
  <2> QED BY ONLY <1>6, <2>1, <2>5, <2>6, <2>7, Zenon
<1>9. CASE p = 132
  <2>1. T!Applied(p, body, pts) = [classes |-> T!Classes(f[1]), value |-> f[2], points |-> pts]
    BY <1>1, <1>4, <1>9 DEF T!Applied
  <2>2. length = 3
    BY <1>1, <1>9 DEF FieldLength
  <2>3. f[1] = body[14] /\ f[2] = body[15]
    <3>1. f[1] = body[13 + 1] /\ f[2] = body[13 + 2]
      BY <1>5, <2>2 DEF Completed
    <3> QED BY <3>1
  <2>4. c.classes = T!Classes(body[14]) /\ c.value = body[15]
    BY <1>9 DEF FieldsSaid
  <2>5. cut = [classes |-> c.classes, value |-> c.value, points |-> pts]
    BY <1>7, <1>9 DEF CutSaid
  <2> QED BY ONLY <1>6, <2>1, <2>3, <2>4, <2>5, Zenon
<1>10. CASE p = 133
  <2>1. T!Applied(p, body, pts) =
          [classes |-> T!Classes(f[1]), threshold |-> f[2], delay |-> T!Read_U16(f, 2),
           schedule |-> <<f[5] = 1, T!Read_U16(f, 5), T!Read_U16(f, 7)>>, points |-> pts]
    BY <1>1, <1>4, <1>10 DEF T!Applied
  <2>2. length \in {4, 9}
    BY <1>1, <1>10 DEF FieldLength
  <2>3. f[1] = body[14] /\ f[2] = body[15] /\ T!Read_U16(f, 2) = T!Read_U16(body, 15)
    <3>1. f[1] = body[13 + 1] /\ f[2] = body[13 + 2] /\ f[3] = body[13 + 3] /\ f[4] = body[13 + 4]
      BY <1>5, <2>2 DEF Completed
    <3> QED BY <3>1 DEF T!Read_U16
  <2>4. c.classes = T!Classes(body[14]) /\ c.threshold = body[15] /\ c.delay = T!Read_U16(body, 15)
    BY <1>10 DEF FieldsSaid
  <2>5. cut = [classes |-> c.classes, threshold |-> c.threshold, delay |-> c.delay,
               schedule |-> Times(version, c), points |-> pts]
    BY <1>7, <1>10 DEF CutSaid
  <2>6. Times(version, c) = <<f[5] = 1, T!Read_U16(f, 5), T!Read_U16(f, 7)>>
    <3>1. CASE version = 1
      <4>1. length = 4
        BY <1>1, <1>10, <3>1 DEF FieldLength
      <4>2. f[5] = 0 /\ T!Read_U16(f, 5) = 1080 /\ T!Read_U16(f, 7) = 360
        BY <4>1, <1>5 DEF Completed
      <4>3. Times(version, c) = <<FALSE, 1080, 360>>
        BY <3>1 DEF Times
      <4>4. ~(f[5] = 1)
        BY <4>2
      <4>5. Times(version, c) = <<f[5] = 1, T!Read_U16(f, 5), T!Read_U16(f, 7)>>
        <5>1. PICK started : started = (f[5] = 1)
          BY Zenon
        <5>2. started = FALSE
          BY ONLY <4>4, <5>1, Zenon
        <5>3. PICK off : off = <<FALSE, 1080, 360>>
          OBVIOUS
        <5>4. <<started, T!Read_U16(f, 5), T!Read_U16(f, 7)>> = off
          BY ONLY <4>2, <5>2, <5>3
        <5>5. Times(version, c) = off
          BY ONLY <4>3, <5>3, Zenon
        <5> QED BY ONLY <5>1, <5>4, <5>5, Zenon
      <4> QED BY <4>5
    <3>2. CASE version = 2
      <4>1. length = 9
        BY <1>1, <1>10, <3>2 DEF FieldLength
      <4>2. f[5] = body[18] /\ T!Read_U16(f, 5) = T!Read_U16(body, 18) /\ T!Read_U16(f, 7) = T!Read_U16(body, 20)
        <5>1. f[5] = body[13 + 5] /\ f[6] = body[13 + 6] /\ f[7] = body[13 + 7]
              /\ f[8] = body[13 + 8] /\ f[9] = body[13 + 9]
          BY <1>5, <4>1 DEF Completed
        <5> QED BY <5>1 DEF T!Read_U16
      <4>3. /\ c.schedule[1] = On(body[18]) /\ (On(body[18]) <=> body[18] = 1)
            /\ c.schedule[2] = T!Read_U16(body, 18) /\ c.schedule[3] = T!Read_U16(body, 20)
        BY <1>10, <3>2 DEF FieldsSaid
      <4>4. (body[18] # 0) <=> (body[18] = 1)
        BY ONLY <4>3, Zenon DEF On
      <4>5. (body[18] # 0) = (body[18] = 1)
        BY ONLY <4>4
      <4>6. c.schedule[1] = (body[18] # 0)
        BY ONLY <4>3, Zenon DEF On
      <4>7. c.schedule[1] = (f[5] = 1)
        BY ONLY <4>2, <4>5, <4>6, Zenon
      <4>8. c.schedule = <<c.schedule[1], c.schedule[2], c.schedule[3]>>
        BY <1>10, TimesOfDay DEF FieldsOf
      <4>9. Times(version, c) = c.schedule
        BY ONLY <3>2, Zenon DEF Times
      <4>10. c.schedule[2] = T!Read_U16(f, 5) /\ c.schedule[3] = T!Read_U16(f, 7)
        BY ONLY <4>2, <4>3, Zenon
      <4> QED BY ONLY <4>7, <4>8, <4>9, <4>10, Zenon
    <3> QED BY <3>1, <3>2
  <2>7. c.classes = T!Classes(f[1]) /\ c.threshold = f[2] /\ c.delay = T!Read_U16(f, 2)
    BY ONLY <2>3, <2>4, Zenon
  <2> QED BY ONLY <1>6, <2>1, <2>5, <2>6, <2>7, Zenon
<1> QED BY <1>8, <1>9, <1>10 DEF T!Scenes

LEMMA OnGrid ==
  ASSUME NEW q \in Grid
  PROVE  q[1] <= 1000 /\ q[2] <= 1000
<1>1. q[1] \in T!Thousandth /\ q[2] \in T!Thousandth
  BY DEF Grid
<1>2. \A x \in T!Thousandth : x <= 1000
  BY DEF T!Thousandth
<1> QED BY <1>1, <1>2

WithinRanges(p, c) ==
  p = 133 => c.classes # {} /\ c.threshold \in 1 .. 101 /\ c.delay \in T!Delay
Enough(p, n) == p # 131 => n >= 3
LongEnough(p, body) == Len(body) >= 13 + T!Static_Field_Length(p)

\* A page of what is documented is accepted, unless it is too short for the first test.
LEMMA PageValid ==
  ASSUME NEW p \in T!Scenes, NEW version \in {1, 2}, NEW c, FieldsOf(p, c),
         WithinRanges(p, c),
         NEW n \in 2 .. 10, Enough(p, n), NEW points \in [1 .. n -> Grid], Len(points) = n,
         NEW page \in 0 .. PageCount(p, version, n) - 1,
         NEW body, Laid(body, version, SentFields(p, version, c), points, page),
         LongEnough(p, body)
  PROVE  T!Valid_Set_Page(p, body)
<1>2. PICK length : length = FieldLength(p, version)
  OBVIOUS
<1>3. /\ CornersSaid(body, version, length, points, n) /\ FieldsSaid(p, version, c, body)
      /\ T!Static_Length(p, body) = length /\ T!Expected(body, length) /\ length \in T!Tried(p)
  <2>1. ReadWell(p, version, c, n, points, page, body)
    BY PageParsed
  <2> QED BY <1>2, <2>1 DEF ReadWell
<1>4. body[1] = version /\ body[13] = n
  BY DEF Laid
<1>5. T!Ranges(p, body, length)
  <2>1. CASE p = 131
    BY <2>1, <1>3 DEF FieldsSaid, T!Ranges
  <2>2. CASE p = 132
    BY <2>2, <1>3 DEF FieldsSaid, T!Ranges
  <2>3. CASE p = 133
    <3>1. PICK b : b = body[14]
      OBVIOUS
    <3>2. PICK threshold : threshold = body[15]
      OBVIOUS
    <3>3. PICK delay : delay = T!Read_U16(body, 15)
      OBVIOUS
    <3>4. b \in Nat /\ b >= 1 /\ b <= 63
      BY <2>3, <1>3, <3>1 DEF FieldsSaid, WithinRanges
    <3>5. c.threshold = threshold /\ c.delay = delay
      BY <2>3, <1>3, <3>2, <3>3 DEF FieldsSaid
    <3>6. threshold \in 1 .. 101 /\ delay \in T!Delay
      BY <2>3, <3>5 DEF WithinRanges
    <3>7. delay <= 7200 /\ b \in 1 .. 63
      BY ONLY <3>4, <3>6 DEF T!Delay
    <3>8. length = 9 => version = 2
      BY <1>2, <2>3 DEF FieldLength
    <3>9. length = 9 => body[18] <= 1 /\ T!Read_U16(body, 18) <= 1439 /\ T!Read_U16(body, 20) <= 1439
      BY <2>3, <3>8, <1>3 DEF FieldsSaid
    <3>10. p # 131 /\ p # 132
      BY <2>3
    <3>11. body[14] \in 1 .. 63
      BY ONLY <3>1, <3>7
    <3>12. body[15] \in 1 .. 101
      BY ONLY <3>2, <3>6
    <3>13. T!Read_U16(body, 15) <= 7200
      BY ONLY <3>3, <3>7
    <3> QED BY <2>3, <3>9, <3>11, <3>12, <3>13 DEF T!Ranges
  <2> QED BY <2>1, <2>2, <2>3 DEF T!Scenes
<1>6. version = 2 => \A i \in 1 .. body[12] :
        LET corner == T!Read_Integer_Point(body, 13 + length + (i - 1) * 3)
        IN corner[1] <= 1000 /\ corner[2] <= 1000
  <2> SUFFICES ASSUME version = 2, NEW i \in 1 .. body[12]
               PROVE  /\ T!Read_Integer_Point(body, 13 + length + (i - 1) * 3)[1] <= 1000
                      /\ T!Read_Integer_Point(body, 13 + length + (i - 1) * 3)[2] <= 1000
    OBVIOUS
  <2>1. PICK q : q = points[body[11] + i]
    OBVIOUS
  <2>2. T!Read_Integer_Point(body, 13 + length + (i - 1) * 3) = q
    BY <1>3, <2>1 DEF CornersSaid
  <2>3. body[12] \in 1 .. n /\ body[11] \in Nat /\ body[11] + body[12] <= n
    BY <1>3 DEF CornersSaid
  <2>4. q \in Grid
    BY <2>1, <2>3
  <2>5. q[1] <= 1000 /\ q[2] <= 1000
    BY <2>4, OnGrid
  <2> QED BY <2>2, <2>5
<1> QED BY <1>3, <1>4, <1>5, <1>6 DEF T!Valid_Set_Page, LongEnough, Enough

LEMMA FlattenNone ==
  ASSUME NEW s, Len(s) = 0
  PROVE  T!FlattenSeq(s) = s
BY DEF T!FlattenSeq

Unfolds(f, s) == f = [i \in 1 .. Len(s) |-> IF i = 1 THEN s[i] ELSE f[i - 1] \o s[i]]
Flattens(s) == \E f : Unfolds(f, s) /\ T!FlattenSeq(s) = f[Len(s)]

LEMMA FlattenUnfolded ==
  ASSUME NEW s, Len(s) # 0,
         NEW g, Unfolds(g, s)
  PROVE  Flattens(s)
<1>1. T!FlattenSeq(s)
      = (CHOOSE f : f = [i \in 1 .. Len(s) |-> IF i = 1 THEN s[i] ELSE f[i - 1] \o s[i]])[Len(s)]
  BY Zenon DEF T!FlattenSeq
<1>2. PICK flatten : flatten
      = CHOOSE f : f = [i \in 1 .. Len(s) |-> IF i = 1 THEN s[i] ELSE f[i - 1] \o s[i]]
  OBVIOUS
<1>3. flatten = [i \in 1 .. Len(s) |-> IF i = 1 THEN s[i] ELSE flatten[i - 1] \o s[i]]
  BY <1>2 DEF Unfolds
<1>4. Unfolds(flatten, s)
  BY <1>3, Zenon DEF Unfolds
<1>5. T!FlattenSeq(s) = flatten[Len(s)]
  BY ONLY <1>1, <1>2, Zenon
<1> QED BY <1>4, <1>5 DEF Flattens

LEMMA FlattenOne ==
  ASSUME NEW s, Len(s) = 1
  PROVE  T!FlattenSeq(s) = s[1]
<1>1. PICK g : g = [i \in 1 .. 1 |-> s[1]]
  OBVIOUS
<1>2. g = [i \in 1 .. Len(s) |-> IF i = 1 THEN s[i] ELSE g[i - 1] \o s[i]]
  BY <1>1
<1>2a. Unfolds(g, s)
  BY <1>2, Zenon DEF Unfolds
<1>2b. Flattens(s)
  BY <1>2a, FlattenUnfolded
<1>2c. PICK flatten : Unfolds(flatten, s) /\ T!FlattenSeq(s) = flatten[Len(s)]
  BY <1>2b DEF Flattens
<1>3. /\ flatten = [i \in 1 .. Len(s) |-> IF i = 1 THEN s[i] ELSE flatten[i - 1] \o s[i]]
      /\ T!FlattenSeq(s) = flatten[Len(s)]
  BY <1>2c, Zenon DEF Unfolds
<1>4. flatten[1] = s[1]
  BY <1>3
<1> QED BY <1>3, <1>4

LEMMA FlattenTwo ==
  ASSUME NEW s, Len(s) = 2
  PROVE  T!FlattenSeq(s) = s[1] \o s[2]
<1>0. PICK both : both = s[1] \o s[2]
  OBVIOUS
<1>1. PICK g : g = [i \in 1 .. 2 |-> IF i = 1 THEN s[1] ELSE both]
  OBVIOUS
<1>2. g = [i \in 1 .. Len(s) |-> IF i = 1 THEN s[i] ELSE g[i - 1] \o s[i]]
  <2>1. g[1] = s[1] /\ g[2] = both
    BY <1>1
  <2>2. ASSUME NEW i \in 1 .. 2 PROVE g[i] = IF i = 1 THEN s[i] ELSE g[i - 1] \o s[i]
    <3>1. CASE i = 1
      BY <2>1, <3>1
    <3>2. CASE i = 2
      <4>1. g[i] = both /\ g[i - 1] = s[1] /\ i # 1
        BY <2>1, <3>2
      <4> QED BY <4>1, <3>2, <1>0, Zenon
    <3> QED BY <3>1, <3>2
  <2>3. g = [i \in 1 .. 2 |-> g[i]]
    BY <1>1
  <2> QED BY <2>2, <2>3, Zenon
<1>2a. Unfolds(g, s)
  BY <1>2, Zenon DEF Unfolds
<1>2b. Flattens(s)
  BY <1>2a, FlattenUnfolded
<1>2c. PICK flatten : Unfolds(flatten, s) /\ T!FlattenSeq(s) = flatten[Len(s)]
  BY <1>2b DEF Flattens
<1>3. /\ flatten = [i \in 1 .. Len(s) |-> IF i = 1 THEN s[i] ELSE flatten[i - 1] \o s[i]]
      /\ T!FlattenSeq(s) = flatten[Len(s)]
  BY <1>2c, Zenon DEF Unfolds
<1>4. flatten[1] = s[1]
  BY <1>3
<1>5. flatten[2] = flatten[1] \o s[2]
  <2>1. flatten[2] = IF 2 = 1 THEN s[2] ELSE flatten[2 - 1] \o s[2]
    BY <1>3
  <2>2. 2 # 1 /\ 2 - 1 = 1
    OBVIOUS
  <2> QED BY <2>1, <2>2, Zenon
<1> QED BY <1>3, <1>4, <1>5, Zenon

\* Part of the corners, and how two parts make the whole.
Part(f, start, count) == [i \in 1 .. count |-> f[start + i]]

PartsSaid(f, S, n, per) ==
  /\ Part(f, 0, per) \in Seq(S) /\ Len(Part(f, 0, per)) = per
  /\ Part(f, per, n - per) \in Seq(S) /\ Len(Part(f, per, n - per)) = n - per
  /\ Part(f, 0, per) \o Part(f, per, n - per) = f

LEMMA PartsJoin ==
  ASSUME NEW n \in Nat, NEW S, NEW f \in [1 .. n -> S], NEW per \in Nat, per <= n
  PROVE  PartsSaid(f, S, n, per)
<1>1. PICK a : a = Part(f, 0, per)
  OBVIOUS
<1>2. PICK b : b = Part(f, per, n - per)
  OBVIOUS
<1>3. a \in Seq(S) /\ Len(a) = per /\ \A i \in 1 .. per : a[i] = f[i]
  <2>1. a = [i \in 1 .. per |-> a[i]] /\ \A i \in 1 .. per : a[i] = f[i]
    BY <1>1 DEF Part
  <2>2. \A i \in 1 .. per : a[i] \in S
    BY <2>1
  <2> QED BY <2>1, <2>2, Listed
<1>4. b \in Seq(S) /\ Len(b) = n - per /\ \A i \in 1 .. n - per : b[i] = f[per + i]
  <2>0. n - per \in Nat
    OBVIOUS
  <2>1. b = [i \in 1 .. n - per |-> b[i]] /\ \A i \in 1 .. n - per : b[i] = f[per + i]
    BY <1>2, <2>0 DEF Part
  <2>2. \A i \in 1 .. n - per : b[i] \in S
    BY <2>1
  <2> QED BY <2>0, <2>1, <2>2, Listed
<1>5. PICK d : d = a \o b
  OBVIOUS
<1>6. d \in Seq(S) /\ Follows(d, a, b)
  BY <1>3, <1>4, <1>5, After
<1>7. Len(d) = n /\ d \in Seq(S)
  BY <1>3, <1>4, <1>6 DEF Follows
<1>8. ASSUME NEW i \in 1 .. n PROVE d[i] = f[i]
  <2>1. CASE i <= per
    BY <2>1, <1>3, <1>6 DEF Follows
  <2>2. CASE i > per
    <3>1. PICK k : k = i - per
      OBVIOUS
    <3>2. k \in 1 .. n - per /\ i = per + k
      BY <2>2, <3>1
    <3>3. d[per + k] = b[k]
      BY <3>2, <1>3, <1>4, <1>6 DEF Follows
    <3> QED BY <3>2, <3>3, <1>4
  <2> QED BY <2>1, <2>2
<1>9. d = f
  <2>1. d \in [1 .. n -> S]
    BY <1>7
  <2> QED BY <2>1, <1>8
<1> QED BY ONLY <1>1, <1>2, <1>3, <1>4, <1>5, <1>9, Zenon DEF PartsSaid

\* Which corners are on a page.
PerPage(p, version) == T!Points_Per_Page(FieldLength(p, version), version)

SlicedWell(p, version, n, page, body) ==
  /\ PageCount(p, version, n) \in {1, 2}
  /\ PerPage(p, version) \in Nat
  /\ body[10] = PageCount(p, version, n)
  /\ PageCount(p, version, n) = 1 => n <= PerPage(p, version) /\ page = 0 /\ body[11] = 0 /\ body[12] = n
  /\ PageCount(p, version, n) = 2 =>
       /\ PerPage(p, version) < n /\ page \in {0, 1}
       /\ page = 0 => body[11] = 0 /\ body[12] = PerPage(p, version)
       /\ page = 1 => body[11] = PerPage(p, version) /\ body[12] = n - PerPage(p, version)

LEMMA Sliced ==
  ASSUME NEW p \in T!Scenes, NEW version \in {1, 2}, NEW n \in 2 .. 10,
         NEW points, Len(points) = n, NEW fields, Len(fields) = FieldLength(p, version),
         NEW page \in 0 .. PageCount(p, version, n) - 1,
         NEW body, Laid(body, version, fields, points, page)
  PROVE  SlicedWell(p, version, n, page, body)
<1>1. PICK length : length = FieldLength(p, version)
  OBVIOUS
<1>2. PICK per : per = T!Points_Per_Page(length, version)
  OBVIOUS
<1>3. PICK pages : pages = T!Pages(n, length, version)
  OBVIOUS
<1>4. Layout(version, length) /\ page \in 0 .. pages - 1
  BY <1>1, <1>3 DEF FieldLength, PageCount, Layout
<1>5. PICK count : count = T!Count(n, page, per)
  OBVIOUS
<1>6. per \in {7, 8, 10} /\ pages = IF n <= per THEN 1 ELSE 2
  <2>1. per = IF version = 2 THEN IF length = 3 THEN 10 ELSE 8 ELSE 7
    BY <1>2, <1>4, Paged
  <2>2. pages = IF n <= per THEN 1 ELSE 2
    BY <1>2, <1>3, <1>4, Paged
  <2> QED BY <2>1, <2>2
<1>7. /\ page = pages - 1 => count = n - page * per
      /\ page < pages - 1 => count = per
  BY <1>2, <1>3, <1>4, <1>5, Paged
<1>8. body[10] = pages /\ body[11] = page * per /\ body[12] = count
  BY <1>1, <1>2, <1>3, <1>5 DEF Laid
<1>9. CASE pages = 1
  <2>1. page = 0 /\ n <= per
    BY <1>4, <1>6, <1>9
  <2>2. body[11] = 0 /\ body[12] = n
    BY <1>6, <1>7, <1>8, <1>9, <2>1
  <2> QED BY <1>1, <1>2, <1>3, <1>6, <1>8, <1>9, <2>1, <2>2 DEF PageCount, PerPage, SlicedWell
<1>10. CASE pages = 2
  <2>1. page \in {0, 1} /\ per < n
    BY <1>4, <1>6, <1>10
  <2>2. page = 0 => body[11] = 0 /\ body[12] = per
    BY <1>6, <1>7, <1>8, <1>10
  <2>3. page = 1 => body[11] = per /\ body[12] = n - per
    BY <1>6, <1>7, <1>8, <1>10
  <2> QED BY <1>1, <1>2, <1>3, <1>6, <1>8, <1>10, <2>1, <2>2, <2>3 DEF PageCount, PerPage, SlicedWell
<1>11. SlicedWell(p, version, n, page, body)
  BY <1>6, <1>9, <1>10 DEF SlicedWell
<1> QED BY <1>11

\* A function on the first numbers is a sequence.
LEMMA AsSequence ==
  ASSUME NEW n \in Nat, NEW f, f = [k \in 1 .. n |-> f[k]]
  PROVE  Len(f) = n /\ DOMAIN f = 1 .. n
<1>1. PICK S : S = {f[k] : k \in 1 .. n}
  OBVIOUS
<1>2. \A k \in 1 .. n : f[k] \in S
  BY <1>1
<1>3. f \in Seq(S) /\ Len(f) = n
  BY <1>2, Listed
<1> QED BY <1>3

\* Two pages fit together.
Fitting(one, two, a, b) ==
  /\ one.pageCount = 2 /\ two.pageCount = 2 /\ one.page = 0 /\ two.page = 1
  /\ one.pointStart = 0 /\ two.pointStart = Len(a) /\ one.total = Len(a) + Len(b)
  /\ T!Same_Fields(two, one)

Merged(value, one, two, a, b) ==
  value = IF Fitting(one, two, a, b) THEN [one.config EXCEPT !.points = a \o b] ELSE <<>>

LEMMA MergeTwo ==
  ASSUME NEW items, Len(items) = 2, DOMAIN items = 1 .. 2, NEW one, NEW two,
         items[1] = one, items[2] = two,
         NEW S, NEW a \in Seq(S), NEW b \in Seq(S), one.config.points = a, two.config.points = b
  PROVE  Merged(T!Merge(items), one, two, a, b)
<1>1. PICK upto0 : upto0 = T!FlattenSeq([j \in 1 .. 0 |-> items[j].config.points])
  OBVIOUS
<1>2. PICK upto1 : upto1 = T!FlattenSeq([j \in 1 .. 1 |-> items[j].config.points])
  OBVIOUS
<1>3. PICK upto2 : upto2 = T!FlattenSeq([j \in 1 .. 2 |-> items[j].config.points])
  OBVIOUS
<1>4. Len(upto0) = 0
  <2>1. PICK s : s = [j \in 1 .. 0 |-> items[j].config.points]
    OBVIOUS
  <2>2. s = [j \in 1 .. 0 |-> s[j]]
    BY <2>1
  <2>3. Len(s) = 0
    BY <2>2, AsSequence
  <2> QED BY <1>1, <2>1, <2>3, FlattenNone
<1>5. upto1 = a
  <2>1. PICK s : s = [j \in 1 .. 1 |-> items[j].config.points]
    OBVIOUS
  <2>2. s = [j \in 1 .. 1 |-> s[j]] /\ s[1] = a
    BY <2>1
  <2>3. Len(s) = 1
    BY <2>2, AsSequence
  <2> QED BY <1>2, <2>1, <2>2, <2>3, FlattenOne
<1>6. upto2 = a \o b
  <2>1. PICK s : s = [j \in 1 .. 2 |-> items[j].config.points]
    OBVIOUS
  <2>2. s = [j \in 1 .. 2 |-> s[j]] /\ s[1] = a /\ s[2] = b
    BY <2>1
  <2>3. Len(s) = 2
    BY <2>2, AsSequence
  <2>4. T!FlattenSeq(s) = s[1] \o s[2]
    BY <2>3, FlattenTwo
  <2> QED BY ONLY <1>3, <2>1, <2>2, <2>4, Zenon
<1>7. Len(upto2) = Len(a) + Len(b)
  BY <1>6
<1>8. T!Merge(items) =
        IF /\ Len(items) = items[1].pageCount /\ Len(upto2) = items[1].total
           /\ \A i \in DOMAIN items :
                /\ items[i].page = i - 1 /\ items[i].pageCount = items[1].pageCount
                /\ items[i].pointStart = Len(T!FlattenSeq([j \in 1 .. i - 1 |-> items[j].config.points]))
                /\ T!Same_Fields(items[i], items[1])
        THEN [items[1].config EXCEPT !.points = upto2] ELSE <<>>
  <2>1. 2 = Len(items)
    OBVIOUS
  <2> QED BY ONLY <1>3, <2>1, Zenon DEF T!Merge
<1>9. (/\ Len(items) = items[1].pageCount /\ Len(upto2) = items[1].total
       /\ \A i \in DOMAIN items :
            /\ items[i].page = i - 1 /\ items[i].pageCount = items[1].pageCount
            /\ items[i].pointStart = Len(T!FlattenSeq([j \in 1 .. i - 1 |-> items[j].config.points]))
            /\ T!Same_Fields(items[i], items[1]))
      <=> Fitting(one, two, a, b)
  <2>1. T!Same_Fields(one, one)
    BY DEF T!Same_Fields
  <2>2. Len(T!FlattenSeq([j \in 1 .. 1 - 1 |-> items[j].config.points])) = 0
    <3>1. 1 - 1 = 0
      OBVIOUS
    <3> QED BY ONLY <1>1, <1>4, <3>1, Zenon
  <2>3. Len(T!FlattenSeq([j \in 1 .. 2 - 1 |-> items[j].config.points])) = Len(a)
    <3>1. 2 - 1 = 1
      OBVIOUS
    <3> QED BY ONLY <1>2, <1>5, <3>1, Zenon
  <2>4. (\A i \in DOMAIN items :
            /\ items[i].page = i - 1 /\ items[i].pageCount = items[1].pageCount
            /\ items[i].pointStart = Len(T!FlattenSeq([j \in 1 .. i - 1 |-> items[j].config.points]))
            /\ T!Same_Fields(items[i], items[1]))
        <=> (/\ items[1].page = 1 - 1 /\ items[1].pageCount = items[1].pageCount
             /\ items[1].pointStart = Len(T!FlattenSeq([j \in 1 .. 1 - 1 |-> items[j].config.points]))
             /\ T!Same_Fields(items[1], items[1])
             /\ items[2].page = 2 - 1 /\ items[2].pageCount = items[1].pageCount
             /\ items[2].pointStart = Len(T!FlattenSeq([j \in 1 .. 2 - 1 |-> items[j].config.points]))
             /\ T!Same_Fields(items[2], items[1]))
    <3>1. 1 \in DOMAIN items /\ 2 \in DOMAIN items /\ \A i \in DOMAIN items : i = 1 \/ i = 2
      OBVIOUS
    <3> QED BY ONLY <3>1, Zenon
  <2>5. 1 - 1 = 0 /\ 2 - 1 = 1
    OBVIOUS
  <2> QED BY ONLY <1>7, <2>1, <2>2, <2>3, <2>4, <2>5, items[1] = one, items[2] = two, Len(items) = 2 DEF Fitting
<1> QED BY <1>6, <1>8, <1>9, Zenon DEF Merged

\* What the decoder makes of one page, and of two.
LEMMA DecodeOne ==
  ASSUME NEW p, NEW bodies, DOMAIN bodies = 1 .. 1, NEW one, T!parseFrame(p, bodies[1]) = one,
         one # T!Mismatched
  PROVE  T!Decode(p, bodies) = one.config
<1>1. PICK items : items = [i \in DOMAIN bodies |-> T!parseFrame(p, bodies[i])]
  OBVIOUS
<1>2. items = [i \in 1 .. 1 |-> items[i]] /\ items[1] = one
  BY <1>1
<1>3. Len(items) = 1 /\ DOMAIN items = 1 .. 1
  BY <1>2, AsSequence
<1>4. ~\E i \in DOMAIN items : items[i] = T!Mismatched
  BY <1>2, <1>3
<1>5. T!Decode(p, bodies) = items[1].config
  BY ONLY <1>1, <1>3, <1>4, Zenon DEF T!Decode
<1> QED BY <1>2, <1>5

LEMMA DecodeTwo ==
  ASSUME NEW p, NEW bodies, DOMAIN bodies = 1 .. 2, NEW one, NEW two,
         T!parseFrame(p, bodies[1]) = one, T!parseFrame(p, bodies[2]) = two,
         one # T!Mismatched, two # T!Mismatched,
         NEW S, NEW a \in Seq(S), NEW b \in Seq(S), one.config.points = a, two.config.points = b
  PROVE  Merged(T!Decode(p, bodies), one, two, a, b)
<1>1. PICK items : items = [i \in DOMAIN bodies |-> T!parseFrame(p, bodies[i])]
  OBVIOUS
<1>2. items = [i \in 1 .. 2 |-> items[i]] /\ items[1] = one /\ items[2] = two
  BY <1>1
<1>3. Len(items) = 2 /\ DOMAIN items = 1 .. 2
  BY <1>2, AsSequence
<1>4. ~\E i \in DOMAIN items : items[i] = T!Mismatched
  BY <1>2, <1>3
<1>5. Len(items) # 1
  BY <1>3
<1>6. T!Decode(p, bodies) = T!Merge(items)
  BY ONLY <1>1, <1>4, <1>5, Zenon DEF T!Decode
<1>7. Merged(T!Merge(items), one, two, a, b)
  BY <1>2, <1>3, MergeTwo
<1> QED BY <1>6, <1>7, Zenon

\* A record says something.
LEMMA ParsedSays ==
  ASSUME NEW config, NEW page, NEW pages, NEW start, NEW total, NEW item,
         item = [config |-> config, page |-> page, pageCount |-> pages, pointStart |-> start, total |-> total]
  PROVE  item # T!Mismatched
BY DEF T!Mismatched

\* A scene cut to a part of its corners.
LEMMA CutAgain ==
  ASSUME NEW p \in T!Scenes, NEW version \in {1, 2}, NEW c, FieldsOf(p, c), NEW part, NEW points
  PROVE  /\ Cut(p, version, c, part).points = part
         /\ [Cut(p, version, c, part) EXCEPT !.points = points] = Cut(p, version, c, points)
         /\ Cut(p, version, c, c.points) = Meant(p, version, c)
<1>0. /\ CutSaid(p, version, c, part, Cut(p, version, c, part))
      /\ CutSaid(p, version, c, points, Cut(p, version, c, points))
      /\ CutSaid(p, version, c, c.points, Cut(p, version, c, c.points))
  BY CutIs
<1>1. PICK one : one = Cut(p, version, c, part)
  OBVIOUS
<1>2. PICK two : two = Cut(p, version, c, points)
  OBVIOUS
<1>3. CutSaid(p, version, c, part, one) /\ CutSaid(p, version, c, points, two)
  BY <1>0, <1>1, <1>2
<1>4. one.points = part /\ [one EXCEPT !.points = points] = two
  <2>1. CASE p = 131
    BY <1>3, <2>1 DEF CutSaid
  <2>2. CASE p = 132
    BY <1>3, <2>2 DEF CutSaid
  <2>3. CASE p = 133
    BY <1>3, <2>3 DEF CutSaid
  <2> QED BY <2>1, <2>2, <2>3 DEF T!Scenes
<1>5. [Meant(p, version, c) EXCEPT !.points = c.points] = Meant(p, version, c)
  <2>1. CASE p = 131
    BY <2>1 DEF Meant, FieldsOf
  <2>2. CASE p = 132
    BY <2>2 DEF Meant, FieldsOf
  <2>3. CASE p = 133
    <3>1. PICK classes : classes = c.classes
      OBVIOUS
    <3>2. PICK threshold : threshold = c.threshold
      OBVIOUS
    <3>3. PICK delay : delay = c.delay
      OBVIOUS
    <3>4. PICK schedule : schedule = c.schedule
      OBVIOUS
    <3>5. PICK old : old = c.points
      OBVIOUS
    <3>6. c = [classes |-> classes, threshold |-> threshold, delay |-> delay,
               schedule |-> schedule, points |-> old]
      BY <2>3, <3>1, <3>2, <3>3, <3>4, <3>5 DEF FieldsOf
    <3>7. PICK default : default = <<FALSE, 1080, 360>>
      OBVIOUS
    <3>8. PICK meant : meant = Meant(p, version, c)
      OBVIOUS
    <3>9. meant = c \/ meant = [c EXCEPT !.schedule = default]
      BY ONLY <3>7, <3>8, Zenon DEF Meant
    <3>10. [meant EXCEPT !.points = old] = meant
      <4>1. CASE meant = c
        BY ONLY <3>6, <4>1
      <4>2. CASE meant = [c EXCEPT !.schedule = default]
        <5>1. meant = [classes |-> classes, threshold |-> threshold, delay |-> delay,
                       schedule |-> default, points |-> old]
          BY ONLY <3>6, <4>2
        <5> QED BY ONLY <5>1
      <4> QED BY <3>9, <4>1, <4>2
    <3> QED BY ONLY <3>5, <3>8, <3>10, Zenon
  <2> QED BY <2>1, <2>2, <2>3 DEF T!Scenes
<1> QED BY <1>1, <1>2, <1>4, <1>5, Zenon DEF Cut

\* The pages of a scene.
PagesOf(p, version, c, n, points, bodies) ==
  /\ DOMAIN bodies = 1 .. PageCount(p, version, n)
  /\ \A k \in 1 .. PageCount(p, version, n) :
       Laid(bodies[k], version, SentFields(p, version, c), points, k - 1)

PagesRead(p, version, c, n, points, bodies) ==
  /\ PageCount(p, version, n) \in {1, 2}
  /\ \A k \in 1 .. PageCount(p, version, n) :
       /\ ReadWell(p, version, c, n, points, k - 1, bodies[k])
       /\ bodies[k][10] = PageCount(p, version, n)
  /\ PageCount(p, version, n) = 1 => Slice(bodies[1], points) = points
  /\ PageCount(p, version, n) = 2 =>
       /\ PerPage(p, version) \in 1 .. n - 1
       /\ Slice(bodies[1], points) = Part(points, 0, PerPage(p, version))
       /\ Slice(bodies[2], points) = Part(points, PerPage(p, version), n - PerPage(p, version))
       /\ bodies[1][11] = 0 /\ bodies[2][11] = PerPage(p, version)

LEMMA PagesAreRead ==
  ASSUME NEW p \in T!Scenes, NEW version \in {1, 2}, NEW c, FieldsOf(p, c),
         NEW n \in 2 .. 10, NEW points \in [1 .. n -> Grid], Len(points) = n,
         NEW bodies, PagesOf(p, version, c, n, points, bodies)
  PROVE  PagesRead(p, version, c, n, points, bodies)
<1>1. PICK pages : pages = PageCount(p, version, n)
  OBVIOUS
<1>2. PICK per : per = PerPage(p, version)
  OBVIOUS
<1>3. pages \in {1, 2} /\ per \in 1 .. 10 /\ pages = IF n <= per THEN 1 ELSE 2
  <2>1. PICK length : length = FieldLength(p, version)
    OBVIOUS
  <2>2. Layout(version, length)
    BY <2>1 DEF FieldLength, Layout
  <2>3. per = T!Points_Per_Page(length, version) /\ pages = T!Pages(n, length, version)
    BY <1>1, <1>2, <2>1 DEF PerPage, PageCount
  <2>4. per = IF version = 2 THEN IF length = 3 THEN 10 ELSE 8 ELSE 7
    BY <2>2, <2>3, Paged
  <2>5. pages = IF n <= per THEN 1 ELSE 2
    BY <2>2, <2>3, Paged
  <2> QED BY <2>4, <2>5
<1>4. ASSUME NEW k \in 1 .. pages
      PROVE  /\ ReadWell(p, version, c, n, points, k - 1, bodies[k])
             /\ bodies[k][10] = pages
             /\ pages = 1 => bodies[k][11] = 0 /\ bodies[k][12] = n
             /\ pages = 2 => /\ k = 1 => bodies[k][11] = 0 /\ bodies[k][12] = per
                             /\ k = 2 => bodies[k][11] = per /\ bodies[k][12] = n - per
  <2>1. PICK body : body = bodies[k]
    OBVIOUS
  <2>2. PICK page : page = k - 1
    OBVIOUS
  <2>3. page \in 0 .. PageCount(p, version, n) - 1 /\ page \in Int
    BY <1>1, <1>3, <2>2
  <2>4. PICK fields : fields = SentFields(p, version, c)
    OBVIOUS
  <2>5. Len(fields) = FieldLength(p, version)
    BY <2>4, FieldsTyped
  <2>6. Laid(body, version, fields, points, page)
    BY <1>1, <2>1, <2>2, <2>4 DEF PagesOf
  <2>7. ReadWell(p, version, c, n, points, page, body)
    BY <2>3, <2>4, <2>6, PageParsed
  <2>8. /\ body[10] = PageCount(p, version, n)
        /\ PageCount(p, version, n) = 1 => n <= PerPage(p, version) /\ page = 0 /\ body[11] = 0 /\ body[12] = n
        /\ PageCount(p, version, n) = 2 =>
              /\ PerPage(p, version) < n /\ page \in {0, 1}
              /\ page = 0 => body[11] = 0 /\ body[12] = PerPage(p, version)
              /\ page = 1 => body[11] = PerPage(p, version) /\ body[12] = n - PerPage(p, version)
    <3>1. SlicedWell(p, version, n, page, body)
      BY <2>3, <2>5, <2>6, Sliced
    <3> QED BY ONLY <3>1, Zenon DEF SlicedWell
  <2>9. (k = 1 => page = 0) /\ (k = 2 => page = 1)
    BY <2>2
  <2>10. ReadWell(p, version, c, n, points, k - 1, bodies[k])
    BY ONLY <2>1, <2>2, <2>7, Zenon
  <2>11. body[10] = pages
    BY ONLY <1>1, <2>8
  <2>12. pages = 1 => body[11] = 0 /\ body[12] = n
    BY ONLY <1>1, <2>8, Zenon
  <2>13. pages = 2 => /\ k = 1 => body[11] = 0 /\ body[12] = per
                      /\ k = 2 => body[11] = per /\ body[12] = n - per
    BY ONLY <1>1, <1>2, <2>8, <2>9, Zenon
  <2> QED BY ONLY <2>1, <2>10, <2>11, <2>12, <2>13, Zenon
<1>5. pages = 1 => Slice(bodies[1], points) = points
  <2>1. Part(points, 0, n) = points
    BY DEF Part
  <2>2. pages = 1 => bodies[1][11] = 0 /\ bodies[1][12] = n
    BY <1>3, <1>4
  <2>3. pages = 1 => Slice(bodies[1], points) = Part(points, 0, n)
    BY ONLY <2>2, Zenon DEF Slice, Part
  <2> QED BY <2>1, <2>3
<1>6. pages = 2 => /\ per \in 1 .. n - 1
                   /\ Slice(bodies[1], points) = Part(points, 0, per)
                   /\ Slice(bodies[2], points) = Part(points, per, n - per)
                   /\ bodies[1][11] = 0 /\ bodies[2][11] = per
  <2> SUFFICES ASSUME pages = 2
               PROVE  /\ per \in 1 .. n - 1
                      /\ Slice(bodies[1], points) = Part(points, 0, per)
                      /\ Slice(bodies[2], points) = Part(points, per, n - per)
                      /\ bodies[1][11] = 0 /\ bodies[2][11] = per
    BY Zenon
  <2>1. per \in 1 .. n - 1
    BY <1>3
  <2>2. 1 \in 1 .. pages /\ 2 \in 1 .. pages
    OBVIOUS
  <2>3. bodies[1][11] = 0 /\ bodies[1][12] = per
    BY <1>4, <2>2
  <2>4. bodies[2][11] = per /\ bodies[2][12] = n - per
    BY <1>4, <2>2
  <2>5. Slice(bodies[1], points) = Part(points, 0, per)
    BY ONLY <2>3, Zenon DEF Slice, Part
  <2>6. Slice(bodies[2], points) = Part(points, per, n - per)
    BY ONLY <2>4, Zenon DEF Slice, Part
  <2> QED BY <2>1, <2>3, <2>4, <2>5, <2>6
<1> QED BY <1>1, <1>2, <1>3, <1>4, <1>5, <1>6, Zenon DEF PagesRead

\* The decoder reads from the pages of a scene what was meant.
PointsOf(c) == c.points
Decodes(p, version, c, bodies) ==
  T!Decode(p, bodies) = Meant(p, version, c) /\ \A k \in DOMAIN bodies : Len(bodies[k]) <= 47

LEMMA SceneDecoded ==
  ASSUME NEW p \in T!Scenes, NEW version \in {1, 2}, NEW c, FieldsOf(p, c),
         NEW n \in 2 .. 10, NEW points \in [1 .. n -> Grid], Len(points) = n, points = PointsOf(c),
         NEW bodies, PagesOf(p, version, c, n, points, bodies)
  PROVE  Decodes(p, version, c, bodies)
<1>1. PICK pages : pages = PageCount(p, version, n)
  OBVIOUS
<1>2. PICK per : per = PerPage(p, version)
  OBVIOUS
<1>3. PagesRead(p, version, c, n, points, bodies)
  BY PagesAreRead
<1>4. /\ pages \in {1, 2}
      /\ \A k \in 1 .. pages : ReadWell(p, version, c, n, points, k - 1, bodies[k])
      /\ pages = 1 => Slice(bodies[1], points) = points
      /\ pages = 2 => /\ per \in 1 .. n - 1
                      /\ Slice(bodies[1], points) = Part(points, 0, per)
                      /\ Slice(bodies[2], points) = Part(points, per, n - per)
                      /\ bodies[1][11] = 0 /\ bodies[2][11] = per
  BY ONLY <1>1, <1>2, <1>3, Zenon DEF PagesRead
<1>5. DOMAIN bodies = 1 .. pages
  BY <1>1 DEF PagesOf
<1>6. \A k \in DOMAIN bodies : Len(bodies[k]) <= 47
  <2> SUFFICES ASSUME NEW k \in 1 .. pages PROVE Len(bodies[k]) <= 47
    BY <1>5
  <2>1. ReadWell(p, version, c, n, points, k - 1, bodies[k])
    BY <1>4
  <2> QED BY ONLY <2>1, Zenon DEF ReadWell
<1>7. PICK one : one = T!parseFrame(p, bodies[1])
  OBVIOUS
<1>8. PICK a : a = Slice(bodies[1], points)
  OBVIOUS
<1>9. one = [config |-> Cut(p, version, c, a), page |-> 0, pageCount |-> pages,
             pointStart |-> bodies[1][11], total |-> n]
  <2>1. 1 \in 1 .. pages /\ 1 - 1 = 0
    BY <1>4
  <2>2. ReadWell(p, version, c, n, points, 1 - 1, bodies[1])
    BY <1>4, <2>1
  <2>3. one = Parsed(p, version, c, points, 0, bodies[1])
    BY ONLY <1>7, <2>1, <2>2, Zenon DEF ReadWell
  <2>4. pages = PageCount(p, version, Len(points)) /\ n = Len(points)
    BY <1>1
  <2> QED BY ONLY <1>8, <2>3, <2>4, Zenon DEF Parsed
<1>10. one # T!Mismatched /\ one.config = Cut(p, version, c, a)
  <2>1. one.config = Cut(p, version, c, a)
    BY ONLY <1>9
  <2>2. one # T!Mismatched
    BY <1>9, ParsedSays
  <2> QED BY <2>1, <2>2
<1>11. CASE pages = 1
  <2>1. a = c.points
    BY <1>4, <1>8, <1>11 DEF PointsOf
  <2>2. T!Decode(p, bodies) = one.config
    BY <1>5, <1>7, <1>10, <1>11, DecodeOne
  <2>3. Cut(p, version, c, c.points) = Meant(p, version, c)
    BY CutAgain
  <2>4. T!Decode(p, bodies) = Meant(p, version, c)
    BY ONLY <1>10, <2>1, <2>2, <2>3, Zenon
  <2> QED BY <2>4, <1>6 DEF Decodes
<1>12. CASE pages = 2
  <2>1. PICK two : two = T!parseFrame(p, bodies[2])
    OBVIOUS
  <2>2. PICK b : b = Slice(bodies[2], points)
    OBVIOUS
  <2>3. two = [config |-> Cut(p, version, c, b), page |-> 1, pageCount |-> pages,
               pointStart |-> bodies[2][11], total |-> n]
    <3>1. 2 \in 1 .. pages /\ 2 - 1 = 1
      BY <1>12
    <3>2. ReadWell(p, version, c, n, points, 2 - 1, bodies[2])
      BY <1>4, <3>1
    <3>3. two = Parsed(p, version, c, points, 1, bodies[2])
      BY ONLY <2>1, <3>1, <3>2, Zenon DEF ReadWell
    <3>4. pages = PageCount(p, version, Len(points)) /\ n = Len(points)
      BY <1>1
    <3> QED BY ONLY <2>2, <3>3, <3>4, Zenon DEF Parsed
  <2>4. two # T!Mismatched /\ two.config = Cut(p, version, c, b)
    <3>1. two.config = Cut(p, version, c, b)
      BY ONLY <2>3
    <3>2. two # T!Mismatched
      BY <2>3, ParsedSays
    <3> QED BY <3>1, <3>2
  <2>5. /\ per \in 1 .. n - 1 /\ a = Part(points, 0, per) /\ b = Part(points, per, n - per)
        /\ bodies[1][11] = 0 /\ bodies[2][11] = per
    BY ONLY <1>4, <1>8, <1>12, <2>2, Zenon
  <2>6. per \in Nat /\ per <= n /\ n \in Nat
    BY <2>5
  <2>7. /\ a \in Seq(Grid) /\ Len(a) = per /\ b \in Seq(Grid) /\ Len(b) = n - per
        /\ a \o b = points
    <3>1. PartsSaid(points, Grid, n, per)
      BY <2>6, PartsJoin
    <3> QED BY ONLY <2>5, <3>1, Zenon DEF PartsSaid
  <2>8. one.config.points = a /\ two.config.points = b
    BY <1>10, <2>4, CutAgain
  <2>9. Merged(T!Decode(p, bodies), one, two, a, b)
    BY <1>5, <1>7, <1>10, <1>12, <2>1, <2>4, <2>7, <2>8, DecodeTwo
  <2>10. Fitting(one, two, a, b)
    <3>1. T!Same_Fields(two, one)
      <4>1. [one.config EXCEPT !.points = <<>>] = Cut(p, version, c, <<>>)
        BY <1>10, CutAgain
      <4>2. [two.config EXCEPT !.points = <<>>] = Cut(p, version, c, <<>>)
        BY <2>4, CutAgain
      <4> QED BY ONLY <4>1, <4>2, Zenon DEF T!Same_Fields
    <3>2. /\ one.page = 0 /\ one.pageCount = 2 /\ one.pointStart = 0 /\ one.total = n
      BY ONLY <1>9, <1>12, <2>5
    <3>3. /\ two.page = 1 /\ two.pageCount = 2 /\ two.pointStart = per
      BY ONLY <2>3, <1>12, <2>5
    <3>4. one.total = Len(a) + Len(b)
      BY ONLY <3>2, <2>6, <2>7
    <3> QED BY ONLY <2>7, <3>1, <3>2, <3>3, <3>4, Zenon DEF Fitting
  <2>11. T!Decode(p, bodies) = [one.config EXCEPT !.points = a \o b]
    BY ONLY <2>9, <2>10, Zenon DEF Merged
  <2>12. [Cut(p, version, c, a) EXCEPT !.points = points] = Cut(p, version, c, points)
    BY CutAgain
  <2>13. Cut(p, version, c, c.points) = Meant(p, version, c)
    BY CutAgain
  <2>14. T!Decode(p, bodies) = Meant(p, version, c)
    <3>1. points = c.points
      BY DEF PointsOf
    <3> QED BY ONLY <1>10, <2>7, <2>11, <2>12, <2>13, <3>1, Zenon
  <2> QED BY <2>14, <1>6 DEF Decodes
<1> QED BY <1>4, <1>11, <1>12

\* The corners that the app takes from the pages of a scene, joined.
TakenAll(n, points) == [i \in 1 .. n |-> Taken(points[i])]
Joint(number, parts) == T!FlattenSeq([i \in 1 .. number |-> parts[i]])

Joins(pages, got, n, points) == Joint(pages, got) = TakenAll(n, points)
AllTaken(p, version, pages, bodies, got) ==
  \A k \in 1 .. pages : got[k] = T!Read_Points(bodies[k], FieldLength(p, version))

LEMMA ReceivedJoined ==
  ASSUME NEW p \in T!Scenes, NEW version \in {1, 2}, NEW c, FieldsOf(p, c),
         NEW n \in 2 .. 10, NEW points \in [1 .. n -> Grid], Len(points) = n,
         NEW bodies, PagesOf(p, version, c, n, points, bodies),
         NEW pages, pages = PageCount(p, version, n),
         NEW got, AllTaken(p, version, pages, bodies, got)
  PROVE  Joins(pages, got, n, points)
<1>2. PICK per : per = PerPage(p, version)
  OBVIOUS
<1>3. PagesRead(p, version, c, n, points, bodies)
  BY PagesAreRead
<1>4. /\ pages \in {1, 2}
      /\ \A k \in 1 .. pages : ReadWell(p, version, c, n, points, k - 1, bodies[k])
      /\ pages = 1 => Slice(bodies[1], points) = points
      /\ pages = 2 => /\ per \in 1 .. n - 1
                      /\ Slice(bodies[1], points) = Part(points, 0, per)
                      /\ Slice(bodies[2], points) = Part(points, per, n - per)
                      /\ bodies[1][11] = 0 /\ bodies[2][11] = per
  <2>1. pages = PageCount(p, version, n)
    OBVIOUS
  <2> QED BY ONLY <1>2, <1>3, <2>1, Zenon DEF PagesRead
<1>5. PICK all : all = TakenAll(n, points)
  OBVIOUS
<1>6. PICK S : S = {Taken(points[i]) : i \in 1 .. n}
  OBVIOUS
<1>7. all \in [1 .. n -> S] /\ \A i \in 1 .. n : all[i] = Taken(points[i])
  BY <1>5, <1>6 DEF TakenAll
<1>8. ASSUME NEW k \in 1 .. pages, NEW start \in Nat, NEW count \in Nat, start + count <= n,
             Slice(bodies[k], points) = Part(points, start, count)
      PROVE  got[k] = Part(all, start, count)
  <2>1. PICK body : body = bodies[k]
    OBVIOUS
  <2>2. ReadWell(p, version, c, n, points, k - 1, body)
    BY <1>4, <2>1
  <2>3. CornersSaid(body, version, FieldLength(p, version), points, n)
    BY ONLY <2>2, Zenon DEF ReadWell
  <2>4. /\ body[12] \in 1 .. n /\ body[11] \in Nat /\ body[11] + body[12] <= n
        /\ T!Read_Points(body, FieldLength(p, version)) = [i \in 1 .. body[12] |-> Taken(points[body[11] + i])]
    BY ONLY <2>3, Zenon DEF CornersSaid
  <2>5. PICK at : at = body[11]
    OBVIOUS
  <2>6. PICK many : many = body[12]
    OBVIOUS
  <2>7. many \in 1 .. n /\ at \in Nat /\ at + many <= n
    BY <2>4, <2>5, <2>6
  <2>8. got[k] = [i \in 1 .. many |-> Taken(points[at + i])]
    <3>1. got[k] = T!Read_Points(body, FieldLength(p, version))
      BY ONLY <2>1, k \in 1 .. pages, AllTaken(p, version, pages, bodies, got), Zenon DEF AllTaken
    <3> QED BY ONLY <3>1, <2>4, <2>5, <2>6, Zenon
  <2>9. [i \in 1 .. many |-> points[at + i]] = [i \in 1 .. count |-> points[start + i]]
    BY <1>8, <2>1, <2>5, <2>6 DEF Slice, Part
  <2>10. many = count
    <3>1. DOMAIN [i \in 1 .. many |-> points[at + i]] = 1 .. many /\ DOMAIN [i \in 1 .. count |-> points[start + i]] = 1 .. count
      OBVIOUS
    <3>2. 1 .. many = 1 .. count
      BY ONLY <2>9, <3>1, Zenon
    <3>3. many \in Nat /\ many >= 1
      BY <2>7
    <3>4. many \in 1 .. count
      BY <3>2, <3>3
    <3>5. count \in 1 .. many
      BY <3>2, <3>4
    <3> QED BY <3>3, <3>4, <3>5
  <2>11. ASSUME NEW i \in 1 .. count PROVE Taken(points[at + i]) = all[start + i]
    <3>1. points[at + i] = points[start + i]
      BY <2>9, <2>10
    <3>2. start + i \in 1 .. n
      BY <1>8
    <3> QED BY <1>7, <3>1, <3>2
  <2> QED BY <2>8, <2>10, <2>11 DEF Part
<1>9. PICK s : s = [i \in 1 .. pages |-> got[i]]
  OBVIOUS
<1>10. s = [i \in 1 .. pages |-> s[i]] /\ \A i \in 1 .. pages : s[i] = got[i]
  BY <1>9
<1>11. Len(s) = pages
  BY <1>4, <1>10, AsSequence
<1>12. CASE pages = 1
  <2>1. Part(points, 0, n) = points /\ Part(all, 0, n) = all
    BY <1>7 DEF Part
  <2>2. got[1] = all
    <3>1. Slice(bodies[1], points) = Part(points, 0, n) /\ 1 \in 1 .. pages
      BY <1>4, <1>12, <2>1
    <3> QED BY <1>8, <2>1, <3>1
  <2>3. T!FlattenSeq(s) = s[1]
    BY <1>11, <1>12, FlattenOne
  <2>4. s[1] = got[1]
    BY <1>10, <1>12
  <2> QED BY ONLY <1>5, <1>9, <2>2, <2>3, <2>4, Zenon DEF Joint, Joins
<1>13. CASE pages = 2
  <2>1. /\ per \in 1 .. n - 1
        /\ Slice(bodies[1], points) = Part(points, 0, per)
        /\ Slice(bodies[2], points) = Part(points, per, n - per)
    BY ONLY <1>4, <1>13, Zenon
  <2>2. 1 \in 1 .. pages /\ 2 \in 1 .. pages /\ per \in Nat /\ n - per \in Nat /\ per <= n /\ n \in Nat
    BY <1>13, <2>1
  <2>3. got[1] = Part(all, 0, per)
    BY <1>8, <2>1, <2>2
  <2>4. got[2] = Part(all, per, n - per)
    BY <1>8, <2>1, <2>2
  <2>5. Part(all, 0, per) \o Part(all, per, n - per) = all
    <3>1. PartsSaid(all, S, n, per)
      BY <1>7, <2>2, PartsJoin
    <3> QED BY ONLY <3>1, Zenon DEF PartsSaid
  <2>6. T!FlattenSeq(s) = s[1] \o s[2]
    BY <1>11, <1>13, FlattenTwo
  <2>7. s[1] = got[1] /\ s[2] = got[2]
    BY <1>10, <1>13
  <2> QED BY ONLY <1>5, <1>9, <2>3, <2>4, <2>5, <2>6, <2>7, Zenon DEF Joint, Joins
<1> QED BY <1>4, <1>12, <1>13

\* A request of one frame: what comes of it.
Taken1(p, c, before, after) ==
  IF p = 110 THEN /\ c.dataRate \in {<<>>, <<after.dataRate>>} /\ c.adr \in {<<>>, <<after.adr>>}
  ELSE after = c
FrameSaid(p, c, frames) ==
  /\ DOMAIN frames = 1 .. 1 /\ Len(frames[1]) <= 47
  /\ T!Accepted(p, frames[1]) /\ T!Decode(p, frames) = c
  /\ \A before \in T!Version(p) :
       /\ T!Effect(p, frames[1], before) \in T!Version(p)
       /\ Taken1(p, c, before, T!Effect(p, frames[1], before))

\* Whatever is parsed at a port of one frame is told from a page that says nothing.
LEMMA FrameSays ==
  ASSUME NEW p, p \notin T!Scenes, NEW frames, DOMAIN frames = 1 .. 1, NEW config,
         T!parseFrame(p, frames[1]) = [config |-> config], config # <<>>
  PROVE  T!Decode(p, frames) = config
<1>1. PICK one : one = [config |-> config]
  OBVIOUS
<1>2. one.config = config /\ one # T!Mismatched
  BY <1>1 DEF T!Mismatched
<1> QED BY <1>1, <1>2, DecodeOne

LEMMA ActionTaken ==
  ASSUME NEW r, r.port = 100, NEW c, c = r.config, c \in T!Documented(100)
  PROVE  FrameSaid(100, c, T!Encode(r))
<1>1. c = [action |-> c.action] /\ c.action \in {1, 2}
  BY DEF T!Documented, T!Scenes
<1>2. T!Encode(r) = << <<c.action>> >>
  BY DEF T!Encode, T!Scenes
<1>3. PICK frames : frames = T!Encode(r)
  OBVIOUS
<1>4. DOMAIN frames = 1 .. 1 /\ Len(frames[1]) = 1 /\ frames[1][1] = c.action
  BY <1>2, <1>3
<1>5. T!Accepted(100, frames[1])
  BY <1>1, <1>4 DEF T!Accepted, T!Handle_Action_OTA, T!Scenes
<1>6. T!parseFrame(100, frames[1]) = [config |-> [action |-> frames[1][1]]]
  BY DEF T!parseFrame, T!Scenes
<1>7. c # <<>>
  <2>1. DOMAIN c # DOMAIN <<>>
    BY <1>1
  <2> QED BY <2>1
<1>8. T!Decode(100, frames) = c
  BY <1>1, <1>4, <1>6, <1>7, FrameSays DEF T!Scenes
<1>9. \A before : T!Effect(100, frames[1], before) = c
  BY <1>1, <1>4 DEF T!Effect
<1>10. c \in T!Version(100)
  BY <1>1 DEF T!Version, T!Scenes
<1>11. 100 # 110
  OBVIOUS
<1> QED BY <1>3, <1>4, <1>5, <1>8, <1>9, <1>10, <1>11 DEF FrameSaid, Taken1

LEMMA StreamTaken ==
  ASSUME NEW r, r.port = 130, NEW c, c = r.config, c \in T!Documented(130)
  PROVE  FrameSaid(130, c, T!Encode(r))
<1>1. /\ c = [useCase |-> c.useCase, enabled |-> c.enabled, interval |-> c.interval]
      /\ c.useCase \in 1 .. 3 /\ c.enabled \in BOOLEAN /\ c.interval \in 0 .. 60
      /\ (c.interval = 0 <=> c.useCase = 3)
  BY DEF T!Documented, T!Scenes, T!Streams
<1>2. PICK on : on = IF c.enabled THEN 1 ELSE 0
  OBVIOUS
<1>3. PICK body : body = <<c.useCase, on>> \o (IF c.useCase = 3 THEN <<>> ELSE <<c.interval>>)
  OBVIOUS
<1>4. T!Encode(r) = <<body>>
  BY <1>2, <1>3 DEF T!Encode, T!Scenes, T!Transmission_Frame
<1>5. PICK frames : frames = T!Encode(r)
  OBVIOUS
<1>6. DOMAIN frames = 1 .. 1 /\ frames[1] = body
  BY <1>4, <1>5
<1>7. on \in 0 .. 1 /\ (on = 1 <=> c.enabled)
  BY <1>1, <1>2
<1>8. /\ Len(body) = (IF c.useCase = 3 THEN 2 ELSE 3) /\ body[1] = c.useCase /\ body[2] = on
      /\ c.useCase # 3 => body[3] = c.interval
  <2>1. CASE c.useCase = 3
    BY <1>1, <1>3, <1>7, <2>1
  <2>2. CASE c.useCase # 3
    BY <1>1, <1>3, <1>7, <2>2
  <2> QED BY <2>1, <2>2
<1>9. T!Accepted(130, body)
  BY <1>1, <1>7, <1>8 DEF T!Accepted, T!Handle_Transmission_OTA, T!Scenes
<1>10. T!parseFrame(130, body) =
         [config |-> [useCase |-> body[1], enabled |-> body[2] # 0,
                      interval |-> IF body[1] = 3 THEN 0 ELSE body[3]]]
  BY DEF T!parseFrame, T!Scenes
<1>11. PICK interval : interval = IF body[1] = 3 THEN 0 ELSE body[3]
  OBVIOUS
<1>12. interval = c.interval
  BY <1>1, <1>8, <1>11
<1>13. c.enabled = (body[2] # 0) /\ c.enabled = (body[2] = 1)
  <2>1. (body[2] # 0 <=> c.enabled) /\ (body[2] = 1 <=> c.enabled)
    BY <1>7, <1>8
  <2> QED BY <1>1, <2>1
<1>14. c = [useCase |-> body[1], enabled |-> body[2] # 0, interval |-> IF body[1] = 3 THEN 0 ELSE body[3]]
  BY ONLY <1>1, <1>8, <1>11, <1>12, <1>13, Zenon
<1>15. c = [useCase |-> body[1], enabled |-> body[2] = 1, interval |-> IF body[1] = 3 THEN 0 ELSE body[3]]
  BY ONLY <1>1, <1>8, <1>11, <1>12, <1>13, Zenon
<1>16. c # <<>>
  <2>1. DOMAIN c # DOMAIN <<>>
    BY <1>1
  <2> QED BY <2>1
<1>17. T!parseFrame(130, frames[1]) = [config |-> c]
  BY ONLY <1>6, <1>10, <1>14, Zenon
<1>18. T!Decode(130, frames) = c
  BY <1>6, <1>16, <1>17, FrameSays DEF T!Scenes
<1>19. \A before : T!Effect(130, frames[1], before)
         = [useCase |-> body[1], enabled |-> body[2] = 1, interval |-> IF body[1] = 3 THEN 0 ELSE body[3]]
  BY <1>6 DEF T!Effect
<1>20. \A before : T!Effect(130, frames[1], before) = c
  BY ONLY <1>15, <1>19, Zenon
<1>21. c \in T!Version(130)
  BY DEF T!Version, T!Documented, T!Scenes
<1>22. Len(frames[1]) <= 47 /\ 130 # 110
  BY <1>1, <1>6, <1>8
<1>23. T!Accepted(130, frames[1])
  BY <1>6, <1>9
<1> QED BY ONLY <1>5, <1>6, <1>18, <1>20, <1>21, <1>22, <1>23 DEF FrameSaid, Taken1

LEMMA BridgeTaken ==
  ASSUME NEW r, r.port = 110, NEW c, c = r.config, c \in T!Documented(110)
  PROVE  FrameSaid(110, c, T!Encode(r))
<1>0. /\ c = [dataRate |-> c.dataRate, adr |-> c.adr]
      /\ c.dataRate = <<>> \/ \E rate \in 0 .. 5 : c.dataRate = <<rate>>
      /\ c.adr = <<>> \/ c.adr = <<TRUE>> \/ c.adr = <<FALSE>>
      /\ ~(c.dataRate = <<>> /\ c.adr = <<>>)
  <2>0. T!Documented(110)
        = [dataRate : {<<>>} \cup {<<rate>> : rate \in 0 .. 5}, adr : {<<>>, <<TRUE>>, <<FALSE>>}]
          \ {[dataRate |-> <<>>, adr |-> <<>>]}
    <3>1. 110 \notin T!Scenes /\ 110 # 100
      BY DEF T!Scenes
    <3>2. T!Documented(110) = T!Documented_Bridge
      BY ONLY <3>1 DEF T!Documented
    <3> QED BY <3>2 DEF T!Documented_Bridge
  <2>1. c \in [dataRate : {<<>>} \cup {<<rate>> : rate \in 0 .. 5}, adr : {<<>>, <<TRUE>>, <<FALSE>>}]
        /\ c # [dataRate |-> <<>>, adr |-> <<>>]
    BY <2>0, Zenon
  <2>2. c = [dataRate |-> c.dataRate, adr |-> c.adr]
    BY <2>1
  <2>3. c.dataRate \in {<<>>} \cup {<<rate>> : rate \in 0 .. 5} /\ c.adr \in {<<>>, <<TRUE>>, <<FALSE>>}
    BY <2>1
  <2> QED BY <2>1, <2>2, <2>3
<1>1. PICK rates : rates = c.dataRate
  OBVIOUS
<1>2. PICK adr : adr = c.adr
  OBVIOUS
<1>3. PICK m : m = (IF rates # <<>> THEN 1 ELSE 0) + (IF adr # <<>> THEN 2 ELSE 0)
  OBVIOUS
<1>4. PICK a : a = IF adr = <<TRUE>> THEN 1 ELSE 0
  OBVIOUS
<1>5. PICK d : d = IF rates # <<>> THEN rates[1] ELSE 0
  OBVIOUS
<1>6. PICK body : body = <<m, d, a>>
  OBVIOUS
<1>7. T!Encode(r) = <<body>>
  <2>1. T!Encode(r) = << <<(IF c.dataRate # <<>> THEN 1 ELSE 0) + (IF c.adr # <<>> THEN 2 ELSE 0),
                           IF c.dataRate # <<>> THEN c.dataRate[1] ELSE 0,
                           IF c.adr = <<TRUE>> THEN 1 ELSE 0>> >>
    <3>1. T!Encode(r) = <<T!Bridge_Frame(c)>>
      BY DEF T!Encode, T!Scenes
    <3> QED BY ONLY <3>1, Zenon DEF T!Bridge_Frame
  <2> QED BY ONLY <2>1, <1>1, <1>2, <1>3, <1>4, <1>5, <1>6, Zenon
<1>8. PICK frames : frames = T!Encode(r)
  OBVIOUS
<1>9. DOMAIN frames = 1 .. 1 /\ frames[1] = body
  BY <1>7, <1>8
<1>10. m \in 1 .. 3 /\ (T!Bit(m, 0) <=> rates # <<>>) /\ (T!Bit(m, 1) <=> adr # <<>>)
  <2>1. m \in 1 .. 3 /\ (rates # <<>> <=> m \in {1, 3}) /\ (adr # <<>> <=> m \in {2, 3})
    BY <1>0, <1>1, <1>2, <1>3
  <2>2. T!Bit(1, 0) /\ ~T!Bit(2, 0) /\ T!Bit(3, 0) /\ ~T!Bit(1, 1) /\ T!Bit(2, 1) /\ T!Bit(3, 1)
    BY DEF T!Bit
  <2> QED BY <2>1, <2>2
<1>11. (rates # <<>> => rates = <<d>> /\ d \in 0 .. 5) /\ d \in 0 .. 5
  BY <1>0, <1>1, <1>5
<1>12. a \in {0, 1}
  BY <1>4
<1>13. adr # <<>> => adr = <<a = 1>> /\ adr = <<a # 0>>
  <2>1. CASE adr = <<TRUE>>
    <3>1. a = 1
      BY <1>4, <2>1
    <3>2. ((a = 1) <=> TRUE) /\ ((a # 0) <=> TRUE)
      BY <3>1
    <3>3. <<a = 1>> = <<TRUE>> /\ <<a # 0>> = <<TRUE>>
      BY <3>2
    <3> QED BY <2>1, <3>3, Zenon
  <2>2. CASE adr = <<FALSE>>
    <3>1. a = 0
      BY <1>4, <2>2
    <3>2. ((a = 1) <=> FALSE) /\ ((a # 0) <=> FALSE)
      BY <3>1
    <3>3. <<a = 1>> = <<FALSE>> /\ <<a # 0>> = <<FALSE>>
      BY <3>2
    <3> QED BY <2>2, <3>3, Zenon
  <2> QED BY <1>0, <1>2, <2>1, <2>2
<1>14. Len(body) = 3 /\ body[1] = m /\ body[2] = d /\ body[3] = a
  BY <1>6
<1>15. T!Accepted(110, body)
  BY <1>10, <1>11, <1>12, <1>14 DEF T!Accepted, T!Handle_Bridge_Config_OTA, T!Scenes
<1>16. T!parseFrame(110, body) =
         [config |-> [dataRate |-> IF T!Bit(m, 0) THEN <<d>> ELSE <<>>,
                      adr |-> IF T!Bit(m, 1) THEN <<a # 0>> ELSE <<>>]]
  BY <1>14 DEF T!parseFrame, T!Scenes
<1>17. (IF T!Bit(m, 0) THEN <<d>> ELSE <<>>) = rates
  BY <1>10, <1>11
<1>18. (IF T!Bit(m, 1) THEN <<a # 0>> ELSE <<>>) = adr
  <2>1. CASE adr = <<>>
    BY <1>10, <2>1
  <2>2. CASE adr # <<>>
    <3>1. adr = <<a # 0>> /\ T!Bit(m, 1)
      BY <1>10, <1>13, <2>2
    <3> QED BY ONLY <3>1, Zenon
  <2> QED BY <2>1, <2>2
<1>19. T!parseFrame(110, frames[1]) = [config |-> c]
  BY ONLY <1>0, <1>1, <1>2, <1>9, <1>16, <1>17, <1>18, Zenon
<1>20. c # <<>>
  <2>1. DOMAIN c # DOMAIN <<>>
    BY <1>0
  <2> QED BY <2>1
<1>21. T!Decode(110, frames) = c
  BY <1>9, <1>19, <1>20, FrameSays DEF T!Scenes
<1>22. ASSUME NEW before \in T!Version(110)
       PROVE  /\ T!Effect(110, body, before) \in T!Version(110)
              /\ rates \in {<<>>, <<T!Effect(110, body, before).dataRate>>}
              /\ adr \in {<<>>, <<T!Effect(110, body, before).adr>>}
  <2>0. T!Version(110) = [dataRate : 0 .. 255, adr : BOOLEAN]
    <3>1. 110 \notin T!Scenes
      BY DEF T!Scenes
    <3>2. T!Version(110) = T!Bridge_Version
      BY ONLY <3>1 DEF T!Version
    <3> QED BY ONLY <3>2, Zenon DEF T!Bridge_Version
  <2>1. before.dataRate \in 0 .. 255 /\ before.adr \in BOOLEAN
    <3>1. before \in [dataRate : 0 .. 255, adr : BOOLEAN]
      BY ONLY <2>0, before \in T!Version(110), Zenon
    <3> QED BY ONLY <3>1
  <2>2. PICK rate : rate = IF T!Bit(m, 0) THEN d ELSE before.dataRate
    OBVIOUS
  <2>3. PICK after : after = IF T!Bit(m, 1) THEN a = 1 ELSE before.adr
    BY Zenon
  <2>4. T!Effect(110, body, before) = [dataRate |-> rate, adr |-> after]
    <3>1. T!Effect(110, body, before) = T!Changed(body, before)
      BY DEF T!Effect
    <3> QED BY ONLY <1>14, <2>2, <2>3, <3>1, Zenon DEF T!Changed
  <2>5. rate \in 0 .. 255 /\ (rates # <<>> => rates = <<rate>>)
    BY <1>10, <1>11, <2>1, <2>2
  <2>6. after \in BOOLEAN
    BY <2>1, <2>3
  <2>7. adr # <<>> => adr = <<after>>
    <3>1. SUFFICES ASSUME adr # <<>> PROVE adr = <<after>>
      OBVIOUS
    <3>2. T!Bit(m, 1) /\ adr = <<a = 1>>
      BY <1>10, <1>13, <3>1
    <3>3. after = (a = 1)
      BY ONLY <2>3, <3>2, Zenon
    <3> QED BY ONLY <3>2, <3>3, Zenon
  <2>8. [dataRate |-> rate, adr |-> after] \in T!Version(110)
    BY <2>0, <2>5, <2>6
  <2> QED BY <2>4, <2>5, <2>7, <2>8
<1>23. Len(frames[1]) <= 47
  BY <1>9, <1>14
<1> QED BY <1>1, <1>2, <1>8, <1>9, <1>15, <1>21, <1>22, <1>23 DEF FrameSaid, Taken1

Sender(r) == IF r.sender = "encoder" THEN 2 ELSE 1

\* What is known of a documented request for a scene.
SceneSent(p, version, c, n, frames) ==
  /\ FieldsOf(p, c) /\ WithinRanges(p, c)
  /\ n \in 2 .. 10 /\ n = Len(c.points) /\ c.points \in [1 .. n -> Grid] /\ (p # 131 => n >= 3)
  /\ PagesOf(p, version, c, n, c.points, frames)

LEMMA DocumentedScene ==
  ASSUME NEW p, p \in T!Scenes, NEW c, c \in T!Documented(p)
  PROVE  /\ FieldsOf(p, c) /\ WithinRanges(p, c) /\ c.points \in T!Corners(p, T!Thousandth)
<1>1. c \in T!Scene(p, T!Thousandth, 1 .. 101, T!Delay) /\ (p = 133 => c.classes # {})
  <2>1. T!Documented(p) = T!Documented_Scenes(p)
    <3>1. p # 100 /\ p # 110 /\ p # 130
      BY DEF T!Scenes
    <3> QED BY ONLY <3>1, p \in T!Scenes DEF T!Documented
  <2> QED BY ONLY <2>1, c \in T!Documented(p), Zenon DEF T!Documented_Scenes
<1>2. 1 .. 101 \in SUBSET (0 .. 255)
  OBVIOUS
<1>3. T!Delay \in SUBSET T!Word
  BY DEF T!Word, T!Delay
<1>4. FieldsOf(p, c) /\ c.points \in T!Corners(p, T!Thousandth)
  BY ONLY <1>1, <1>2, <1>3, SceneFields, p \in T!Scenes, Zenon
<1>5. p = 133 => c.threshold \in 1 .. 101 /\ c.delay \in T!Delay
  <2>1. SUFFICES ASSUME p = 133 PROVE c.threshold \in 1 .. 101 /\ c.delay \in T!Delay
    OBVIOUS
  <2>2. PICK thresholds : thresholds = 1 .. 101
    OBVIOUS
  <2>3. PICK delays : delays = T!Delay
    OBVIOUS
  <2>4. c \in T!Scene(133, T!Thousandth, thresholds, delays)
    BY ONLY <1>1, <2>1, <2>2, <2>3, Zenon
  <2>5. c.threshold \in thresholds /\ c.delay \in delays
    BY ONLY <2>4 DEF T!Scene
  <2> QED BY ONLY <2>2, <2>3, <2>5, Zenon
<1> QED BY ONLY <1>1, <1>4, <1>5, Zenon DEF WithinRanges

LEMMA CornersAre ==
  ASSUME NEW p \in T!Scenes, NEW points \in T!Corners(p, T!Thousandth), NEW n, n = Len(points)
  PROVE  n \in 2 .. 10 /\ (p # 131 => n >= 3) /\ points \in [1 .. n -> Grid]
<1>1. points \in Seq(Grid) /\ n \in (IF p = 131 THEN 2 ELSE 3) .. 10
  BY DEF T!Corners, Grid
<1>2. points \in [1 .. n -> Grid]
  BY <1>1
<1>3. n \in 2 .. 10 /\ (p # 131 => n >= 3)
  <2>1. CASE p = 131
    BY ONLY <1>1, <2>1
  <2>2. CASE p # 131
    <3>1. n \in 3 .. 10
      BY ONLY <1>1, <2>2, Zenon
    <3> QED BY ONLY <3>1, <2>2
  <2> QED BY <2>1, <2>2
<1> QED BY <1>2, <1>3

LEMMA SceneEncoded ==
  ASSUME NEW r, NEW p \in T!Scenes, r.port = p, NEW c, c = r.config, c \in T!Documented(p),
         NEW n, n = Len(c.points)
  PROVE  SceneSent(p, Sender(r), c, n, T!Encode(r))
<1>1. PICK version : version = Sender(r)
  OBVIOUS
<1>2. version \in {1, 2}
  BY <1>1 DEF Sender
<1>3. FieldsOf(p, c) /\ WithinRanges(p, c) /\ c.points \in T!Corners(p, T!Thousandth)
  BY DocumentedScene
<1>4. PICK points : points = c.points
  OBVIOUS
<1>5. n \in 2 .. 10 /\ (p # 131 => n >= 3) /\ points \in [1 .. n -> Grid]
  <2>1. points \in T!Corners(p, T!Thousandth) /\ n = Len(points)
    BY <1>3, <1>4
  <2> QED BY ONLY <2>1, CornersAre, p \in T!Scenes
<1>6. PICK fields : fields = SentFields(p, version, c)
  OBVIOUS
<1>7. fields = IF r.sender = "encoder" THEN T!Fields(p, c) ELSE T!Legacy_Fields(p, c)
  BY <1>1, <1>6 DEF SentFields, Sender
<1>8. version = IF r.sender = "encoder" THEN 2 ELSE 1
  BY <1>1 DEF Sender
<1>9. T!Encode(r) = [i \in 1 .. T!Pages(Len(points), Len(fields), version) |->
                       T!Page(version, fields, points, i - 1)]
  <2>1. T!Encode(r) = T!encodeSceneSet(r)
    BY DEF T!Encode, T!Scenes
  <2> QED BY ONLY <1>4, <1>7, <1>8, <2>1, r.port = p, c = r.config, Zenon DEF T!encodeSceneSet
<1>10. PICK frames : frames = T!Encode(r)
  OBVIOUS
<1>11. fields \in Seq(Nat) /\ Len(fields) = FieldLength(p, version) /\ Layout(version, Len(fields))
  <2>1. fields \in Seq(Nat) /\ Len(fields) = FieldLength(p, version)
    BY <1>2, <1>3, <1>6, FieldsTyped
  <2>2. Layout(version, FieldLength(p, version))
    BY <1>2 DEF Layout, FieldLength
  <2> QED BY <2>1, <2>2
<1>12. PICK pages : pages = PageCount(p, version, n)
  OBVIOUS
<1>13. pages = T!Pages(Len(points), Len(fields), version) /\ Len(points) = n
  BY <1>4, <1>11, <1>12 DEF PageCount
<1>14. DOMAIN frames = 1 .. pages
  BY <1>9, <1>10, <1>13
<1>15. pages \in Int
  <2>1. Layout(version, FieldLength(p, version))
    BY <1>11
  <2>2. pages = IF n <= T!Points_Per_Page(FieldLength(p, version), version) THEN 1 ELSE 2
    BY ONLY <1>5, <1>12, <2>1, Paged DEF PageCount
  <2> QED BY <2>2
<1>16. ASSUME NEW k \in 1 .. pages
       PROVE  Laid(frames[k], version, fields, points, k - 1)
  <2>1. PICK page : page = k - 1
    OBVIOUS
  <2>2. page \in 0 .. T!Pages(Len(points), Len(fields), version) - 1
    BY <1>13, <1>15, <2>1
  <2>3. Len(points) \in 2 .. 10
    BY <1>5, <1>13
  <2>4. Laid(T!Page(version, fields, points, page), version, fields, points, page)
    BY <1>11, <2>2, <2>3, PageLaid
  <2>5. frames[k] = T!Page(version, fields, points, k - 1)
    BY <1>9, <1>10, <1>13
  <2> QED BY ONLY <2>1, <2>4, <2>5, Zenon
<1>17. PagesOf(p, version, c, n, points, frames)
  BY <1>6, <1>12, <1>14, <1>16 DEF PagesOf
<1> QED BY ONLY <1>1, <1>3, <1>4, <1>5, <1>10, <1>17, n = Len(c.points), Zenon DEF SceneSent

LEMMA Guarded ==
  ASSUME NEW p, p = 133, NEW side, NEW thresholds, NEW delays,
         NEW classes, classes \in SUBSET (0 .. 5), NEW threshold, threshold \in thresholds,
         NEW delay, delay \in delays, NEW schedule, schedule \in BOOLEAN \X T!Minute \X T!Minute,
         NEW points, points \in T!Corners(p, side)
  PROVE  [classes |-> classes, threshold |-> threshold, delay |-> delay,
          schedule |-> schedule, points |-> points] \in T!Scene(p, side, thresholds, delays)
BY DEF T!Scene

\* What is put into effect is a scene again.
LEMMA CutTyped ==
  ASSUME NEW p \in T!Scenes, NEW version \in {1, 2}, NEW c, FieldsOf(p, c), NEW points \in T!Corners(p, T!Vertex)
  PROVE  Cut(p, version, c, points) \in T!Scene(p, T!Vertex, 0 .. 255, T!Word)
<1>1. PICK cut : cut = Cut(p, version, c, points)
  OBVIOUS
<1>2. CutSaid(p, version, c, points, cut)
  BY <1>1, CutIs
<1>3. CASE p = 131
  BY <1>1, <1>2, <1>3 DEF CutSaid, FieldsOf, T!Scene
<1>4. CASE p = 132
  BY <1>1, <1>2, <1>4 DEF CutSaid, FieldsOf, T!Scene
<1>5. CASE p = 133
  <2>1. PICK schedule : schedule = Times(version, c)
    OBVIOUS
  <2>2. cut = [classes |-> c.classes, threshold |-> c.threshold, delay |-> c.delay,
               schedule |-> schedule, points |-> points]
    BY <1>2, <1>5, <2>1 DEF CutSaid
  <2>3. schedule \in BOOLEAN \X T!Minute \X T!Minute
    <3>1. CASE version = 2
      BY <1>5, <2>1, <3>1 DEF Times, FieldsOf
    <3>2. CASE version = 1
      <4>1. schedule = <<FALSE, 1080, 360>>
        BY <2>1, <3>2 DEF Times
      <4>2. 1080 \in T!Minute /\ 360 \in T!Minute
        BY DEF T!Minute
      <4> QED BY <4>1, <4>2
    <3> QED BY <3>1, <3>2
  <2>4. c.classes \in SUBSET (0 .. 5) /\ c.threshold \in 0 .. 255 /\ c.delay \in T!Word
    BY <1>5 DEF FieldsOf
  <2>5. PICK thresholds : thresholds = 0 .. 255
    OBVIOUS
  <2>6. c.threshold \in thresholds
    BY ONLY <2>4, <2>5, Zenon
  <2>7. [classes |-> c.classes, threshold |-> c.threshold, delay |-> c.delay,
         schedule |-> schedule, points |-> points] \in T!Scene(p, T!Vertex, thresholds, T!Word)
    BY ONLY <1>5, <2>3, <2>4, <2>6, points \in T!Corners(p, T!Vertex), Guarded
  <2> QED BY ONLY <1>1, <2>2, <2>5, <2>7, Zenon
<1> QED BY <1>3, <1>4, <1>5 DEF T!Scenes

LEMMA TakenTyped ==
  ASSUME NEW p \in T!Scenes, NEW n \in 2 .. 10, p # 131 => n >= 3, NEW points \in [1 .. n -> Grid]
  PROVE  TakenAll(n, points) \in T!Corners(p, T!Vertex)
<1>1. PICK all : all = TakenAll(n, points)
  OBVIOUS
<1>2. ASSUME NEW i \in 1 .. n PROVE all[i] \in T!Vertex \X T!Vertex
  <2>1. points[i][1] \in T!Thousandth /\ points[i][2] \in T!Thousandth
    BY DEF Grid
  <2>2. /\ T!Integer_Coordinate_To_Q15(points[i][1]) \in T!Vertex
        /\ T!Integer_Coordinate_To_Q15(points[i][2]) \in T!Vertex
    BY <2>1, TakenIs
  <2>3. all[i] = <<T!Integer_Coordinate_To_Q15(points[i][1]), T!Integer_Coordinate_To_Q15(points[i][2])>>
    BY <1>1 DEF TakenAll, Taken
  <2> QED BY <2>2, <2>3
<1>3. all = [i \in 1 .. n |-> all[i]] /\ n \in Nat
  BY <1>1 DEF TakenAll
<1>4. all \in Seq(T!Vertex \X T!Vertex) /\ Len(all) = n
  BY <1>2, <1>3, Listed
<1>5. n \in (IF p = 131 THEN 2 ELSE 3) .. 10
  OBVIOUS
<1> QED BY <1>1, <1>4, <1>5 DEF T!Corners

\* What was asked for is the scene that was sent, with the corners as the app takes them.
AskedOf(p, r) ==
  IF p = 133 /\ r.sender = "older"
  THEN [T!As_Sent(r.config) EXCEPT !.schedule = <<FALSE, 1080, 360>>] ELSE T!As_Sent(r.config)

LEMMA AskedIs ==
  ASSUME NEW p \in T!Scenes, NEW r, r.sender = "encoder" \/ r.sender = "older",
         NEW c, c = r.config, FieldsOf(p, c), NEW n, c.points \in [1 .. n -> Grid]
  PROVE  AskedOf(p, r) = Cut(p, Sender(r), c, TakenAll(n, c.points))
<1>1. PICK all : all = TakenAll(n, c.points)
  OBVIOUS
<1>2. all = [i \in DOMAIN c.points |-> <<T!Integer_Coordinate_To_Q15(c.points[i][1]),
                                       T!Integer_Coordinate_To_Q15(c.points[i][2])>>]
  BY <1>1 DEF TakenAll, Taken
<1>3. PICK wanted : wanted = AskedOf(p, r)
  OBVIOUS
<1>4. wanted = IF p = 133 /\ r.sender = "older"
              THEN [[c EXCEPT !.points = all] EXCEPT !.schedule = <<FALSE, 1080, 360>>]
              ELSE [c EXCEPT !.points = all]
  <2>1. T!As_Sent(c) = [c EXCEPT !.points = all]
    BY ONLY <1>2, Zenon DEF T!As_Sent
  <2>2. wanted = IF p = 133 /\ r.sender = "older"
                THEN [T!As_Sent(r.config) EXCEPT !.schedule = <<FALSE, 1080, 360>>] ELSE T!As_Sent(r.config)
    BY ONLY <1>3 DEF AskedOf
  <2>3. PICK default : default = <<FALSE, 1080, 360>>
    OBVIOUS
  <2>4. wanted = IF p = 133 /\ r.sender = "older" THEN [[c EXCEPT !.points = all] EXCEPT !.schedule = default]
                ELSE [c EXCEPT !.points = all]
    <3>1. PICK sent : sent = T!As_Sent(r.config)
      OBVIOUS
    <3>2. PICK older : older = (p = 133 /\ r.sender = "older")
      BY Zenon
    <3>3. wanted = IF older THEN [sent EXCEPT !.schedule = <<FALSE, 1080, 360>>] ELSE sent
      <4>1. (p = 133 /\ r.sender = "older") <=> older
        BY ONLY <3>2, Zenon
      <4>2. CASE p = 133 /\ r.sender = "older"
        <5>1. wanted = [T!As_Sent(r.config) EXCEPT !.schedule = <<FALSE, 1080, 360>>]
          BY ONLY <2>2, <4>2
        <5> QED BY ONLY <3>1, <4>1, <4>2, <5>1
      <4>3. CASE ~(p = 133 /\ r.sender = "older")
        <5>1. wanted = T!As_Sent(r.config)
          BY ONLY <2>2, <4>3
        <5> QED BY ONLY <3>1, <4>1, <4>3, <5>1, Zenon
      <4> QED BY <4>2, <4>3
    <3>4. wanted = IF older THEN [sent EXCEPT !.schedule = default] ELSE sent
      BY ONLY <2>3, <3>3
    <3>5. sent = [c EXCEPT !.points = all]
      BY ONLY <2>1, <3>1, c = r.config, Zenon
    <3> QED BY ONLY <3>2, <3>4, <3>5, Zenon
  <2> QED BY ONLY <2>3, <2>4
<1>5. PICK version : version = Sender(r)
  OBVIOUS
<1>6. (r.sender = "older" <=> version = 1) /\ version \in {1, 2}
  <2>1. PICK sender : sender = r.sender
    OBVIOUS
  <2>2. version = IF sender = "encoder" THEN 2 ELSE 1
    BY ONLY <1>5, <2>1, Zenon DEF Sender
  <2>3. sender = "encoder" \/ sender = "older"
    BY ONLY <2>1, r.sender = "encoder" \/ r.sender = "older", Zenon
  <2>4. (sender = "older" <=> version = 1) /\ version \in {1, 2}
    BY ONLY <2>2, <2>3
  <2> QED BY ONLY <2>1, <2>4, Zenon
<1>7. CASE ~(p = 133 /\ version = 1)
  BY ONLY <1>3, <1>1, <1>4, <1>5, <1>6, <1>7, Zenon DEF Cut, Meant
<1>8. CASE p = 133 /\ version = 1
  <2>1. PICK default : default = <<FALSE, 1080, 360>>
    OBVIOUS
  <2>2. wanted = [[c EXCEPT !.points = all] EXCEPT !.schedule = default]
    BY ONLY <1>4, <1>6, <1>8, <2>1, Zenon
  <2>3. Cut(p, version, c, all) = [[c EXCEPT !.schedule = default] EXCEPT !.points = all]
    BY ONLY <1>8, <2>1, Zenon DEF Cut, Meant
  <2>5. PICK classes : classes = c.classes
    OBVIOUS
  <2>6. PICK threshold : threshold = c.threshold
    OBVIOUS
  <2>7. PICK delay : delay = c.delay
    OBVIOUS
  <2>8. PICK schedule : schedule = c.schedule
    OBVIOUS
  <2>9. PICK old : old = c.points
    OBVIOUS
  <2>10. c = [classes |-> classes, threshold |-> threshold, delay |-> delay,
              schedule |-> schedule, points |-> old]
    BY <1>8, <2>5, <2>6, <2>7, <2>8, <2>9 DEF FieldsOf
  <2>11. PICK one : one = [c EXCEPT !.points = all]
    OBVIOUS
  <2>12. one = [classes |-> classes, threshold |-> threshold, delay |-> delay,
                schedule |-> schedule, points |-> all]
    BY ONLY <2>10, <2>11
  <2>13. [one EXCEPT !.schedule = default]
         = [classes |-> classes, threshold |-> threshold, delay |-> delay,
            schedule |-> default, points |-> all]
    BY ONLY <2>12
  <2>14. PICK other : other = [c EXCEPT !.schedule = default]
    OBVIOUS
  <2>15. other = [classes |-> classes, threshold |-> threshold, delay |-> delay,
                  schedule |-> default, points |-> old]
    BY ONLY <2>10, <2>14
  <2>16. [other EXCEPT !.points = all]
         = [classes |-> classes, threshold |-> threshold, delay |-> delay,
            schedule |-> default, points |-> all]
    BY ONLY <2>15
  <2> QED BY ONLY <1>3, <1>1, <1>5, <2>2, <2>3, <2>11, <2>13, <2>14, <2>16, Zenon
<1> QED BY <1>3, <1>7, <1>8

\* What a request for a scene comes to, with its corners as the app takes them.
PageCounted(p, version, n, frames) ==
  /\ PageCount(p, version, n) \in {1, 2} /\ DOMAIN frames = 1 .. PageCount(p, version, n)
PageRight(p, version, c, body) ==
  /\ T!Static_Length(p, body) = FieldLength(p, version) /\ Len(body) <= 47 /\ Len(body) \in Int
  /\ T!Accepted(p, body) \/ ~LongEnough(p, body)
  /\ \A points : T!Applied(p, body, points) = Cut(p, version, c, points)

LEMMA SceneCounted ==
  ASSUME NEW p \in T!Scenes, NEW version \in {1, 2}, NEW c, NEW n, NEW frames,
         SceneSent(p, version, c, n, frames)
  PROVE  PageCounted(p, version, n, frames)
<1>1. PICK points : points = c.points
  OBVIOUS
<1>2. /\ FieldsOf(p, c) /\ n \in 2 .. 10 /\ n = Len(points) /\ points \in [1 .. n -> Grid]
      /\ PagesOf(p, version, c, n, points, frames)
  BY ONLY SceneSent(p, version, c, n, frames), <1>1, Zenon DEF SceneSent
<1>3. PagesRead(p, version, c, n, points, frames)
  BY ONLY <1>2, PagesAreRead, p \in T!Scenes, version \in {1, 2}
<1> QED BY ONLY <1>2, <1>3, Zenon DEF PagesRead, PagesOf, PageCounted

LEMMA PageTaken ==
  ASSUME NEW p \in T!Scenes, NEW version \in {1, 2}, NEW c, NEW n, NEW frames,
         SceneSent(p, version, c, n, frames), NEW k \in DOMAIN frames
  PROVE  PageRight(p, version, c, frames[k])
<1>1. PICK points : points = c.points
  OBVIOUS
<1>2. /\ FieldsOf(p, c) /\ n \in 2 .. 10 /\ n = Len(points) /\ points \in [1 .. n -> Grid]
      /\ WithinRanges(p, c) /\ (p # 131 => n >= 3)
      /\ PagesOf(p, version, c, n, points, frames)
  BY ONLY SceneSent(p, version, c, n, frames), <1>1, Zenon DEF SceneSent
<1>3. PICK pages : pages = PageCount(p, version, n)
  OBVIOUS
<1>4. pages \in {1, 2} /\ k \in 1 .. pages
  BY <1>3, SceneCounted DEF PageCounted
<1>5. PICK page : page = k - 1
  OBVIOUS
<1>6. page \in 0 .. PageCount(p, version, n) - 1
  BY <1>3, <1>4, <1>5
<1>7. PICK body : body = frames[k]
  OBVIOUS
<1>8. Laid(body, version, SentFields(p, version, c), points, page)
  BY ONLY <1>2, <1>3, <1>4, <1>5, <1>7, Zenon DEF PagesOf
<1>9. ReadWell(p, version, c, n, points, page, body)
  BY ONLY <1>2, <1>6, <1>8, PageParsed, p \in T!Scenes, version \in {1, 2}
<1>10. /\ T!Static_Length(p, body) = FieldLength(p, version) /\ Len(body) <= 47
       /\ FieldsSaid(p, version, c, body) /\ Fielded(p, version, c, body)
  BY ONLY <1>9, Zenon DEF ReadWell
<1>11. \A pts : T!Applied(p, body, pts) = Cut(p, version, c, pts)
  BY ONLY <1>2, <1>10, PageApplied, p \in T!Scenes, version \in {1, 2}
<1>12. LongEnough(p, body) => T!Valid_Set_Page(p, body)
  <2>1. Enough(p, n)
    BY ONLY <1>2 DEF Enough
  <2>2. SUFFICES ASSUME LongEnough(p, body) PROVE T!Valid_Set_Page(p, body)
    OBVIOUS
  <2> QED BY ONLY <1>2, <1>6, <1>8, <2>1, <2>2, PageValid, p \in T!Scenes, version \in {1, 2}
<1>13. T!Accepted(p, body) = T!Valid_Set_Page(p, body)
  <2>1. p # 100 /\ p # 110 /\ p # 130
    BY DEF T!Scenes
  <2> QED BY ONLY <2>1, p \in T!Scenes DEF T!Accepted
<1>14. Len(body) \in Int
  <2>1. PICK length : length = FieldLength(p, version)
    OBVIOUS
  <2>2. T!Expected(body, length) /\ CornersSaid(body, version, length, points, n)
    BY ONLY <1>9, <2>1, Zenon DEF ReadWell
  <2>3. body[12] \in 1 .. n
    BY ONLY <2>2, Zenon DEF CornersSaid
  <2>4. Len(body) = 13 + length + body[12] * T!Coordinate_Bytes(body[1])
    BY ONLY <2>2, Zenon DEF T!Expected
  <2>5. T!Coordinate_Bytes(body[1]) \in {3, 4} /\ length \in Int
    BY <2>1 DEF T!Coordinate_Bytes, FieldLength
  <2>6. PICK count : count = body[12]
    OBVIOUS
  <2>7. PICK size : size = T!Coordinate_Bytes(body[1])
    OBVIOUS
  <2>8. count \in Int /\ size \in {3, 4}
    BY ONLY <1>2, <2>3, <2>5, <2>6, <2>7
  <2> QED BY ONLY <2>4, <2>5, <2>6, <2>7, <2>8
<1> QED BY ONLY <1>7, <1>10, <1>11, <1>12, <1>13, <1>14, Zenon DEF PageRight

LEMMA SceneJoined ==
  ASSUME NEW p \in T!Scenes, NEW version \in {1, 2}, NEW c, NEW n, NEW frames,
         SceneSent(p, version, c, n, frames), NEW got, AllTaken(p, version, PageCount(p, version, n), frames, got)
  PROVE  Joint(PageCount(p, version, n), got) = TakenAll(n, c.points)
<1>1. PICK points : points = c.points
  OBVIOUS
<1>2. /\ FieldsOf(p, c) /\ n \in 2 .. 10 /\ n = Len(points) /\ points \in [1 .. n -> Grid]
      /\ PagesOf(p, version, c, n, points, frames)
  BY ONLY SceneSent(p, version, c, n, frames), <1>1, Zenon DEF SceneSent
<1>3. PICK pages : pages = PageCount(p, version, n)
  OBVIOUS
<1>4. AllTaken(p, version, pages, frames, got)
  BY <1>3
<1>6. Joins(pages, got, n, points)
  BY ONLY <1>2, <1>3, <1>4, ReceivedJoined, p \in T!Scenes, version \in {1, 2}
<1> QED BY ONLY <1>1, <1>3, <1>6, Zenon DEF Joins

LEMMA SceneUnderstood ==
  ASSUME NEW p \in T!Scenes, NEW version \in {1, 2}, NEW c, NEW n, NEW frames,
         SceneSent(p, version, c, n, frames)
  PROVE  Decodes(p, version, c, frames)
<1>1. PICK points : points = c.points
  OBVIOUS
<1>2. /\ FieldsOf(p, c) /\ n \in 2 .. 10 /\ n = Len(points) /\ points \in [1 .. n -> Grid]
      /\ PagesOf(p, version, c, n, points, frames)
  BY ONLY SceneSent(p, version, c, n, frames), <1>1, Zenon DEF SceneSent
<1>3. points = PointsOf(c)
  BY <1>1 DEF PointsOf
<1> QED BY ONLY <1>2, <1>3, SceneDecoded, p \in T!Scenes, version \in {1, 2}

\* What a scene becomes when all pages are taken.
LEMMA SceneBecomes ==
  ASSUME NEW p \in T!Scenes, NEW version \in {1, 2}, NEW c, NEW n, NEW frames,
         SceneSent(p, version, c, n, frames)
  PROVE  Cut(p, version, c, TakenAll(n, c.points)) \in T!Version(p)
<1>1. PICK points : points = c.points
  OBVIOUS
<1>2. /\ FieldsOf(p, c) /\ n \in 2 .. 10 /\ points \in [1 .. n -> Grid] /\ (p # 131 => n >= 3)
  BY ONLY SceneSent(p, version, c, n, frames), <1>1, Zenon DEF SceneSent
<1>3. PICK all : all = TakenAll(n, points)
  OBVIOUS
<1>4. all \in T!Corners(p, T!Vertex)
  BY ONLY <1>2, <1>3, TakenTyped, p \in T!Scenes
<1>5. Cut(p, version, c, all) \in T!Scene(p, T!Vertex, 0 .. 255, T!Word)
  BY ONLY <1>2, <1>4, CutTyped, p \in T!Scenes, version \in {1, 2}
<1>6. T!Version(p) = T!Scene(p, T!Vertex, 0 .. 255, T!Word)
  <2>1. p # 100 /\ p # 110 /\ p # 130
    BY DEF T!Scenes
  <2> QED BY ONLY <2>1, p \in T!Scenes DEF T!Version
<1> QED BY ONLY <1>1, <1>3, <1>5, <1>6, Zenon

\* A page of an answer: what it says of the version that it was made of.
AnswerSays(p, v, i, n, shown, body) ==
  /\ FieldsOf(p, v) /\ n \in 2 .. 10 /\ n = Len(v.points) /\ shown \in [1 .. n -> Grid] /\ Len(shown) = n
  /\ shown = T!Shown(v.points)
  /\ ReadWell(p, 2, v, n, shown, i - 1, body) /\ SlicedWell(p, 2, n, i - 1, body)

LEMMA VersionScene ==
  ASSUME NEW p, p \in T!Scenes, NEW v, v \in T!Version(p)
  PROVE  FieldsOf(p, v) /\ v.points \in T!Corners(p, T!Vertex)
<1>1. T!Version(p) = T!Scene(p, T!Vertex, 0 .. 255, T!Word)
  <2>1. p # 100 /\ p # 110 /\ p # 130
    BY DEF T!Scenes
  <2> QED BY ONLY <2>1, p \in T!Scenes DEF T!Version
<1>2. PICK thresholds : thresholds = 0 .. 255
  OBVIOUS
<1>3. v \in T!Scene(p, T!Vertex, thresholds, T!Word)
  BY ONLY <1>1, <1>2, v \in T!Version(p), Zenon
<1>4. thresholds \in SUBSET (0 .. 255) /\ T!Word \in SUBSET T!Word
  BY <1>2
<1> QED BY ONLY <1>3, <1>4, SceneFields, p \in T!Scenes, Zenon

LEMMA ShownOnGrid ==
  ASSUME NEW p, p \in T!Scenes, NEW points, points \in T!Corners(p, T!Vertex), NEW n, n = Len(points),
         NEW shown, shown = T!Shown(points)
  PROVE  n \in 2 .. 10 /\ shown \in [1 .. n -> Grid] /\ Len(shown) = n
<1>1. points \in Seq(T!Vertex \X T!Vertex) /\ n \in (IF p = 131 THEN 2 ELSE 3) .. 10
  BY DEF T!Corners
<1>2. n \in 2 .. 10
  <2>1. CASE p = 131
    BY ONLY <1>1, <2>1
  <2>2. CASE p # 131
    <3>1. n \in 3 .. 10
      BY ONLY <1>1, <2>2, Zenon
    <3> QED BY ONLY <3>1
  <2> QED BY <2>1, <2>2
<1>3. DOMAIN points = 1 .. n
  BY <1>1
<1>4. ASSUME NEW i \in 1 .. n
      PROVE  shown[i] \in Grid
  <2>1. points[i] \in T!Vertex \X T!Vertex
    BY <1>1, <1>3
  <2>2. points[i][1] \in T!Vertex /\ points[i][2] \in T!Vertex
    BY <2>1
  <2>3. /\ T!Encode_Integer_Coordinate(points[i][1]) \in T!Thousandth
        /\ T!Encode_Integer_Coordinate(points[i][2]) \in T!Thousandth
    BY <2>2, ShownIs
  <2>4. shown[i] = <<T!Encode_Integer_Coordinate(points[i][1]), T!Encode_Integer_Coordinate(points[i][2])>>
    BY <1>3 DEF T!Shown
  <2> QED BY ONLY <2>3, <2>4 DEF Grid
<1>5. shown = [i \in 1 .. n |-> shown[i]]
  BY <1>3 DEF T!Shown
<1>6. n \in Nat
  BY <1>2
<1>7. Len(shown) = n
  BY ONLY <1>5, <1>6, AsSequence
<1>8. shown \in [1 .. n -> Grid]
  BY ONLY <1>4, <1>5
<1> QED BY <1>2, <1>7, <1>8

LEMMA AnswerPage ==
  ASSUME NEW p, p \in T!Scenes, NEW v, v \in T!Version(p), NEW i, i \in 1 .. T!Answer_Pages(p, v),
         NEW n, n = Len(v.points), NEW shown, shown = T!Shown(v.points),
         NEW body, body = T!Build_Config_Page(p, v, i - 1)
  PROVE  AnswerSays(p, v, i, n, shown, body)
<1>1. FieldsOf(p, v) /\ v.points \in T!Corners(p, T!Vertex)
  BY VersionScene
<1>2. PICK points : points = v.points
  OBVIOUS
<1>3. n \in 2 .. 10 /\ shown \in [1 .. n -> Grid] /\ Len(shown) = n
  <2>1. points \in T!Corners(p, T!Vertex) /\ n = Len(points) /\ shown = T!Shown(points)
    BY <1>1, <1>2
  <2> QED BY ONLY <2>1, p \in T!Scenes, ShownOnGrid
<1>4. PICK pages : pages = T!Answer_Pages(p, v)
  OBVIOUS
<1>5. pages = PageCount(p, 2, n)
  <2>1. pages = T!Pages(n, T!Static_Field_Length(p), 2)
    BY ONLY <1>4, p \in T!Scenes, n = Len(v.points), Zenon DEF T!Answer_Pages
  <2>2. T!Static_Field_Length(p) = FieldLength(p, 2)
    BY DEF T!Static_Field_Length, FieldLength
  <2> QED BY ONLY <2>1, <2>2, Zenon DEF PageCount
<1>6. PICK fields : fields = SentFields(p, 2, v)
  OBVIOUS
<1>7. fields \in Seq(Nat) /\ Len(fields) = FieldLength(p, 2) /\ Layout(2, FieldLength(p, 2))
  <2>1. 2 \in {1, 2}
    OBVIOUS
  <2>2. fields \in Seq(Nat) /\ Len(fields) = FieldLength(p, 2)
    BY ONLY <1>1, <1>6, <2>1, FieldsTyped, p \in T!Scenes
  <2>3. Layout(2, FieldLength(p, 2))
    BY DEF Layout, FieldLength
  <2> QED BY <2>2, <2>3
<1>8. fields = T!Fields(p, v)
  BY <1>6 DEF SentFields
<1>9. body = T!Page(2, fields, shown, i - 1)
  <2>1. p # 110 /\ p # 130
    BY DEF T!Scenes
  <2>2. T!Build_Config_Page(p, v, i - 1) = T!Page(2, T!Fields(p, v), T!Shown(v.points), i - 1)
    BY ONLY <2>1, p \in T!Scenes DEF T!Build_Config_Page
  <2> QED BY ONLY <1>8, <2>2, body = T!Build_Config_Page(p, v, i - 1), shown = T!Shown(v.points), Zenon
<1>10. pages \in {1, 2} /\ i \in 1 .. pages
  <2>1. PageCount(p, 2, n) = IF n <= T!Points_Per_Page(FieldLength(p, 2), 2) THEN 1 ELSE 2
    BY ONLY <1>3, <1>7, Paged DEF PageCount
  <2> QED BY ONLY <1>4, <1>5, <2>1, i \in 1 .. T!Answer_Pages(p, v)
<1>11. PICK page : page = i - 1
  OBVIOUS
<1>12. page \in 0 .. PageCount(p, 2, n) - 1
  BY ONLY <1>5, <1>10, <1>11
<1>13. Laid(body, 2, fields, shown, page)
  <2>1. Layout(2, Len(fields))
    BY ONLY <1>7, Zenon
  <2>2. page \in 0 .. T!Pages(Len(shown), Len(fields), 2) - 1
    BY ONLY <1>3, <1>7, <1>12, Zenon DEF PageCount
  <2>3. Len(shown) \in 2 .. 10 /\ fields \in Seq(Nat)
    BY ONLY <1>3, <1>7, Zenon
  <2>4. Laid(T!Page(2, fields, shown, page), 2, fields, shown, page)
    BY ONLY <2>1, <2>2, <2>3, PageLaid
  <2> QED BY ONLY <1>9, <1>11, <2>4, Zenon
<1>14. ReadWell(p, 2, v, n, shown, page, body)
  <2>1. 2 \in {1, 2}
    OBVIOUS
  <2>2. Laid(body, 2, SentFields(p, 2, v), shown, page)
    BY ONLY <1>6, <1>13, Zenon
  <2> QED BY ONLY <1>1, <1>3, <1>12, <2>1, <2>2, PageParsed, p \in T!Scenes
<1>15. SlicedWell(p, 2, n, page, body)
  <2>1. 2 \in {1, 2}
    OBVIOUS
  <2> QED BY ONLY <1>3, <1>7, <1>12, <1>13, <2>1, Sliced, p \in T!Scenes
<1> QED BY ONLY <1>1, <1>3, <1>11, <1>14, <1>15, n = Len(v.points), shown = T!Shown(v.points), Zenon DEF AnswerSays

\* What the decoder makes of an answer of one page.
WholeRead(decoded, v, shown) == decoded = [v EXCEPT !.points = shown]

LEMMA AnsweredWhole ==
  ASSUME NEW p \in T!Scenes, NEW v, NEW n, NEW shown, NEW bodies, DOMAIN bodies = 1 .. 1,
         NEW body, body = bodies[1], body[10] = 1, AnswerSays(p, v, 1, n, shown, body)
  PROVE  WholeRead(T!Decode(p, bodies), v, shown)
<1>0. 2 \in {1, 2} /\ 1 - 1 = 0
  OBVIOUS
<1>1. /\ FieldsOf(p, v) /\ n \in 2 .. 10 /\ shown \in [1 .. n -> Grid] /\ Len(shown) = n
      /\ ReadWell(p, 2, v, n, shown, 0, body) /\ SlicedWell(p, 2, n, 0, body)
  BY ONLY <1>0, AnswerSays(p, v, 1, n, shown, body), Zenon DEF AnswerSays
<1>2. body[11] = 0 /\ body[12] = n
  BY ONLY <1>1, body[10] = 1, Zenon DEF SlicedWell
<1>3. Slice(body, shown) = shown
  <2>1. Part(shown, 0, n) = shown
    BY <1>1 DEF Part
  <2>2. Slice(body, shown) = Part(shown, 0, n)
    BY ONLY <1>2, Zenon DEF Slice, Part
  <2> QED BY <2>1, <2>2
<1>4. PICK one : one = T!parseFrame(p, body)
  OBVIOUS
<1>5. one = Parsed(p, 2, v, shown, 0, body)
  BY ONLY <1>1, <1>4, Zenon DEF ReadWell
<1>6. one.config = Cut(p, 2, v, shown) /\ one # T!Mismatched
  <2>1. PICK config : config = Cut(p, 2, v, shown)
    OBVIOUS
  <2>2. PICK pages : pages = PageCount(p, 2, Len(shown))
    OBVIOUS
  <2>3. PICK start : start = body[11]
    OBVIOUS
  <2>4. one = [config |-> config, page |-> 0, pageCount |-> pages, pointStart |-> start, total |-> Len(shown)]
    BY ONLY <1>3, <1>5, <2>1, <2>2, <2>3, Zenon DEF Parsed
  <2>5. one.config = config
    BY ONLY <2>4
  <2>6. one # T!Mismatched
    BY ONLY <2>4, ParsedSays
  <2> QED BY <2>1, <2>5, <2>6
<1>7. T!Decode(p, bodies) = one.config
  <2>1. T!parseFrame(p, bodies[1]) = one
    BY <1>4
  <2> QED BY ONLY <2>1, <1>6, DOMAIN bodies = 1 .. 1, DecodeOne
<1>8. Cut(p, 2, v, shown) = [v EXCEPT !.points = shown]
  BY DEF Cut, Meant
<1> QED BY ONLY <1>6, <1>7, <1>8, Zenon DEF WholeRead

\* What is merged of two pages: corners of one version or the other, within what both say.
Mixed(decoded, v1, shown1, v2, shown2, n) ==
  /\ DOMAIN decoded.points = 1 .. n /\ Len(decoded.points) = n
  /\ [decoded EXCEPT !.points = shown1] = [v1 EXCEPT !.points = shown1]
  /\ [decoded EXCEPT !.points = shown2] = [v2 EXCEPT !.points = shown2]
  /\ \A i \in 1 .. n : decoded.points[i] = shown1[i] \/ decoded.points[i] = shown2[i]

\* Corners of two versions one after the other.
MixedCorners(both, a, b, n) ==
  /\ DOMAIN both = 1 .. n /\ Len(both) = n
  /\ \A i \in 1 .. n : both[i] = a[i] \/ both[i] = b[i]

LEMMA CornersMix ==
  ASSUME NEW n \in Nat, NEW per \in Nat, per <= n, NEW shown1 \in [1 .. n -> Grid], NEW shown2 \in [1 .. n -> Grid],
         NEW a, a = Part(shown1, 0, per), NEW b, b = Part(shown2, per, n - per)
  PROVE  MixedCorners(a \o b, shown1, shown2, n)
<1>1. a = [i \in 1 .. per |-> shown1[i]]
  BY DEF Part
<1>2. b = [i \in 1 .. n - per |-> shown2[per + i]]
  BY DEF Part
<1>3. a \in Seq(Grid) /\ Len(a) = per /\ \A i \in 1 .. per : a[i] = shown1[i]
  <2>1. \A i \in 1 .. per : shown1[i] \in Grid
    OBVIOUS
  <2>2. a = [i \in 1 .. per |-> a[i]] /\ \A i \in 1 .. per : a[i] = shown1[i]
    BY ONLY <1>1
  <2>3. \A i \in 1 .. per : a[i] \in Grid
    BY <2>1, <2>2
  <2> QED BY <2>2, <2>3, Listed
<1>4. PICK rest : rest = n - per
  OBVIOUS
<1>5. rest \in Nat /\ n = per + rest
  BY <1>4
<1>6. b \in Seq(Grid) /\ Len(b) = rest /\ \A i \in 1 .. rest : b[i] = shown2[per + i]
  <2>1. \A i \in 1 .. rest : shown2[per + i] \in Grid
    BY <1>5
  <2>2. b = [i \in 1 .. rest |-> b[i]] /\ \A i \in 1 .. rest : b[i] = shown2[per + i]
    BY ONLY <1>2, <1>4
  <2>3. \A i \in 1 .. rest : b[i] \in Grid
    BY <2>1, <2>2
  <2>4. rest \in Nat /\ b = [i \in 1 .. rest |-> b[i]]
    BY <1>5, <2>2
  <2>5. b \in Seq(Grid) /\ Len(b) = rest
    BY ONLY <2>3, <2>4, Listed
  <2> QED BY <2>2, <2>5
<1>7. PICK both : both = a \o b
  OBVIOUS
<1>8. /\ both \in Seq(Grid) /\ Len(both) = Len(a) + Len(b)
      /\ \A i \in 1 .. Len(a) + Len(b) : both[i] = IF i <= Len(a) THEN a[i] ELSE b[i - Len(a)]
  <2>1. a \in Seq(Grid) /\ b \in Seq(Grid)
    BY ONLY <1>3, <1>6
  <2>3. a \o b \in Seq(Grid) /\ Len(a \o b) = Len(a) + Len(b)
    BY ONLY <2>1
  <2>4. \A i \in 1 .. Len(a) + Len(b) : (a \o b)[i] = IF i <= Len(a) THEN a[i] ELSE b[i - Len(a)]
    BY ONLY <2>1
  <2> QED BY ONLY <1>7, <2>3, <2>4, Zenon
<1>9. Len(both) = n /\ DOMAIN both = 1 .. n
  BY ONLY <1>3, <1>5, <1>6, <1>8
<1>10. ASSUME NEW i \in 1 .. n PROVE both[i] = shown1[i] \/ both[i] = shown2[i]
  <2>1. Len(a) + Len(b) = n /\ i \in 1 .. Len(a) + Len(b)
    BY <1>8, <1>9
  <2>2. both[i] = IF i <= per THEN a[i] ELSE b[i - per]
    BY <1>3, <1>8, <2>1
  <2>3. CASE i <= per
    BY <1>3, <2>2, <2>3
  <2>4. CASE i > per
    <3>1. both[i] = b[i - per]
      BY <2>2, <2>4
    <3>2. i - per \in 1 .. rest /\ per + (i - per) = i
      BY <1>5, <2>4
    <3> QED BY <1>6, <3>1, <3>2
  <2> QED BY <2>3, <2>4
<1> QED BY ONLY <1>7, <1>9, <1>10, Zenon DEF MixedCorners

\* A page of two, as it is parsed.
Half(p, v, k, pages, start, total, part, item) ==
  /\ item.config = Cut(p, 2, v, part) /\ item.page = k /\ item.pageCount = pages
  /\ item.pointStart = start /\ item.total = total /\ item # T!Mismatched
HalfRead(p, v, k, n, shown, body, item) ==
  Half(p, v, k, PageCount(p, 2, n), body[11], n, Slice(body, shown), item)

LEMMA AnswerParsed ==
  ASSUME NEW p, NEW v, NEW i \in 1 .. 2, NEW n, NEW shown, NEW body, AnswerSays(p, v, i, n, shown, body),
         NEW item, item = T!parseFrame(p, body), NEW k, k = i - 1
  PROVE  HalfRead(p, v, k, n, shown, body, item)
<1>1. ReadWell(p, 2, v, n, shown, i - 1, body) /\ Len(shown) = n
  BY ONLY AnswerSays(p, v, i, n, shown, body), Zenon DEF AnswerSays
<1>2. item = Parsed(p, 2, v, shown, k, body)
  BY ONLY <1>1, item = T!parseFrame(p, body), k = i - 1, Zenon DEF ReadWell
<1>3. PICK config : config = Cut(p, 2, v, Slice(body, shown))
  OBVIOUS
<1>4. PICK pages : pages = PageCount(p, 2, n)
  OBVIOUS
<1>5. PICK start : start = body[11]
  OBVIOUS
<1>6. item = [config |-> config, page |-> k, pageCount |-> pages, pointStart |-> start, total |-> n]
  BY ONLY <1>1, <1>2, <1>3, <1>4, <1>5, Zenon DEF Parsed
<1>7. /\ item.config = config /\ item.page = k /\ item.pageCount = pages
      /\ item.pointStart = start /\ item.total = n
  BY ONLY <1>6
<1>8. item # T!Mismatched
  BY ONLY <1>6, ParsedSays
<1> QED BY ONLY <1>3, <1>4, <1>5, <1>7, <1>8, Zenon DEF Half, HalfRead

MixedSame(decoded, v1, shown1, v2, shown2, n1, n2) ==
  n1 = n2 /\ Mixed(decoded, v1, shown1, v2, shown2, n1)

LEMMA AnsweredInTwo ==
  ASSUME NEW p \in T!Scenes, NEW v1, NEW v2, NEW n1, NEW n2, NEW shown1, NEW shown2,
         NEW bodies, DOMAIN bodies = 1 .. 2, NEW body1, NEW body2, body1 = bodies[1], body2 = bodies[2],
         body1[10] = 2, AnswerSays(p, v1, 1, n1, shown1, body1), AnswerSays(p, v2, 2, n2, shown2, body2),
         NEW decoded, decoded = T!Decode(p, bodies), decoded # <<>>
  PROVE  MixedSame(decoded, v1, shown1, v2, shown2, n1, n2)
<1>0. 2 \in {1, 2} /\ 1 - 1 = 0 /\ 2 - 1 = 1
  OBVIOUS
<1>1. /\ FieldsOf(p, v1) /\ n1 \in 2 .. 10 /\ shown1 \in [1 .. n1 -> Grid] /\ Len(shown1) = n1
      /\ SlicedWell(p, 2, n1, 0, body1)
  BY ONLY <1>0, AnswerSays(p, v1, 1, n1, shown1, body1), Zenon DEF AnswerSays
<1>2. /\ FieldsOf(p, v2) /\ n2 \in 2 .. 10 /\ shown2 \in [1 .. n2 -> Grid] /\ Len(shown2) = n2
      /\ SlicedWell(p, 2, n2, 1, body2)
  BY ONLY <1>0, AnswerSays(p, v2, 2, n2, shown2, body2), Zenon DEF AnswerSays
<1>3. PICK per : per = PerPage(p, 2)
  OBVIOUS
<1>4. per \in Nat /\ per < n1 /\ body1[11] = 0 /\ body1[12] = per
  BY ONLY <1>1, <1>3, body1[10] = 2, Zenon DEF SlicedWell
<1>5. per < n2 /\ body2[11] = per /\ body2[12] = n2 - per
  <2>1. PageCount(p, 2, n2) \in {1, 2} /\ (PageCount(p, 2, n2) = 1 => 1 = 0)
    BY ONLY <1>2, Zenon DEF SlicedWell
  <2>2. PageCount(p, 2, n2) = 2
    BY ONLY <2>1
  <2> QED BY ONLY <1>2, <1>3, <2>2, Zenon DEF SlicedWell
<1>6. PICK a : a = Part(shown1, 0, per)
  OBVIOUS
<1>7. PICK b : b = Part(shown2, per, n2 - per)
  OBVIOUS
<1>8. Slice(body1, shown1) = a /\ Slice(body2, shown2) = b
  BY ONLY <1>4, <1>5, <1>6, <1>7, Zenon DEF Slice, Part
<1>9. PICK one : one = T!parseFrame(p, body1)
  OBVIOUS
<1>10. PICK two : two = T!parseFrame(p, body2)
  OBVIOUS
<1>11. HalfRead(p, v1, 0, n1, shown1, body1, one)
  <2>1. 1 \in 1 .. 2
    OBVIOUS
  <2> QED BY ONLY <1>0, <1>9, <2>1, AnswerParsed, AnswerSays(p, v1, 1, n1, shown1, body1)
<1>12. HalfRead(p, v2, 1, n2, shown2, body2, two)
  <2>1. 2 \in 1 .. 2
    OBVIOUS
  <2> QED BY ONLY <1>0, <1>10, <2>1, AnswerParsed, AnswerSays(p, v2, 2, n2, shown2, body2)
<1>13. one.config = Cut(p, 2, v1, a) /\ one.total = n1 /\ one # T!Mismatched
  BY ONLY <1>8, <1>11, Zenon DEF Half, HalfRead
<1>14. two.config = Cut(p, 2, v2, b) /\ two # T!Mismatched
  BY ONLY <1>8, <1>12, Zenon DEF Half, HalfRead
<1>15. a \in Seq(Grid) /\ Len(a) = per
  <2>1. n1 \in Nat /\ per <= n1
    BY ONLY <1>1, <1>4
  <2>2. PartsSaid(shown1, Grid, n1, per)
    BY ONLY <1>1, <1>4, <2>1, PartsJoin
  <2> QED BY ONLY <1>6, <2>2, Zenon DEF PartsSaid
<1>16. b \in Seq(Grid) /\ Len(b) = n2 - per
  <2>1. n2 \in Nat /\ per <= n2
    BY ONLY <1>2, <1>4, <1>5
  <2>2. PartsSaid(shown2, Grid, n2, per)
    BY ONLY <1>2, <1>4, <2>1, PartsJoin
  <2> QED BY ONLY <1>7, <2>2, Zenon DEF PartsSaid
<1>17. one.config.points = a /\ two.config.points = b
  <2>1. Cut(p, 2, v1, a).points = a
    BY ONLY <1>0, <1>1, CutAgain, p \in T!Scenes
  <2>2. Cut(p, 2, v2, b).points = b
    BY ONLY <1>0, <1>2, CutAgain, p \in T!Scenes
  <2> QED BY ONLY <1>13, <1>14, <2>1, <2>2, Zenon
<1>18. Merged(decoded, one, two, a, b)
  <2>1. T!parseFrame(p, bodies[1]) = one /\ T!parseFrame(p, bodies[2]) = two
    BY <1>9, <1>10
  <2>2. Merged(T!Decode(p, bodies), one, two, a, b)
    BY ONLY <2>1, <1>13, <1>14, <1>15, <1>16, <1>17, DOMAIN bodies = 1 .. 2, DecodeTwo
  <2> QED BY <2>2
<1>19. PICK both : both = a \o b
  OBVIOUS
<1>20. Fitting(one, two, a, b) /\ decoded = [one.config EXCEPT !.points = both]
  <2>1. decoded = IF Fitting(one, two, a, b) THEN [one.config EXCEPT !.points = both] ELSE <<>>
    BY ONLY <1>18, <1>19, Zenon DEF Merged
  <2> QED BY ONLY <2>1, decoded # <<>>, Zenon
<1>21. n1 = n2
  <2>1. n1 = Len(a) + Len(b)
    BY ONLY <1>13, <1>20, Zenon DEF Fitting
  <2> QED BY ONLY <2>1, <1>1, <1>2, <1>4, <1>15, <1>16
<1>22. PICK none : none = <<>>
  OBVIOUS
<1>23. [two.config EXCEPT !.points = none] = [one.config EXCEPT !.points = none]
  BY ONLY <1>20, <1>22, Zenon DEF Fitting, T!Same_Fields
<1>24. Cut(p, 2, v2, none) = Cut(p, 2, v1, none)
  <2>1. [Cut(p, 2, v1, a) EXCEPT !.points = none] = Cut(p, 2, v1, none)
    BY ONLY <1>0, <1>1, CutAgain, p \in T!Scenes
  <2>2. [Cut(p, 2, v2, b) EXCEPT !.points = none] = Cut(p, 2, v2, none)
    BY ONLY <1>0, <1>2, CutAgain, p \in T!Scenes
  <2> QED BY ONLY <1>13, <1>14, <1>23, <2>1, <2>2, Zenon
<1>25. ASSUME NEW shown PROVE Cut(p, 2, v1, shown) = Cut(p, 2, v2, shown)
  <2>1. [Cut(p, 2, v1, none) EXCEPT !.points = shown] = Cut(p, 2, v1, shown)
    BY ONLY <1>0, <1>1, CutAgain, p \in T!Scenes
  <2>2. [Cut(p, 2, v2, none) EXCEPT !.points = shown] = Cut(p, 2, v2, shown)
    BY ONLY <1>0, <1>2, CutAgain, p \in T!Scenes
  <2> QED BY ONLY <1>24, <2>1, <2>2, Zenon
<1>26. ASSUME NEW shown PROVE [decoded EXCEPT !.points = shown] = Cut(p, 2, v1, shown)
  <2>1. [Cut(p, 2, v1, a) EXCEPT !.points = both] = Cut(p, 2, v1, both)
    BY ONLY <1>0, <1>1, CutAgain, p \in T!Scenes
  <2>2. [Cut(p, 2, v1, both) EXCEPT !.points = shown] = Cut(p, 2, v1, shown)
    BY ONLY <1>0, <1>1, CutAgain, p \in T!Scenes
  <2> QED BY ONLY <1>13, <1>20, <2>1, <2>2, Zenon
<1>27. \A v, shown : Cut(p, 2, v, shown) = [v EXCEPT !.points = shown]
  BY DEF Cut, Meant
<1>28. /\ [decoded EXCEPT !.points = shown1] = [v1 EXCEPT !.points = shown1]
       /\ [decoded EXCEPT !.points = shown2] = [v2 EXCEPT !.points = shown2]
  BY ONLY <1>25, <1>26, <1>27, Zenon
<1>29. decoded.points = both
  <2>1. [Cut(p, 2, v1, a) EXCEPT !.points = both] = Cut(p, 2, v1, both)
    BY ONLY <1>0, <1>1, CutAgain, p \in T!Scenes
  <2>2. Cut(p, 2, v1, both).points = both
    BY ONLY <1>0, <1>1, CutAgain, p \in T!Scenes
  <2> QED BY ONLY <1>13, <1>20, <2>1, <2>2, Zenon
<1>30. MixedCorners(both, shown1, shown2, n1)
  <2>1. n1 \in Nat /\ per <= n1
    BY ONLY <1>1, <1>4
  <2>2. b = Part(shown2, per, n1 - per) /\ shown2 \in [1 .. n1 -> Grid]
    BY ONLY <1>2, <1>7, <1>21, Zenon
  <2>3. MixedCorners(a \o b, shown1, shown2, n1)
    BY ONLY <1>1, <1>4, <1>6, <2>1, <2>2, CornersMix
  <2> QED BY ONLY <1>19, <2>3, Zenon
<1> QED BY ONLY <1>21, <1>28, <1>29, <1>30, Zenon DEF Mixed, MixedSame, MixedCorners

LEMMA StreamAnswered ==
  ASSUME NEW v, v \in T!Version(130), NEW bodies, bodies = [i \in 1 .. 1 |-> bodies[i]],
         NEW page, bodies[1] = T!Build_Config_Page(130, v, page)
  PROVE  T!Decode(130, bodies) = v
<1>1. v \in T!Documented(130)
  <2>1. 130 \notin T!Scenes /\ 130 # 100 /\ 130 # 110
    BY DEF T!Scenes
  <2>2. T!Version(130) = T!Streams
    BY ONLY <2>1 DEF T!Version
  <2>3. T!Documented(130) = T!Streams
    BY ONLY <2>1 DEF T!Documented
  <2> QED BY ONLY <2>2, <2>3, v \in T!Version(130), Zenon
<1>2. PICK r : r = [port |-> 130, config |-> v]
  OBVIOUS
<1>3. r.port = 130 /\ v = r.config
  BY ONLY <1>2
<1>4. FrameSaid(130, v, T!Encode(r))
  BY ONLY <1>1, <1>3, StreamTaken
<1>5. T!Decode(130, T!Encode(r)) = v
  BY ONLY <1>4, Zenon DEF FrameSaid
<1>6. PICK body : body = T!Transmission_Frame(v)
  OBVIOUS
<1>7. T!Encode(r) = <<body>>
  <2>1. 130 \notin T!Scenes /\ 130 # 100 /\ 130 # 110
    BY DEF T!Scenes
  <2>2. T!Encode(r) = <<T!Transmission_Frame(v)>>
    BY ONLY <1>3, <2>1 DEF T!Encode
  <2> QED BY ONLY <1>6, <2>2, Zenon
<1>8. bodies[1] = body
  <2>1. 130 \notin T!Scenes /\ 130 # 110
    BY DEF T!Scenes
  <2>2. T!Build_Config_Page(130, v, page) = T!Transmission_Frame(v)
    BY ONLY <2>1 DEF T!Build_Config_Page
  <2> QED BY ONLY <1>6, <2>2, bodies[1] = T!Build_Config_Page(130, v, page), Zenon
<1>9. bodies = <<body>>
  BY ONLY <1>8, bodies = [i \in 1 .. 1 |-> bodies[i]]
<1> QED BY ONLY <1>5, <1>7, <1>9, Zenon

LEMMA BridgeAnswered ==
  ASSUME NEW v, v \in T!Version(110), NEW bodies, DOMAIN bodies = 1 .. 1,
         NEW page, bodies[1] = T!Build_Config_Page(110, v, page)
  PROVE  T!Decode(110, bodies) = [dataRate |-> <<v.dataRate>>, adr |-> <<v.adr>>]
<1>0. 110 \notin T!Scenes /\ 110 # 100 /\ 110 # 131 /\ 110 # 132 /\ 110 # 133 /\ 110 # 130
  BY DEF T!Scenes
<1>1. PICK rate : rate = v.dataRate
  OBVIOUS
<1>2. PICK adr : adr = v.adr
  OBVIOUS
<1>3. adr \in BOOLEAN
  <2>1. T!Version(110) = [dataRate : 0 .. 255, adr : BOOLEAN]
    <3>1. T!Version(110) = T!Bridge_Version
      BY ONLY <1>0 DEF T!Version
    <3> QED BY ONLY <3>1, Zenon DEF T!Bridge_Version
  <2>2. v \in [dataRate : 0 .. 255, adr : BOOLEAN]
    BY ONLY <2>1, v \in T!Version(110), Zenon
  <2> QED BY ONLY <1>2, <2>2
<1>4. PICK flag : flag = IF adr THEN 1 ELSE 0
  OBVIOUS
<1>5. PICK body : body = bodies[1]
  OBVIOUS
<1>6. body = <<3, rate, flag>>
  <2>1. T!Build_Config_Page(110, v, page) = <<3, v.dataRate, IF v.adr THEN 1 ELSE 0>>
    <3>1. T!Build_Config_Page(110, v, page) = T!Bridge_Answer(v)
      BY ONLY <1>0 DEF T!Build_Config_Page
    <3> QED BY ONLY <3>1, Zenon DEF T!Bridge_Answer
  <2> QED BY ONLY <1>1, <1>2, <1>4, <1>5, <2>1, bodies[1] = T!Build_Config_Page(110, v, page), Zenon
<1>7. body[1] = 3 /\ body[2] = rate /\ body[3] = flag
  BY ONLY <1>6
<1>8. T!Bit(body[1], 0) /\ T!Bit(body[1], 1)
  BY ONLY <1>7 DEF T!Bit
<1>9. adr = (body[3] # 0)
  BY ONLY <1>3, <1>4, <1>7
<1>10. T!parseFrame(110, body)
       = [config |-> [dataRate |-> IF T!Bit(body[1], 0) THEN <<body[2]>> ELSE <<>>,
                      adr |-> IF T!Bit(body[1], 1) THEN <<body[3] # 0>> ELSE <<>>]]
  BY ONLY <1>0 DEF T!parseFrame
<1>11. PICK on : on = <<adr>>
  OBVIOUS
<1>12. on = <<body[3] # 0>>
  BY ONLY <1>9, <1>11
<1>13. PICK config : config = [dataRate |-> <<rate>>, adr |-> on]
  OBVIOUS
<1>14. T!parseFrame(110, body) = [config |-> config]
  BY ONLY <1>7, <1>8, <1>10, <1>12, <1>13, Zenon
<1>15. config # <<>>
  <2>1. DOMAIN config # DOMAIN <<>>
    BY ONLY <1>13
  <2> QED BY <2>1
<1>16. T!Decode(110, bodies) = config
  BY ONLY <1>0, <1>5, <1>14, <1>15, FrameSays, DOMAIN bodies = 1 .. 1
<1> QED BY ONLY <1>1, <1>2, <1>11, <1>13, <1>16, Zenon

\* A request that an operator may send to a port.
Asking(p, r) ==
  /\ p \in T!Scenes \cup {100, 110, 130} /\ r.port = p /\ r.config \in T!Documented(p)
  /\ r.sender = "encoder" \/ (r.sender = "older" /\ p \in T!Scenes)

\* What its frames are, whoever receives them.
DecodedAs(p, r) ==
  IF p = 133 /\ r.sender = "older" THEN [r.config EXCEPT !.schedule = <<FALSE, 1080, 360>>] ELSE r.config
TooShort(p, body) == Len(body) < 13 + T!Static_Field_Length(p)
RequestSaid(p, r, frames) ==
  /\ \E pages \in {1, 2} : DOMAIN frames = 1 .. pages
  /\ \A k \in DOMAIN frames : Len(frames[k]) <= 47 /\ (T!Accepted(p, frames[k]) \/ TooShort(p, frames[k]))
  /\ T!Decode(p, frames) = DecodedAs(p, r)

\* What is put into effect, when the operator's request has come through.
MeantTaken(p, r, s) ==
  CASE p \in T!Scenes -> s = AskedOf(p, r)
    [] p = 110 -> r.config.dataRate \in {<<>>, <<s.dataRate>>} /\ r.config.adr \in {<<>>, <<s.adr>>}
    [] OTHER -> s = r.config

LEMMA MeantIsDecoded ==
  ASSUME NEW p \in T!Scenes, NEW r, r.sender = "encoder" \/ r.sender = "older"
  PROVE  Meant(p, Sender(r), r.config) = DecodedAs(p, r)
<1>1. PICK sender : sender = r.sender
  OBVIOUS
<1>2. PICK version : version = Sender(r)
  OBVIOUS
<1>3. version = IF sender = "encoder" THEN 2 ELSE 1
  BY ONLY <1>1, <1>2, Zenon DEF Sender
<1>4. sender = "encoder" \/ sender = "older"
  BY ONLY <1>1, r.sender = "encoder" \/ r.sender = "older", Zenon
<1>5. sender = "older" <=> version = 1
  BY ONLY <1>3, <1>4
<1>6. PICK c : c = r.config
  OBVIOUS
<1>7. CASE p = 133 /\ version = 1
  <2>1. Meant(p, version, c) = [c EXCEPT !.schedule = <<FALSE, 1080, 360>>]
    BY ONLY <1>7 DEF Meant
  <2>2. p = 133 /\ r.sender = "older"
    BY ONLY <1>1, <1>5, <1>7, Zenon
  <2>3. DecodedAs(p, r) = [r.config EXCEPT !.schedule = <<FALSE, 1080, 360>>]
    BY ONLY <2>2 DEF DecodedAs
  <2>4. PICK default : default = <<FALSE, 1080, 360>>
    OBVIOUS
  <2>5. Meant(p, version, c) = [c EXCEPT !.schedule = default]
    BY ONLY <2>1, <2>4
  <2>6. DecodedAs(p, r) = [r.config EXCEPT !.schedule = default]
    BY ONLY <2>3, <2>4
  <2> QED BY ONLY <1>2, <1>6, <2>5, <2>6, Zenon
<1>8. CASE ~(p = 133 /\ version = 1)
  <2>1. Meant(p, version, c) = c
    BY ONLY <1>8 DEF Meant
  <2>2. ~(p = 133 /\ r.sender = "older")
    BY ONLY <1>1, <1>5, <1>8, Zenon
  <2>3. DecodedAs(p, r) = r.config
    BY ONLY <2>2 DEF DecodedAs
  <2> QED BY ONLY <1>2, <1>6, <2>1, <2>3, Zenon
<1> QED BY <1>7, <1>8

\* A request for a scene.
LEMMA SceneAsked ==
  ASSUME NEW p \in T!Scenes, NEW r, Asking(p, r), NEW n, n = Len(r.config.points)
  PROVE  /\ SceneSent(p, Sender(r), r.config, n, T!Encode(r)) /\ Sender(r) \in {1, 2}
         /\ r.sender = "encoder" \/ r.sender = "older"
<1>1. r.port = p /\ r.config \in T!Documented(p) /\ (r.sender = "encoder" \/ r.sender = "older")
  BY ONLY Asking(p, r), Zenon DEF Asking
<1>2. PICK c : c = r.config
  OBVIOUS
<1>3. c \in T!Documented(p) /\ n = Len(c.points)
  BY ONLY <1>1, <1>2, n = Len(r.config.points), Zenon
<1>4. SceneSent(p, Sender(r), c, n, T!Encode(r))
  BY ONLY <1>1, <1>2, <1>3, SceneEncoded, p \in T!Scenes
<1>5. Sender(r) \in {1, 2}
  BY DEF Sender
<1> QED BY ONLY <1>1, <1>2, <1>4, <1>5, Zenon

LEMMA SceneRead ==
  ASSUME NEW p \in T!Scenes, NEW r, Asking(p, r)
  PROVE  RequestSaid(p, r, T!Encode(r))
<1>1. PICK n : n = Len(r.config.points)
  OBVIOUS
<1>2. PICK c : c = r.config
  OBVIOUS
<1>3. PICK frames : frames = T!Encode(r)
  OBVIOUS
<1>4. PICK version : version = Sender(r)
  OBVIOUS
<1>5. SceneSent(p, version, c, n, frames) /\ version \in {1, 2} /\ (r.sender = "encoder" \/ r.sender = "older")
  <2>1. /\ SceneSent(p, Sender(r), r.config, n, T!Encode(r)) /\ Sender(r) \in {1, 2}
        /\ r.sender = "encoder" \/ r.sender = "older"
    BY ONLY <1>1, SceneAsked, Asking(p, r), p \in T!Scenes
  <2> QED BY ONLY <1>2, <1>3, <1>4, <2>1, Zenon
<1>6. PageCounted(p, version, n, frames)
  BY ONLY <1>5, SceneCounted, p \in T!Scenes
<1>7. Decodes(p, version, c, frames)
  BY ONLY <1>5, SceneUnderstood, p \in T!Scenes
<1>8. \E pages \in {1, 2} : DOMAIN frames = 1 .. pages
  BY ONLY <1>6, Zenon DEF PageCounted
<1>9. ASSUME NEW k \in DOMAIN frames
      PROVE  Len(frames[k]) <= 47 /\ (T!Accepted(p, frames[k]) \/ TooShort(p, frames[k]))
  <2>1. PageRight(p, version, c, frames[k])
    BY ONLY <1>5, PageTaken, p \in T!Scenes, k \in DOMAIN frames
  <2>2. Len(frames[k]) <= 47 /\ (T!Accepted(p, frames[k]) \/ ~LongEnough(p, frames[k]))
    BY ONLY <2>1, Zenon DEF PageRight
  <2>3. ~LongEnough(p, frames[k]) => TooShort(p, frames[k])
    <3>1. PICK size : size = Len(frames[k])
      OBVIOUS
    <3>2. size \in Int
      BY ONLY <2>1, <3>1, Zenon DEF PageRight
    <3>3. T!Static_Field_Length(p) \in Int
      BY DEF T!Static_Field_Length
    <3> QED BY ONLY <3>1, <3>2, <3>3 DEF LongEnough, TooShort
  <2> QED BY ONLY <2>2, <2>3, Zenon
<1>10. T!Decode(p, frames) = DecodedAs(p, r)
  <2>1. Meant(p, Sender(r), r.config) = DecodedAs(p, r)
    BY ONLY <1>5, MeantIsDecoded, p \in T!Scenes
  <2>2. T!Decode(p, frames) = Meant(p, version, c)
    BY ONLY <1>7, Zenon DEF Decodes
  <2> QED BY ONLY <1>2, <1>4, <2>1, <2>2, Zenon
<1> QED BY ONLY <1>3, <1>8, <1>9, <1>10, Zenon DEF RequestSaid

\* A request that fits one frame.
LEMMA OneFrame ==
  ASSUME NEW p, p \notin T!Scenes, NEW r, Asking(p, r)
  PROVE  FrameSaid(p, r.config, T!Encode(r))
<1>1. /\ p \in T!Scenes \cup {100, 110, 130} /\ r.port = p /\ r.config \in T!Documented(p)
  BY ONLY Asking(p, r), Zenon DEF Asking
<1>2. PICK c : c = r.config
  OBVIOUS
<1>3. c \in T!Documented(p)
  BY ONLY <1>1, <1>2, Zenon
<1>4. CASE p = 100
  <2>1. r.port = 100 /\ c \in T!Documented(100)
    BY ONLY <1>1, <1>3, <1>4, Zenon
  <2>2. FrameSaid(100, c, T!Encode(r))
    BY ONLY <1>2, <2>1, ActionTaken
  <2> QED BY ONLY <1>2, <1>4, <2>2, Zenon
<1>5. CASE p = 110
  <2>1. r.port = 110 /\ c \in T!Documented(110)
    BY ONLY <1>1, <1>3, <1>5, Zenon
  <2>2. FrameSaid(110, c, T!Encode(r))
    BY ONLY <1>2, <2>1, BridgeTaken
  <2> QED BY ONLY <1>2, <1>5, <2>2, Zenon
<1>6. CASE p = 130
  <2>1. r.port = 130 /\ c \in T!Documented(130)
    BY ONLY <1>1, <1>3, <1>6, Zenon
  <2>2. FrameSaid(130, c, T!Encode(r))
    BY ONLY <1>2, <2>1, StreamTaken
  <2> QED BY ONLY <1>2, <1>6, <2>2, Zenon
<1> QED BY ONLY <1>1, <1>4, <1>5, <1>6, p \notin T!Scenes, Zenon

LEMMA RequestRead ==
  ASSUME NEW p, NEW r, Asking(p, r)
  PROVE  RequestSaid(p, r, T!Encode(r))
<1>1. CASE p \in T!Scenes
  BY ONLY <1>1, SceneRead, Asking(p, r)
<1>2. CASE p \notin T!Scenes
  <2>1. PICK frames : frames = T!Encode(r)
    OBVIOUS
  <2>2. FrameSaid(p, r.config, frames)
    BY ONLY <1>2, <2>1, OneFrame, Asking(p, r)
  <2>3. /\ DOMAIN frames = 1 .. 1 /\ Len(frames[1]) <= 47
        /\ T!Accepted(p, frames[1]) /\ T!Decode(p, frames) = r.config
    BY ONLY <2>2, Zenon DEF FrameSaid
  <2>4. p # 133
    BY <1>2 DEF T!Scenes
  <2>5. T!Decode(p, frames) = DecodedAs(p, r)
    BY ONLY <2>3, <2>4, Zenon DEF DecodedAs
  <2>6. \E pages \in {1, 2} : DOMAIN frames = 1 .. pages
    BY ONLY <2>3
  <2>7. \A k \in DOMAIN frames : k = 1
    BY ONLY <2>3
  <2> QED BY ONLY <2>1, <2>3, <2>5, <2>6, <2>7, Zenon DEF RequestSaid
<1> QED BY <1>1, <1>2

\* The last of its pages puts the scene into effect.
LEMMA TranslatorSceneStep ==
  ASSUME NEW p \in T!Scenes, NEW r, Asking(p, r), NEW frames, frames = T!Encode(r), NEW k \in DOMAIN frames,
         NEW got, DOMAIN got = DOMAIN frames,
         \A j \in DOMAIN frames : got[j] = T!Read_Points(frames[j], FieldLength(p, Sender(r))),
         NEW points, points = T!FlattenSeq([i \in 1 .. T!Cardinality(DOMAIN got) |-> got[i]]),
         NEW s, s = T!Applied(p, frames[k], points)
  PROVE  s \in T!Version(p) /\ MeantTaken(p, r, s)
<1>1. PICK n : n = Len(r.config.points)
  OBVIOUS
<1>2. PICK c : c = r.config
  OBVIOUS
<1>3. PICK version : version = Sender(r)
  OBVIOUS
<1>4. SceneSent(p, version, c, n, frames) /\ version \in {1, 2} /\ (r.sender = "encoder" \/ r.sender = "older")
  <2>1. /\ SceneSent(p, Sender(r), r.config, n, T!Encode(r)) /\ Sender(r) \in {1, 2}
        /\ r.sender = "encoder" \/ r.sender = "older"
    BY ONLY <1>1, SceneAsked, Asking(p, r), p \in T!Scenes
  <2> QED BY ONLY <1>2, <1>3, <2>1, frames = T!Encode(r), Zenon
<1>5. PICK pages : pages = PageCount(p, version, n)
  OBVIOUS
<1>6. pages \in {1, 2} /\ DOMAIN frames = 1 .. pages
  <2>1. PageCounted(p, version, n, frames)
    BY ONLY <1>4, SceneCounted, p \in T!Scenes
  <2> QED BY ONLY <1>5, <2>1, Zenon DEF PageCounted
<1>7. T!Cardinality(DOMAIN got) = pages
  <2>1. Cardinality(1 .. pages) = pages
    BY ONLY <1>6, FS_Interval
  <2>2. \A S : T!Cardinality(S) = Cardinality(S)
    BY DEF T!Cardinality, Cardinality
  <2> QED BY ONLY <1>6, <2>1, <2>2, DOMAIN got = DOMAIN frames, Zenon
<1>8. points = Joint(pages, got)
  BY ONLY <1>7, points = T!FlattenSeq([i \in 1 .. T!Cardinality(DOMAIN got) |-> got[i]]), Zenon DEF Joint
<1>9. AllTaken(p, version, PageCount(p, version, n), frames, got)
  BY ONLY <1>3, <1>5, <1>6, Zenon,
          \A j \in DOMAIN frames : got[j] = T!Read_Points(frames[j], FieldLength(p, Sender(r))) DEF AllTaken
<1>10. points = TakenAll(n, c.points)
  <2>1. Joint(PageCount(p, version, n), got) = TakenAll(n, c.points)
    BY ONLY <1>4, <1>9, SceneJoined, p \in T!Scenes
  <2> QED BY ONLY <1>5, <1>8, <2>1, Zenon
<1>11. PageRight(p, version, c, frames[k])
  BY ONLY <1>4, PageTaken, p \in T!Scenes, k \in DOMAIN frames
<1>12. s = Cut(p, version, c, points)
  BY ONLY <1>11, s = T!Applied(p, frames[k], points), Zenon DEF PageRight
<1>13. s \in T!Version(p)
  <2>1. Cut(p, version, c, TakenAll(n, c.points)) \in T!Version(p)
    BY ONLY <1>4, SceneBecomes, p \in T!Scenes
  <2> QED BY ONLY <1>10, <1>12, <2>1, Zenon
<1>14. s = AskedOf(p, r)
  <2>1. PICK old : old = c.points
    OBVIOUS
  <2>2. FieldsOf(p, c) /\ old \in [1 .. n -> Grid]
    BY ONLY <1>4, <2>1, Zenon DEF SceneSent
  <2>3. AskedOf(p, r) = Cut(p, Sender(r), c, TakenAll(n, c.points))
    BY ONLY <1>2, <1>4, <2>1, <2>2, AskedIs, p \in T!Scenes
  <2> QED BY ONLY <1>3, <1>10, <1>12, <2>3, Zenon
<1>15. MeantTaken(p, r, s)
  <2>1. p # 110
    BY DEF T!Scenes
  <2> QED BY ONLY <1>14, <2>1, p \in T!Scenes DEF MeantTaken
<1> QED BY <1>13, <1>15

LEMMA FrameStep ==
  ASSUME NEW p, p \notin T!Scenes, NEW r, Asking(p, r), NEW frames, frames = T!Encode(r),
         NEW before, before \in T!Version(p), NEW k, k \in DOMAIN frames,
         NEW s, s = T!Effect(p, frames[k], before)
  PROVE  s \in T!Version(p) /\ MeantTaken(p, r, s)
<1>1. FrameSaid(p, r.config, frames)
  BY ONLY OneFrame, Asking(p, r), p \notin T!Scenes, frames = T!Encode(r)
<1>2. k = 1
  <2>1. DOMAIN frames = 1 .. 1
    BY ONLY <1>1, Zenon DEF FrameSaid
  <2> QED BY ONLY <2>1, k \in DOMAIN frames
<1>3. s \in T!Version(p) /\ Taken1(p, r.config, before, s)
  BY ONLY <1>1, <1>2, before \in T!Version(p), s = T!Effect(p, frames[k], before), Zenon DEF FrameSaid
<1>4. CASE p = 110
  <2>1. r.config.dataRate \in {<<>>, <<s.dataRate>>} /\ r.config.adr \in {<<>>, <<s.adr>>}
    BY ONLY <1>3, <1>4, Zenon DEF Taken1
  <2>2. MeantTaken(p, r, s) <=> r.config.dataRate \in {<<>>, <<s.dataRate>>} /\ r.config.adr \in {<<>>, <<s.adr>>}
    BY ONLY <1>4, p \notin T!Scenes DEF MeantTaken
  <2> QED BY <1>3, <2>1, <2>2
<1>5. CASE p # 110
  <2>1. s = r.config
    BY ONLY <1>3, <1>5, Zenon DEF Taken1
  <2>2. MeantTaken(p, r, s) <=> s = r.config
    BY ONLY <1>5, p \notin T!Scenes DEF MeantTaken
  <2> QED BY <1>3, <2>1, <2>2
<1> QED BY <1>4, <1>5

\* The pages that the app has taken of a request, and what has come of them.
PagesTaken(p, r, got) ==
  /\ DOMAIN got \subseteq DOMAIN T!Encode(r)
  /\ p \in T!Scenes =>
       \A k \in DOMAIN got : got[k] = T!Read_Points(T!Encode(r)[k], FieldLength(p, Sender(r)))
AllCame(m, got) == m # <<>> /\ DOMAIN got = DOMAIN T!Encode(m[1])
Meets(m, got, ref, p, s) ==
  /\ m = <<>> => got = <<>> /\ ~ref
  /\ m # <<>> => Asking(p, m[1]) /\ PagesTaken(p, m[1], got)
  /\ AllCame(m, got) => MeantTaken(p, m[1], s)
  /\ ref => ~AllCame(m, got) /\ \E k \in DOMAIN T!Encode(m[1]) : TooShort(p, T!Encode(m[1])[k])

\* The pages of GET are each from a version that was there.
AnswersMade(p, ans, kn) ==
  /\ DOMAIN ans \subseteq 1 .. 2 /\ (p = 100 => ans = <<>>)
  /\ ans # <<>> => ans = [i \in DOMAIN ans |-> ans[i]] /\ DOMAIN ans # {}
  /\ \A i \in DOMAIN ans :
       \E v \in kn : i \in 1 .. T!Answer_Pages(p, v) /\ ans[i] = T!Build_Config_Page(p, v, i - 1)

TInv ==
  /\ T!TypeOK /\ Meets(message, received, page_refused, port, stored)
  /\ AnswersMade(port, answers, known)

LEMMA RequestAsks ==
  ASSUME T!ConstantsAssumption, NEW r \in OtaRequest
  PROVE  Asking(r.port, r)
<1>1. PICK p : p = r.port
  OBVIOUS
<1>2. /\ p \in DOMAIN OtaStored /\ r.config \in T!Documented(p)
      /\ r.sender = "encoder" \/ (r.sender = "older" /\ p \in T!Scenes)
  BY <1>1 DEF T!ConstantsAssumption
<1>3. p \in T!Scenes \cup {100, 110, 130}
  BY <1>2 DEF T!ConstantsAssumption
<1> QED BY ONLY <1>1, <1>2, <1>3, Zenon DEF Asking

LEMMA NoneYet == DOMAIN <<>> = {}
OBVIOUS

LEMMA MeetsAsk ==
  ASSUME NEW p, NEW s, NEW ref, NEW got, Meets(<<>>, got, ref, p, s), NEW r, Asking(p, r)
  PROVE  Meets(<<r>>, got, ref, p, s)
<1>1. got = <<>> /\ ~ref
  BY ONLY Meets(<<>>, got, ref, p, s), Zenon DEF Meets
<1>2. PICK frames : frames = T!Encode(r)
  OBVIOUS
<1>3. PICK pages \in {1, 2} : DOMAIN frames = 1 .. pages
  <2>1. RequestSaid(p, r, frames)
    BY ONLY <1>2, RequestRead, Asking(p, r)
  <2> QED BY ONLY <2>1, Zenon DEF RequestSaid
<1>4. PICK m : m = <<r>>
  OBVIOUS
<1>5. m # <<>> /\ m[1] = r
  BY ONLY <1>4
<1>6. ~AllCame(m, got)
  <2>1. 1 \in DOMAIN frames
    BY ONLY <1>3
  <2> QED BY ONLY <1>1, <1>2, <1>5, <2>1, NoneYet, Zenon DEF AllCame
<1>7. PagesTaken(p, r, got)
  BY ONLY <1>1, NoneYet, Zenon DEF PagesTaken
<1> QED BY ONLY <1>1, <1>4, <1>5, <1>6, <1>7, Asking(p, r), Zenon DEF Meets

LEMMA MeetsEdit ==
  ASSUME NEW p, NEW s, NEW ref, NEW m, NEW got, Meets(m, got, ref, p, s), NEW after
  PROVE  IF AllCame(m, got) THEN Meets(<<>>, <<>>, ref, p, after) ELSE Meets(m, got, ref, p, after)
<1>1. CASE AllCame(m, got)
  <2>1. ~ref
    BY ONLY <1>1, Meets(m, got, ref, p, s), Zenon DEF Meets
  <2>2. ~AllCame(<<>>, <<>>)
    BY DEF AllCame
  <2>3. PICK none : none = <<>>
    OBVIOUS
  <2>4. Meets(none, none, ref, p, after)
    BY ONLY <2>1, <2>2, <2>3, Zenon DEF Meets
  <2> QED BY ONLY <1>1, <2>3, <2>4, Zenon
<1>2. CASE ~AllCame(m, got)
  <2>1. Meets(m, got, ref, p, after)
    BY ONLY <1>2, Meets(m, got, ref, p, s), Zenon DEF Meets
  <2> QED BY ONLY <1>2, <2>1, Zenon
<1> QED BY <1>1, <1>2

LEMMA MeetsRefused ==
  ASSUME NEW p, NEW s, NEW m, NEW got, Meets(m, got, FALSE, p, s), m # <<>>,
         NEW k, k \in DOMAIN T!Encode(m[1]) \ DOMAIN got, ~T!Accepted(p, T!Encode(m[1])[k])
  PROVE  Meets(m, got, TRUE, p, s)
<1>1. PICK r : r = m[1]
  OBVIOUS
<1>2. Asking(p, r) /\ PagesTaken(p, r, got)
  BY ONLY <1>1, Meets(m, got, FALSE, p, s), m # <<>>, Zenon DEF Meets
<1>3. RequestSaid(p, r, T!Encode(r))
  BY ONLY <1>2, RequestRead
<1>4. TooShort(p, T!Encode(r)[k])
  BY ONLY <1>1, <1>3, k \in DOMAIN T!Encode(m[1]) \ DOMAIN got, ~T!Accepted(p, T!Encode(m[1])[k]), Zenon
     DEF RequestSaid
<1>5. ~AllCame(m, got)
  BY ONLY <1>1, k \in DOMAIN T!Encode(m[1]) \ DOMAIN got, Zenon DEF AllCame
<1> QED BY ONLY <1>1, <1>2, <1>4, <1>5, m # <<>>, k \in DOMAIN T!Encode(m[1]) \ DOMAIN got, Zenon DEF Meets

\* A page that is taken, with what it leaves at the port.
Left(p, frames, k, all, s) ==
  IF DOMAIN all # DOMAIN frames THEN s
  ELSE IF p \in T!Scenes
  THEN T!Applied(p, frames[k], T!FlattenSeq([i \in 1 .. T!Cardinality(DOMAIN all) |-> all[i]]))
  ELSE T!Effect(p, frames[k], s)

LEMMA MeetsTaken ==
  ASSUME NEW p, NEW s, s \in T!Version(p), NEW m, NEW got, Meets(m, got, FALSE, p, s), m # <<>>,
         NEW k, k \in DOMAIN T!Encode(m[1]) \ DOMAIN got, NEW length, NEW frames, frames = T!Encode(m[1]),
         length = T!Static_Length(p, frames[k]),
         NEW all, all = T!With(got, k, IF p \in T!Scenes THEN T!Read_Points(frames[k], length) ELSE <<>>),
         NEW after, after = Left(p, frames, k, all, s)
  PROVE  Meets(m, all, FALSE, p, after) /\ after \in T!Version(p)
<1>1. PICK r : r = m[1]
  OBVIOUS
<1>2. Asking(p, r) /\ PagesTaken(p, r, got)
  BY ONLY <1>1, Meets(m, got, FALSE, p, s), m # <<>>, Zenon DEF Meets
<1>3. frames = T!Encode(r) /\ k \in DOMAIN frames /\ DOMAIN got \subseteq DOMAIN frames
  BY ONLY <1>1, <1>2, k \in DOMAIN T!Encode(m[1]) \ DOMAIN got, frames = T!Encode(m[1]), Zenon DEF PagesTaken
<1>4. PICK body : body = IF p \in T!Scenes THEN T!Read_Points(frames[k], length) ELSE <<>>
  OBVIOUS
<1>5. DOMAIN all = DOMAIN got \cup {k} /\ \A j \in DOMAIN all : all[j] = IF j = k THEN body ELSE got[j]
  <2>1. all = T!With(got, k, body)
    BY ONLY <1>4, Zenon,
            all = T!With(got, k, IF p \in T!Scenes THEN T!Read_Points(frames[k], length) ELSE <<>>)
  <2> QED BY ONLY <2>1 DEF T!With
<1>6. DOMAIN all \subseteq DOMAIN frames
  BY ONLY <1>3, <1>5
<1>7. ASSUME p \in T!Scenes
      PROVE  \A j \in DOMAIN all : all[j] = T!Read_Points(frames[j], FieldLength(p, Sender(r)))
  <2>1. PICK n : n = Len(r.config.points)
    OBVIOUS
  <2>2. SceneSent(p, Sender(r), r.config, n, frames) /\ Sender(r) \in {1, 2}
    <3>1. SceneSent(p, Sender(r), r.config, n, T!Encode(r)) /\ Sender(r) \in {1, 2}
      BY ONLY <1>2, <1>7, <2>1, SceneAsked
    <3> QED BY ONLY <1>3, <3>1, Zenon
  <2>3. PageRight(p, Sender(r), r.config, frames[k])
    BY ONLY <1>3, <1>7, <2>2, PageTaken
  <2>4. length = FieldLength(p, Sender(r))
    BY ONLY <2>3, length = T!Static_Length(p, frames[k]), Zenon DEF PageRight
  <2>5. \A j \in DOMAIN got : got[j] = T!Read_Points(frames[j], FieldLength(p, Sender(r)))
    BY ONLY <1>2, <1>3, <1>7, Zenon DEF PagesTaken
  <2>6. body = T!Read_Points(frames[k], FieldLength(p, Sender(r)))
    BY ONLY <1>4, <1>7, <2>4, Zenon
  <2> QED BY ONLY <1>5, <2>5, <2>6, Zenon
<1>8. PagesTaken(p, r, all)
  BY ONLY <1>3, <1>6, <1>7, Zenon DEF PagesTaken
<1>9. CASE DOMAIN all # DOMAIN frames
  <2>1. after = s /\ ~AllCame(m, all)
    BY ONLY <1>9, after = Left(p, frames, k, all, s), frames = T!Encode(m[1]), Zenon DEF Left, AllCame
  <2>2. Meets(m, all, FALSE, p, after)
    BY ONLY <1>1, <1>2, <1>8, <2>1, m # <<>>, Zenon DEF Meets
  <2> QED BY ONLY <2>1, <2>2, s \in T!Version(p), Zenon
<1>10. CASE DOMAIN all = DOMAIN frames
  <2>1. after \in T!Version(p) /\ MeantTaken(p, r, after)
    <3>1. CASE p \in T!Scenes
      <4>1. PICK points : points = T!FlattenSeq([i \in 1 .. T!Cardinality(DOMAIN all) |-> all[i]])
        OBVIOUS
      <4>2. after = T!Applied(p, frames[k], points)
        BY ONLY <1>10, <3>1, <4>1, after = Left(p, frames, k, all, s), Zenon DEF Left
      <4>3. \A j \in DOMAIN frames : all[j] = T!Read_Points(frames[j], FieldLength(p, Sender(r)))
        BY ONLY <1>7, <1>10, <3>1, Zenon
      <4> QED BY ONLY <1>2, <1>3, <1>10, <3>1, <4>1, <4>2, <4>3, TranslatorSceneStep
    <3>2. CASE p \notin T!Scenes
      <4>1. after = T!Effect(p, frames[k], s)
        BY ONLY <1>10, <3>2, after = Left(p, frames, k, all, s), Zenon DEF Left
      <4> QED BY ONLY <1>2, <1>3, <3>2, <4>1, s \in T!Version(p), FrameStep
    <3> QED BY <3>1, <3>2
  <2>2. Meets(m, all, FALSE, p, after)
    BY ONLY <1>1, <1>2, <1>8, <2>1, m # <<>>, Zenon DEF Meets
  <2> QED BY ONLY <2>1, <2>2, Zenon
<1> QED BY <1>9, <1>10

LEMMA AnswersKept ==
  ASSUME NEW p, NEW ans, NEW kn, AnswersMade(p, ans, kn), NEW s,
         NEW seen, seen = IF ans = <<>> THEN {} ELSE kn \cup {s}
  PROVE  AnswersMade(p, ans, seen)
<1>1. CASE ans = <<>>
  BY ONLY <1>1, AnswersMade(p, ans, kn), NoneYet, Zenon DEF AnswersMade
<1>2. CASE ans # <<>>
  <2>1. kn \subseteq seen
    BY <1>2
  <2> QED BY ONLY <2>1, AnswersMade(p, ans, kn), Zenon DEF AnswersMade
<1> QED BY <1>1, <1>2

LEMMA AnswerAdded ==
  ASSUME NEW p, p # 100, NEW ans, NEW kn, AnswersMade(p, ans, kn), NEW s, NEW k \in 1 .. 2, k \notin DOMAIN ans,
         k \in 1 .. T!Answer_Pages(p, s),
         NEW all, all = T!With(ans, k, T!Build_Config_Page(p, s, k - 1)), NEW seen, seen = kn \cup {s}
  PROVE  AnswersMade(p, all, seen)
<1>1. PICK body : body = T!Build_Config_Page(p, s, k - 1)
  OBVIOUS
<1>2. all = [i \in DOMAIN ans \cup {k} |-> IF i = k THEN body ELSE ans[i]]
  BY ONLY <1>1, all = T!With(ans, k, T!Build_Config_Page(p, s, k - 1)), Zenon DEF T!With
<1>3. DOMAIN all = DOMAIN ans \cup {k} /\ all = [i \in DOMAIN all |-> all[i]]
  BY ONLY <1>2
<1>4. \A i \in DOMAIN all : all[i] = IF i = k THEN body ELSE ans[i]
  BY ONLY <1>2
<1>5. /\ DOMAIN ans \subseteq 1 .. 2
      /\ \A i \in DOMAIN ans :
           \E v \in kn : i \in 1 .. T!Answer_Pages(p, v) /\ ans[i] = T!Build_Config_Page(p, v, i - 1)
  BY ONLY AnswersMade(p, ans, kn), Zenon DEF AnswersMade
<1>6. DOMAIN all \subseteq 1 .. 2 /\ DOMAIN all # {}
  BY ONLY <1>3, <1>5, k \in 1 .. 2
<1>7. ASSUME NEW i, i \in DOMAIN all
      PROVE  \E v \in seen : i \in 1 .. T!Answer_Pages(p, v) /\ all[i] = T!Build_Config_Page(p, v, i - 1)
  <2>1. CASE i = k
    <3>1. s \in seen
      OBVIOUS
    <3> QED BY ONLY <1>1, <1>4, <1>7, <2>1, <3>1, k \in 1 .. T!Answer_Pages(p, s), Zenon
  <2>2. CASE i # k
    <3>1. PICK v \in kn : i \in 1 .. T!Answer_Pages(p, v) /\ ans[i] = T!Build_Config_Page(p, v, i - 1)
      BY ONLY <1>3, <1>5, <1>7, <2>2, Zenon
    <3>2. v \in seen /\ all[i] = ans[i]
      <4>1. v \in kn /\ seen = kn \cup {s}
        BY <3>1
      <4> QED BY ONLY <4>1, <1>4, <1>7, <2>2
    <3> QED BY ONLY <3>1, <3>2, Zenon
  <2> QED BY <2>1, <2>2
<1> QED BY ONLY <1>3, <1>6, <1>7, p # 100, Zenon DEF AnswersMade

\* A version as the bytes can say it.
ReadableAs(p, v) ==
  IF p \in T!Scenes THEN [v EXCEPT !.points = T!Shown(v.points)]
  ELSE IF p = 110 THEN [dataRate |-> <<v.dataRate>>, adr |-> <<v.adr>>] ELSE v
MadeOf(decoded, p, v) ==
  /\ Len(v.points) = Len(decoded.points)
  /\ [decoded EXCEPT !.points = ReadableAs(p, v).points] = ReadableAs(p, v)
AnsweredWith(p, decoded, kn) ==
  \A i \in DOMAIN decoded.points :
    \E v \in kn : MadeOf(decoded, p, v) /\ decoded.points[i] = ReadableAs(p, v).points[i]

LEMMA ShownHas ==
  ASSUME NEW p \in T!Scenes, NEW v, FieldsOf(p, v)
  PROVE  ReadableAs(p, v).points = T!Shown(v.points)
<1>1. PICK shown : shown = T!Shown(v.points)
  OBVIOUS
<1>2. Cut(p, 2, v, shown).points = shown
  <2>1. 2 \in {1, 2}
    OBVIOUS
  <2> QED BY ONLY <2>1, CutAgain, p \in T!Scenes, FieldsOf(p, v)
<1>3. Cut(p, 2, v, shown) = [v EXCEPT !.points = shown]
  BY DEF Cut, Meant
<1> QED BY ONLY <1>1, <1>2, <1>3, p \in T!Scenes, Zenon DEF ReadableAs

LEMMA SceneAnswered ==
  ASSUME NEW p \in T!Scenes, NEW ans, NEW kn, AnswersMade(p, ans, kn), kn \subseteq T!Version(p), ans # <<>>,
         DOMAIN ans = 1 .. 1 \/ DOMAIN ans = 1 .. 2,
         NEW decoded, decoded = T!Decode(p, ans), decoded # <<>>, Len(ans) = ans[1][10]
  PROVE  AnsweredWith(p, decoded, kn)
<1>1. /\ ans = [i \in DOMAIN ans |-> ans[i]]
      /\ \A i \in DOMAIN ans :
           \E v \in kn : i \in 1 .. T!Answer_Pages(p, v) /\ ans[i] = T!Build_Config_Page(p, v, i - 1)
  BY ONLY AnswersMade(p, ans, kn), ans # <<>>, Zenon DEF AnswersMade
<1>2. ASSUME NEW i \in DOMAIN ans
      PROVE  \E v, n, shown : v \in kn /\ AnswerSays(p, v, i, n, shown, ans[i])
  <2>1. PICK v \in kn : i \in 1 .. T!Answer_Pages(p, v) /\ ans[i] = T!Build_Config_Page(p, v, i - 1)
    BY ONLY <1>1, <1>2, Zenon
  <2>2. PICK n : n = Len(v.points)
    OBVIOUS
  <2>3. PICK shown : shown = T!Shown(v.points)
    OBVIOUS
  <2>4. v \in T!Version(p)
    BY <2>1
  <2>5. AnswerSays(p, v, i, n, shown, ans[i])
    BY ONLY <2>1, <2>2, <2>3, <2>4, AnswerPage, p \in T!Scenes
  <2> QED BY ONLY <2>1, <2>5, Zenon
<1>3. PICK body1 : body1 = ans[1]
  OBVIOUS
<1>4. PICK v1, n1, shown1 : v1 \in kn /\ AnswerSays(p, v1, 1, n1, shown1, body1)
  <2>1. 1 \in DOMAIN ans
    OBVIOUS
  <2> QED BY ONLY <1>2, <1>3, <2>1, Zenon
<1>5. FieldsOf(p, v1) /\ n1 = Len(v1.points) /\ n1 \in 2 .. 10 /\ shown1 = T!Shown(v1.points) /\ Len(shown1) = n1
  BY ONLY <1>4, Zenon DEF AnswerSays
<1>6. ReadableAs(p, v1).points = shown1 /\ ReadableAs(p, v1) = [v1 EXCEPT !.points = shown1]
  <2>1. ReadableAs(p, v1).points = T!Shown(v1.points)
    BY ONLY <1>5, ShownHas, p \in T!Scenes
  <2> QED BY ONLY <1>5, <2>1, p \in T!Scenes, Zenon DEF ReadableAs
<1>7. CASE DOMAIN ans = 1 .. 1
  <2>1. Len(ans) = 1
    <3>1. ans = [i \in 1 .. 1 |-> ans[i]] /\ 1 \in Nat
      BY <1>1, <1>7
    <3> QED BY ONLY <3>1, AsSequence
  <2>2. body1[10] = 1
    BY <1>3, <2>1
  <2>3. decoded = [v1 EXCEPT !.points = shown1]
    <3>1. WholeRead(T!Decode(p, ans), v1, shown1)
      BY ONLY <1>3, <1>4, <1>7, <2>2, AnsweredWhole, p \in T!Scenes
    <3> QED BY ONLY <3>1, decoded = T!Decode(p, ans), Zenon DEF WholeRead
  <2>4. decoded = ReadableAs(p, v1) /\ decoded.points = shown1
    BY ONLY <1>6, <2>3, Zenon
  <2>5. [decoded EXCEPT !.points = shown1] = ReadableAs(p, v1)
    <3>1. 2 \in {1, 2}
      OBVIOUS
    <3>2. [Cut(p, 2, v1, shown1) EXCEPT !.points = shown1] = Cut(p, 2, v1, shown1)
      BY ONLY <1>5, <3>1, CutAgain, p \in T!Scenes
    <3>3. Cut(p, 2, v1, shown1) = [v1 EXCEPT !.points = shown1]
      BY DEF Cut, Meant
    <3> QED BY ONLY <1>6, <2>3, <3>2, <3>3, Zenon
  <2>6. MadeOf(decoded, p, v1)
    BY ONLY <1>5, <1>6, <2>4, <2>5, Zenon DEF MadeOf
  <2> QED BY ONLY <1>4, <1>6, <2>4, <2>6, Zenon DEF AnsweredWith
<1>8. CASE DOMAIN ans = 1 .. 2
  <2>1. Len(ans) = 2
    <3>1. ans = [i \in 1 .. 2 |-> ans[i]] /\ 2 \in Nat
      BY <1>1, <1>8
    <3> QED BY ONLY <3>1, AsSequence
  <2>2. body1[10] = 2
    BY <1>3, <2>1
  <2>3. PICK body2 : body2 = ans[2]
    OBVIOUS
  <2>4. PICK v2, n2, shown2 : v2 \in kn /\ AnswerSays(p, v2, 2, n2, shown2, body2)
    <3>1. 2 \in DOMAIN ans
      BY <1>8
    <3> QED BY ONLY <1>2, <2>3, <3>1, Zenon
  <2>5. FieldsOf(p, v2) /\ n2 = Len(v2.points) /\ n2 \in 2 .. 10 /\ shown2 = T!Shown(v2.points) /\ Len(shown2) = n2
    BY ONLY <2>4, Zenon DEF AnswerSays
  <2>6. ReadableAs(p, v2).points = shown2 /\ ReadableAs(p, v2) = [v2 EXCEPT !.points = shown2]
    <3>1. ReadableAs(p, v2).points = T!Shown(v2.points)
      BY ONLY <2>5, ShownHas, p \in T!Scenes
    <3> QED BY ONLY <2>5, <3>1, p \in T!Scenes, Zenon DEF ReadableAs
  <2>7. n1 = n2 /\ Mixed(decoded, v1, shown1, v2, shown2, n1)
    <3>1. MixedSame(decoded, v1, shown1, v2, shown2, n1, n2)
      BY ONLY <1>3, <1>4, <1>8, <2>2, <2>3, <2>4, AnsweredInTwo, p \in T!Scenes,
              decoded = T!Decode(p, ans), decoded # <<>>
    <3> QED BY ONLY <3>1, Zenon DEF MixedSame
  <2>8. /\ DOMAIN decoded.points = 1 .. n1 /\ Len(decoded.points) = n1
        /\ [decoded EXCEPT !.points = shown1] = ReadableAs(p, v1)
        /\ [decoded EXCEPT !.points = shown2] = ReadableAs(p, v2)
        /\ \A i \in 1 .. n1 : decoded.points[i] = shown1[i] \/ decoded.points[i] = shown2[i]
    BY ONLY <1>6, <2>6, <2>7, Zenon DEF Mixed
  <2>9. MadeOf(decoded, p, v1)
    BY ONLY <1>5, <1>6, <2>8, Zenon DEF MadeOf
  <2>10. MadeOf(decoded, p, v2)
    BY ONLY <2>5, <2>6, <2>7, <2>8, Zenon DEF MadeOf
  <2>11. v1 \in kn /\ v2 \in kn
    BY <1>4, <2>4
  <2> QED BY ONLY <1>6, <2>6, <2>8, <2>9, <2>10, <2>11, Zenon DEF AnsweredWith
<1> QED BY <1>7, <1>8

\* What the invariant says of the promises of the module.
LEMMA TakenMeant ==
  ASSUME TInv
  PROVE  T!TakenAsMeant
<1>1. AllCame(message, received) => MeantTaken(port, message[1], stored)
  BY Zenon DEF TInv, Meets
<1>2. T!All_Received <=> AllCame(message, received)
  BY DEF T!All_Received, T!Frames, AllCame
<1>3. SUFFICES ASSUME T!All_Received
      PROVE  CASE port \in T!Scenes -> stored = T!Asked
               [] port = 110 -> /\ message[1].config.dataRate \in {<<>>, <<stored.dataRate>>}
                                /\ message[1].config.adr \in {<<>>, <<stored.adr>>}
               [] OTHER -> stored = message[1].config
  BY DEF T!TakenAsMeant
<1>4. MeantTaken(port, message[1], stored)
  BY <1>1, <1>2, <1>3
<1>5. T!Asked = AskedOf(port, message[1])
  BY DEF T!Asked, AskedOf
<1>6. MeantTaken(port, message[1], stored) <=>
        CASE port \in T!Scenes -> stored = T!Asked
          [] port = 110 -> /\ message[1].config.dataRate \in {<<>>, <<stored.dataRate>>}
                           /\ message[1].config.adr \in {<<>>, <<stored.adr>>}
          [] OTHER -> stored = message[1].config
  <2>1. PICK wanted : wanted = T!Asked
    OBVIOUS
  <2> QED BY ONLY <1>5 DEF MeantTaken
<1> QED BY ONLY <1>4, <1>6

LEMMA NoneRefused ==
  ASSUME TInv
  PROVE  T!NothingRefused
<1>1. page_refused => \E k \in DOMAIN T!Encode(message[1]) : TooShort(port, T!Encode(message[1])[k])
  BY Zenon DEF TInv, Meets
<1> QED BY ONLY <1>1, Zenon DEF T!NothingRefused, T!Frames, TooShort

LEMMA AllDecoded ==
  ASSUME TInv
  PROVE  T!EncoderDecoded
<1>1. SUFFICES ASSUME message # <<>>
      PROVE  /\ \A page \in DOMAIN T!Frames : Len(T!Frames[page]) <= T!OTA_MAX_BODY_SIZE
             /\ T!Decode(port, T!Frames) =
                  IF port = 133 /\ message[1].sender = "older"
                  THEN [message[1].config EXCEPT !.schedule = <<FALSE, 1080, 360>>]
                  ELSE message[1].config
  BY DEF T!EncoderDecoded
<1>2. Asking(port, message[1])
  BY <1>1, Zenon DEF TInv, Meets
<1>3. RequestSaid(port, message[1], T!Encode(message[1]))
  BY ONLY <1>2, RequestRead
<1>4. T!Decode(port, T!Frames) = DecodedAs(port, message[1])
  BY ONLY <1>3, Zenon DEF RequestSaid, T!Frames
<1>5. \A page \in DOMAIN T!Frames : Len(T!Frames[page]) <= 47
  BY ONLY <1>3, Zenon DEF RequestSaid, T!Frames
<1>6. T!OTA_MAX_BODY_SIZE = 47
  BY DEF T!OTA_MAX_BODY_SIZE
<1>7. DecodedAs(port, message[1])
      = IF port = 133 /\ message[1].sender = "older"
        THEN [message[1].config EXCEPT !.schedule = <<FALSE, 1080, 360>>] ELSE message[1].config
  BY DEF DecodedAs
<1>8. \A page \in DOMAIN T!Frames : Len(T!Frames[page]) <= T!OTA_MAX_BODY_SIZE
  BY ONLY <1>5, <1>6, Zenon
<1> QED BY ONLY <1>4, <1>7, <1>8

LEMMA AllReadBack ==
  ASSUME TInv
  PROVE  T!ReadBackStays
<1>1. SUFFICES ASSUME port \in T!Scenes, NEW i \in DOMAIN stored.points, NEW axis \in {1, 2},
                      NEW q, q = stored.points[i][axis],
                      NEW again, again = T!Integer_Coordinate_To_Q15(T!Encode_Integer_Coordinate(q))
      PROVE  /\ 1000 * (again - q) <= 32767 + 500 /\ 1000 * (q - again) <= 32767 + 500
             /\ T!Integer_Coordinate_To_Q15(T!Encode_Integer_Coordinate(again)) = again
  BY DEF T!ReadBackStays
<1>2. stored \in T!Version(port)
  BY DEF TInv, T!TypeOK
<1>3. PICK points : points = stored.points
  OBVIOUS
<1>4. points \in T!Corners(port, T!Vertex)
  <2>1. stored.points \in T!Corners(port, T!Vertex)
    BY ONLY <1>1, <1>2, VersionScene
  <2> QED BY <1>3, <2>1
<1>5. points \in Seq(T!Vertex \X T!Vertex)
  BY <1>4 DEF T!Corners
<1>6. points[i] \in T!Vertex \X T!Vertex
  BY <1>1, <1>3, <1>5
<1>7. points[i][axis] \in T!Vertex
  <2>1. points[i][1] \in T!Vertex /\ points[i][2] \in T!Vertex
    BY ONLY <1>6
  <2> QED BY ONLY <2>1, axis \in {1, 2}
<1>8. q \in T!Vertex
  BY ONLY <1>1, <1>3, <1>7, Zenon
<1> QED BY ONLY <1>1, <1>8, ReadBack

\* Answers of one frame.
LEMMA OneAnswered ==
  ASSUME NEW p, p = 110 \/ p = 130, NEW ans, NEW kn, AnswersMade(p, ans, kn), kn \subseteq T!Version(p),
         ans # <<>>
  PROVE  \E v \in kn : T!Decode(p, ans) = ReadableAs(p, v)
<1>1. /\ ans = [i \in DOMAIN ans |-> ans[i]] /\ DOMAIN ans # {}
      /\ \A i \in DOMAIN ans :
           \E v \in kn : i \in 1 .. T!Answer_Pages(p, v) /\ ans[i] = T!Build_Config_Page(p, v, i - 1)
  BY ONLY AnswersMade(p, ans, kn), ans # <<>>, Zenon DEF AnswersMade
<1>2. p \notin T!Scenes
  BY DEF T!Scenes
<1>3. \A v : T!Answer_Pages(p, v) = 1
  BY <1>2 DEF T!Answer_Pages
<1>4. \A i \in DOMAIN ans : i = 1
  <2>1. SUFFICES ASSUME NEW i \in DOMAIN ans PROVE i = 1
    OBVIOUS
  <2>2. PICK v \in kn : i \in 1 .. T!Answer_Pages(p, v)
    BY ONLY <1>1, <2>1, Zenon
  <2>3. T!Answer_Pages(p, v) = 1
    BY <1>3
  <2> QED BY ONLY <2>2, <2>3
<1>5. DOMAIN ans = {1}
  BY ONLY <1>1, <1>4
<1>6. DOMAIN ans = 1 .. 1
  BY ONLY <1>5
<1>7. PICK v \in kn : ans[1] = T!Build_Config_Page(p, v, 1 - 1)
  BY ONLY <1>1, <1>5, Zenon
<1>8. v \in T!Version(p)
  BY <1>7
<1>9. CASE p = 110
  <2>1. v \in T!Version(110) /\ ans[1] = T!Build_Config_Page(110, v, 1 - 1)
    BY ONLY <1>7, <1>8, <1>9, Zenon
  <2>2. T!Decode(110, ans) = [dataRate |-> <<v.dataRate>>, adr |-> <<v.adr>>]
    BY ONLY <1>6, <2>1, BridgeAnswered
  <2>3. T!Decode(p, ans) = ReadableAs(p, v)
    BY ONLY <1>2, <1>9, <2>2, Zenon DEF ReadableAs
  <2> QED BY <1>7, <2>3
<1>10. CASE p = 130
  <2>1. v \in T!Version(130) /\ ans[1] = T!Build_Config_Page(130, v, 1 - 1)
    BY ONLY <1>7, <1>8, <1>10, Zenon
  <2>2. ans = [i \in 1 .. 1 |-> ans[i]]
    BY ONLY <1>1, <1>6, Zenon
  <2>3. T!Decode(130, ans) = v
    BY ONLY <2>1, <2>2, StreamAnswered
  <2>4. p # 110
    BY <1>10
  <2>5. T!Decode(p, ans) = ReadableAs(p, v)
    BY ONLY <1>2, <1>10, <2>3, <2>4, Zenon DEF ReadableAs
  <2> QED BY <1>7, <2>5
<1> QED BY <1>9, <1>10

\* The pages 1 and 2, or page 1 alone.
LEMMA PagesAtHand ==
  ASSUME NEW S, S \subseteq 1 .. 2, S = 1 .. T!Cardinality(S), S # {}
  PROVE  S = 1 .. 1 \/ S = 1 .. 2
<1>1. T!Cardinality(S) = Cardinality(S)
  BY DEF T!Cardinality, Cardinality
<1>2. IsFiniteSet(1 .. 2)
  <2>1. PICK top : top = 2
    OBVIOUS
  <2>2. top \in Nat
    BY <2>1
  <2>3. IsFiniteSet(1 .. top)
    BY ONLY <2>2, FS_Interval
  <2> QED BY ONLY <2>1, <2>3, Zenon
<1>3. Cardinality(S) \in Nat
  <2>1. IsFiniteSet(S)
    BY <1>2, FS_Subset
  <2> QED BY <2>1, FS_CardinalityType
<1>4. PICK c : c = Cardinality(S)
  OBVIOUS
<1>5. c \in Nat /\ S = 1 .. c
  <2>1. c = T!Cardinality(S) /\ c \in Nat
    BY ONLY <1>1, <1>3, <1>4, Zenon
  <2> QED BY ONLY <2>1, S = 1 .. T!Cardinality(S), Zenon
<1>6. c \in {1, 2}
  <2>1. c # 0
    BY ONLY <1>5, S # {}
  <2>2. c \in 1 .. c
    BY ONLY <1>5, <2>1
  <2>3. c \in 1 .. 2
    BY ONLY <1>5, <2>2, S \subseteq 1 .. 2
  <2> QED BY ONLY <2>3
<1> QED BY ONLY <1>5, <1>6

LEMMA AllAnswered ==
  ASSUME TInv, T!ConstantsAssumption
  PROVE  T!Answered
<1>1. AnswersMade(port, answers, known) /\ known \subseteq T!Version(port)
  BY DEF TInv, T!TypeOK
<1>2. PICK decoded : decoded = T!Decode(port, answers)
  OBVIOUS
<1>3. SUFFICES ASSUME answers # <<>>, DOMAIN answers = 1 .. T!Cardinality(DOMAIN answers), decoded # <<>>,
                      port \in T!Scenes => Len(answers) = answers[1][10]
      PROVE  IF port \in T!Scenes
             THEN \A i \in DOMAIN decoded.points :
                    \E version \in known :
                      /\ Len(version.points) = Len(decoded.points)
                      /\ [decoded EXCEPT !.points = T!Readable(version).points] = T!Readable(version)
                      /\ decoded.points[i] = T!Readable(version).points[i]
             ELSE \E version \in known : decoded = T!Readable(version)
  BY <1>2, Zenon DEF T!Answered
<1>4. \A v : T!Readable(v) = ReadableAs(port, v)
  BY ONLY Zenon DEF T!Readable, ReadableAs
<1>5. CASE port \in T!Scenes
  <2>1. DOMAIN answers \subseteq 1 .. 2 /\ DOMAIN answers # {}
    BY ONLY <1>1, <1>3, Zenon DEF AnswersMade
  <2>2. DOMAIN answers = 1 .. 1 \/ DOMAIN answers = 1 .. 2
    <3>1. PICK S : S = DOMAIN answers
      OBVIOUS
    <3>2. S \subseteq 1 .. 2 /\ S # {} /\ S = 1 .. T!Cardinality(S)
      BY ONLY <1>3, <2>1, <3>1, Zenon
    <3>3. S = 1 .. 1 \/ S = 1 .. 2
      BY ONLY <3>2, PagesAtHand
    <3> QED BY ONLY <3>1, <3>3, Zenon
  <2>3. Len(answers) = answers[1][10]
    BY ONLY <1>3, <1>5
  <2>4. AnsweredWith(port, decoded, known)
    BY ONLY <1>1, <1>2, <1>3, <1>5, <2>2, <2>3, SceneAnswered
  <2>5. \A i \in DOMAIN decoded.points :
          \E version \in known :
            /\ Len(version.points) = Len(decoded.points)
            /\ [decoded EXCEPT !.points = T!Readable(version).points] = T!Readable(version)
            /\ decoded.points[i] = T!Readable(version).points[i]
    BY ONLY <1>4, <2>4, Zenon DEF AnsweredWith, MadeOf
  <2> QED BY ONLY <1>5, <2>5, Zenon
<1>6. CASE port \notin T!Scenes
  <2>1. port = 110 \/ port = 130
    <3>1. port \in DOMAIN OtaStored
      BY DEF TInv, T!TypeOK
    <3>2. port \in T!Scenes \cup {100, 110, 130}
      BY <3>1 DEF T!ConstantsAssumption
    <3>3. port # 100
      BY ONLY <1>1, <1>3, Zenon DEF AnswersMade
    <3> QED BY ONLY <1>6, <3>2, <3>3, Zenon
  <2>2. \E v \in known : T!Decode(port, answers) = ReadableAs(port, v)
    BY ONLY <1>1, <1>3, <2>1, OneAnswered
  <2> QED BY ONLY <1>2, <1>4, <1>6, <2>2, Zenon
<1> QED BY <1>5, <1>6

\* Every conjunct of FramesUnderstood follows from the invariant.
LEMMA AllUnderstood ==
  ASSUME TInv, T!ConstantsAssumption
  PROVE  T!FramesUnderstood
BY TakenMeant, NoneRefused, AllDecoded, AllAnswered, AllReadBack DEF T!FramesUnderstood

\* The invariant holds at first, and every action keeps it.
LEMMA TInit ==
  ASSUME T!Init, T!ConstantsAssumption
  PROVE  TInv
<1>1. T!TypeOK
  <2>1. /\ message = <<>> /\ page_refused = FALSE /\ port \in DOMAIN OtaStored
        /\ stored \in OtaStored[port] /\ known = {} /\ edits = 0
    BY DEF T!Init
  <2>2. OtaStored[port] \subseteq T!Version(port) /\ MaxEdits \in Nat
    BY <2>1 DEF T!ConstantsAssumption
  <2>3. stored \in T!Version(port) /\ known \subseteq T!Version(port)
    BY ONLY <2>1, <2>2
  <2>4. edits \in 0 .. MaxEdits /\ page_refused \in BOOLEAN
    <3>1. edits = 0 /\ MaxEdits \in Nat /\ page_refused = FALSE
      BY <2>1, <2>2
    <3>2. edits \in 0 .. MaxEdits
      <4>1. edits = 0 /\ MaxEdits \in Nat
        BY ONLY <3>1, Zenon
      <4> QED BY ONLY <4>1
    <3>3. page_refused \in BOOLEAN
      BY ONLY <3>1, Zenon
    <3> QED BY <3>2, <3>3
  <2> QED BY ONLY <2>1, <2>3, <2>4, Zenon DEF T!TypeOK
<1>2. Meets(message, received, page_refused, port, stored)
  <2>1. message = <<>> /\ received = <<>> /\ page_refused = FALSE
    BY DEF T!Init
  <2>2. ~AllCame(message, received)
    BY <2>1 DEF AllCame
  <2>3. PICK none : none = <<>>
    OBVIOUS
  <2> QED BY ONLY <2>1, <2>2, Zenon DEF Meets
<1>3. AnswersMade(port, answers, known)
  <2>1. answers = <<>>
    BY DEF T!Init
  <2> QED BY ONLY <2>1, NoneYet, Zenon DEF AnswersMade
<1> QED BY <1>1, <1>2, <1>3 DEF TInv

LEMMA Typed ==
  ASSUME TInv
  PROVE  /\ message = <<>> \/ \E r \in OtaRequest : message = <<r>>
         /\ port \in DOMAIN OtaStored /\ stored \in T!Version(port) /\ known \subseteq T!Version(port)
         /\ page_refused \in BOOLEAN /\ edits \in 0 .. MaxEdits
         /\ Meets(message, received, page_refused, port, stored) /\ AnswersMade(port, answers, known)
BY DEF TInv, T!TypeOK

\* Who asks.
LEMMA AskMeets ==
  ASSUME TInv, T!ConstantsAssumption, NEW r \in OtaRequest, T!Ask(r)
  PROVE  TInv'
<1>1. /\ message = <<>> /\ r.port = port /\ message' = <<r>>
      /\ received' = received /\ page_refused' = page_refused /\ port' = port /\ stored' = stored
      /\ answers' = answers /\ known' = known /\ edits' = edits
  BY DEF T!Ask
<1>2. Asking(port, r)
  <2>1. Asking(r.port, r)
    BY ONLY RequestAsks, T!ConstantsAssumption, r \in OtaRequest
  <2> QED BY ONLY <1>1, <2>1, Zenon
<1>3. Meets(message', received', page_refused', port', stored')
  <2>1. Meets(<<>>, received, page_refused, port, stored)
    BY ONLY <1>1, Typed, TInv, Zenon
  <2>2. Meets(<<r>>, received, page_refused, port, stored)
    BY ONLY <1>2, <2>1, MeetsAsk
  <2> QED BY ONLY <1>1, <2>2, Zenon
<1>4. AnswersMade(port', answers', known')
  BY ONLY <1>1, Typed, TInv, Zenon
<1>5. T!TypeOK'
  <2>1. message' = <<>> \/ \E q \in OtaRequest : message' = <<q>>
    BY ONLY <1>1, r \in OtaRequest, Zenon
  <2> QED BY ONLY <1>1, <2>1, Typed, TInv DEF T!TypeOK
<1> QED BY ONLY <1>3, <1>4, <1>5 DEF TInv

\* A page comes in.
LEMMA PageMeets ==
  ASSUME TInv, NEW page, T!Page_Received(page)
  PROVE  TInv'
<1>1. PICK frames : frames = T!Encode(message[1])
  OBVIOUS
<1>2. PICK length : length = T!Static_Length(port, frames[page])
  OBVIOUS
<1>3. PICK all : all = T!With(received, page, IF port \in T!Scenes THEN T!Read_Points(frames[page], length) ELSE <<>>)
  OBVIOUS
<1>4. PICK after : after = Left(port, frames, page, all, stored)
  OBVIOUS
<1>5. /\ message # <<>> /\ ~page_refused /\ page \in DOMAIN frames \ DOMAIN received
      /\ IF ~T!Accepted(port, frames[page])
         THEN page_refused' = TRUE /\ received' = received /\ stored' = stored
         ELSE received' = all /\ stored' = after /\ page_refused' = page_refused
      /\ known' = IF answers = <<>> THEN {} ELSE known \cup {stored'}
      /\ message' = message /\ port' = port /\ answers' = answers /\ edits' = edits
  BY ONLY <1>1, <1>2, <1>3, <1>4, T!Page_Received(page), Zenon DEF T!Page_Received, T!Frames, T!Seen, Left
<1>6. /\ message = <<>> \/ \E r \in OtaRequest : message = <<r>>
      /\ port \in DOMAIN OtaStored /\ stored \in T!Version(port) /\ known \subseteq T!Version(port)
      /\ edits \in 0 .. MaxEdits
      /\ Meets(message, received, page_refused, port, stored) /\ AnswersMade(port, answers, known)
  BY ONLY Typed, TInv, Zenon
<1>7. Meets(message, received, FALSE, port, stored)
  <2>1. page_refused \in BOOLEAN /\ ~page_refused
    BY ONLY <1>5, Typed, TInv, Zenon
  <2>2. page_refused = FALSE
    BY ONLY <2>1, Zenon
  <2> QED BY ONLY <1>6, <2>2, Zenon
<1>8. Meets(message', received', page_refused', port', stored') /\ stored' \in T!Version(port)
      /\ page_refused' \in BOOLEAN
  <2>1. CASE ~T!Accepted(port, frames[page])
    <3>1. Meets(message, received, TRUE, port, stored)
      BY ONLY <1>1, <1>5, <1>7, <2>1, MeetsRefused
    <3> QED BY ONLY <1>5, <1>6, <2>1, <3>1, Zenon
  <2>2. CASE T!Accepted(port, frames[page])
    <3>1. Meets(message, all, FALSE, port, after) /\ after \in T!Version(port)
      BY ONLY <1>1, <1>2, <1>3, <1>4, <1>5, <1>6, <1>7, MeetsTaken
    <3>2. page_refused \in BOOLEAN /\ ~page_refused
      BY ONLY <1>5, Typed, TInv, Zenon
    <3>3. page_refused = FALSE
      BY ONLY <3>2, Zenon
    <3> QED BY ONLY <1>5, <2>2, <3>1, <3>3, Zenon
  <2> QED BY <2>1, <2>2
<1>9. AnswersMade(port', answers', known')
  <2>1. AnswersMade(port, answers, known')
    BY ONLY <1>5, <1>6, AnswersKept
  <2> QED BY ONLY <1>5, <2>1, Zenon
<1>10. known' \subseteq T!Version(port)
  BY ONLY <1>5, <1>6, <1>8
<1>11. T!TypeOK'
  BY ONLY <1>5, <1>6, <1>8, <1>10 DEF T!TypeOK
<1> QED BY ONLY <1>8, <1>9, <1>11 DEF TInv

\* A page is asked for.
LEMMA GetMeets ==
  ASSUME TInv, NEW page \in 1 .. 2, T!Get(page)
  PROVE  TInv'
<1>1. /\ port # 100 /\ page \notin DOMAIN answers /\ page \in 1 .. T!Answer_Pages(port, stored)
      /\ answers' = T!With(answers, page, T!Build_Config_Page(port, stored, page - 1))
      /\ known' = known \cup {stored}
      /\ message' = message /\ received' = received /\ page_refused' = page_refused
      /\ port' = port /\ stored' = stored /\ edits' = edits
  BY DEF T!Get
<1>2. /\ message = <<>> \/ \E r \in OtaRequest : message = <<r>>
      /\ port \in DOMAIN OtaStored /\ stored \in T!Version(port) /\ known \subseteq T!Version(port)
      /\ edits \in 0 .. MaxEdits /\ page_refused \in BOOLEAN
      /\ Meets(message, received, page_refused, port, stored) /\ AnswersMade(port, answers, known)
  BY ONLY Typed, TInv, Zenon
<1>3. Meets(message', received', page_refused', port', stored')
  BY ONLY <1>1, <1>2, Zenon
<1>4. AnswersMade(port', answers', known')
  <2>1. AnswersMade(port, answers', known')
    BY ONLY <1>1, <1>2, AnswerAdded, page \in 1 .. 2
  <2> QED BY ONLY <1>1, <2>1, Zenon
<1>5. T!TypeOK'
  <2>1. known' \subseteq T!Version(port)
    BY ONLY <1>1, <1>2
  <2> QED BY ONLY <1>1, <1>2, <2>1 DEF T!TypeOK
<1> QED BY ONLY <1>3, <1>4, <1>5 DEF TInv

\* Somebody changes what is there.
LEMMA EditMeets ==
  ASSUME TInv, T!ConstantsAssumption, NEW version, T!Edit(version)
  PROVE  TInv'
<1>1. /\ edits < MaxEdits /\ version \in OtaStored[port]
      /\ stored' = version /\ known' = IF answers = <<>> THEN {} ELSE known \cup {version}
      /\ IF AllCame(message, received) THEN message' = <<>> /\ received' = <<>>
         ELSE message' = message /\ received' = received
      /\ edits' = edits + 1 /\ page_refused' = page_refused /\ port' = port /\ answers' = answers
  BY DEF T!Edit, T!All_Received, T!Frames, AllCame, T!Seen
<1>2. /\ message = <<>> \/ \E r \in OtaRequest : message = <<r>>
      /\ port \in DOMAIN OtaStored /\ stored \in T!Version(port) /\ known \subseteq T!Version(port)
      /\ edits \in 0 .. MaxEdits /\ page_refused \in BOOLEAN
      /\ Meets(message, received, page_refused, port, stored) /\ AnswersMade(port, answers, known)
  BY ONLY Typed, TInv, Zenon
<1>3. version \in T!Version(port) /\ MaxEdits \in Nat
  BY <1>1, <1>2 DEF T!ConstantsAssumption
<1>4. Meets(message', received', page_refused', port', stored')
  <2>1. IF AllCame(message, received) THEN Meets(<<>>, <<>>, page_refused, port, version)
        ELSE Meets(message, received, page_refused, port, version)
    BY ONLY <1>2, MeetsEdit
  <2> QED BY ONLY <1>1, <2>1, Zenon
<1>5. AnswersMade(port', answers', known')
  <2>1. AnswersMade(port, answers, known')
    BY ONLY <1>1, <1>2, AnswersKept
  <2> QED BY ONLY <1>1, <2>1, Zenon
<1>6. T!TypeOK'
  <2>1. known' \subseteq T!Version(port)
    BY ONLY <1>1, <1>2, <1>3
  <2>2. edits' \in 0 .. MaxEdits
    BY ONLY <1>1, <1>2, <1>3
  <2>3. message' = <<>> \/ \E r \in OtaRequest : message' = <<r>>
    BY ONLY <1>1, <1>2, Zenon
  <2> QED BY ONLY <1>1, <1>2, <1>3, <2>1, <2>2, <2>3 DEF T!TypeOK
<1> QED BY ONLY <1>4, <1>5, <1>6 DEF TInv

LEMMA TNext ==
  ASSUME TInv, T!ConstantsAssumption, [T!Next]_(T!vars)
  PROVE  TInv'
<1>1. CASE UNCHANGED T!vars
  <2>1. /\ message' = message /\ received' = received /\ page_refused' = page_refused /\ port' = port
        /\ stored' = stored /\ answers' = answers /\ known' = known /\ edits' = edits
    BY <1>1 DEF T!vars
  <2>2. T!TypeOK'
    BY <2>1 DEF TInv, T!TypeOK
  <2>3. Meets(message', received', page_refused', port', stored') /\ AnswersMade(port', answers', known')
    BY ONLY <2>1, Typed, TInv, Zenon
  <2> QED BY ONLY <2>2, <2>3 DEF TInv
<1>2. CASE \E r \in OtaRequest : T!Ask(r)
  BY <1>2, AskMeets
<1>3. CASE \E page \in 1 .. 2 : T!Page_Received(page) \/ T!Get(page)
  BY <1>3, PageMeets, GetMeets
<1>4. CASE \E version \in UNION {OtaStored[p] : p \in DOMAIN OtaStored} : T!Edit(version)
  BY <1>4, EditMeets
<1> QED BY <1>1, <1>2, <1>3, <1>4 DEF T!Next

\* Every frame that encoder, app and decoder of aoa exchange is read as it was meant: what
\* was asked, what is stored, all corners of what was told (FramesUnderstood).
THEOREM FramesHold ==
  ASSUME T!ConstantsAssumption
  PROVE  T!Spec => [](T!TypeOK /\ T!FramesUnderstood)
<1>1. T!Init => TInv
  BY TInit
<1>2. TInv /\ [T!Next]_(T!vars) => TInv'
  BY TNext
<1>3. TInv => T!TypeOK /\ T!FramesUnderstood
  BY AllUnderstood DEF TInv
<1> QED
  BY <1>1, <1>2, <1>3, PTL DEF T!Spec

-----------------------------------------------------------------------------
(***************************************************************************)
(* The pages in which a device tells of itself (OtaInformation).  Its text is *)
(* the same as the pages one after another; where they come from different *)
(* times, it is woven of the texts of those times.                         *)
(***************************************************************************)
\* What is assumed of a device.
Formed(f) ==
  /\ f.type \in {"camera", "bridge"} /\ DOMAIN f.fields = 1 .. I!Fields(f.type)
  /\ \A i \in DOMAIN f.fields : f.fields[i].length \in Nat \ {0}
  /\ I!TextLength(f) < I!Info_Size

\* Where fields end, with the separators after them: the last one has none.
Ladder(b, n) ==
  /\ n \in {5, 7} /\ b = [i \in 0 .. n |-> b[i]] /\ b[0] = 0
  /\ \A i \in 0 .. n : b[i] \in Nat
  /\ \A i \in 1 .. n : b[i - 1] + 2 <= b[i]
Ends(f) == [i \in 0 .. I!Fields(f.type) |-> I!Before(f, i + 1)]

Climbs(b, n) == \A i, j \in 0 .. n : i < j => b[i] < b[j]
LEMMA LadderClimbs ==
  ASSUME NEW n, NEW b, Ladder(b, n)
  PROVE  Climbs(b, n)
<1>1. CASE n = 5
  <2>1. /\ b[0] \in Nat /\ b[1] \in Nat /\ b[2] \in Nat /\ b[3] \in Nat /\ b[4] \in Nat /\ b[5] \in Nat
        /\ b[0] < b[1] /\ b[1] < b[2] /\ b[2] < b[3] /\ b[3] < b[4] /\ b[4] < b[5]
    <3>1. \A i \in 1 .. 5 : b[i - 1] \in Nat /\ b[i] \in Nat /\ b[i - 1] < b[i]
      BY <1>1 DEF Ladder
    <3> QED BY ONLY <3>1
  <2> QED BY ONLY <1>1, <2>1 DEF Climbs
<1>2. CASE n = 7
  <2>1. /\ b[0] \in Nat /\ b[1] \in Nat /\ b[2] \in Nat /\ b[3] \in Nat /\ b[4] \in Nat /\ b[5] \in Nat
        /\ b[6] \in Nat /\ b[7] \in Nat
        /\ b[0] < b[1] /\ b[1] < b[2] /\ b[2] < b[3] /\ b[3] < b[4] /\ b[4] < b[5]
        /\ b[5] < b[6] /\ b[6] < b[7]
    <3>1. \A i \in 1 .. 7 : b[i - 1] \in Nat /\ b[i] \in Nat /\ b[i - 1] < b[i]
      BY <1>2 DEF Ladder
    <3> QED BY ONLY <3>1
  <2> QED BY ONLY <1>2, <2>1 DEF Climbs
<1> QED BY <1>1, <1>2 DEF Ladder

\* Every place is at the end of a field or in one.
Reached(b, n, k) == \E i \in 1 .. n : b[i - 1] < k /\ k <= b[i]
LEMMA LadderReached ==
  ASSUME NEW n, NEW b, Ladder(b, n), NEW k \in Nat, 0 < k, k <= b[n]
  PROVE  Reached(b, n, k)
<1>1. CASE n = 5
  <2>1. b[0] = 0 /\ \A i \in 0 .. 5 : b[i] \in Nat
    BY <1>1 DEF Ladder
  <2>2. SUFFICES ASSUME ~(b[1 - 1] < k /\ k <= b[1]), ~(b[2 - 1] < k /\ k <= b[2]),
                        ~(b[3 - 1] < k /\ k <= b[3]), ~(b[4 - 1] < k /\ k <= b[4]),
                        ~(b[5 - 1] < k /\ k <= b[5])
                 PROVE  FALSE
    BY <1>1 DEF Reached
  <2> QED BY ONLY <1>1, <2>1, <2>2, k \in Nat, 0 < k, k <= b[n]
<1>2. CASE n = 7
  <2>1. b[0] = 0 /\ \A i \in 0 .. 7 : b[i] \in Nat
    BY <1>2 DEF Ladder
  <2>2. SUFFICES ASSUME ~(b[1 - 1] < k /\ k <= b[1]), ~(b[2 - 1] < k /\ k <= b[2]),
                        ~(b[3 - 1] < k /\ k <= b[3]), ~(b[4 - 1] < k /\ k <= b[4]),
                        ~(b[5 - 1] < k /\ k <= b[5]), ~(b[6 - 1] < k /\ k <= b[6]),
                        ~(b[7 - 1] < k /\ k <= b[7])
                 PROVE  FALSE
    BY <1>2 DEF Reached
  <2> QED BY ONLY <1>2, <2>1, <2>2, k \in Nat, 0 < k, k <= b[n]
<1> QED BY <1>1, <1>2 DEF Ladder

\* One field only.
LEMMA ReachedOnce ==
  ASSUME NEW n, NEW b, Ladder(b, n), NEW k \in Nat, NEW i \in 1 .. n, NEW j \in 1 .. n,
         b[i - 1] < k, k <= b[i], b[j - 1] < k, k <= b[j]
  PROVE  i = j
<1>1. Climbs(b, n) /\ n \in Nat /\ \A m \in 0 .. n : b[m] \in Nat
  <2>1. Climbs(b, n)
    BY LadderClimbs
  <2>2. n \in Nat /\ \A m \in 0 .. n : b[m] \in Nat
    BY DEF Ladder
  <2> QED BY <2>1, <2>2
<1>2. ~ i < j
  <2>1. SUFFICES ASSUME i < j PROVE FALSE
    OBVIOUS
  <2>2. i \in 0 .. n /\ j - 1 \in 0 .. n /\ (i = j - 1 \/ i < j - 1)
    BY <1>1, <2>1
  <2>3. b[i] <= b[j - 1]
    BY <1>1, <2>2 DEF Climbs
  <2> QED BY <1>1, <2>2, <2>3
<1>3. ~ j < i
  <2>1. SUFFICES ASSUME j < i PROVE FALSE
    OBVIOUS
  <2>2. j \in 0 .. n /\ i - 1 \in 0 .. n /\ (j = i - 1 \/ j < i - 1)
    BY <1>1, <2>1
  <2>3. b[j] <= b[i - 1]
    BY <1>1, <2>2 DEF Climbs
  <2> QED BY <1>1, <2>2, <2>3
<1>4. i \in Int /\ j \in Int
  BY <1>1
<1> QED BY ONLY <1>2, <1>3, <1>4

\* The ends of the fields of a device.
LEMMA EndsClimb ==
  ASSUME NEW f, Formed(f)
  PROVE  /\ Ladder(Ends(f), I!Fields(f.type)) /\ Ends(f)[I!Fields(f.type)] <= 256
         /\ \A i \in 1 .. I!Fields(f.type) : f.fields[i].length = Ends(f)[i] - Ends(f)[i - 1] - 1
<1>1. PICK n : n = I!Fields(f.type)
  OBVIOUS
<1>2. n \in {5, 7}
  BY <1>1 DEF Formed, I!Fields
<1>3. PICK l : l = [i \in 1 .. n |-> f.fields[i].length]
  OBVIOUS
<1>4. \A i \in 1 .. n : l[i] \in Nat \ {0} /\ l[i] = f.fields[i].length
  BY <1>1, <1>3 DEF Formed
<1>5. PICK b : b = Ends(f)
  OBVIOUS
<1>6. b = [i \in 0 .. n |-> b[i]] /\ \A i \in 0 .. n : b[i] = I!Before(f, i + 1)
  BY <1>1, <1>5 DEF Ends
<1>7. \A i \in 0 .. n :
        b[i] = (IF 1 <= i THEN l[1] + 1 ELSE 0) + (IF 2 <= i THEN l[2] + 1 ELSE 0)
               + (IF 3 <= i THEN l[3] + 1 ELSE 0) + (IF 4 <= i THEN l[4] + 1 ELSE 0)
               + (IF 5 <= i THEN l[5] + 1 ELSE 0) + (IF 6 <= i THEN l[6] + 1 ELSE 0)
               + (IF 7 <= i THEN l[7] + 1 ELSE 0)
  <2>1. TAKE i \in 0 .. n
  <2>2. i \in Int /\ i <= n
    BY <1>2
  <2>3. b[i] = (IF 1 < i + 1 THEN f.fields[1].length + 1 ELSE 0) + (IF 2 < i + 1 THEN f.fields[2].length + 1 ELSE 0)
               + (IF 3 < i + 1 THEN f.fields[3].length + 1 ELSE 0) + (IF 4 < i + 1 THEN f.fields[4].length + 1 ELSE 0)
               + (IF 5 < i + 1 THEN f.fields[5].length + 1 ELSE 0) + (IF 6 < i + 1 THEN f.fields[6].length + 1 ELSE 0)
               + (IF 7 < i + 1 THEN f.fields[7].length + 1 ELSE 0)
    BY <1>6, Zenon DEF I!Before
  <2>4. \A j \in 1 .. 7 : (IF j < i + 1 THEN f.fields[j].length + 1 ELSE 0) = (IF j <= i THEN l[j] + 1 ELSE 0)
    BY <1>2, <1>4, <2>2
  <2> QED BY ONLY <2>3, <2>4
<1>8. Ladder(b, n) /\ \A i \in 1 .. n : l[i] = b[i] - b[i - 1] - 1
  <2>1. CASE n = 5
    <3>1. /\ b[0] = 0 /\ b[1] = l[1] + 1 /\ b[2] = b[1] + l[2] + 1 /\ b[3] = b[2] + l[3] + 1
          /\ b[4] = b[3] + l[4] + 1 /\ b[5] = b[4] + l[5] + 1
      BY ONLY <1>4, <1>7, <2>1
    <3> QED BY ONLY <1>4, <1>6, <2>1, <3>1 DEF Ladder
  <2>2. CASE n = 7
    <3>1. /\ b[0] = 0 /\ b[1] = l[1] + 1 /\ b[2] = b[1] + l[2] + 1 /\ b[3] = b[2] + l[3] + 1
          /\ b[4] = b[3] + l[4] + 1 /\ b[5] = b[4] + l[5] + 1 /\ b[6] = b[5] + l[6] + 1
          /\ b[7] = b[6] + l[7] + 1
      BY ONLY <1>4, <1>7, <2>2
    <3> QED BY ONLY <1>4, <1>6, <2>2, <3>1 DEF Ladder
  <2> QED BY ONLY <1>2, <2>1, <2>2
<1>9. b[n] <= 256
  <2>1. b[n] \in Nat /\ b[n] = I!Before(f, n + 1)
    BY <1>2, <1>6, <1>8 DEF Ladder
  <2>2. I!Before(f, n + 1) - 1 < 256
    BY <1>1 DEF Formed, I!TextLength, I!Info_Size
  <2> QED BY ONLY <2>1, <2>2
<1> QED BY <1>1, <1>4, <1>5, <1>8, <1>9

\* The characters of a text: of fields, and separators between them.
Letter(f, i, j) == <<i, f.fields[i].value, j>>
LettersAre(f, t, b, n) == \A i \in 1 .. n : \A j \in 1 .. b[i] - b[i - 1] - 1 : t[b[i - 1] + j] = Letter(f, i, j)
SeparatorsAre(t, b, n) == \A i \in 1 .. n - 1 : t[b[i]] = I!Comma
Places(b, n) == 1 .. b[n] - 1

LEMMA LetterNoComma ==
  ASSUME NEW f, NEW i \in Nat \ {0}, NEW j
  PROVE  Letter(f, i, j) # I!Comma
BY DEF Letter, I!Comma

\* The field at a place, with the separator after it, and what is there.
FieldAt(f, k) == CHOOSE i \in 1 .. I!Fields(f.type) : I!Before(f, i) < k /\ k <= I!Before(f, i + 1)
TextAt(f, k) ==
  IF k = I!Before(f, FieldAt(f, k) + 1) THEN I!Comma
  ELSE I!Characters(f, FieldAt(f, k))[k - I!Before(f, FieldAt(f, k))]

TextLaid(f) ==
  /\ DOMAIN I!Text(f) = Places(Ends(f), I!Fields(f.type)) /\ I!Text(f) = [k \in DOMAIN I!Text(f) |-> I!Text(f)[k]]
  /\ Len(I!Text(f)) = Ends(f)[I!Fields(f.type)] - 1
  /\ LettersAre(f, I!Text(f), Ends(f), I!Fields(f.type))
  /\ SeparatorsAre(I!Text(f), Ends(f), I!Fields(f.type))

LEMMA TextIsLaid ==
  ASSUME NEW f, Formed(f)
  PROVE  TextLaid(f)
<1>1. PICK n : n = I!Fields(f.type)
  OBVIOUS
<1>2. PICK b : b = Ends(f)
  OBVIOUS
<1>3. /\ Ladder(b, n) /\ b[n] <= 256
      /\ \A i \in 1 .. n : f.fields[i].length = b[i] - b[i - 1] - 1
  BY <1>1, <1>2, EndsClimb
<1>4. n \in Nat /\ n \in {5, 7} /\ (\A i \in 0 .. n : b[i] \in Nat) /\ Climbs(b, n)
  <2>1. Climbs(b, n)
    BY <1>3, LadderClimbs
  <2>2. n \in Nat /\ n \in {5, 7} /\ \A i \in 0 .. n : b[i] \in Nat
    BY <1>3 DEF Ladder
  <2> QED BY <2>1, <2>2
<1>5. \A i \in 0 .. n : b[i] = I!Before(f, i + 1)
  BY <1>1, <1>2 DEF Ends
<1>6. I!TextLength(f) = b[n] - 1
  BY <1>1, <1>4, <1>5 DEF I!TextLength
<1>7. PICK t : t = I!Text(f)
  OBVIOUS
<1>8. b[n] \in Nat /\ 0 < b[n]
  <2>1. 0 \in 0 .. n /\ n \in 0 .. n /\ 0 < n /\ b[0] = 0
    BY <1>3, <1>4 DEF Ladder
  <2> QED BY <1>4, <2>1 DEF Climbs
<1>9. DOMAIN t = 1 .. b[n] - 1 /\ t = [k \in DOMAIN t |-> t[k]] /\ \A k \in DOMAIN t : t[k] = TextAt(f, k)
  <2>1. (IF I!TextLength(f) < I!Info_Size THEN I!TextLength(f) ELSE I!Info_Size - 1) = b[n] - 1
    BY ONLY <1>3, <1>6, <1>8 DEF I!Info_Size
  <2>2. PICK size : size = IF I!TextLength(f) < I!Info_Size THEN I!TextLength(f) ELSE I!Info_Size - 1
    OBVIOUS
  <2>3. t = [k \in 1 .. IF I!TextLength(f) < I!Info_Size THEN I!TextLength(f) ELSE I!Info_Size - 1 |-> TextAt(f, k)]
    BY ONLY <1>7, Zenon DEF I!Text, TextAt, FieldAt
  <2>4. DOMAIN t = 1 .. size /\ t = [k \in DOMAIN t |-> t[k]] /\ \A k \in DOMAIN t : t[k] = TextAt(f, k)
    BY ONLY <2>2, <2>3, Zenon
  <2> QED BY ONLY <2>1, <2>2, <2>4, Zenon
<1>10. ASSUME NEW i \in 1 .. n, NEW k \in 1 .. b[n] - 1, b[i - 1] < k, k <= b[i]
       PROVE  t[k] = IF k = b[i] THEN I!Comma ELSE I!Characters(f, i)[k - b[i - 1]]
  <2>1. ASSUME NEW j \in 1 .. n
        PROVE  I!Before(f, j) = b[j - 1] /\ I!Before(f, j + 1) = b[j]
    BY <1>4, <1>5
  <2>2. PICK m : m = FieldAt(f, k)
    OBVIOUS
  <2>3. m \in 1 .. n /\ I!Before(f, m) < k /\ k <= I!Before(f, m + 1)
    <3>1. I!Before(f, i) < k /\ k <= I!Before(f, i + 1)
      BY <1>10, <2>1
    <3> QED BY ONLY <1>1, <2>2, <3>1, i \in 1 .. n, Zenon DEF FieldAt
  <2>4. m = i
    <3>1. b[m - 1] < k /\ k <= b[m]
      BY <2>1, <2>3
    <3>2. k \in Nat
      BY <1>8
    <3> QED BY ONLY <1>3, <1>10, <2>3, <3>1, <3>2, ReachedOnce
  <2>5. t[k] = IF k = I!Before(f, m + 1) THEN I!Comma ELSE I!Characters(f, m)[k - I!Before(f, m)]
    BY ONLY <1>9, <2>2, k \in 1 .. b[n] - 1, Zenon DEF TextAt
  <2> QED BY ONLY <2>1, <2>4, <2>5, i \in 1 .. n
<1>11. LettersAre(f, t, b, n)
  <2>1. SUFFICES ASSUME NEW i \in 1 .. n, NEW j \in 1 .. b[i] - b[i - 1] - 1
                 PROVE  t[b[i - 1] + j] = Letter(f, i, j)
    BY DEF LettersAre
  <2>2. b[i] \in Nat /\ b[i - 1] \in Nat /\ b[i] <= b[n]
    <3>1. i \in 0 .. n /\ i - 1 \in 0 .. n /\ n \in 0 .. n /\ (i = n \/ i < n)
      BY <1>4
    <3> QED BY <1>4, <3>1 DEF Climbs
  <2>3. PICK k : k = b[i - 1] + j
    OBVIOUS
  <2>4. k \in 1 .. b[n] - 1 /\ b[i - 1] < k /\ k <= b[i] /\ k # b[i] /\ k - b[i - 1] = j
    BY <1>8, <2>2, <2>3
  <2>5. t[k] = I!Characters(f, i)[j]
    BY <1>10, <2>4
  <2>6. I!Characters(f, i)[j] = <<i, f.fields[i].value, j>>
    <3>1. j \in 1 .. f.fields[i].length
      BY <1>3
    <3> QED BY ONLY <3>1, Zenon DEF I!Characters
  <2> QED BY <2>3, <2>5, <2>6 DEF Letter
<1>12. SeparatorsAre(t, b, n)
  <2>1. SUFFICES ASSUME NEW i \in 1 .. n - 1
                 PROVE  t[b[i]] = I!Comma
    BY DEF SeparatorsAre
  <2>2. i \in 1 .. n /\ i \in 0 .. n /\ i - 1 \in 0 .. n /\ n \in 0 .. n /\ i < n /\ i - 1 < i /\ 0 \in 0 .. n
    BY <1>4
  <2>3. b[i] \in Nat /\ b[i - 1] \in Nat /\ b[i - 1] < b[i] /\ b[i] < b[n]
    BY <1>4, <2>2 DEF Climbs
  <2>4. b[i] \in 1 .. b[n] - 1
    BY <1>8, <2>3
  <2> QED BY <1>10, <2>2, <2>3, <2>4
<1>13. DOMAIN t = 1 .. b[n] - 1 /\ t = [k \in DOMAIN t |-> t[k]] /\ Len(t) = b[n] - 1
  <2>2. b[n] - 1 \in Nat
    BY <1>8
  <2> QED BY ONLY <1>9, <2>2
<1> QED BY ONLY <1>1, <1>2, <1>7, <1>11, <1>12, <1>13, Zenon DEF TextLaid, Places

\* A text of some length whose separators are where fields end.
SplitAt(t, b, n) ==
  /\ DOMAIN t = Places(b, n) /\ t = [k \in DOMAIN t |-> t[k]]
  /\ \A k \in DOMAIN t : t[k] = I!Comma <=> \E i \in 1 .. n - 1 : k = b[i]

Rungs(b, m) == {b[i] : i \in 1 .. m}
LEMMA RungsCounted ==
  ASSUME NEW n, NEW b, Ladder(b, n), NEW m \in 0 .. n
  PROVE  IsFiniteSet(Rungs(b, m)) /\ Cardinality(Rungs(b, m)) = m
<1>1. Climbs(b, n)
  BY LadderClimbs
<1>2. n \in Nat /\ m \in Nat /\ m <= n /\ \A i \in 0 .. n : b[i] \in Nat
  BY DEF Ladder
<1>3. PICK f : f = [i \in 1 .. m |-> b[i]]
  OBVIOUS
<1>4. f \in Bijection(1 .. m, Rungs(b, m))
  <2>1. f \in [1 .. m -> Rungs(b, m)] /\ \A y \in Rungs(b, m) : \E i \in 1 .. m : f[i] = y
    BY ONLY <1>3 DEF Rungs
  <2>2. \A i, j \in 1 .. m : f[i] = f[j] => i = j
    <3>1. SUFFICES ASSUME NEW i \in 1 .. m, NEW j \in 1 .. m, b[i] = b[j]
                   PROVE  i = j
      BY <1>3
    <3>2. i \in 0 .. n /\ j \in 0 .. n
      BY <1>2
    <3>3. ~ i < j /\ ~ j < i
      BY <1>1, <1>2, <3>1, <3>2 DEF Climbs
    <3> QED BY <1>2, <3>3
  <2> QED BY <2>1, <2>2 DEF Bijection, Injection, Surjection, IsInjective
<1>5. ExistsBijection(1 .. m, Rungs(b, m))
  BY <1>4 DEF ExistsBijection
<1>6. IsFiniteSet(1 .. m) /\ Cardinality(1 .. m) = m
  BY <1>2, FS_Interval
<1> QED BY <1>5, <1>6, FS_Bijection

LEMMA SameCount == \A S : I!Cardinality(S) = Cardinality(S)
BY DEF I!Cardinality, Cardinality

\* The separators of a text, and where it is cut.
CutAt(t, b, n) == \A i \in 0 .. n : I!Cut(t, i) = b[i]
LEMMA SplitCut ==
  ASSUME NEW n, NEW b, Ladder(b, n), NEW t, SplitAt(t, b, n)
  PROVE  CutAt(t, b, n) /\ I!Cardinality(I!Separators(t)) = n - 1
<1>1. Climbs(b, n)
  BY LadderClimbs
<1>2. n \in Nat /\ 0 < n /\ b[0] = 0 /\ \A i \in 0 .. n : b[i] \in Nat
  BY DEF Ladder
<1>3. PICK seps : seps = I!Separators(t)
  OBVIOUS
<1>4. seps = Rungs(b, n - 1)
  <2>1. \A k \in seps : k \in Rungs(b, n - 1)
    BY <1>3 DEF I!Separators, SplitAt, Rungs
  <2>2. ASSUME NEW i \in 1 .. n - 1
        PROVE  b[i] \in seps
    <3>1. i \in 0 .. n /\ n \in 0 .. n /\ 0 \in 0 .. n /\ i < n /\ 0 < i
      BY <1>2
    <3>2. b[i] \in 1 .. b[n] - 1
      BY <1>1, <1>2, <3>1 DEF Climbs
    <3> QED BY <1>3, <3>2 DEF I!Separators, SplitAt, Places
  <2> QED BY ONLY <2>1, <2>2 DEF Rungs
<1>5. ASSUME NEW m \in 0 .. n
      PROVE  I!Cardinality(Rungs(b, m)) = m
  BY <1>5, RungsCounted, SameCount
<1>6. I!Cardinality(seps) = n - 1
  BY <1>2, <1>4, <1>5
<1>7. ASSUME NEW i \in 1 .. n - 1
      PROVE  I!Nth(seps, i) = b[i]
  <2>1. ASSUME NEW m \in 1 .. n - 1
        PROVE  {j \in seps : j <= b[m]} = Rungs(b, m)
    <3>1. ASSUME NEW x \in 1 .. n - 1
          PROVE  b[x] <= b[m] <=> x <= m
      <4>1. x \in 0 .. n /\ m \in 0 .. n /\ b[x] \in Nat /\ b[m] \in Nat
        BY <1>2
      <4>2. (x < m => b[x] < b[m]) /\ (m < x => b[m] < b[x])
        BY <1>1, <4>1 DEF Climbs
      <4> QED BY ONLY <4>1, <4>2, <1>2
    <3>2. \A x \in 1 .. m : x \in 1 .. n - 1 /\ x <= m
      BY <1>2
    <3>3. \A x \in 1 .. n - 1 : x <= m => x \in 1 .. m
      BY <1>2
    <3> QED BY ONLY <1>4, <3>1, <3>2, <3>3 DEF Rungs
  <2>2. ASSUME NEW m \in 1 .. n - 1
        PROVE  I!Cardinality({j \in seps : j <= b[m]}) = m
    BY <1>2, <1>5, <2>1
  <2>3. b[i] \in seps /\ I!Cardinality({j \in seps : j <= b[i]}) = i
    BY <1>4, <2>2 DEF Rungs
  <2>4. \A k \in seps : I!Cardinality({j \in seps : j <= k}) = i => k = b[i]
    <3>1. TAKE k \in seps
    <3>2. PICK m \in 1 .. n - 1 : k = b[m]
      BY <1>4 DEF Rungs
    <3> QED BY <2>2, <3>2
  <2>5. PICK k : k = I!Nth(seps, i)
    OBVIOUS
  <2>6. k \in seps /\ I!Cardinality({j \in seps : j <= k}) = i
    BY ONLY <2>3, <2>5, Zenon DEF I!Nth
  <2> QED BY ONLY <2>4, <2>5, <2>6, Zenon
<1>8. Len(t) = b[n] - 1
  <2>1. b[n] - 1 \in Nat
    <3>1. n \in 0 .. n /\ 0 \in 0 .. n
      BY <1>2
    <3> QED BY <1>1, <1>2, <3>1 DEF Climbs
  <2> QED BY <2>1 DEF SplitAt, Places
<1>9. ASSUME NEW i \in 0 .. n
      PROVE  I!Cut(t, i) = b[i]
  <2>1. CASE i = 0
    BY <1>2, <2>1 DEF I!Cut
  <2>2. CASE i = n
    <3>1. i # 0 /\ i > n - 1 /\ Len(t) + 1 = b[n]
      BY <1>2, <1>8, <2>2
    <3> QED BY <1>3, <1>6, <2>2, <3>1 DEF I!Cut
  <2>3. CASE i \in 1 .. n - 1
    <3>1. i # 0 /\ ~ (i > n - 1)
      BY <1>2, <2>3
    <3> QED BY <1>3, <1>6, <1>7, <2>3, <3>1 DEF I!Cut
  <2> QED BY <1>2, <2>1, <2>2, <2>3
<1> QED BY <1>3, <1>6, <1>9 DEF CutAt

\* What is read of a text that is cut where fields end.
PartsRead(t, b, n, parts) ==
  parts = [i \in 1 .. n |-> [j \in 1 .. b[i] - b[i - 1] - 1 |-> t[b[i - 1] + j]]]
LEMMA Parsed_Text ==
  ASSUME NEW type \in {"camera", "bridge"}, NEW n, n = I!Fields(type),
         NEW b, Ladder(b, n), NEW t, SplitAt(t, b, n)
  PROVE  PartsRead(t, b, n, I!parseInformation(type, t))
<1>1. CutAt(t, b, n) /\ I!Cardinality(I!Separators(t)) = n - 1
  BY SplitCut
<1>2. n \in Nat /\ \A i \in 0 .. n : b[i] \in Nat
  BY DEF Ladder
<1>3. ASSUME NEW i \in 1 .. n
      PROVE  I!Part(t, i) = [j \in 1 .. b[i] - b[i - 1] - 1 |-> t[b[i - 1] + j]]
  <2>1. i \in 0 .. n /\ i - 1 \in 0 .. n
    BY <1>2
  <2>2. I!Cut(t, i) = b[i] /\ I!Cut(t, i - 1) = b[i - 1] /\ b[i] \in Nat /\ b[i - 1] \in Nat
    BY <1>1, <1>2, <2>1 DEF CutAt
  <2>3. PICK low : low = b[i - 1]
    OBVIOUS
  <2>4. PICK high : high = b[i]
    OBVIOUS
  <2>5. I!Part(t, i) = SubSeq(t, low + 1, high - 1)
    BY ONLY <2>2, <2>3, <2>4, Zenon DEF I!Part
  <2>6. SubSeq(t, low + 1, high - 1) = [j \in 1 .. high - low - 1 |-> t[low + j]]
    <3>1. PICK size : size = high - low - 1
      OBVIOUS
    <3>2. PICK part : part = SubSeq(t, low + 1, high - 1)
      OBVIOUS
    <3>3. PICK S : S = {t[k] : k \in low + 1 .. high - 1}
      OBVIOUS
    <3>4. low + 1 \in Int /\ high - 1 \in Int /\ size \in Nat /\ size = (high - 1) - (low + 1) + 1
      <4>1. low + 2 <= high
        BY <2>3, <2>4 DEF Ladder
      <4>2. low \in Nat /\ high \in Nat
        BY <2>2, <2>3, <2>4
      <4> QED BY ONLY <3>1, <4>1, <4>2
    <3>5. \A k \in low + 1 .. high - 1 : t[k] \in S
      BY <3>3
    <3>6. /\ part \in Seq(S)
          /\ Len(part) = IF low + 1 <= high - 1 THEN (high - 1) - (low + 1) + 1 ELSE 0
          /\ \A j \in 1 .. (high - 1) - (low + 1) + 1 : part[j] = t[(low + 1) + j - 1]
      BY ONLY <3>2, <3>4, <3>5, SubSeqProperties
    <3>7. Len(part) = size /\ \A j \in 1 .. size : part[j] = t[low + j]
      <4>1. Len(part) = size
        BY ONLY <2>2, <2>3, <2>4, <3>1, <3>4, <3>6
      <4>2. ASSUME NEW j \in 1 .. size PROVE part[j] = t[low + j]
        <5>1. j \in 1 .. (high - 1) - (low + 1) + 1 /\ (low + 1) + j - 1 = low + j
          BY <2>2, <2>3, <3>4
        <5> QED BY <3>6, <5>1
      <4> QED BY <4>1, <4>2
    <3>8. part = [j \in 1 .. size |-> part[j]]
      BY ONLY <3>6, <3>7
    <3>9. part = [j \in 1 .. size |-> t[low + j]]
      BY ONLY <3>7, <3>8
    <3> QED BY ONLY <3>1, <3>2, <3>9, Zenon
  <2> QED BY ONLY <2>3, <2>4, <2>5, <2>6, Zenon
<1>4. I!parseInformation(type, t) = [i \in 1 .. n |-> I!Part(t, i)]
  <2>1. I!Cardinality(I!Separators(t)) + 1 >= n
    BY ONLY <1>1, <1>2
  <2> QED BY ONLY <2>1, n = I!Fields(type) DEF I!parseInformation
<1>5. PICK parts : parts = I!parseInformation(type, t)
  OBVIOUS
<1>6. parts = [i \in 1 .. n |-> [j \in 1 .. b[i] - b[i - 1] - 1 |-> t[b[i - 1] + j]]]
  BY ONLY <1>3, <1>4, <1>5
<1> QED BY ONLY <1>5, <1>6, Zenon DEF PartsRead

\* Texts of devices whose fields end in the same places: what is woven of them has each
\* page of one of them.
Alike(f, b, n, type) == Formed(f) /\ f.type = type /\ Ends(f) = b /\ I!Fields(type) = n
Leaf(k) == (k - 1) \div 43
Woven(t, b, n, kn) ==
  /\ DOMAIN t = Places(b, n) /\ t = [k \in DOMAIN t |-> t[k]]
  /\ \A page \in 0 .. 5 : \E f \in kn : \A k \in DOMAIN t : Leaf(k) = page => t[k] = I!Text(f)[k]

LEMMA LeafOf ==
  ASSUME NEW k \in Nat, 0 < k, k < 256
  PROVE  Leaf(k) \in 0 .. 5
BY DEF Leaf

LEMMA WovenSplits ==
  ASSUME NEW type, NEW b, NEW n, Ladder(b, n), b[n] <= 256, NEW kn, \A f \in kn : Alike(f, b, n, type),
         NEW t, Woven(t, b, n, kn)
  PROVE  SplitAt(t, b, n)
<1>1. Climbs(b, n)
  BY LadderClimbs
<1>2. n \in Nat /\ 0 < n /\ b[0] = 0 /\ \A i \in 0 .. n : b[i] \in Nat
  BY DEF Ladder
<1>3. DOMAIN t = Places(b, n) /\ t = [k \in DOMAIN t |-> t[k]]
  BY DEF Woven
<1>4. SUFFICES ASSUME NEW k \in DOMAIN t
               PROVE  t[k] = I!Comma <=> \E i \in 1 .. n - 1 : k = b[i]
  BY <1>3 DEF SplitAt
<1>5. k \in Nat /\ 0 < k /\ k < b[n]
  BY <1>2, <1>3 DEF Places
<1>6. Leaf(k) \in 0 .. 5
  BY <1>2, <1>5, LeafOf
<1>7. PICK f \in kn : t[k] = I!Text(f)[k]
  BY <1>6 DEF Woven
<1>8. Alike(f, b, n, type) /\ LettersAre(f, I!Text(f), b, n) /\ SeparatorsAre(I!Text(f), b, n)
  <2>1. Alike(f, b, n, type)
    OBVIOUS
  <2>2. TextLaid(f)
    BY <2>1, TextIsLaid DEF Alike
  <2> QED BY ONLY <2>1, <2>2, Zenon DEF Alike, TextLaid
<1>9. ASSUME NEW i \in 1 .. n - 1, k = b[i]
      PROVE  t[k] = I!Comma
  BY <1>7, <1>8, <1>9 DEF SeparatorsAre
<1>10. ASSUME ~ \E i \in 1 .. n - 1 : k = b[i]
       PROVE  t[k] # I!Comma
  <2>1. PICK i \in 1 .. n : b[i - 1] < k /\ k <= b[i]
    <3>1. k <= b[n]
      BY <1>2, <1>5
    <3>2. Reached(b, n, k)
      BY <1>5, <3>1, LadderReached
    <3> QED BY <3>2 DEF Reached
  <2>2. i \in 0 .. n /\ i - 1 \in 0 .. n /\ b[i] \in Nat /\ b[i - 1] \in Nat
    BY <1>2
  <2>3. k # b[i]
    BY <1>2, <1>5, <1>10
  <2>4. PICK j : j = k - b[i - 1]
    OBVIOUS
  <2>5. j \in 1 .. b[i] - b[i - 1] - 1 /\ k = b[i - 1] + j
    BY <1>5, <2>1, <2>2, <2>3, <2>4
  <2>6. t[k] = Letter(f, i, j)
    BY <1>7, <1>8, <2>5 DEF LettersAre
  <2> QED BY <2>6, LetterNoComma
<1> QED BY <1>9, <1>10

\* Fields that lie on one page are those of one version, and all are if there is only one.
Same_Leaf(b, i) == b[i - 1] \div 43 = (b[i] - 2) \div 43
ReadOf(parts, b, n, kn) ==
  /\ DOMAIN parts = 1 .. n /\ parts = [i \in 1 .. n |-> parts[i]]
  /\ \A i \in 1 .. n : Same_Leaf(b, i) => \E f \in kn : parts[i] = I!Characters(f, i)
  /\ \A f : kn = {f} => parts = [i \in 1 .. n |-> I!Characters(f, i)]

LEMMA WovenRead ==
  ASSUME NEW type, NEW b, NEW n, Ladder(b, n), b[n] <= 256, NEW kn, \A f \in kn : Alike(f, b, n, type),
         NEW t, Woven(t, b, n, kn), type \in {"camera", "bridge"}, n = I!Fields(type)
  PROVE  ReadOf(I!parseInformation(type, t), b, n, kn)
<1>1. Climbs(b, n)
  BY LadderClimbs
<1>2. n \in Nat /\ 0 < n /\ b[0] = 0 /\ \A i \in 0 .. n : b[i] \in Nat
  BY DEF Ladder
<1>3. PICK parts : parts = I!parseInformation(type, t)
  OBVIOUS
<1>4. PartsRead(t, b, n, parts)
  BY <1>3, WovenSplits, Parsed_Text
<1>5. /\ DOMAIN parts = 1 .. n /\ parts = [i \in 1 .. n |-> parts[i]]
      /\ \A i \in 1 .. n : parts[i] = [j \in 1 .. b[i] - b[i - 1] - 1 |-> t[b[i - 1] + j]]
  BY ONLY <1>4, Zenon DEF PartsRead
<1>6. ASSUME NEW f \in kn, NEW i \in 1 .. n,
             \A j \in 1 .. b[i] - b[i - 1] - 1 : t[b[i - 1] + j] = I!Text(f)[b[i - 1] + j]
      PROVE  parts[i] = I!Characters(f, i)
  <2>1. Alike(f, b, n, type)
    OBVIOUS
  <2>2. /\ LettersAre(f, I!Text(f), b, n)
        /\ f.fields[i].length = b[i] - b[i - 1] - 1
    <3>1. TextLaid(f)
      BY <2>1, TextIsLaid DEF Alike
    <3>2. \A x \in 1 .. n : f.fields[x].length = b[x] - b[x - 1] - 1
      BY <2>1, EndsClimb DEF Alike
    <3> QED BY <2>1, <3>1, <3>2 DEF Alike, TextLaid
  <2>3. PICK size : size = b[i] - b[i - 1] - 1
    OBVIOUS
  <2>4. \A j \in 1 .. size : t[b[i - 1] + j] = <<i, f.fields[i].value, j>>
    BY <1>6, <2>2, <2>3 DEF LettersAre, Letter
  <2>5. parts[i] = [j \in 1 .. size |-> t[b[i - 1] + j]]
    BY <1>5, <2>3
  <2>6. I!Characters(f, i) = [j \in 1 .. size |-> <<i, f.fields[i].value, j>>]
    BY ONLY <2>2, <2>3 DEF I!Characters
  <2> QED BY ONLY <2>4, <2>5, <2>6
<1>7. ASSUME NEW i \in 1 .. n, NEW j \in 1 .. b[i] - b[i - 1] - 1
      PROVE  /\ b[i - 1] + j \in DOMAIN t /\ Leaf(b[i - 1] + j) \in 0 .. 5
             /\ Same_Leaf(b, i) => Leaf(b[i - 1] + j) = b[i - 1] \div 43
  <2>1. i \in 0 .. n /\ i - 1 \in 0 .. n /\ n \in 0 .. n /\ (i = n \/ i < n)
    BY <1>2
  <2>2. b[i] \in Nat /\ b[i - 1] \in Nat /\ b[n] \in Nat /\ b[i] <= b[n]
    BY <1>1, <1>2, <2>1 DEF Climbs
  <2>3. PICK k : k = b[i - 1] + j
    OBVIOUS
  <2>4. k \in Nat /\ 0 < k /\ k < b[n] /\ k \in 1 .. b[n] - 1 /\ k < 256 /\ b[i - 1] <= k - 1 /\ k - 1 <= b[i] - 2
    BY <2>2, <2>3
  <2>5. k \in DOMAIN t
    BY <2>4 DEF Woven, Places
  <2>6. Leaf(k) \in 0 .. 5
    BY <2>4, LeafOf
  <2>7. Same_Leaf(b, i) => Leaf(k) = b[i - 1] \div 43
    <3>1. PICK low : low = b[i - 1]
      OBVIOUS
    <3>2. PICK high : high = b[i] - 2
      OBVIOUS
    <3>3. low \in Int /\ high \in Int /\ low <= k - 1 /\ k - 1 <= high /\ k \in Int
      BY <2>2, <2>4, <3>1, <3>2
    <3>4. low \div 43 = high \div 43 => (k - 1) \div 43 = low \div 43
      BY ONLY <3>3
    <3> QED BY <3>1, <3>2, <3>4 DEF Same_Leaf, Leaf
  <2> QED BY <2>3, <2>5, <2>6, <2>7
<1>8. ASSUME NEW i \in 1 .. n, Same_Leaf(b, i)
      PROVE  \E f \in kn : parts[i] = I!Characters(f, i)
  <2>1. b[i - 1] \div 43 \in 0 .. 5
    <3>1. 1 \in 1 .. b[i] - b[i - 1] - 1
      <4>1. i \in 0 .. n /\ i - 1 \in 0 .. n
        BY <1>2
      <4>2. b[i] \in Nat /\ b[i - 1] \in Nat /\ b[i - 1] + 2 <= b[i]
        BY <1>2, <4>1 DEF Ladder
      <4> QED BY <4>2
    <3>2. Leaf(b[i - 1] + 1) \in 0 .. 5 /\ Leaf(b[i - 1] + 1) = b[i - 1] \div 43
      BY <1>7, <1>8, <3>1
    <3> QED BY ONLY <3>2
  <2>2. PICK f \in kn : \A k \in DOMAIN t : Leaf(k) = b[i - 1] \div 43 => t[k] = I!Text(f)[k]
    BY <2>1 DEF Woven
  <2>3. parts[i] = I!Characters(f, i)
    BY <1>6, <1>7, <1>8, <2>2
  <2> QED BY <2>3
<1>9. ASSUME NEW f, kn = {f}
      PROVE  parts = [i \in 1 .. n |-> I!Characters(f, i)]
  <2>1. \A k \in DOMAIN t : Leaf(k) \in 0 .. 5 => t[k] = I!Text(f)[k]
    BY <1>9 DEF Woven
  <2>2. \A i \in 1 .. n : parts[i] = I!Characters(f, i)
    BY <1>6, <1>7, <1>9, <2>1
  <2> QED BY ONLY <1>5, <2>2
<1> QED BY ONLY <1>3, <1>5, <1>8, <1>9 DEF ReadOf

\* A text of L characters in m pages is the pages one after another.
Page_End(L, m, i) == IF i < m THEN 43 * i ELSE L
Up_To(w, j) == [k \in 1 .. j |-> w[k]]
From_To(w, i, j) == [x \in 1 .. j - i |-> w[i + x]]
PageOf(w, L, m, i) == From_To(w, Page_End(L, m, i - 1), Page_End(L, m, i))

Grows(w, i, j) == Up_To(w, i) \o From_To(w, i, j) = Up_To(w, j)
LEMMA TextGrows ==
  ASSUME NEW L \in Nat, NEW S, NEW w \in [1 .. L -> S], NEW i \in 0 .. L, NEW j \in 0 .. L, i <= j
  PROVE  Grows(w, i, j)
<1>1. PICK a : a = Up_To(w, i)
  OBVIOUS
<1>2. PICK b : b = From_To(w, i, j)
  OBVIOUS
<1>3. a \in Seq(S) /\ Len(a) = i /\ \A k \in 1 .. i : a[k] = w[k]
  <2>1. a = [k \in 1 .. i |-> a[k]] /\ \A k \in 1 .. i : a[k] = w[k]
    BY <1>1 DEF Up_To
  <2>2. \A k \in 1 .. i : a[k] \in S
    BY <2>1
  <2> QED BY <2>1, <2>2, Listed
<1>4. b \in Seq(S) /\ Len(b) = j - i /\ \A k \in 1 .. j - i : b[k] = w[i + k]
  <2>0. j - i \in Nat
    OBVIOUS
  <2>1. b = [k \in 1 .. j - i |-> b[k]] /\ \A k \in 1 .. j - i : b[k] = w[i + k]
    BY <1>2, <2>0 DEF From_To
  <2>2. \A k \in 1 .. j - i : b[k] \in S
    BY <2>1
  <2> QED BY <2>0, <2>1, <2>2, Listed
<1>5. PICK d : d = a \o b
  OBVIOUS
<1>6. d \in Seq(S) /\ Follows(d, a, b)
  BY <1>3, <1>4, <1>5, After
<1>7. Len(d) = j /\ d \in Seq(S)
  BY <1>3, <1>4, <1>6 DEF Follows
<1>8. ASSUME NEW x \in 1 .. j PROVE d[x] = w[x]
  <2>1. CASE x <= i
    BY <2>1, <1>3, <1>6 DEF Follows
  <2>2. CASE x > i
    <3>1. PICK k : k = x - i
      OBVIOUS
    <3>2. k \in 1 .. j - i /\ x = i + k
      BY <2>2, <3>1
    <3>3. d[i + k] = b[k]
      BY <3>2, <1>3, <1>4, <1>6 DEF Follows
    <3> QED BY <3>2, <3>3, <1>4
  <2> QED BY <2>1, <2>2
<1>9. d = Up_To(w, j)
  <2>1. d = [k \in 1 .. j |-> d[k]]
    BY <1>7
  <2> QED BY ONLY <2>1, <1>8 DEF Up_To
<1> QED BY ONLY <1>1, <1>2, <1>5, <1>9, Zenon DEF Grows

LEMMA SameFlatten == \A s : I!FlattenSeq(s) = T!FlattenSeq(s)
BY DEF I!FlattenSeq, T!FlattenSeq

Paginated(s, w, L, m) ==
  /\ m \in 1 .. 6 /\ L \in Nat /\ 43 * (m - 1) < L /\ L <= 43 * m
  /\ Len(s) = m /\ \A i \in 1 .. m : s[i] = PageOf(w, L, m, i)
Flat(s, w) == I!FlattenSeq(s) = w
LEMMA PagesMakeText ==
  ASSUME NEW L, NEW S, NEW w \in [1 .. L -> S], NEW m, NEW s, Paginated(s, w, L, m)
  PROVE  Flat(s, w)
<1>1. m \in 1 .. 6 /\ L \in Nat /\ 43 * (m - 1) < L /\ L <= 43 * m /\ Len(s) = m
  BY DEF Paginated
<1>2. PICK e : e = [i \in 1 .. m |-> Up_To(w, Page_End(L, m, i))]
  OBVIOUS
<1>3. \A i \in 1 .. m : e[i] = Up_To(w, Page_End(L, m, i))
  BY <1>2
<1>4. \A i \in 0 .. m : Page_End(L, m, i) \in 0 .. L
  <2>1. TAKE i \in 0 .. m
  <2>2. i < m => 43 * i <= 43 * (m - 1)
    BY <1>1
  <2> QED BY <1>1, <2>2 DEF Page_End
<1>5. ASSUME NEW i \in 1 .. m
      PROVE  Page_End(L, m, i - 1) \in 0 .. L /\ Page_End(L, m, i) \in 0 .. L
             /\ Page_End(L, m, i - 1) <= Page_End(L, m, i)
  <2>1. i - 1 \in 0 .. m /\ i \in 0 .. m /\ i - 1 < m
    BY <1>1
  <2>2. Page_End(L, m, i - 1) \in 0 .. L /\ Page_End(L, m, i) \in 0 .. L
    BY <1>4, <2>1
  <2>3. Page_End(L, m, i - 1) = 43 * (i - 1)
    BY <2>1 DEF Page_End
  <2>4. i < m => Page_End(L, m, i) = 43 * i
    BY DEF Page_End
  <2>5. ~ i < m => Page_End(L, m, i) = L /\ i = m
    BY <1>1 DEF Page_End
  <2> QED BY <1>1, <2>1, <2>2, <2>3, <2>4, <2>5
<1>6. e[1] = s[1]
  <2>1. 1 \in 1 .. m /\ 1 - 1 = 0 /\ 0 < m
    BY <1>1
  <2>2. Page_End(L, m, 1 - 1) = 0
    BY <2>1 DEF Page_End
  <2>3. PICK j : j = Page_End(L, m, 1)
    OBVIOUS
  <2>4. j \in Nat
    BY <1>5, <2>1, <2>3
  <2>5. s[1] = From_To(w, 0, j)
    BY <2>1, <2>2, <2>3 DEF Paginated, PageOf
  <2>6. From_To(w, 0, j) = Up_To(w, j)
    BY <2>4 DEF From_To, Up_To
  <2> QED BY <1>3, <2>1, <2>3, <2>5, <2>6
<1>7. ASSUME NEW i \in 2 .. m
      PROVE  e[i - 1] \o s[i] = e[i]
  <2>1. i \in 1 .. m /\ i - 1 \in 1 .. m
    BY <1>1
  <2>2. PICK a : a = Page_End(L, m, i - 1)
    OBVIOUS
  <2>3. PICK b : b = Page_End(L, m, i)
    OBVIOUS
  <2>4. a \in 0 .. L /\ b \in 0 .. L /\ a <= b
    BY <1>5, <2>1, <2>2, <2>3
  <2>5. Grows(w, a, b)
    BY <1>1, <2>4, TextGrows
  <2>6. s[i] = From_To(w, a, b)
    BY <2>1, <2>2, <2>3 DEF Paginated, PageOf
  <2>7. e[i] = Up_To(w, b) /\ e[i - 1] = Up_To(w, a)
    BY <1>3, <2>1, <2>2, <2>3
  <2> QED BY ONLY <2>5, <2>6, <2>7, Zenon DEF Grows
<1>8. Unfolds(e, s)
  <2>1. \A i \in 1 .. m : e[i] = IF i = 1 THEN s[i] ELSE e[i - 1] \o s[i]
    <3>1. TAKE i \in 1 .. m
    <3>2. i # 1 => i \in 2 .. m
      BY <1>1
    <3> QED BY <1>6, <1>7, <3>2, Zenon
  <2>2. e = [i \in 1 .. m |-> e[i]]
    BY <1>2
  <2>3. e = [i \in 1 .. m |-> IF i = 1 THEN s[i] ELSE e[i - 1] \o s[i]]
    BY ONLY <2>1, <2>2, Zenon
  <2> QED BY <1>1, <2>3, Zenon DEF Unfolds
<1>9. Flattens(s)
  <2>1. Len(s) # 0
    BY <1>1
  <2> QED BY <1>8, <2>1, FlattenUnfolded
<1>10. PICK flatten : Unfolds(flatten, s) /\ T!FlattenSeq(s) = flatten[Len(s)]
  BY <1>9 DEF Flattens
<1>11. flatten = [i \in 1 .. m |-> IF i = 1 THEN s[i] ELSE flatten[i - 1] \o s[i]]
  BY <1>1, <1>10, Zenon DEF Unfolds
<1>12. flatten[1] = e[1]
  BY <1>1, <1>6, <1>11
<1>13. ASSUME NEW i \in 2 .. m, flatten[i - 1] = e[i - 1]
       PROVE  flatten[i] = e[i]
  <2>1. i \in 1 .. m /\ i # 1
    BY <1>1
  <2>2. flatten[i] = flatten[i - 1] \o s[i]
    BY <1>11, <2>1, Zenon
  <2> QED BY <1>7, <1>13, <2>2, Zenon
<1>14. flatten[m] = e[m]
  <2>1. m >= 2 => flatten[2] = e[2]
    <3>1. m >= 2 => 2 \in 2 .. m /\ 2 - 1 = 1
      BY <1>1
    <3> QED BY <1>12, <1>13, <3>1
  <2>2. m >= 3 => flatten[3] = e[3]
    <3>1. m >= 3 => 3 \in 2 .. m /\ 3 - 1 = 2 /\ m >= 2
      BY <1>1
    <3> QED BY <2>1, <1>13, <3>1
  <2>3. m >= 4 => flatten[4] = e[4]
    <3>1. m >= 4 => 4 \in 2 .. m /\ 4 - 1 = 3 /\ m >= 3
      BY <1>1
    <3> QED BY <2>2, <1>13, <3>1
  <2>4. m >= 5 => flatten[5] = e[5]
    <3>1. m >= 5 => 5 \in 2 .. m /\ 5 - 1 = 4 /\ m >= 4
      BY <1>1
    <3> QED BY <2>3, <1>13, <3>1
  <2>5. m >= 6 => flatten[6] = e[6]
    <3>1. m >= 6 => 6 \in 2 .. m /\ 6 - 1 = 5 /\ m >= 5
      BY <1>1
    <3> QED BY <2>4, <1>13, <3>1
  <2> QED BY <1>1, <1>12, <2>1, <2>2, <2>3, <2>4, <2>5
<1>15. e[m] = w
  <2>1. e[m] = Up_To(w, L)
    BY <1>1, <1>3 DEF Page_End
  <2>2. Up_To(w, L) = w
    BY DEF Up_To
  <2> QED BY <2>1, <2>2
<1>16. I!FlattenSeq(s) = flatten[m]
  BY <1>1, <1>10, SameFlatten
<1> QED BY ONLY <1>14, <1>15, <1>16, Zenon DEF Flat

\* A part of a text.
PartIs(w, i, j) == SubSeq(w, i + 1, j) = From_To(w, i, j)
LEMMA PartOfText ==
  ASSUME NEW L \in Nat, NEW S, NEW w \in [1 .. L -> S], NEW i \in 0 .. L, NEW j \in 0 .. L, i <= j
  PROVE  PartIs(w, i, j)
<1>1. PICK size : size = j - i
  OBVIOUS
<1>2. PICK part : part = SubSeq(w, i + 1, j)
  OBVIOUS
<1>3. i + 1 \in Int /\ j \in Int /\ size \in Nat
  BY <1>1
<1>4. \A k \in i + 1 .. j : w[k] \in S
  OBVIOUS
<1>5. /\ part \in Seq(S)
      /\ Len(part) = IF i + 1 <= j THEN j - (i + 1) + 1 ELSE 0
      /\ \A x \in 1 .. j - (i + 1) + 1 : part[x] = w[(i + 1) + x - 1]
  BY ONLY <1>2, <1>3, <1>4, SubSeqProperties
<1>6. Len(part) = size
  BY ONLY <1>1, <1>3, <1>5, i \in Int
<1>7. ASSUME NEW x \in 1 .. size PROVE part[x] = w[i + x]
  <2>1. x \in 1 .. j - (i + 1) + 1 /\ (i + 1) + x - 1 = i + x
    BY <1>1, <1>3
  <2> QED BY <1>5, <2>1
<1>8. part = [x \in 1 .. size |-> part[x]]
  BY ONLY <1>5, <1>6
<1>9. part = [x \in 1 .. size |-> w[i + x]]
  BY ONLY <1>7, <1>8
<1> QED BY ONLY <1>1, <1>2, <1>9, Zenon DEF PartIs, From_To

\* How long the text of a device is, and in how many pages it is told.
TextSized(f, L, m) ==
  /\ L = Len(I!Text(f)) /\ m = I!PageCount(f)
  /\ L \in Nat /\ m \in 1 .. 6 /\ 43 * (m - 1) < L /\ L <= 43 * m
  /\ L = Ends(f)[I!Fields(f.type)] - 1
  /\ \E S : I!Text(f) \in [1 .. L -> S]
LEMMA TextHasSize ==
  ASSUME NEW f, Formed(f)
  PROVE  TextSized(f, Len(I!Text(f)), I!PageCount(f))
<1>1. PICK n : n = I!Fields(f.type)
  OBVIOUS
<1>2. PICK b : b = Ends(f)
  OBVIOUS
<1>3. Ladder(b, n) /\ b[n] <= 256
  BY <1>1, <1>2, EndsClimb
<1>4. n \in {5, 7} /\ (\A i \in 0 .. n : b[i] \in Nat) /\ b[n - 1] + 2 <= b[n]
  <2>1. n \in {5, 7} /\ (\A i \in 0 .. n : b[i] \in Nat) /\ \A i \in 1 .. n : b[i - 1] + 2 <= b[i]
    BY ONLY <1>3, Zenon DEF Ladder
  <2>2. n \in 1 .. n
    BY <2>1
  <2> QED BY ONLY <2>1, <2>2, Zenon
<1>5. b[n] \in Nat /\ b[n - 1] \in Nat
  BY <1>4
<1>6. PICK t : t = I!Text(f)
  OBVIOUS
<1>7. DOMAIN t = 1 .. b[n] - 1 /\ t = [k \in DOMAIN t |-> t[k]] /\ Len(t) = b[n] - 1
  <2>1. TextLaid(f)
    BY TextIsLaid
  <2> QED BY <1>1, <1>2, <1>6, <2>1, Zenon DEF TextLaid, Places
<1>8. PICK L : L = Len(t)
  OBVIOUS
<1>9. L \in 1 .. 255 /\ L = b[n] - 1
  <2>1. L = b[n] - 1
    BY <1>7, <1>8
  <2>2. PICK high : high = b[n]
    OBVIOUS
  <2>3. PICK low : low = b[n - 1]
    OBVIOUS
  <2>4. high \in Nat /\ low \in Nat /\ low + 2 <= high /\ high <= 256 /\ L = high - 1
    BY ONLY <1>3, <1>4, <1>5, <2>1, <2>2, <2>3, Zenon
  <2>5. L \in 1 .. 255
    BY ONLY <2>4
  <2> QED BY ONLY <2>1, <2>5
<1>10. PICK m : m = I!PageCount(f)
  OBVIOUS
<1>11. m = (L + 43 - 1) \div 43
  BY <1>6, <1>8, <1>10 DEF I!PageCount, I!max_chunk_length
<1>12. m \in 1 .. 6 /\ 43 * (m - 1) < L /\ L <= 43 * m
  <2>1. L \in 1 .. 255
    BY <1>9
  <2> QED BY ONLY <1>11, <2>1
<1>13. t \in [1 .. L -> {t[k] : k \in DOMAIN t}]
  BY ONLY <1>7, <1>9
<1>14. L \in Nat /\ L = Ends(f)[I!Fields(f.type)] - 1
  BY ONLY <1>1, <1>2, <1>9
<1>15. /\ L = Len(I!Text(f)) /\ m = I!PageCount(f)
       /\ L = Ends(f)[I!Fields(f.type)] - 1
       /\ \E S : I!Text(f) \in [1 .. L -> S]
  BY ONLY <1>6, <1>8, <1>10, <1>13, <1>14, Zenon
<1>16. TextSized(f, L, m)
  BY ONLY <1>12, <1>14, <1>15, Zenon DEF TextSized
<1> QED BY ONLY <1>6, <1>8, <1>10, <1>16, Zenon

ChunkIs(f, page) ==
  I!Chunk(I!Text(f), page) = PageOf(I!Text(f), Len(I!Text(f)), I!PageCount(f), page + 1)
LEMMA ChunkIsPage ==
  ASSUME NEW f, Formed(f), NEW page \in 0 .. I!PageCount(f) - 1
  PROVE  ChunkIs(f, page) /\ Len(I!Chunk(I!Text(f), page)) <= 43
<1>1. PICK L : L = Len(I!Text(f))
  OBVIOUS
<1>2. PICK m : m = I!PageCount(f)
  OBVIOUS
<1>3. PICK t : t = I!Text(f)
  OBVIOUS
<1>4. TextSized(f, L, m)
  BY <1>1, <1>2, TextHasSize
<1>5. L \in Nat /\ m \in 1 .. 6 /\ 43 * (m - 1) < L /\ L <= 43 * m
  BY <1>4 DEF TextSized
<1>6. PICK S : t \in [1 .. L -> S]
  BY <1>3, <1>4 DEF TextSized
<1>7. page \in 0 .. m - 1
  BY <1>2
<1>8. PICK i : i = Page_End(L, m, page)
  OBVIOUS
<1>9. PICK j : j = Page_End(L, m, page + 1)
  OBVIOUS
<1>10. i = 43 * page /\ page * 43 = 43 * page
  BY <1>5, <1>7, <1>8 DEF Page_End
<1>11. j = I!To(t, page)
  <2>1. I!To(t, page) = IF (page + 1) * 43 > L THEN L ELSE (page + 1) * 43
    BY <1>1, <1>3 DEF I!To, I!max_chunk_length
  <2>2. j = IF page + 1 < m THEN 43 * (page + 1) ELSE L
    BY <1>9 DEF Page_End
  <2>3. CASE page + 1 < m
    <3>1. ~ (page + 1) * 43 > L /\ (page + 1) * 43 = 43 * (page + 1)
      BY <1>5, <1>7, <2>3
    <3> QED BY <2>1, <2>2, <2>3, <3>1
  <2>4. CASE ~ page + 1 < m
    <3>1. page + 1 = m
      BY <1>5, <1>7, <2>4
    <3>2. ~ (page + 1) * 43 > L => (page + 1) * 43 = L
      BY <1>5, <3>1
    <3> QED BY <2>1, <2>2, <2>4, <3>2
  <2> QED BY <2>3, <2>4
<1>12. i \in 0 .. L /\ j \in 0 .. L /\ i <= j /\ j - i <= 43
  <2>1. j = IF page + 1 < m THEN 43 * (page + 1) ELSE L
    BY <1>9 DEF Page_End
  <2> QED BY ONLY <1>5, <1>7, <1>10, <2>1
<1>13. PartIs(t, i, j)
  BY ONLY <1>5, <1>6, <1>12, PartOfText
<1>14. I!Chunk(t, page) = SubSeq(t, i + 1, j)
  BY <1>10, <1>11 DEF I!Chunk, I!max_chunk_length
<1>15. I!Chunk(t, page) = From_To(t, i, j)
  BY ONLY <1>13, <1>14, Zenon DEF PartIs
<1>16. page + 1 - 1 = page
  BY <1>7
<1>17. PageOf(t, L, m, page + 1) = From_To(t, i, j)
  BY ONLY <1>8, <1>9, <1>16 DEF PageOf
<1>18. Len(From_To(t, i, j)) <= 43
  <2>1. j - i \in Nat
    BY <1>12
  <2>2. PICK size : size = j - i
    OBVIOUS
  <2>3. From_To(t, i, j) = [x \in 1 .. size |-> t[i + x]]
    BY <2>2, Zenon DEF From_To
  <2>4. PICK v : v = From_To(t, i, j)
    OBVIOUS
  <2>5. v \in [1 .. size -> S] /\ size \in Nat
    <3>1. \A x \in 1 .. size : i + x \in 1 .. L
      BY <1>5, <1>12, <2>2
    <3> QED BY <1>6, <2>1, <2>2, <2>3, <2>4, <3>1
  <2>6. Len(v) = size
    BY ONLY <2>5
  <2> QED BY <1>12, <2>2, <2>4, <2>6
<1> QED BY ONLY <1>1, <1>2, <1>3, <1>15, <1>17, <1>18, Zenon DEF ChunkIs

\* What an answer says of the device that gave it: it is all of it, or a page of its text.
AllOfIt(f, page, a) ==
  /\ I!Fits(f) /\ page = 0 /\ a.structured /\ a.facts = f
  /\ a.length = I!StructuredLength(f)
PageOfIt(f, page, a) ==
  /\ ~ I!Fits(f) /\ ~ a.structured
  /\ page < I!PageCount(f) /\ a.page = page /\ a.pageCount = I!PageCount(f)
  /\ a.text = PageOf(I!Text(f), Len(I!Text(f)), I!PageCount(f), page + 1)
  /\ a.length = 4 + Len(a.text) /\ Len(a.text) <= 43
Told(f, page, a) == AllOfIt(f, page, a) \/ PageOfIt(f, page, a)

LEMMA AnswerTells ==
  ASSUME NEW f, Formed(f), NEW page \in Nat, I!Answer(f, page) # <<>>
  PROVE  Told(f, page, I!Answer(f, page)[1])
<1>1. CASE I!Fits(f)
  <2>1. page = 0
    BY <1>1 DEF I!Answer
  <2>2. I!Answer(f, page)[1] = [structured |-> TRUE, length |-> I!StructuredLength(f), facts |-> f]
    BY <1>1, <2>1 DEF I!Answer
  <2> QED BY <1>1, <2>1, <2>2 DEF Told, AllOfIt
<1>2. CASE ~ I!Fits(f)
  <2>1. PICK m : m = I!PageCount(f)
    OBVIOUS
  <2>2. ~ page >= m
    BY <1>2, <2>1 DEF I!Answer
  <2>3. TextSized(f, Len(I!Text(f)), m)
    BY <2>1, TextHasSize
  <2>4. m \in Nat
    BY <2>3 DEF TextSized
  <2>5. page \in 0 .. m - 1
    BY <2>2, <2>4
  <2>6. PICK c : c = I!Chunk(I!Text(f), page)
    OBVIOUS
  <2>7. ChunkIs(f, page) /\ Len(c) <= 43
    BY <2>1, <2>5, <2>6, ChunkIsPage
  <2>8. I!Answer(f, page)[1]
        = [structured |-> FALSE, length |-> 4 + Len(c), page |-> page, pageCount |-> m, text |-> c]
    BY <1>2, <2>1, <2>2, <2>6 DEF I!Answer
  <2>9. PICK a : a = I!Answer(f, page)[1]
    OBVIOUS
  <2>10. ~ a.structured /\ a.page = page /\ a.pageCount = m /\ a.text = c /\ a.length = 4 + Len(c)
    BY ONLY <2>8, <2>9
  <2>11. c = PageOf(I!Text(f), Len(I!Text(f)), m, page + 1)
    BY ONLY <2>1, <2>6, <2>7, Zenon DEF ChunkIs
  <2>12. page < m
    BY <2>4, <2>5
  <2>13. PageOfIt(f, page, a)
    BY ONLY <1>2, <2>1, <2>7, <2>10, <2>11, <2>12, Zenon DEF PageOfIt
  <2> QED BY ONLY <2>9, <2>13, Zenon DEF Told
<1> QED BY <1>1, <1>2

\* The pages of devices that are alike make a woven text.
Pages_Of(kn, m, texts) ==
  /\ Len(texts) = m /\ texts = [i \in 1 .. m |-> texts[i]]
  /\ \A i \in 1 .. m : \E f \in kn :
       I!PageCount(f) = m /\ texts[i] = PageOf(I!Text(f), Len(I!Text(f)), m, i)
Teller(kn, m, texts, i) ==
  CHOOSE f \in kn : I!PageCount(f) = m /\ texts[i] = PageOf(I!Text(f), Len(I!Text(f)), m, i)
WovenOf(texts, b, n, kn) == \E w : Flat(texts, w) /\ Woven(w, b, n, kn)
LEMMA PagesAreWoven ==
  ASSUME NEW type, NEW b, NEW n, Ladder(b, n), NEW kn, \A f \in kn : Alike(f, b, n, type),
         NEW m \in 1 .. 6, NEW texts, Pages_Of(kn, m, texts)
  PROVE  WovenOf(texts, b, n, kn)
<1>1. PICK who : who = [i \in 1 .. m |-> Teller(kn, m, texts, i)]
  OBVIOUS
<1>2. ASSUME NEW i \in 1 .. m
      PROVE  /\ who[i] \in kn /\ I!PageCount(who[i]) = m
             /\ texts[i] = PageOf(I!Text(who[i]), Len(I!Text(who[i])), m, i)
  <2>1. \E f \in kn : I!PageCount(f) = m /\ texts[i] = PageOf(I!Text(f), Len(I!Text(f)), m, i)
    BY DEF Pages_Of
  <2>2. who[i] = Teller(kn, m, texts, i)
    BY <1>1
  <2> QED BY ONLY <2>1, <2>2, Zenon DEF Teller
<1>3. PICK L : L = b[n] - 1
  OBVIOUS
<1>4. ASSUME NEW f \in kn
      PROVE  TextSized(f, L, I!PageCount(f)) /\ Len(I!Text(f)) = L
  <2>1. Alike(f, b, n, type)
    OBVIOUS
  <2>2. TextSized(f, Len(I!Text(f)), I!PageCount(f))
    BY <2>1, TextHasSize DEF Alike
  <2>3. Len(I!Text(f)) = L
    BY ONLY <1>3, <2>1, <2>2, Zenon DEF Alike, TextSized
  <2> QED BY <2>2, <2>3
<1>5. L \in Nat /\ 43 * (m - 1) < L /\ L <= 43 * m
  <2>1. 1 \in 1 .. m
    OBVIOUS
  <2>2. TextSized(who[1], L, m)
    BY <1>2, <1>4, <2>1
  <2> QED BY <2>2 DEF TextSized
<1>6. ASSUME NEW k \in 1 .. L
      PROVE  Leaf(k) + 1 \in 1 .. m
  BY <1>5 DEF Leaf
<1>7. PICK w : w = [k \in 1 .. L |-> I!Text(who[Leaf(k) + 1])[k]]
  OBVIOUS
<1>8. ASSUME NEW i \in 1 .. m
      PROVE  texts[i] = PageOf(w, L, m, i)
  <2>1. PICK low : low = Page_End(L, m, i - 1)
    OBVIOUS
  <2>2. PICK high : high = Page_End(L, m, i)
    OBVIOUS
  <2>3. low = 43 * (i - 1) /\ high \in Nat /\ high <= L /\ high <= 43 * i
    <3>1. i - 1 < m /\ (i < m => 43 * i <= 43 * (m - 1))
      OBVIOUS
    <3>2. high = IF i < m THEN 43 * i ELSE L
      BY <2>2 DEF Page_End
    <3>3. low = 43 * (i - 1)
      BY <2>1, <3>1 DEF Page_End
    <3>4. ~ i < m => i = m
      OBVIOUS
    <3> QED BY ONLY <1>5, <3>1, <3>2, <3>3, <3>4, i \in 1 .. m, m \in 1 .. 6
  <2>4. texts[i] = From_To(I!Text(who[i]), low, high)
    BY <1>2, <1>4, <2>1, <2>2 DEF PageOf
  <2>5. ASSUME NEW x \in 1 .. high - low
        PROVE  w[low + x] = I!Text(who[i])[low + x]
    <3>1. PICK k : k = low + x
      OBVIOUS
    <3>2. k \in 1 .. L /\ (k - 1) \div 43 = i - 1
      BY ONLY <1>5, <2>3, <3>1, i \in 1 .. m, m \in 1 .. 6, x \in 1 .. high - low
    <3>3. Leaf(k) + 1 = i
      BY <3>2 DEF Leaf
    <3>4. w[k] = I!Text(who[Leaf(k) + 1])[k]
      BY <1>7, <3>2
    <3> QED BY ONLY <3>1, <3>3, <3>4
  <2>6. From_To(I!Text(who[i]), low, high) = From_To(w, low, high)
    BY <2>5 DEF From_To
  <2> QED BY <2>1, <2>2, <2>4, <2>6 DEF PageOf
<1>9. Flat(texts, w)
  <2>1. PICK S : w \in [1 .. L -> S]
    <3>1. w \in [1 .. L -> {w[k] : k \in 1 .. L}]
      BY <1>7
    <3> QED BY <3>1
  <2>2. Len(texts) = m
    BY DEF Pages_Of
  <2>3. Paginated(texts, w, L, m)
    BY <1>5, <1>8, <2>2 DEF Paginated
  <2> QED BY <2>1, <2>3, PagesMakeText
<1>10. Woven(w, b, n, kn)
  <2>1. DOMAIN w = 1 .. b[n] - 1 /\ w = [k \in DOMAIN w |-> w[k]]
    BY <1>3, <1>7
  <2>2. ASSUME NEW page \in 0 .. 5
        PROVE  \E f \in kn : \A k \in DOMAIN w : Leaf(k) = page => w[k] = I!Text(f)[k]
    <3>1. CASE page + 1 \in 1 .. m
      <4>1. who[page + 1] \in kn
        BY <1>2, <3>1
      <4>2. \A k \in DOMAIN w : Leaf(k) = page => w[k] = I!Text(who[page + 1])[k]
        BY <1>7
      <4> QED BY <4>1, <4>2
    <3>2. CASE page + 1 \notin 1 .. m
      <4>1. who[1] \in kn
        BY <1>2
      <4>2. \A k \in DOMAIN w : Leaf(k) # page
        BY <1>6, <1>7, <3>2
      <4> QED BY <4>1, <4>2
    <3> QED BY <3>1, <3>2
  <2> QED BY <2>1, <2>2 DEF Woven, Places
<1> QED BY <1>9, <1>10 DEF WovenOf

\* Devices whose fields have the same lengths have the same ends.
LengthsSame(f, g) == \A i \in DOMAIN f.fields : f.fields[i].length = g.fields[i].length
LEMMA SameEnds ==
  ASSUME NEW f, NEW g, Formed(f), Formed(g), f.type = g.type, LengthsSame(f, g)
  PROVE  Alike(g, Ends(f), I!Fields(f.type), f.type)
<1>1. PICK n : n = I!Fields(f.type)
  OBVIOUS
<1>2. n \in {5, 7} /\ DOMAIN f.fields = 1 .. n
  BY <1>1 DEF Formed, I!Fields
<1>3. ASSUME NEW i \in 0 .. n
      PROVE  I!Before(f, i + 1) = I!Before(g, i + 1)
  <2>1. ASSUME NEW j \in 1 .. 7
        PROVE  (IF j < i + 1 THEN f.fields[j].length + 1 ELSE 0) = (IF j < i + 1 THEN g.fields[j].length + 1 ELSE 0)
    <3>1. j < i + 1 => j \in 1 .. n
      BY <1>2
    <3> QED BY <1>2, <3>1 DEF LengthsSame
  <2>2. I!Before(f, i + 1)
         = (IF 1 < i + 1 THEN f.fields[1].length + 1 ELSE 0) + (IF 2 < i + 1 THEN f.fields[2].length + 1 ELSE 0)
           + (IF 3 < i + 1 THEN f.fields[3].length + 1 ELSE 0) + (IF 4 < i + 1 THEN f.fields[4].length + 1 ELSE 0)
           + (IF 5 < i + 1 THEN f.fields[5].length + 1 ELSE 0) + (IF 6 < i + 1 THEN f.fields[6].length + 1 ELSE 0)
           + (IF 7 < i + 1 THEN f.fields[7].length + 1 ELSE 0)
    BY ONLY Zenon DEF I!Before
  <2>3. I!Before(g, i + 1)
         = (IF 1 < i + 1 THEN g.fields[1].length + 1 ELSE 0) + (IF 2 < i + 1 THEN g.fields[2].length + 1 ELSE 0)
           + (IF 3 < i + 1 THEN g.fields[3].length + 1 ELSE 0) + (IF 4 < i + 1 THEN g.fields[4].length + 1 ELSE 0)
           + (IF 5 < i + 1 THEN g.fields[5].length + 1 ELSE 0) + (IF 6 < i + 1 THEN g.fields[6].length + 1 ELSE 0)
           + (IF 7 < i + 1 THEN g.fields[7].length + 1 ELSE 0)
    BY ONLY Zenon DEF I!Before
  <2>4. \A j \in 1 .. 7 : (IF j < i + 1 THEN f.fields[j].length + 1 ELSE 0) = (IF j < i + 1 THEN g.fields[j].length + 1 ELSE 0)
    BY <2>1
  <2>5. 1 \in 1 .. 7 /\ 2 \in 1 .. 7 /\ 3 \in 1 .. 7 /\ 4 \in 1 .. 7 /\ 5 \in 1 .. 7 /\ 6 \in 1 .. 7 /\ 7 \in 1 .. 7
    OBVIOUS
  <2> QED BY ONLY <2>2, <2>3, <2>4, <2>5
<1>4. Ends(g) = Ends(f)
  BY <1>1, <1>3, f.type = g.type DEF Ends
<1> QED BY <1>1, <1>4 DEF Alike

\* What is always so of the answers.
IInv ==
  /\ I!TypeOK /\ told = [p \in DOMAIN told |-> told[p]] /\ IsFiniteSet(facts_known)
  /\ told # <<>> => facts \in facts_known
  /\ \A f \in facts_known : f.type = facts.type
  /\ \A p \in DOMAIN told : \E f \in facts_known : Told(f, p - 1, told[p])

LEMMA FactsFormed ==
  ASSUME I!ConstantsAssumption, NEW f \in DeviceFacts
  PROVE  Formed(f)
BY DEF I!ConstantsAssumption, Formed

\* No answer is too long.
LEMMA AnswersFitWhenTold ==
  ASSUME IInv
  PROVE  I!AnswersFit
<1>1. SUFFICES ASSUME NEW p \in DOMAIN told
               PROVE  told[p].length <= 47
  BY DEF I!AnswersFit, I!OTA_MAX_BODY_SIZE
<1>2. PICK f \in facts_known : Told(f, p - 1, told[p])
  BY DEF IInv
<1>3. CASE AllOfIt(f, p - 1, told[p])
  BY <1>3 DEF AllOfIt, I!Fits, I!OTA_MAX_BODY_SIZE
<1>4. CASE PageOfIt(f, p - 1, told[p])
  <2>1. PICK size : size = Len(told[p].text)
    OBVIOUS
  <2>2. size \in Int /\ size <= 43 /\ told[p].length = 4 + size
    BY <1>4, <2>1 DEF PageOfIt
  <2> QED BY ONLY <2>2
<1> QED BY <1>2, <1>3, <1>4 DEF Told

LEMMA ToldPages ==
  ASSUME IInv, I!Complete
  PROVE  Len(told) \in 1 .. 6 /\ DOMAIN told = 1 .. Len(told)
<1>1. PICK c : c = Cardinality(DOMAIN told)
  OBVIOUS
<1>2. DOMAIN told \subseteq 1 .. 6 /\ told = [p \in DOMAIN told |-> told[p]]
  BY DEF IInv, I!TypeOK
<1>3. c \in Nat
  <2>1. PICK low \in Int, high \in Int : low = 1 /\ high = 6
    OBVIOUS
  <2>2. IsFiniteSet(low .. high)
    BY FS_Interval
  <2>3. IsFiniteSet(DOMAIN told)
    BY <1>2, <2>1, <2>2, FS_Subset
  <2> QED BY <1>1, <2>3, FS_CardinalityType
<1>4. told # <<>> /\ DOMAIN told = 1 .. c
  BY <1>1, SameCount DEF I!Complete
<1>5. Len(told) = c
  BY ONLY <1>2, <1>3, <1>4
<1>6. c # 0
  <2>1. SUFFICES ASSUME c = 0 PROVE FALSE
    OBVIOUS
  <2>2. told = <<>>
    BY ONLY <1>2, <1>4, <2>1
  <2> QED BY <1>4, <2>2
<1>7. c \in 1 .. 6
  <2>1. c \in 1 .. c
    BY <1>3, <1>6
  <2>2. c \in DOMAIN told
    BY ONLY <1>4, <2>1, Zenon
  <2> QED BY <1>2, <2>2
<1> QED BY <1>4, <1>5, <1>7

\* What is read of the pages of devices that are alike.
Texts == [i \in DOMAIN told |-> told[i].text]
ToldBy(kn) == \A p \in DOMAIN told : \E f \in kn : Told(f, p - 1, told[p])
LEMMA TextTold ==
  ASSUME IInv, I!Complete, I!Whole(told), NEW kn, ToldBy(kn),
         NEW type \in {"camera", "bridge"}, NEW b, NEW n, n = I!Fields(type), Ladder(b, n), b[n] <= 256,
         \A f \in kn : Alike(f, b, n, type)
  PROVE  ReadOf(I!parseInformation(type, I!FlattenSeq(Texts)), b, n, kn)
<1>1. PICK m : m = Len(told)
  OBVIOUS
<1>2. m \in 1 .. 6 /\ DOMAIN told = 1 .. m
  BY <1>1, ToldPages
<1>3. PICK texts : texts = Texts
  OBVIOUS
<1>4. texts = [i \in 1 .. m |-> texts[i]] /\ \A i \in 1 .. m : texts[i] = told[i].text
  BY <1>2, <1>3 DEF Texts
<1>5. Len(texts) = m
  BY <1>2, <1>4
<1>6. ASSUME NEW i \in 1 .. m
      PROVE  \E f \in kn : I!PageCount(f) = m /\ texts[i] = PageOf(I!Text(f), Len(I!Text(f)), m, i)
  <2>1. ~ told[i].structured /\ told[i].pageCount = m
    BY <1>1, <1>2 DEF I!Whole, I!Same_Count
  <2>2. PICK f \in kn : Told(f, i - 1, told[i])
    BY <1>2 DEF ToldBy
  <2>3. PageOfIt(f, i - 1, told[i])
    BY ONLY <2>1, <2>2, Zenon DEF Told, AllOfIt
  <2>4. i - 1 + 1 = i
    BY <1>2
  <2>5. I!PageCount(f) = m /\ told[i].text = PageOf(I!Text(f), Len(I!Text(f)), m, i)
    BY ONLY <2>1, <2>3, <2>4, Zenon DEF PageOfIt
  <2> QED BY <1>4, <2>5
<1>7. Pages_Of(kn, m, texts)
  BY ONLY <1>4, <1>5, <1>6, Zenon DEF Pages_Of
<1>8. WovenOf(texts, b, n, kn)
  BY <1>2, <1>7, PagesAreWoven
<1>9. PICK w : Flat(texts, w) /\ Woven(w, b, n, kn)
  BY <1>8 DEF WovenOf
<1>10. ReadOf(I!parseInformation(type, w), b, n, kn)
  BY <1>9, WovenRead
<1> QED BY ONLY <1>3, <1>9, <1>10, Zenon DEF Flat

\* When nothing else was known, all of it is read.
LEMMA OneVersion ==
  ASSUME IInv, told # <<>>, I!Cardinality(facts_known) = 1
  PROVE  facts_known = {facts}
<1>1. IsFiniteSet(facts_known) /\ facts \in facts_known /\ Cardinality(facts_known) = 1
  BY SameCount DEF IInv
<1>2. PICK x : facts_known = {x}
  BY <1>1, FS_Singleton
<1> QED BY <1>1, <1>2

\* What is read is a number of strings and numbers, or nothing.
LEMMA DecodedWhich ==
  ASSUME NEW type, I!Decode(type) # <<>>
  PROVE  \/ Len(told) = 1 /\ told[1].structured
            /\ I!Decode(type) = [i \in 1 .. I!Fields(type) |-> I!Characters(told[1].facts, i)]
         \/ I!Whole(told) /\ ~ (Len(told) = 1 /\ told[1].structured)
            /\ I!Decode(type) = I!parseInformation(type, I!FlattenSeq(Texts))
<1>1. CASE Len(told) = 1 /\ told[1].structured
  BY ONLY <1>1, Zenon DEF I!Decode
<1>2. CASE ~ (Len(told) = 1 /\ told[1].structured)
  <2>1. I!Decode(type) = IF I!Whole(told) THEN I!parseInformation(type, I!FlattenSeq(Texts)) ELSE <<>>
    BY ONLY <1>2, Zenon DEF I!Decode, Texts
  <2>2. I!Whole(told)
    BY <2>1
  <2> QED BY <1>2, <2>1, <2>2
<1> QED BY <1>1, <1>2

LEMMA AllReadAtOnce ==
  ASSUME IInv, Len(told) = 1, 1 \in DOMAIN told, told[1].structured
  PROVE  told[1].facts \in facts_known
<1>1. PICK f \in facts_known : Told(f, 1 - 1, told[1])
  BY DEF IInv
<1>2. told[1].facts = f
  BY ONLY <1>1, told[1].structured, Zenon DEF Told, AllOfIt, PageOfIt
<1> QED BY <1>1, <1>2

\* What is read was so.
SaidAsItIs(d) ==
  /\ Len(told) = 1 => \E f \in facts_known : d = [i \in DOMAIN d |-> I!Characters(f, i)]
  /\ (\A f, g \in facts_known : LengthsSame(f, g)) =>
        \A i \in 1 .. I!Fields(facts.type) :
          I!Straddles(facts, i) \/ \E f \in facts_known : d[i] = I!Characters(f, i)
  /\ I!Cardinality(facts_known) = 1 => d = [i \in DOMAIN d |-> I!Characters(facts, i)]

LEMMA SaidAtOnce ==
  ASSUME I!ConstantsAssumption, IInv, I!Complete, Len(told) = 1, told[1].structured,
         NEW d, d = [i \in 1 .. I!Fields(facts.type) |-> I!Characters(told[1].facts, i)]
  PROVE  SaidAsItIs(d)
<1>1. PICK f : f = told[1].facts
  OBVIOUS
<1>2. f \in facts_known
  <2>1. 1 \in DOMAIN told
    BY ToldPages
  <2> QED BY <1>1, <2>1, AllReadAtOnce
<1>3. d = [i \in DOMAIN d |-> I!Characters(f, i)] /\ \A i \in 1 .. I!Fields(facts.type) : d[i] = I!Characters(f, i)
  BY ONLY <1>1, d = [i \in 1 .. I!Fields(facts.type) |-> I!Characters(told[1].facts, i)]
<1>4. told # <<>>
  BY DEF I!Complete
<1>5. I!Cardinality(facts_known) = 1 => f = facts
  BY <1>2, <1>4, OneVersion
<1> QED BY ONLY <1>2, <1>3, <1>5, Zenon DEF SaidAsItIs

LEMMA FormedKnown ==
  ASSUME I!ConstantsAssumption, IInv
  PROVE  Formed(facts) /\ \A f \in facts_known : Formed(f) /\ f.type = facts.type
BY FactsFormed DEF IInv, I!TypeOK

\* The pages of versions with fields of one length.
LEMMA ReadAlike ==
  ASSUME I!ConstantsAssumption, IInv, I!Complete, I!Whole(told),
         NEW kn \in SUBSET facts_known, NEW f \in kn, ToldBy(kn), \A g \in kn : LengthsSame(f, g)
  PROVE  ReadOf(I!parseInformation(facts.type, I!FlattenSeq(Texts)), Ends(f), I!Fields(facts.type), kn)
<1>1. PICK n : n = I!Fields(facts.type)
  OBVIOUS
<1>2. PICK b : b = Ends(f)
  OBVIOUS
<1>3. f.type = facts.type /\ Formed(f) /\ facts.type \in {"camera", "bridge"}
  BY FormedKnown DEF Formed
<1>4. \A g \in kn : Alike(g, b, n, facts.type)
  <2>1. TAKE g \in kn
  <2>2. Formed(f) /\ Formed(g) /\ f.type = g.type /\ LengthsSame(f, g)
    BY FormedKnown
  <2> QED BY <1>1, <1>2, <1>3, <2>2, SameEnds
<1>5. Ladder(b, n) /\ b[n] <= 256
  BY <1>1, <1>2, <1>3, EndsClimb
<1>6. ReadOf(I!parseInformation(facts.type, I!FlattenSeq(Texts)), b, n, kn)
  BY <1>1, <1>3, <1>4, <1>5, TextTold
<1> QED BY <1>1, <1>2, <1>6

LEMMA StraddlesOrNot ==
  ASSUME NEW f, Formed(f), NEW i \in 1 .. I!Fields(f.type)
  PROVE  I!Straddles(f, i) \/ Same_Leaf(Ends(f), i)
<1>1. PICK n : n = I!Fields(f.type)
  OBVIOUS
<1>2. PICK b : b = Ends(f)
  OBVIOUS
<1>3. Ladder(b, n) /\ f.fields[i].length = b[i] - b[i - 1] - 1
  BY <1>1, <1>2, EndsClimb
<1>4. i \in 0 .. n /\ i - 1 \in 0 .. n
  BY <1>1, <1>3 DEF Ladder
<1>5. b[i] \in Nat /\ b[i - 1] \in Nat
  BY <1>3, <1>4 DEF Ladder
<1>6. I!Before(f, i) = b[i - 1]
  <2>1. b[i - 1] = I!Before(f, i - 1 + 1)
    BY <1>1, <1>2, <1>4 DEF Ends
  <2>2. i - 1 + 1 = i
    BY <1>4, i \in 1 .. I!Fields(f.type), <1>1, <1>3 DEF Ladder
  <2> QED BY <2>1, <2>2
<1>7. I!Before(f, i) + f.fields[i].length - 1 = b[i] - 2
  BY ONLY <1>3, <1>5, <1>6
<1> QED BY <1>2, <1>6, <1>7 DEF I!Straddles, Same_Leaf, I!max_chunk_length

LEMMA SaidInPages ==
  ASSUME I!ConstantsAssumption, IInv, I!Complete, I!Whole(told),
         NEW d, d = I!parseInformation(facts.type, I!FlattenSeq(Texts))
  PROVE  SaidAsItIs(d)
<1>1. told # <<>> /\ facts \in facts_known /\ Formed(facts)
  BY FormedKnown DEF I!Complete, IInv
<1>2. PICK n : n = I!Fields(facts.type)
  OBVIOUS
<1>3. ASSUME NEW f \in facts_known, ToldBy({f})
      PROVE  d = [i \in DOMAIN d |-> I!Characters(f, i)]
  <2>1. ReadOf(d, Ends(f), n, {f})
    <3>1. PICK kn : kn = {f}
      OBVIOUS
    <3>2. kn \in SUBSET facts_known /\ f \in kn /\ ToldBy(kn) /\ \A g \in kn : LengthsSame(f, g)
      BY <1>3, <3>1 DEF LengthsSame
    <3>3. ReadOf(d, Ends(f), n, kn)
      BY <1>2, <3>2, ReadAlike
    <3> QED BY <3>1, <3>3
  <2>2. DOMAIN d = 1 .. n /\ \A g : {f} = {g} => d = [i \in 1 .. n |-> I!Characters(g, i)]
    BY ONLY <2>1, Zenon DEF ReadOf
  <2>3. d = [i \in 1 .. n |-> I!Characters(f, i)]
    BY ONLY <2>2, Zenon
  <2> QED BY <2>2, <2>3
<1>4. ASSUME Len(told) = 1
      PROVE  \E f \in facts_known : d = [i \in DOMAIN d |-> I!Characters(f, i)]
  <2>1. DOMAIN told = {1}
    BY <1>4, ToldPages
  <2>2. PICK f \in facts_known : Told(f, 1 - 1, told[1])
    BY <2>1 DEF IInv
  <2>3. ToldBy({f})
    BY ONLY <2>1, <2>2 DEF ToldBy
  <2> QED BY <1>3, <2>3
<1>5. ASSUME \A f, g \in facts_known : LengthsSame(f, g), NEW i \in 1 .. n
      PROVE  I!Straddles(facts, i) \/ \E f \in facts_known : d[i] = I!Characters(f, i)
  <2>1. ToldBy(facts_known)
    BY DEF IInv, ToldBy
  <2>2. ReadOf(d, Ends(facts), n, facts_known)
    <3>1. PICK kn : kn = facts_known
      OBVIOUS
    <3>2. kn \in SUBSET facts_known /\ facts \in kn /\ ToldBy(kn) /\ \A g \in kn : LengthsSame(facts, g)
      BY <1>1, <1>5, <2>1, <3>1
    <3>3. ReadOf(d, Ends(facts), n, kn)
      BY <1>2, <3>2, ReadAlike
    <3> QED BY <3>1, <3>3
  <2>3. Same_Leaf(Ends(facts), i) => \E f \in facts_known : d[i] = I!Characters(f, i)
    BY <2>2, <1>5 DEF ReadOf
  <2>4. I!Straddles(facts, i) \/ Same_Leaf(Ends(facts), i)
    BY <1>1, <1>2, <1>5, StraddlesOrNot
  <2> QED BY <2>3, <2>4
<1>6. ASSUME I!Cardinality(facts_known) = 1
      PROVE  d = [i \in DOMAIN d |-> I!Characters(facts, i)]
  <2>1. facts_known = {facts}
    BY <1>1, <1>6, OneVersion
  <2>2. ToldBy({facts})
    BY <2>1 DEF IInv, ToldBy
  <2> QED BY <1>1, <1>3, <2>2
<1> QED BY ONLY <1>2, <1>4, <1>5, <1>6, Zenon DEF SaidAsItIs

LEMMA RightWhenTold ==
  ASSUME I!ConstantsAssumption, IInv
  PROVE  I!ToldAsItIs
<1>1. SUFFICES ASSUME I!Complete, I!Decode(facts.type) # <<>>
               PROVE  SaidAsItIs(I!Decode(facts.type))
  BY Zenon DEF I!ToldAsItIs, SaidAsItIs, LengthsSame
<1>2. CASE /\ Len(told) = 1 /\ told[1].structured
           /\ I!Decode(facts.type) = [i \in 1 .. I!Fields(facts.type) |-> I!Characters(told[1].facts, i)]
  BY <1>1, <1>2, SaidAtOnce
<1>3. CASE /\ I!Whole(told)
           /\ I!Decode(facts.type) = I!parseInformation(facts.type, I!FlattenSeq(Texts))
  BY <1>1, <1>3, SaidInPages
<1> QED BY <1>1, <1>2, <1>3, DecodedWhich

LEMMA ToldWhenAsked ==
  ASSUME I!ConstantsAssumption, IInv
  PROVE  I!AlwaysTold
<1>1. SUFFICES ASSUME I!Cardinality(facts_known) = 1, I!Complete,
                      I!Fits(facts) \/ Len(told) = I!PageCount(facts)
               PROVE  I!Decode(facts.type) # <<>>
  BY DEF I!AlwaysTold
<1>2. told # <<>> /\ facts_known = {facts}
  BY <1>1, OneVersion DEF I!Complete
<1>3. PICK m : m = Len(told)
  OBVIOUS
<1>4. m \in 1 .. 6 /\ DOMAIN told = 1 .. m
  BY <1>1, <1>3, ToldPages
<1>5. \A p \in 1 .. m : Told(facts, p - 1, told[p])
  BY <1>2, <1>4 DEF IInv
<1>6. PICK n : n = I!Fields(facts.type)
  OBVIOUS
<1>7. n \in Nat /\ 0 < n /\ Formed(facts)
  BY <1>6, FormedKnown DEF I!Fields
<1>8. CASE I!Fits(facts)
  <2>1. \A p \in 1 .. m : p - 1 = 0 /\ told[p].structured
    BY ONLY <1>5, <1>8, Zenon DEF Told, AllOfIt, PageOfIt
  <2>2. m = 1
    <3>1. m \in 1 .. m
      BY <1>4
    <3>2. m - 1 = 0
      BY <2>1, <3>1
    <3> QED BY <1>4, <3>2
  <2>3. Len(told) = 1 /\ told[1].structured
    BY <1>3, <2>1, <2>2
  <2>4. I!Decode(facts.type) = [i \in 1 .. n |-> I!Characters(told[1].facts, i)]
    BY ONLY <1>6, <2>3, Zenon DEF I!Decode
  <2>5. DOMAIN I!Decode(facts.type) = 1 .. n
    BY ONLY <2>4
  <2> QED BY <1>7, <2>5
<1>9. CASE ~ I!Fits(facts)
  <2>1. \A p \in 1 .. m : /\ ~ told[p].structured /\ told[p].page = p - 1
                          /\ told[p].pageCount = I!PageCount(facts)
    BY ONLY <1>5, <1>9, Zenon DEF Told, AllOfIt, PageOfIt
  <2>2. I!PageCount(facts) = m
    BY <1>1, <1>3, <1>9
  <2>3. I!Whole(told)
    BY <1>3, <1>4, <2>1, <2>2 DEF I!Whole, I!Same_Count
  <2>4. ~ (Len(told) = 1 /\ told[1].structured)
    BY <1>3, <2>1
  <2>5. I!Decode(facts.type) = I!parseInformation(facts.type, I!FlattenSeq(Texts))
    BY ONLY <2>3, <2>4, Zenon DEF I!Decode, Texts
  <2>6. ToldBy(facts_known) /\ facts \in facts_known /\ \A g \in facts_known : LengthsSame(facts, g)
    BY <1>2 DEF IInv, ToldBy, LengthsSame
  <2>7. PICK kn : kn = facts_known
    OBVIOUS
  <2>8. ReadOf(I!Decode(facts.type), Ends(facts), n, kn)
    BY <1>1, <1>6, <2>3, <2>5, <2>6, <2>7, ReadAlike
  <2>9. DOMAIN I!Decode(facts.type) = 1 .. n
    BY ONLY <2>8, Zenon DEF ReadOf
  <2> QED BY <1>7, <2>9
<1> QED BY <1>8, <1>9

LEMMA InformationRight ==
  ASSUME I!ConstantsAssumption, IInv
  PROVE  I!TypeOK /\ I!InformationTold
BY AnswersFitWhenTold, RightWhenTold, ToldWhenAsked DEF I!InformationTold, IInv

LEMMA InformationInit ==
  ASSUME I!ConstantsAssumption, I!Init
  PROVE  IInv
<1>1. I!TypeOK
  BY DEF I!Init, I!TypeOK, I!ConstantsAssumption
<1>2. told = [p \in DOMAIN told |-> told[p]] /\ DOMAIN told = {} /\ told = <<>>
  BY DEF I!Init
<1>3. facts_known = {} /\ IsFiniteSet(facts_known)
  BY FS_EmptySet DEF I!Init
<1> QED BY <1>1, <1>2, <1>3 DEF IInv

LEMMA InformationAsked ==
  ASSUME I!ConstantsAssumption, IInv, NEW page \in 0 .. 5, I!Handle_Information_OTA(page)
  PROVE  IInv'
<1>1. PICK reply : reply = I!Answer(facts, page)[1]
  OBVIOUS
<1>2. /\ told' = [p \in DOMAIN told \cup {page + 1} |-> IF p = page + 1 THEN reply ELSE told[p]]
      /\ facts_known' = facts_known \cup {facts} /\ facts' = facts /\ facts_changes' = facts_changes
  BY <1>1, Zenon DEF I!Handle_Information_OTA
<1>3. I!TypeOK'
  BY <1>2 DEF IInv, I!TypeOK
<1>4. Told(facts, page, reply)
  <2>1. Formed(facts)
    BY FormedKnown
  <2>2. page \in Nat /\ I!Answer(facts, page) # <<>>
    BY DEF I!Handle_Information_OTA
  <2> QED BY <1>1, <2>1, <2>2, AnswerTells
<1>5. ASSUME NEW p \in DOMAIN told'
      PROVE  \E f \in facts_known' : Told(f, p - 1, told'[p])
  <2>1. CASE p = page + 1
    <3>1. told'[p] = reply /\ p - 1 = page /\ facts \in facts_known'
      BY <1>2, <2>1
    <3> QED BY <1>4, <3>1
  <2>2. CASE p # page + 1
    <3>1. p \in DOMAIN told /\ told'[p] = told[p]
      BY <1>2, <1>5, <2>2
    <3>2. PICK f \in facts_known : Told(f, p - 1, told[p])
      BY <3>1 DEF IInv
    <3> QED BY <1>2, <3>1, <3>2
  <2> QED BY <2>1, <2>2
<1>6. IsFiniteSet(facts_known')
  BY <1>2, FS_AddElement DEF IInv
<1>7. told' = [p \in DOMAIN told' |-> told'[p]]
  BY <1>2
<1>8. facts' \in facts_known' /\ \A f \in facts_known' : f.type = facts'.type
  BY <1>2 DEF IInv
<1> QED BY <1>3, <1>5, <1>6, <1>7, <1>8 DEF IInv

LEMMA InformationChanges ==
  ASSUME I!ConstantsAssumption, IInv, NEW later \in DeviceFacts, I!Change(later)
  PROVE  IInv'
<1>1. /\ facts' = later /\ told' = told /\ later.type = facts.type
      /\ facts_known' = IF told = <<>> THEN {} ELSE facts_known \cup {later}
      /\ facts_changes < MaxFactChanges /\ facts_changes' = facts_changes + 1
  BY DEF I!Change
<1>2. facts_known' \subseteq DeviceFacts
  BY <1>1 DEF IInv, I!TypeOK
<1>3. I!TypeOK'
  BY <1>1, <1>2 DEF IInv, I!TypeOK, I!ConstantsAssumption
<1>4. CASE told = <<>>
  <2>1. DOMAIN told' = {} /\ facts_known' = {} /\ told' = <<>> /\ told' = [p \in DOMAIN told' |-> told'[p]]
    BY <1>1, <1>4 DEF IInv
  <2>2. IsFiniteSet(facts_known')
    BY <2>1, FS_EmptySet
  <2> QED BY <1>3, <2>1, <2>2 DEF IInv
<1>5. CASE told # <<>>
  <2>1. facts_known' = facts_known \cup {later}
    BY <1>1, <1>5
  <2>2. IsFiniteSet(facts_known')
    BY <2>1, FS_AddElement DEF IInv
  <2>3. facts' \in facts_known' /\ \A f \in facts_known' : f.type = facts'.type
    BY <1>1, <2>1 DEF IInv
  <2>4. told' = [p \in DOMAIN told' |-> told'[p]]
    BY <1>1 DEF IInv
  <2>5. \A p \in DOMAIN told' : \E f \in facts_known' : Told(f, p - 1, told'[p])
    BY <1>1, <2>1 DEF IInv
  <2> QED BY <1>3, <2>2, <2>3, <2>4, <2>5 DEF IInv
<1> QED BY <1>4, <1>5

\* What a device tells of itself in frames fits them, is read as it was, and is told to
\* whoever asks for all of it (InformationTold).
THEOREM InformationHold ==
  ASSUME I!ConstantsAssumption
  PROVE  I!Spec => [](I!TypeOK /\ I!InformationTold)
<1>1. I!Init => IInv
  BY InformationInit
<1>2. IInv /\ [I!Next]_I!vars => IInv'
  <2>1. SUFFICES ASSUME IInv, [I!Next]_I!vars
                 PROVE  IInv'
    OBVIOUS
  <2>2. CASE I!Next
    <3>1. ASSUME NEW page \in 0 .. 5, I!Handle_Information_OTA(page) PROVE IInv'
      BY <2>1, <3>1, InformationAsked
    <3>2. ASSUME NEW later \in DeviceFacts, I!Change(later) PROVE IInv'
      BY <2>1, <3>2, InformationChanges
    <3> QED BY ONLY <2>2, <3>1, <3>2, Zenon DEF I!Next
  <2>3. CASE UNCHANGED I!vars
    BY <2>1, <2>3 DEF IInv, I!TypeOK, I!vars
  <2> QED BY <2>1, <2>2, <2>3
<1>3. IInv => I!TypeOK /\ I!InformationTold
  BY InformationRight
<1> QED BY <1>1, <1>2, <1>3, PTL DEF I!Spec

-----------------------------------------------------------------------------
\* Both hold, in their parts of the behaviour.
THEOREM FramesKept ==
  ASSUME T!ConstantsAssumption, I!ConstantsAssumption
  PROVE  T!Spec /\ I!Spec => []FramesRead
<1>1. T!Spec => [](T!TypeOK /\ T!FramesUnderstood)
  BY FramesHold
<1>2. I!Spec => [](I!TypeOK /\ I!InformationTold)
  BY InformationHold
<1>3. (T!TypeOK /\ T!FramesUnderstood) /\ (I!TypeOK /\ I!InformationTold) <=> FramesRead
  BY DEF FramesRead
<1> QED
  BY <1>1, <1>2, <1>3, PTL
=============================================================================
