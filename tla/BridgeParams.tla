---------------------------- MODULE BridgeParams ----------------------------
(***************************************************************************)
(* The parameters of the bridge, what the app remembers of them, and the   *)
(* second way of configuring callbacks, in which the app sends the bridge  *)
(* its own network parameters back (common/app/B100.c: B100_Get_Params,    *)
(* B100_Set_Params, B100_Configure_Callbacks; aoa/app/main.c: its callers).*)
(*                                                                         *)
(* The page thread and the health thread make requests.  g_http_mutex      *)
(* makes each request one step; what is done with the answer is another,   *)
(* with the other thread in between.  A request may be refused or its      *)
(* answer lost.  The bridge can be changed by its own web page, and        *)
(* joining stores the data rate it asks for.                               *)
(*                                                                         *)
(* asked and crossed are history variables.                                *)
(***************************************************************************)
EXTENDS Naturals, Sequences

CONSTANTS Address,     \* bridges, by address
          Rate,        \* data rates
          Net,         \* network parameters: dhcp_enable, ip_addr, gateway_addr, ...
          MaxChanges   \* bound: settings, parameters set and joins in a behaviour

JoinRate == 4          \* B100_Join_Auto
ConstantsAssumption == JoinRate \in Rate /\ Address # {} /\ Net # {} /\ MaxChanges \in Nat

Thread == {"pages", "Health_Monitor_Thread"}
Params == [data_rate : Rate, adr_enable : BOOLEAN, net : Net]

VARIABLES
  bridge,    \* the parameters of each bridge
  g_ip,      \* the bridge that requests go to
  g_status,  \* configuredDataRate and configuredAdr with their flags: <<>> or <<value>>
  call,      \* per thread: <<>> or what it is about to do with an answer
  changes,
  asked,     \* network parameters that were asked for: by a page of the app or its own
  crossed    \* bridges that were sent network parameters read before such a change

vars == <<bridge, g_ip, g_status, call, changes, asked, crossed>>
-----------------------------------------------------------------------------
Init ==
  /\ bridge \in [Address -> Params] /\ g_ip \in Address
  /\ g_status = [data_rate |-> <<>>, adr_enable |-> <<>>]
  /\ call = [t \in Thread |-> <<>>] /\ changes = 0
  /\ asked = [a \in Address |-> bridge[a].net] /\ crossed = {}

Idle(t) == call[t] = <<>>
Change == changes < MaxChanges /\ changes' = changes + 1

\* What is asked for replaces what is there; a parameter not named in body stays.
With(params, body) ==
  [f \in DOMAIN params |-> IF f \in DOMAIN body THEN body[f] ELSE params[f]]

\* A thread that has read network parameters to send them back has them from before.
Outdated(calls) ==
  [t \in Thread |-> IF calls[t] # <<>> /\ calls[t][1].op \in {"fallback", "lan"}
                    THEN <<[calls[t][1] EXCEPT !.outdated = TRUE]>> ELSE calls[t]]

\* B100_Get_Params: what the bridge answers is remembered in the next step.
B100_Get_Params(t, op) ==
  call' = [call EXCEPT ![t] = <<[op |-> op, answer |-> bridge[g_ip], outdated |-> FALSE]>>]

Get(t) ==
  /\ Idle(t) /\ B100_Get_Params(t, "get")
  /\ UNCHANGED <<bridge, g_ip, g_status, changes, asked, crossed>>

\* An answer of B100_Get_Params has all parameters, one to B100_Set_Params none but those
\* that were set.
Remembered_Once(answer) ==
  [f \in DOMAIN g_status |-> IF g_status[f] = <<>> /\ f \in DOMAIN answer THEN <<answer[f]>>
                             ELSE g_status[f]]
Remembered(answer) ==
  [f \in DOMAIN g_status |-> IF f \in DOMAIN answer THEN <<answer[f]>> ELSE g_status[f]]

Remember(t) ==
  /\ ~Idle(t) /\ call[t][1].op \in {"get", "set", "fallback"}
  /\ g_status' = Remembered(call[t][1].answer)
  /\ call' = [call EXCEPT ![t] = IF call[t][1].op = "fallback"
                                 THEN <<[call[t][1] EXCEPT !.op = "lan"]>> ELSE <<>>]
  /\ UNCHANGED <<bridge, g_ip, changes, asked, crossed>>

\* B100_Set_Params: none is set unless all are right; and the answer may be lost.
B100_Set_Params(t, body, outcome) ==
  /\ Idle(t) /\ Change
  /\ LET set == outcome # "refused"
         calls == [call EXCEPT ![t] =
           IF outcome = "answered"
           THEN <<[op |-> "set", answer |-> body, outdated |-> FALSE]>> ELSE <<>>]
     IN /\ bridge' = [bridge EXCEPT ![g_ip] = IF set THEN With(@, body) ELSE @]
        /\ asked' = [asked EXCEPT ![g_ip] = IF set /\ "net" \in DOMAIN body THEN body.net ELSE @]
        /\ call' = IF set /\ "net" \in DOMAIN body THEN Outdated(calls) ELSE calls
  /\ UNCHANGED <<g_ip, g_status, crossed>>

\* HTTP_Endpoint_b100_params posts any of them; Drain_OTA_Bridge_Config_Queue the mask's.
Body == {[net |-> n] : n \in Net}
Masked == {[data_rate |-> r] : r \in Rate} \cup {[adr_enable |-> a] : a \in BOOLEAN}
          \cup {[data_rate |-> r, adr_enable |-> a] : r \in Rate, a \in BOOLEAN}

\* B100_Configure_Callbacks: what it sets at first is none of these parameters.  If that
\* is refused or its answer lost, and the bridge is at port 80, all are read, and the
\* network's are sent back with the callbacks in a request to /lan.html.
B100_Configure_Callbacks(t) ==
  /\ Idle(t) /\ B100_Get_Params(t, "fallback")
  /\ UNCHANGED <<bridge, g_ip, g_status, changes, asked, crossed>>

Sent_Defaults(t) == CHOOSE n \in Net : TRUE
Sent(t) == call[t][1].answer.net

\* The URL is cut at 255 characters, behind the network parameters and in the callbacks.
Lan_Html(t, outcome) ==
  /\ ~Idle(t) /\ call[t][1].op = "lan"
  /\ IF outcome = "refused" THEN UNCHANGED <<bridge, crossed>>
     ELSE /\ bridge' = [bridge EXCEPT ![g_ip].net = Sent(t)]
          /\ crossed' = IF call[t][1].outdated THEN crossed \cup {g_ip} ELSE crossed
  /\ call' = [call EXCEPT ![t] = <<>>]
  /\ UNCHANGED <<g_ip, g_status, changes, asked>>

\* Settings_Updated_Callback, on the page thread: another bridge.
B100_Set_IP(ip) ==
  /\ Idle("pages") /\ Change
  /\ g_ip' = ip /\ call' = Outdated(call)
  /\ UNCHANGED <<bridge, g_status, asked, crossed>>

\* Accepted or with its answer lost, it leaves what is remembered as it is.
B100_Join(t) ==
  /\ Idle(t) /\ Change
  /\ bridge' = [bridge EXCEPT ![g_ip] =
                  With(@, [data_rate |-> JoinRate, adr_enable |-> TRUE])]
  /\ UNCHANGED <<g_ip, g_status, call, asked, crossed>>

\* The bridge's own web page.
Elsewhere(a, body) ==
  /\ Change
  /\ bridge' = [bridge EXCEPT ![a] = With(@, body)]
  /\ asked' = [asked EXCEPT ![a] = bridge'[a].net]
  /\ call' = IF "net" \in DOMAIN body THEN Outdated(call) ELSE call
  /\ UNCHANGED <<g_ip, g_status, crossed>>

Outcome == {"answered", "lost", "refused"}
Next ==
  \/ \E t \in Thread :
       \/ Get(t) \/ Remember(t) \/ B100_Configure_Callbacks(t) \/ B100_Join(t)
       \/ \E outcome \in Outcome :
            \/ \E body \in (IF t = "pages" THEN Body \cup Masked ELSE Masked) :
                 B100_Set_Params(t, body, outcome)
            \/ Lan_Html(t, outcome)
  \/ \E ip \in Address : B100_Set_IP(ip)
  \/ \E a \in Address, body \in Body \cup Masked : Elsewhere(a, body)

Spec == Init /\ [][Next]_vars
-----------------------------------------------------------------------------
Known(values) == {<<>>} \cup {<<v>> : v \in values}
Call == [op : {"get", "set", "fallback", "lan"}, answer : Params \cup Body \cup Masked,
         outdated : BOOLEAN]

\* The types of the variables.
TypeOK ==
  /\ bridge \in [Address -> Params] /\ g_ip \in Address /\ asked \in [Address -> Net]
  /\ g_status \in [data_rate : Known(Rate), adr_enable : Known(BOOLEAN)]
  /\ call \in [Thread -> Known(Call)]
  /\ crossed \in SUBSET Address /\ changes \in 0 .. MaxChanges

\* The way round through /lan.html keeps a bridge in its network: a bridge has the network
\* parameters that were last asked for, unless the app sent it those that it had read
\* before another change of them, or from the bridge at another address
\* (B100_Configure_Callbacks, B100.c:1221-1291).
NetworkKept == \A a \in Address \ crossed : bridge[a].net = asked[a]

\* What GET over LoRaWAN answers, Handle_Bridge_Config_OTA.
Answer == IF <<>> \in {g_status.data_rate, g_status.adr_enable} THEN <<>>
          ELSE <<g_status.data_rate[1], g_status.adr_enable[1]>>

\* Whatever was lost, crossed, joined or changed elsewhere, in the end GET over LoRaWAN
\* answers what the bridge has, as the health thread reads it in each of its cycles
\* (Health_Monitor_Thread, aoa/app/main.c:1341; B100_Get_Params, B100.c:539-567).
AnswersCatchUp == <>[](Answer = <<bridge[g_ip].data_rate, bridge[g_ip].adr_enable>>)
=============================================================================
