--------------------------- MODULE HealthMonitor ---------------------------
(***************************************************************************)
(* How an app keeps the LoRA Bridge calling it back (aoa/app/main.c, with  *)
(* the parts of common/app/B100.c it uses): the initial configuration in   *)
(* main(), the health thread that repeats it, the settings callback that   *)
(* asks for it again, and the requests an operator can make meanwhile.     *)
(*                                                                         *)
(* The health thread works from a snapshot of g_status and waits for the   *)
(* bridge's answer without a lock; the FCGI thread changes the settings    *)
(* in several steps, and configures the callbacks itself when asked for    *)
(* the bridge's status.  One HTTP request and its answer are one step:     *)
(* g_http_mutex is held across them.                                       *)
(* A bridge is an external device.  callback_ip stands for the settings of *)
(* the callbacks (address, port, credentials); the URIs are fixed, but not *)
(* every request carries them whole.  The LoRaWAN part of the health cycle *)
(* (join, confirmed uplinks) is not in this module.                        *)
(***************************************************************************)
EXTENDS Integers

CONSTANTS Bridge,            \* bridges an operator can enter
          Address,           \* callback addresses an operator can enter
          Mine,              \* those that lead to this camera
          OwnAddress,        \* the camera's IPv4 property, for an empty setting
          NoAddress,         \* the empty setting; a bridge that was never configured
          ReapplyOnFailure,  \* aoa TRUE; radar and detectx FALSE
          ClearsFlag,        \* when a settings POST does: detectx "first", the others "last"
          MaxRequests,       \* bound: settings POSTs and status requests of operators
          MaxFaults          \* bound: outages and factory resets of bridges

ConstantsAssumption ==
  /\ Mine \subseteq Address /\ OwnAddress \in Mine
  /\ NoAddress \notin Address
  /\ ReapplyOnFailure \in BOOLEAN
  /\ ClearsFlag \subseteq {"first", "last"}
  /\ MaxRequests \in Nat /\ MaxFaults \in Nat

VARIABLES
  b100_ip, callback_ip,                 \* the settings, as the code reads them
  g_callbacks_configured,
  connected, httpApiEnabled, callback_failed, callback_stale,     \* g_status
  status,                               \* the health thread's snapshot of it
  pc,                                   \* where each thread is in its code
  params, attempt, result,              \* its call of Configure_B100_Callbacks
  bridge,                               \* external: the bridges
  requests, faults,
  raced                                 \* history, see the properties

settings == <<b100_ip, callback_ip>>
g_status == <<connected, httpApiEnabled, callback_failed, callback_stale>>
call == <<params, attempt, result>>
vars == <<settings, g_callbacks_configured, g_status, status, pc, call, bridge,
          requests, faults, raced>>

Health == "Health_Monitor_Thread"   \* main() first, then the thread it starts
FCGI == "FCGI"
Thread == {Health, FCGI}
-----------------------------------------------------------------------------
Callback == {"status", "receive"}

\* External: a bridge is up or not, its firmware takes /set or only /lan.html, its HTTP API
\* is enabled or not, it calls back to target, with URIs and credentials that get these
\* callbacks through, was given them by a form that was cut, and owes a status callback
\* that it answered 202 for.
BridgeState == [up : BOOLEAN, takesSet : BOOLEAN, api : BOOLEAN,
                target : Address \cup {NoAddress}, calls : SUBSET Callback,
                cut : BOOLEAN, owes : BOOLEAN]

\* A bridge as it may be found: nothing calls back to no address.
Found == {s \in BridgeState : ~s.owes /\ ~s.cut /\ (s.target = NoAddress => s.calls = {})}

\* External: a status callback of b gets through, to this camera.
Heard(b) == bridge[b].target \in Mine /\ "status" \in bridge[b].calls

\* External: /info reports "fail" for a target nothing answers at, or that refuses.
CallbackFails(b) == bridge[b].target # NoAddress /\ ~Heard(b)

Current == bridge[b100_ip]

\* The address to be called back at: the setting, or the camera's own.
CallbackAddress == IF callback_ip = NoAddress THEN OwnAddress ELSE callback_ip

Status == [connected |-> connected, httpApiEnabled |-> httpApiEnabled,
           callback_failed |-> callback_failed, callback_stale |-> callback_stale]

\* Locals out of scope hold a fixed value.
NoStatus == [connected |-> FALSE, httpApiEnabled |-> FALSE,
             callback_failed |-> FALSE, callback_stale |-> FALSE]

Goto(t, point) == pc' = [pc EXCEPT ![t] = point]

Init ==
  /\ b100_ip \in Bridge /\ callback_ip \in Address \cup {NoAddress}
  /\ g_callbacks_configured = FALSE
  /\ connected = FALSE /\ httpApiEnabled = FALSE
  /\ callback_failed = FALSE /\ callback_stale = TRUE
  /\ status = NoStatus
  /\ pc = [t \in Thread |-> IF t = Health THEN "testing" ELSE "idle"]
  /\ params = [t \in Thread |-> NoAddress]
  /\ attempt = [t \in Thread |-> "set"]
  /\ result = [t \in Thread |-> FALSE]
  /\ bridge \in [Bridge -> Found]
  /\ requests = 0 /\ faults = 0
  /\ raced = FALSE

\* GET /info: a bridge that does not answer leaves g_status as it was.
B100_Fetch_Device_Info ==
  IF Current.up
  THEN /\ connected' = TRUE
       /\ httpApiEnabled' = Current.api
       /\ callback_failed' = CallbackFails(b100_ip)
       /\ UNCHANGED callback_stale
  ELSE UNCHANGED g_status

B100_Test_Connection ==
  IF Current.up THEN B100_Fetch_Device_Info
  ELSE /\ connected' = FALSE
       /\ UNCHANGED <<httpApiEnabled, callback_failed, callback_stale>>

\* GET /status: 202 promises a callback, 412 only shows the bridge is reachable.
B100_Request_Status ==
  /\ connected' = Current.up
  /\ bridge' = IF Current.up /\ Current.target # NoAddress
               THEN [bridge EXCEPT ![b100_ip].owes = TRUE] ELSE bridge
  /\ UNCHANGED <<httpApiEnabled, callback_failed, callback_stale>>
-----------------------------------------------------------------------------
(***************************************************************************)
(* Configure_B100_Callbacks, called by either thread.                      *)
(***************************************************************************)
Configuring(t) == pc[t] \in {"setting", "answered"}

\* The JSON body is built from the address as it is now.
B100_Configure_Callbacks(t) ==
  /\ pc[t] = "building"
  /\ params' = [params EXCEPT ![t] = CallbackAddress]
  /\ Goto(t, "setting")
  /\ raced' = (raced /\ \E u \in Thread \ {t} : Configuring(u))
  /\ UNCHANGED <<settings, g_callbacks_configured, g_status, status, attempt, result,
                 bridge, requests, faults>>

\* POST /set, or GET /lan.html the second time, to the bridge g_ip names by now.  A bridge
\* that is up takes the form, and the POST unless its firmware does not.
Takes(t) == Current.up /\ (attempt[t] = "lan" \/ Current.takesSet)

\* http_get_ex cuts the URL of the form at 255 characters.  With any IPv4 addresses they end
\* in the status URI or the receive URI, after the callback's address and before its
\* credentials: the status URI may arrive whole, the receive URI never does, and what a
\* bridge had of what does not arrive it may keep.
Calls_Sent(t) ==
  IF attempt[t] = "set" THEN {Callback} ELSE SUBSET (Current.calls \cup {"status"})

\* The answer may be lost.
B100_Set_Params(t, answered) ==
  /\ pc[t] = "setting"
  /\ IF Takes(t)
     THEN \E calls \in Calls_Sent(t) :
            bridge' = [bridge EXCEPT ![b100_ip].api = TRUE, ![b100_ip].target = params[t],
                                     ![b100_ip].calls = calls,
                                     ![b100_ip].cut = (attempt[t] = "lan")]
     ELSE UNCHANGED bridge
  /\ result' = [result EXCEPT ![t] = Takes(t) /\ answered]
  /\ Goto(t, "answered")
  /\ UNCHANGED <<settings, g_callbacks_configured, g_status, status, params, attempt,
                 requests, faults, raced>>

\* With the bridge on port 80 a failed /set is followed by /get and /lan.html.  aoa and
\* radar hand on the address where it is stored, so that the form has it as it is by now;
\* detectx hands on a copy.
Configure_Fallback(t) ==
  /\ pc[t] = "answered" /\ ~result[t] /\ attempt[t] = "set"
  /\ Current.up
  /\ attempt' = [attempt EXCEPT ![t] = "lan"]
  /\ \E address \in {params[t], CallbackAddress} : params' = [params EXCEPT ![t] = address]
  /\ Goto(t, "setting")
  /\ UNCHANGED <<settings, g_callbacks_configured, g_status, status, result, bridge,
                 requests, faults, raced>>

Result(t) == result[t]

\* The flag is set whatever became of the settings meanwhile.
Configure_Answered(t) ==
  /\ pc[t] = "answered"
  /\ g_callbacks_configured' = Result(t)
  /\ Goto(t, IF t = Health \/ Result(t) THEN "requesting" ELSE "idle")
  /\ params' = [params EXCEPT ![t] = NoAddress]
  /\ attempt' = [attempt EXCEPT ![t] = "set"]
  /\ result' = [result EXCEPT ![t] = FALSE]
  /\ UNCHANGED <<settings, g_status, status, bridge, requests, faults, raced>>

Configure_B100_Callbacks(t) ==
  \/ B100_Configure_Callbacks(t)
  \/ \E answered \in BOOLEAN : B100_Set_Params(t, answered)
  \/ Configure_Fallback(t)
  \/ Configure_Answered(t)
-----------------------------------------------------------------------------
(***************************************************************************)
(* The health thread.                                                      *)
(***************************************************************************)

\* main(): the first connection test decides whether to configure at once.
Main_Test ==
  /\ pc[Health] = "testing"
  /\ B100_Test_Connection
  /\ Goto(Health, IF Current.up THEN "building" ELSE "sleeping")
  /\ UNCHANGED <<settings, g_callbacks_configured, status, call, bridge, requests,
                 faults, raced>>

\* A health cycle starts: /info, then one snapshot for the whole cycle.
Health_Fetch ==
  /\ pc[Health] = "sleeping"
  /\ B100_Fetch_Device_Info
  /\ status' = Status'
  /\ Goto(Health, "deciding")
  /\ UNCHANGED <<settings, g_callbacks_configured, call, bridge, requests, faults,
                 raced>>

Health_Unreachable ==
  /\ pc[Health] = "deciding" /\ ~status.connected
  /\ Goto(Health, "sleeping")
  /\ status' = NoStatus
  /\ UNCHANGED <<settings, g_callbacks_configured, g_status, call, bridge, requests,
                 faults, raced>>

FailureIsOld == ReapplyOnFailure /\ status.callback_failed /\ status.callback_stale

MustConfigure_FlagOnly == ~g_callbacks_configured
MustConfigure == ~g_callbacks_configured \/ ~status.httpApiEnabled \/ FailureIsOld

Health_Decide ==
  /\ pc[Health] = "deciding" /\ status.connected
  /\ Goto(Health, IF MustConfigure THEN "building" ELSE "requesting")
  /\ status' = NoStatus
  /\ UNCHANGED <<settings, g_callbacks_configured, g_status, call, bridge, requests,
                 faults, raced>>

Health_Request ==
  /\ pc[Health] = "requesting"
  /\ IF g_callbacks_configured THEN B100_Request_Status ELSE UNCHANGED <<g_status, bridge>>
  /\ Goto(Health, "sleeping")
  /\ UNCHANGED <<settings, g_callbacks_configured, status, call, requests, faults,
                 raced>>

Health_Monitor_Thread ==
  \/ Main_Test \/ Health_Fetch \/ Health_Unreachable \/ Health_Decide
  \/ Configure_B100_Callbacks(Health)
  \/ Health_Request
-----------------------------------------------------------------------------
(***************************************************************************)
(* The FCGI thread.  Settings_Updated_Callback("b100") of aoa and radar:   *)
(* the bridge's address, then the callback's, then the request to          *)
(* configure anew.                                                         *)
(***************************************************************************)
Settings_IP ==
  /\ "last" \in ClearsFlag
  /\ pc[FCGI] = "idle" /\ requests < MaxRequests
  /\ requests' = requests + 1
  /\ b100_ip' \in Bridge
  /\ Goto(FCGI, "address")
  /\ UNCHANGED <<callback_ip, g_callbacks_configured, g_status, status, call, bridge,
                 faults, raced>>

Settings_Address ==
  /\ pc[FCGI] = "address"
  /\ callback_ip' \in Address \cup {NoAddress}
  /\ Goto(FCGI, "clear")
  /\ UNCHANGED <<b100_ip, g_callbacks_configured, g_status, status, call, bridge,
                 requests, faults, raced>>

Cleared_Kept == g_callbacks_configured
Cleared == FALSE

Settings_Clear ==
  /\ pc[FCGI] = "clear"
  /\ g_callbacks_configured' = Cleared
  /\ Goto(FCGI, "idle")
  /\ raced' = Configuring(Health)
  /\ UNCHANGED <<settings, g_status, status, call, bridge, requests, faults>>

\* Load_Bridge_Settings of detectx, under g_runtime_mutex: the callback's address and the
\* request to configure anew.  Requests still go to the old bridge.
Load_Bridge_Settings ==
  /\ "first" \in ClearsFlag
  /\ pc[FCGI] = "idle" /\ requests < MaxRequests
  /\ requests' = requests + 1
  /\ callback_ip' \in Address \cup {NoAddress}
  /\ g_callbacks_configured' = Cleared
  /\ Goto(FCGI, "connection")
  /\ UNCHANGED <<b100_ip, g_status, status, call, bridge, faults, raced>>

\* What was configured in between, or is being configured, is for the old bridge.
Settings_Connection ==
  /\ pc[FCGI] = "connection"
  /\ b100_ip' \in Bridge
  /\ Goto(FCGI, "idle")
  /\ raced' = (g_callbacks_configured \/ Configuring(Health))
  /\ UNCHANGED <<callback_ip, g_callbacks_configured, g_status, status, call, bridge,
                 requests, faults>>

\* POST b100_request_status configures, then asks for the status.
HTTP_Endpoint_b100_request_status ==
  /\ pc[FCGI] = "idle" /\ requests < MaxRequests
  /\ requests' = requests + 1
  /\ Goto(FCGI, "building")
  /\ UNCHANGED <<settings, g_callbacks_configured, g_status, status, call, bridge,
                 faults, raced>>

FCGI_Request ==
  /\ pc[FCGI] = "requesting"
  /\ B100_Request_Status
  /\ Goto(FCGI, "idle")
  /\ UNCHANGED <<settings, g_callbacks_configured, status, call, requests, faults,
                 raced>>

HTTP_Endpoint_test ==
  /\ pc[FCGI] = "idle" /\ B100_Test_Connection
  /\ UNCHANGED <<settings, g_callbacks_configured, status, pc, call, bridge, requests,
                 faults, raced>>

HTTP_Endpoint_b100_info ==
  /\ pc[FCGI] = "idle" /\ B100_Fetch_Device_Info
  /\ UNCHANGED <<settings, g_callbacks_configured, status, pc, call, bridge, requests,
                 faults, raced>>

\* The status callback a bridge owes reaches this camera, or nobody.
B100_Process_Status_Callback(b) ==
  /\ bridge[b].owes /\ pc[FCGI] = "idle"
  /\ bridge' = [bridge EXCEPT ![b].owes = FALSE]
  /\ connected' = (connected \/ Heard(b))
  /\ callback_stale' = (callback_stale /\ ~Heard(b))
  /\ UNCHANGED <<settings, g_callbacks_configured, httpApiEnabled, callback_failed,
                 status, pc, call, requests, faults, raced>>

\* What the FCGI thread goes on to do once it has begun.
FCGI_Thread ==
  \/ Settings_Address \/ Settings_Clear \/ Settings_Connection
  \/ Configure_B100_Callbacks(FCGI) \/ FCGI_Request
-----------------------------------------------------------------------------
\* No callback for two health intervals, and for three minutes at least.
BecomeStale ==
  /\ ~callback_stale
  /\ callback_stale' = TRUE
  /\ UNCHANGED <<settings, g_callbacks_configured, connected, httpApiEnabled,
                 callback_failed, status, pc, call, bridge, requests, faults, raced>>

\* External: outages, and resets to the factory configuration.
BridgeChanges(b) ==
  /\ \/ faults < MaxFaults /\ faults' = faults + 1
        /\ bridge' = [bridge EXCEPT ![b].up = FALSE, ![b].owes = FALSE]
     \/ faults < MaxFaults /\ faults' = faults + 1
        /\ bridge' = [bridge EXCEPT ![b].api = FALSE, ![b].target = NoAddress,
                                     ![b].calls = {}, ![b].cut = FALSE]
     \/ ~bridge[b].up /\ UNCHANGED faults
        /\ bridge' = [bridge EXCEPT ![b].up = TRUE]
  /\ UNCHANGED <<settings, g_callbacks_configured, g_status, status, pc, call,
                 requests, raced>>
-----------------------------------------------------------------------------
Next ==
  \/ Health_Monitor_Thread
  \/ FCGI_Thread
  \/ Settings_IP \/ Load_Bridge_Settings \/ HTTP_Endpoint_b100_request_status
  \/ HTTP_Endpoint_test \/ HTTP_Endpoint_b100_info
  \/ \E b \in Bridge : B100_Process_Status_Callback(b) \/ BridgeChanges(b)
  \/ BecomeStale

Spec == Init /\ [][Next]_vars

\* The health thread sleeps and goes on, a request that began ends, the bridge
\* delivers what it owes, and time passes.  Bridges and operators owe nothing.
FairSpec ==
  /\ Spec
  /\ WF_vars(Health_Monitor_Thread)
  /\ WF_vars(FCGI_Thread)
  /\ \A b \in Bridge : WF_vars(B100_Process_Status_Callback(b))
  /\ WF_vars(BecomeStale)
-----------------------------------------------------------------------------
StatusType == [connected : BOOLEAN, httpApiEnabled : BOOLEAN,
               callback_failed : BOOLEAN, callback_stale : BOOLEAN]

TypeOK ==
  /\ b100_ip \in Bridge /\ callback_ip \in Address \cup {NoAddress}
  /\ g_callbacks_configured \in BOOLEAN
  /\ Status \in StatusType /\ status \in StatusType
  /\ pc \in [Thread -> {"idle", "address", "clear", "connection", "testing", "sleeping",
                        "deciding", "building", "setting", "answered", "requesting"}]
  /\ params \in [Thread -> Address \cup {NoAddress}]
  /\ \A t \in Thread : Configuring(t) => params[t] \in Address
  /\ attempt \in [Thread -> {"set", "lan"}]
  /\ result \in [Thread -> BOOLEAN]
  /\ bridge \in [Bridge -> BridgeState]
  /\ requests \in 0 .. MaxRequests /\ faults \in 0 .. MaxFaults
  /\ raced \in BOOLEAN

\* g_callbacks_configured is only ever set for what the settings ask for: the bridge at
\* b100_ip calls back to the address they give (or was reset since), and with all its
\* callbacks, unless it got them by the fallback's form (B100.c:1221-1291), which counts
\* as a success although it was cut.  The exception is a POST that changed the settings
\* between the building of a request and the flag that reports its answer (raced).
Configured(b) ==
  \/ bridge[b].target = NoAddress
  \/ bridge[b].target = CallbackAddress /\ (bridge[b].calls = Callback \/ bridge[b].cut)

FlagHonest ==
  (/\ g_callbacks_configured
   /\ pc[FCGI] \notin {"address", "clear", "connection"} /\ ~raced
   /\ \A t \in Thread : ~Configuring(t))
    => Configured(b100_ip)

ConfiguredHonest == TypeOK /\ FlagHonest

\* A configuration ends without success; it resorts to the form.
Fails == \E t \in Thread : Configure_Answered(t) /\ ~Result(t)
Resorts == \E t \in Thread : Configure_Fallback(t)

\* The callbacks survive wrong settings, outages, factory resets, lost answers, cut forms and
\* the race above: once the bridge stays up and requests to it succeed in one of the two
\* ways, and the settings lead to this camera, the bridge ends up calling this camera back,
\* and goes on doing so; and if /set succeeds, its status callbacks get through as well.
\* Assumed of the bridges: one with its HTTP API enabled has some callback address.
CallbacksRecover ==
  /\ [](\A b \in Bridge : bridge[b].api => bridge[b].target # NoAddress)
  /\ <>[](Current.up /\ CallbackAddress \in Mine)
  /\ <>[][~Fails]_vars
  => /\ <>[](Current.api /\ Current.target \in Mine)
     /\ <>[][~Resorts]_vars => <>[]Heard(b100_ip)
=============================================================================
