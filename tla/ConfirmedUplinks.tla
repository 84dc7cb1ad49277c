-------------------------- MODULE ConfirmedUplinks --------------------------
(***************************************************************************)
(* The uplinks by which aoa watches its link (aoa/app/main.c; radar has    *)
(* the same code): every CONFIRM_EVERY-th publish asks the network for an  *)
(* ACK, and the health thread waits for it.                                *)
(*                                                                         *)
(* The publish thread and the FCGI thread (the publish endpoint) take the  *)
(* flag of their next uplink under g_health_mutex and send without a lock. *)
(* The health thread works from a snapshot of g_status and takes the mutex *)
(* once for each thing it reads or clears.  OTA responses and the          *)
(* test message of the web page are not counted by the code, nor here.     *)
(***************************************************************************)
EXTENDS Integers

CONSTANTS CONFIRM_EVERY,  \* 10 in the code
          MaxRefused,     \* bound: uplinks the bridge does not take
          MaxRestarts     \* bound: restarts of the bridge

ConstantsAssumption ==
  /\ CONFIRM_EVERY \in Nat \ {0}
  /\ MaxRefused \in Nat /\ MaxRestarts \in Nat

VARIABLES
  g_unconf_count, g_awaiting_confirm,
  overdue,            \* more than 240 seconds since g_conf_sent_time
  statusCode, joined, \* g_status
  pc,                 \* where each thread is in its code
  use_confirmed,      \* the flag of a publisher's uplink
  status,             \* the health thread's snapshot of g_status
  late,               \* the health thread found the ACK overdue
  owed,               \* external: the callback the bridge owes for the last uplink
  refused, restarts,
  run,                \* history: uplinks taken since the last confirmed one
  excused             \* history: that count has an excuse, see RunBounded

health_state == <<g_unconf_count, g_awaiting_confirm, overdue>>
g_status == <<statusCode, joined>>
locals == <<use_confirmed, status, late>>
bounds == <<refused, restarts>>
history == <<run, excused>>
vars == <<health_state, g_status, pc, locals, owed, bounds, history>>

Health == "Health_Monitor_Thread"
Publisher == {"Publish_Thread", "FCGI"}
Thread == Publisher \cup {Health}

\* SENT_CONFIRMED (10) is an ACK, RESTARTED is 1 or 5, OTHER 9, 11 and the rest.
Code == {"OTHER", "SENT_CONFIRMED", "RESTARTED"}
NoStatus == [statusCode |-> "OTHER", joined |-> FALSE]

Goto(t, point) == pc' = [pc EXCEPT ![t] = point]

Init ==
  /\ g_unconf_count = 0 /\ g_awaiting_confirm = FALSE /\ overdue = FALSE
  /\ statusCode = "OTHER" /\ joined \in BOOLEAN
  /\ pc = [t \in Thread |-> "idle"]
  /\ use_confirmed = [t \in Publisher |-> FALSE]
  /\ status = NoStatus /\ late = FALSE
  /\ owed = "none"
  /\ refused = 0 /\ restarts = 0
  /\ run = 0 /\ excused = FALSE
-----------------------------------------------------------------------------
\* The next uplink is to be confirmed.
Due_OffByOne == g_unconf_count + 1 > CONFIRM_EVERY
Due == g_unconf_count + 1 >= CONFIRM_EVERY

CountAfter == IF Due THEN 0 ELSE g_unconf_count + 1

Next_Confirmed_Flag(t) ==
  /\ pc[t] = "idle"
  /\ g_unconf_count' = CountAfter
  /\ use_confirmed' = [use_confirmed EXCEPT ![t] = Due]
  /\ g_awaiting_confirm' = (g_awaiting_confirm \/ Due)
  /\ overdue' = (overdue /\ ~Due)
  /\ Goto(t, "sending")
  /\ UNCHANGED <<g_status, status, late, owed, bounds, history>>

\* The bridge takes an uplink after it has reported on the one before.
B100_Send_Bytes(t) ==
  /\ pc[t] = "sending" /\ joined /\ owed = "none"
  /\ run' = IF use_confirmed[t] THEN 0
            ELSE IF run > CONFIRM_EVERY THEN run ELSE run + 1
  /\ excused' = (excused /\ ~use_confirmed[t])
  /\ owed' = IF use_confirmed[t] THEN "confirmed" ELSE "unconfirmed"
  /\ use_confirmed' = [use_confirmed EXCEPT ![t] = FALSE]
  /\ Goto(t, "idle")
  /\ UNCHANGED <<health_state, g_status, status, late, bounds>>

\* Duty cycle, no network, no answer: the publisher goes on without a word to
\* the counters.
B100_Send_Refused(t) ==
  /\ pc[t] = "sending" /\ refused < MaxRefused
  /\ refused' = refused + 1
  /\ excused' = (excused \/ use_confirmed[t])
  /\ use_confirmed' = [use_confirmed EXCEPT ![t] = FALSE]
  /\ Goto(t, "idle")
  /\ UNCHANGED <<health_state, g_status, status, late, owed, restarts, run>>

Publish_To_LoRa(t) == B100_Send_Bytes(t) \/ B100_Send_Refused(t)
-----------------------------------------------------------------------------
\* The status callback for an uplink: an ACK came for a confirmed one, or not.
\* A callback that does not reach the camera counts as one without news.
B100_Process_Status_Callback ==
  /\ owed # "none"
  /\ \E acked \in BOOLEAN :
       /\ acked => owed = "confirmed"
       /\ statusCode' = IF acked THEN "SENT_CONFIRMED" ELSE "OTHER"
  /\ joined' = TRUE
  /\ owed' = "none"
  /\ UNCHANGED <<health_state, pc, locals, bounds, history>>

\* External: the bridge starts again, or joins.
BridgeRestarts ==
  /\ restarts < MaxRestarts
  /\ restarts' = restarts + 1
  /\ statusCode' = "RESTARTED" /\ joined' = FALSE /\ owed' = "none"
  /\ UNCHANGED <<health_state, pc, locals, refused, history>>

BridgeJoins ==
  /\ ~joined
  /\ statusCode' = "OTHER" /\ joined' = TRUE
  /\ UNCHANGED <<health_state, pc, locals, owed, bounds, history>>

TimePasses ==
  /\ g_awaiting_confirm /\ ~overdue
  /\ overdue' = TRUE
  /\ UNCHANGED <<g_unconf_count, g_awaiting_confirm, g_status, pc, locals, owed, bounds,
                 history>>
-----------------------------------------------------------------------------
(***************************************************************************)
(* Health_Monitor_Thread, from its snapshot on.                            *)
(***************************************************************************)
Health_Snapshot ==
  /\ pc[Health] = "idle"
  /\ status' = [statusCode |-> statusCode, joined |-> joined]
  /\ Goto(Health, "deciding")
  /\ UNCHANGED <<health_state, g_status, use_confirmed, late, owed, bounds, history>>

Health_Restarted ==
  /\ pc[Health] = "deciding" /\ status.statusCode = "RESTARTED"
  /\ g_unconf_count' = 0 /\ g_awaiting_confirm' = FALSE /\ overdue' = FALSE
  /\ excused' = TRUE
  /\ status' = NoStatus
  /\ Goto(Health, "idle")
  /\ UNCHANGED <<g_status, use_confirmed, late, owed, bounds, run>>

\* Status 10 ends the wait, whatever uplink it answered.
Health_Confirmed ==
  /\ pc[Health] = "deciding" /\ status.statusCode # "RESTARTED"
  /\ LET ended == status.statusCode = "SENT_CONFIRMED" /\ g_awaiting_confirm
     IN /\ g_awaiting_confirm' = (g_awaiting_confirm /\ ~ended)
        /\ overdue' = (overdue /\ ~ended)
  /\ Goto(Health, IF status.joined THEN "reading" ELSE "idle")
  /\ status' = NoStatus
  /\ UNCHANGED <<g_unconf_count, g_status, use_confirmed, late, owed, bounds, history>>

Overdue_AtCount == g_awaiting_confirm /\ overdue /\ Due
Overdue == g_awaiting_confirm /\ overdue

Health_Read ==
  /\ pc[Health] = "reading"
  /\ late' = Overdue
  /\ Goto(Health, "clearing")
  /\ UNCHANGED <<health_state, g_status, use_confirmed, status, owed, bounds, history>>

Health_Clear ==
  /\ pc[Health] = "clearing"
  /\ g_awaiting_confirm' = (g_awaiting_confirm /\ ~late)
  /\ overdue' = (overdue /\ ~late)
  /\ late' = FALSE
  /\ Goto(Health, "idle")
  /\ UNCHANGED <<g_unconf_count, g_status, use_confirmed, status, owed, bounds, history>>

Health_Monitor_Thread ==
  \/ Health_Snapshot \/ Health_Restarted \/ Health_Confirmed
  \/ Health_Read \/ Health_Clear
-----------------------------------------------------------------------------
Next ==
  \/ \E t \in Publisher : Next_Confirmed_Flag(t) \/ Publish_To_LoRa(t)
  \/ Health_Monitor_Thread
  \/ B100_Process_Status_Callback
  \/ BridgeRestarts \/ BridgeJoins \/ TimePasses

Spec == Init /\ [][Next]_vars

\* The health thread sleeps and goes on, and time passes.
FairSpec == Spec /\ WF_vars(Health_Monitor_Thread) /\ WF_vars(TimePasses)
-----------------------------------------------------------------------------
TypeOK ==
  /\ g_unconf_count \in 0 .. CONFIRM_EVERY - 1
  /\ g_awaiting_confirm \in BOOLEAN /\ overdue \in BOOLEAN
  /\ statusCode \in Code /\ joined \in BOOLEAN
  /\ \A t \in Publisher : pc[t] \in {"idle", "sending"}
  /\ pc[Health] \in {"idle", "deciding", "reading", "clearing"}
  /\ use_confirmed \in [Publisher -> BOOLEAN]
  /\ status \in [statusCode : Code, joined : BOOLEAN] /\ late \in BOOLEAN
  /\ owed \in {"none", "confirmed", "unconfirmed"}
  /\ refused \in 0 .. MaxRefused /\ restarts \in 0 .. MaxRestarts
  /\ run \in 0 .. CONFIRM_EVERY + 1 /\ excused \in BOOLEAN

\* aoa/README.md:385 "Every 10th uplink is sent confirmed": of the publishes that
\* the bridge took, no more than nine in a row were not confirmed.  Two publishers
\* may swap the order of their flags and of their sends, which adds one, or a
\* confirmed uplink is on its way and others overtake it.
EveryTenthConfirmed ==
  run <= CONFIRM_EVERY \/ \E t \in Publisher : use_confirmed[t]

\* How far that is true: it takes a confirmed uplink that was refused, or a bridge
\* that was restarted, to let the link go unobserved for longer.
RunBounded == EveryTenthConfirmed \/ excused

\* aoa/README.md:385 "clears the waiting state": without further publishes a wait
\* ends, by an ACK or by its timeout, once the bridge is on the network.
WaitEnds ==
  /\ <>[]joined
  /\ <>[][\A t \in Publisher : ~Next_Confirmed_Flag(t)]_vars
  => <>[](~g_awaiting_confirm)
=============================================================================
