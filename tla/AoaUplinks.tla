------------------------------ MODULE AoaUplinks ------------------------------
(***************************************************************************)
(* The OTA queues, the confirmed uplinks and the parameters of the bridge, *)
(* as the threads of the aoa app serve them, side by side.  They share no  *)
(* variable: queues and uplinks have a mutex of their own each in          *)
(* aoa/app/main.c (g_ota_response_mutex, g_health_mutex), the parameters   *)
(* one in common/app/B100.c, and OTA responses are not counted as uplinks. *)
(* The queues are extended, the others are instances.                      *)
(***************************************************************************)
EXTENDS OtaQueue

CONSTANTS CONFIRM_EVERY, MaxRefused, MaxRestarts, \* of ConfirmedUplinks
          Address, Rate, Net, MaxChanges          \* of BridgeParams

VARIABLES
  g_unconf_count, g_awaiting_confirm, overdue, statusCode, joined, point, use_confirmed,
  snapshot, late, owed, refused, restarts, run, excused,
  bridge, g_ip, g_status, call, changes, asked, crossed

U == INSTANCE ConfirmedUplinks WITH pc <- point, status <- snapshot
B == INSTANCE BridgeParams

uvars == <<g_unconf_count, g_awaiting_confirm, overdue, statusCode, joined, point,
           use_confirmed, snapshot, late, owed, refused, restarts, run, excused>>
bvars == <<bridge, g_ip, g_status, call, changes, asked, crossed>>
avars == <<vars, uvars, bvars>>

AoaInit == Init /\ U!Init /\ B!Init

Queues == Next /\ UNCHANGED <<uvars, bvars>>
Uplinks == U!Next /\ UNCHANGED <<vars, bvars>>
Parameters == B!Next /\ UNCHANGED <<vars, uvars>>

AoaSpec == AoaInit /\ [][Queues \/ Uplinks \/ Parameters]_avars
-----------------------------------------------------------------------------
\* aoa/README.md:385 "Every 10th uplink is sent confirmed": it takes a confirmed uplink that
\* was refused, or a bridge that was restarted, to let the link go unobserved for longer; with
\* the types of the variables.
RunBounded == U!TypeOK /\ U!RunBounded

\* A bridge has the network parameters that were last asked for, unless the app sent it ones
\* that it had read before they changed or from another bridge (B100_Configure_Callbacks,
\* B100.c:1221-1291); with the types of the variables.
NetworkKept == B!TypeOK /\ B!NetworkKept
=============================================================================
