------------------------------ MODULE BridgeLink ------------------------------
(***************************************************************************)
(* What an app knows of its LoRA Bridge: the LoRaWAN session, and beside   *)
(* it the configuration of the bridge's callbacks.  They share no          *)
(* variable: the session is followed by what callbacks and requests say,   *)
(* the callbacks are configured by what /info and the settings say.  The   *)
(* session is extended, the other is an instance.                          *)
(***************************************************************************)
EXTENDS BridgeSession

CONSTANTS
  Bridge, Address, Mine, OwnAddress, NoAddress, ReapplyOnFailure, ClearsFlag,   \* of HealthMonitor
  MaxPosts, MaxOutages

VARIABLES
  b100_ip, callback_ip, g_callbacks_configured, connected, httpApiEnabled, callback_failed,
  callback_stale, snapshot, at, params, attempt, result, bridges, posts, outages, raced

H == INSTANCE HealthMonitor WITH
  MaxRequests <- MaxPosts, MaxFaults <- MaxOutages, status <- snapshot, pc <- at,
  bridge <- bridges, requests <- posts, faults <- outages

hvars == <<b100_ip, callback_ip, g_callbacks_configured, connected, httpApiEnabled,
           callback_failed, callback_stale, snapshot, at, params, attempt, result, bridges,
           posts, outages, raced>>
-----------------------------------------------------------------------------
\* The flag g_callbacks_configured stands for a bridge that calls back where the settings
\* say, whole unless by a form that was cut (aoa/app/main.c:1365-1390, B100.c:1221-1291),
\* commented where it is stated; with the types of the variables.
ConfiguredHonest == H!ConfiguredHonest
=============================================================================
