----------------------------- MODULE RadarUplinks -----------------------------
(***************************************************************************)
(* What the radar app sends by itself, its periodic reports and its alert, *)
(* beside its downlinks.  The modules share no variable: each part has a   *)
(* mutex and state of its own in the code, and publishers that go through  *)
(* Publish_*_To_LoRa of the part.                                          *)
(***************************************************************************)
EXTENDS RadarDownlinks

CONSTANTS
  Streams, Units, SpeedLimit, Speed, MaxPayload, MaxVehicles, MaxPeak,     \* of RadarReports
  transition_seconds, active_interval_seconds, heartbeat_minutes, MaxCount \* of RadarAlert

VARIABLES
  enabled, unit, limit, due, peak, interval, publisher, report_changes,
  g_active, g_active_max, g_pending, g_inactive_pending, g_detect_since, g_clear_since,
  g_last_active_publish_time, g_last_heartbeat_time, allowed, alert_publisher, heard,
  alert_crossed

R == INSTANCE RadarReports WITH changes <- report_changes
A == INSTANCE RadarAlert WITH
  Thread <- R!Thread, publisher <- alert_publisher, crossed <- alert_crossed

rvars == <<enabled, unit, limit, due, peak, interval, publisher, report_changes>>
avars == <<g_active, g_active_max, g_pending, g_inactive_pending, g_detect_since,
           g_clear_since, g_last_active_publish_time, g_last_heartbeat_time, allowed,
           alert_publisher, heard, alert_crossed>>
-----------------------------------------------------------------------------
\* What reports and alert each promise, with the types: every speed summary makes
\* sense to its reader, an alert that is no more is not pending, and the status page
\* never announces an uplink for later that is due now.
RadarSound ==
  /\ R!TypeOK /\ R!SummariesConsistent
  /\ A!TypeOK /\ A!PendingMeansActive /\ A!NextTimeAgrees

\* No activation of the alert and no end of one is forgotten.
ChangeAnnounced == A!ChangeAnnounced
=============================================================================
