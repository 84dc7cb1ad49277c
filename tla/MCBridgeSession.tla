--------------------------- MODULE MCBridgeSession --------------------------
(***************************************************************************)
(* Small instances of BridgeSession.  A mode says what a behaviour is      *)
(* about: "downlinks" that are reported once or twice around a fault; a    *)
(* bridge that "autojoin"s; "faults" without downlinks, for liveness.      *)
(***************************************************************************)
EXTENDS BridgeSession

CONSTANT Mode

VARIABLE mode

Within ==
  /\ UNCHANGED mode
  /\ IF mode = "faults" THEN fcnt' = 0 ELSE faults' < MaxFaults

MCInit ==
  /\ Init /\ mode \in Mode
  /\ mode = "downlinks" => ~autojoin_enable /\ autoJoin
  /\ mode = "autojoin" => autojoin_enable /\ autoJoin
MCNext == Next /\ Within
MCSpec == MCInit /\ [][MCNext]_<<vars, mode>>

\* The fairness of FairSpec.
GoesOn == Health_Monitor_Thread /\ Within
Handled == B100_Process_Callback /\ Within
Ends(t) == (B100_Join_Accepted(t) \/ B100_Restart_Accepted(t)) /\ Within
JoinsAtRest == NetJoins /\ pc[Health] = "sleeping" /\ Within
MCFairSpec ==
  /\ MCSpec /\ WF_vars(GoesOn) /\ WF_vars(Handled)
  /\ \A t \in Operator : WF_vars(Ends(t))
  /\ SF_vars(JoinsAtRest)
-----------------------------------------------------------------------------
\* The properties, commented where they are stated; MissedOnlyUnannounced and
\* DownlinkOnce are those of BridgeSession.
Rejoins == mode = "faults" => StaysJoined
Shown == mode = "faults" => JoinedShown
=============================================================================
