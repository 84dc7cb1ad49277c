--------------------------- MODULE MCHealthMonitor --------------------------
\* Small instances of the part of BridgeLink that configures callbacks: two bridges, one
\* address that leads to the camera and one that leads nowhere.  Bridges are alike, so that
\* the settings may name the first one at the start.  The session rests.
EXTENDS BridgeLink

CONSTANTS b1, b2, camera, nowhere

ASSUME H!ConstantsAssumption

Calls(step) == step /\ UNCHANGED vars

\* At first the settings lead nowhere or, for the firmware that does not take /set, to this
\* camera.  The first bridge calls back nowhere or not at all, with no credentials of this
\* camera; the second one is as it left the factory, and takes /set.
MCInit ==
  /\ H!Init /\ b100_ip = b1 /\ Init /\ net = "idle"
  /\ callback_ip = IF bridges[b1].takesSet THEN nowhere ELSE NoAddress
  /\ bridges[b1].up /\ bridges[b1].target # camera /\ bridges[b1].calls = {}
  /\ bridges[b1].target = NoAddress <=> ~bridges[b1].api
  /\ bridges[b2].up /\ bridges[b2].target = NoAddress /\ ~bridges[b2].api /\ bridges[b2].takesSet
MCNext == Calls(H!Next)
MCSpec == MCInit /\ [][MCNext]_<<hvars, vars>>

\* The fairness of H!FairSpec.
Monitors == Calls(H!Health_Monitor_Thread)
Serves == Calls(H!FCGI_Thread)
CalledBack(b) == Calls(H!B100_Process_Status_Callback(b))
TimePasses == Calls(H!BecomeStale)
MCFairSpec ==
  /\ MCSpec /\ WF_hvars(Monitors) /\ WF_hvars(Serves)
  /\ \A b \in Bridge : WF_hvars(CalledBack(b))
  /\ WF_hvars(TimePasses)
-----------------------------------------------------------------------------
\* The bridge ends up calling this camera back (aoa/app/main.c:1365-1390), commented where it
\* is stated.
CallbacksRecover == H!CallbacksRecover
=============================================================================
