SPECIFICATION MCFairSpec
CONSTANTS
  Mode = {"downlinks", "faults"}
  AutoJoinEnable = {TRUE, FALSE}
  AutoJoin = {TRUE, FALSE}
  Fault = {"power", "session", "join", "callback", "answer"}
  MaxFaults = 2
  MaxRequests = 1
  MaxDownlinks = 2
  MaxOutbox = 2
INVARIANTS MissedOnlyUnannounced DownlinkOnce
PROPERTIES Rejoins Shown
