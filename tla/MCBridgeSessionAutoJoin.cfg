SPECIFICATION MCSpec
CONSTANTS
  Mode = {"autojoin"}
  AutoJoinEnable = {TRUE}
  AutoJoin = {TRUE}
  Fault = {"power"}
  MaxFaults = 2
  MaxRequests = 0
  MaxDownlinks = 2
  MaxOutbox = 2
INVARIANT NoneMissed
