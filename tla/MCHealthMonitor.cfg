SPECIFICATION MCFairSpec
CONSTANTS
  b1 = b1  b2 = b2  camera = camera  nowhere = nowhere
  Bridge = {b1, b2}
  Address = {camera, nowhere}
  Mine = {camera}
  OwnAddress = camera  NoAddress = NoAddress
  ReapplyOnFailure = TRUE
  ClearsFlag = {"first", "last"}
  MaxPosts = 1
  MaxOutages = 1
  AutoJoinEnable = {FALSE}
  AutoJoin = {TRUE}
  Fault = {}
  MaxFaults = 0
  MaxRequests = 0
  MaxDownlinks = 0
  MaxOutbox = 2
INVARIANTS ConfiguredHonest
PROPERTY CallbacksRecover
