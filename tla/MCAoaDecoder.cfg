SPECIFICATION MCSpec
CONSTANTS
  Subject = {"occupancy"}
  Area = {"hall", "yard"}
  Delay <- MCDelay
  MaxSettings = 1
  Scenario = {"gate"}
  Thread = {"Publish_Thread", "FCGI"}
  MaxItems = 1
  MaxCount = 2
  MaxEvents = 2
  MaxChanges = 1
  Class <- MCClass
  Sample <- MCSample
  Selection <- MCSelection
  Default <- MCDefault
INVARIANT DecodedAsReported
