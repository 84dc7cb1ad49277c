SPECIFICATION MCFairSpec
CONSTANTS
  Subject = {"counting", "occupancy", "presence"}
  Area = {"hall", "yard"}
  Delay <- MCDelay
  MaxSettings = 1
  Scenario = {"gate"}
  Thread = {"Publish_Thread", "FCGI"}
  MaxItems = 1
  MaxCount = 2
  MaxEvents = 2
  MaxChanges = 1
  Class <- MCClass
  Sample <- MCSample
  Selection <- MCSelection
  Default <- MCDefault
INVARIANTS NoOvercount PublishesFresh StatusCurrent ClearArmed PresenceAnnounced
PROPERTIES StreamsRecur
CHECK_DEADLOCK FALSE
