SPECIFICATION FairSpec
CONSTANTS
  Subject = {"settings", "upgrade", "scenes", "one scene", "start", "frames", "translator", "information"}
  Group = {"occupancy", "presence", "speed", "radar"}
  Publish = {"slow", "fast"}
  RadarSchedule = {"always", "nights"}
  Points = {0, 2, 3}
  RadarDefault <- Defaults
  MaxRequests = 2
  Alert = {"door"}
  Schedule = {"none", "evening", "nights"}
  Unscheduled = "none"
  Interval = {5, 15}
  Command = {"SET", "CAPS"}
  AoaFile <- AoaFiles
  MaxPages = 2
  Id = {1, 2}
  Name = {"door", "gate"}
  Transfer = {1, 2}
  Domain = "occupancy"
  ConfigVersion = 1
  TotalPoints = 8
  MaxChanges = 1
  Label = {"", "car", "bus", "cat"}
  Platform = {"artpec8", "artpec9"}
  Bundle <- Bundles
  DetectxFile <- DetectxFiles
  MaxPosts = 2
  Buffer = {1, 2, 3, 4, 5}
  numAppFrames = 2
  MaxRefused = 1
  Frame <- Frames
  Box <- Boxes
  Width = 2
  Threshold = {20, 60}
  DetectionConfig <- DetectionSettings
  MaxSettings = 1
  OtaRequest <- Requests
  OtaStored <- Versions
  MaxEdits = 1
  DeviceFacts <- Devices
  MaxFactChanges = 2
INVARIANTS SettingsHold ScenesWhole DetectxSound FramesRead
PROPERTIES PartsRecur
CHECK_DEADLOCK FALSE
