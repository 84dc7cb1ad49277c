\* Two objects, a table for one of them, two scenes and one restart.
SPECIFICATION MCSpec
CHECK_DEADLOCK FALSE
SYMMETRY MCSymmetry
CONSTANTS
  Id = {first, second}
  RADAR_MAX_OBJECTS = 1
  Place = {"in", "across"}
  InAoi = {"in", "across"}
  InOccupancyArea = {"in"}
  InSpeedArea = {"in", "across"}
  Crossed <- MCPairs
  Moved <- MCPairs
  DefaultClass = "Human"
  Qualifying = 2
  Detection <- MCDetection
  MaxEntered = 1
  SceneId = {1, 2}
  COUNTING_MAX_SCENES = 2
  MaxTracks = 1
  MaxScenes = 2
  MaxRequests = 2
  MaxRestarts = 1
  PublishesAfterRace = FALSE
INVARIANT CountersFileWhole
