\* Queues of one, which two downlinks fill and exceed, refused or put back.  A slow
\* vehicle and one too fast for the byte, in mph.
SPECIFICATION MCFairSpec
CONSTANTS
  OTA_RESPONSE_QUEUE_MAX = 1
  MaxRequests = 2
  MaxDownlinks = 2
  MaxChanges = 1
  Sensitivity = {"low", "high"}
  Streams = {"occupancy", "speed"}
  Units = {"mph"}
  SpeedLimit = {50}
  Speed = {61, 420}
  MaxPayload = 255
  MaxVehicles = 2
  MaxPeak = 1
  transition_seconds = 1
  active_interval_seconds = 1
  heartbeat_minutes = 1
  MaxCount = 1
INVARIANTS RadarSound ChangeAnnounced DownlinksSound
PROPERTIES PublishRecurs InactiveHeard
