\* Queues that a few downlinks exceed; every third uplink is confirmed; two bridges.
SPECIFICATION MCFairSpec
CONSTANTS
  OTA_RESPONSE_QUEUE_MAX = 2
  MaxRequests = 4
  CONFIRM_EVERY = 3
  MaxRefused = 2
  MaxRestarts = 2
  Address = {"entrance", "roof"}
  Rate = {0, 4}
  Net = {"entrance", "roof"}
  MaxChanges = 2
INVARIANTS QueuesInOrder NoRequestForgotten AckHonest RunBounded NetworkKept
PROPERTIES QueuesDrain HealthThreadSettles
