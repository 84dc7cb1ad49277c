----------------------------- MODULE AoaStreams -----------------------------
(***************************************************************************)
(* The three streams of the aoa app side by side.  They share no variable: *)
(* each has a mutex and state of its own in the code.  Presence is         *)
(* extended, the others are instances.                                     *)
(***************************************************************************)
EXTENDS AoaPresence

CONSTANTS
  Scenario, Thread, MaxItems, MaxCount, MaxEvents, MaxChanges, \* of AoaCounting
  Class, Sample, Selection, Default                            \* of AoaOccupancy

VARIABLES
  aoa, event, g_counters, file, saving, g_counting_enabled, due, counting_publisher, changes,
  crossings, overtaken, latest,
  g_occupancy, g_occupancy_publish, status, updater, loading, occupancy_settings, crossed

C == INSTANCE AoaCounting WITH publisher <- counting_publisher
O == INSTANCE AoaOccupancy WITH settings <- occupancy_settings
-----------------------------------------------------------------------------
\* counter.c:199-289, as stated in AoaCounting: a total never holds more than the
\* crossings since it was loaded or set.  With the types, also those of presence.
NoOvercount == TypeOK /\ C!TypeOK /\ C!NoOvercount

\* aoa/app/main.c:2301: after a restart only fresh sums are published.
PublishesFresh == C!PublishesFresh

\* occupancy.c:369: the status that payloads are made from is that of the last samples
\* and settings, once no renewal is under way.
StatusCurrent == O!StatusCurrent
=============================================================================
