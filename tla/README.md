# Formal models of AI-B100

TLA+ modules for the AI-B100 camera applications (`src/`), the TLC runs that
check them on small instances and the theorems that TLAPS proves about them.

## The system

Three alternative ACAP applications run on an Axis camera and report what its
analytics see over LoRaWAN, through an AI-B100 bridge on the local network:
`aoa` (Object Analytics scenarios: counting, occupancy, presence alert), `radar`
(occupancy, detection alert, speed, counting) and `detectx` (an object detection
model: occupancy per label). All three are built on `common/app`: `ACAP.c` (the
camera platform: HTTP through FCGI, settings, status, events) and `B100.c` (the
client of the bridge's HTTP API).

| Component | State | Operations | What makes it correct |
|---|---|---|---|
| detectx `occupancy.c`, publishing in `main.c` | maxima of the open interval, the interval in flight with its token, schedule | record a frame, begin and finish a publish, reconfigure | no detection is forgotten or shown before the bridge acknowledged it; one owner per interval |
| detectx start and end (`Model.c`, `labelparse.c`, `main.c`) | what is acquired, the selection of labels | validate the bundle, load, set up, post a selection, release | all or nothing, released once and in order; a count stands for the label that was meant |
| detectx inference (`imgprovider.c`, `Model.c`, `detection_nms.c`) | two queues of buffers, the frame in hand, detections | fetch, take the newest, infer, suppress, return | no buffer is lost or held twice; every object keeps one representative; frames go on |
| aoa counting | sums, references, totals, file | AOA event, reference request, publish, save, load, reset | no crossing is counted that was not seen; a restart publishes nothing stale |
| aoa occupancy | samples, selections, status object | event, settings, renew, payload, generated decoder | the status shows the newest samples; the decoder reads what was reported |
| aoa presence | areas with retained clears, pending flag, generation | event, time, schedule, publish, settings, reset | every change reaches the network; an active area clears |
| aoa settings | settings, file, version | migrate, merge, load, page, OTA, write | migration loses nothing and ends; the next restart changes nothing |
| aoa OTA queues (`main.c` 635-753) | response queue, deferred bridge configurations | queue, drain, retry, restart | order, exactly one answer, bounded, restart after its acknowledgement |
| aoa OTA scenes (`ota_scene.c`) | pending pages, AOA's scenes, settings | receive a page, complete, apply, roll back | a scene is applied whole, in AOA and the settings, or not at all |
| aoa OTA translator (`ota_translator.c`) and its handlers | frames under way | encode, handle, answer in pages, decode | encoder, app and decoder agree on the bytes |
| radar detections (`RadarDetection.c`, `main.c`) | cache of tracks, table of objects | scene, copy, goodbye, reset | a track counts once; its speed is its own; the balance returns to zero |
| radar occupancy, speed | peaks, vehicles, schedule of each stream | record, build, publish, reset | a summary makes sense; every stream recurs |
| radar alert | active, pending counts, times | detections, publish, heartbeat | the network learns of every change |
| radar counting | scenes, totals, `counters.json` | configure by page and OTA, count, save, load | totals are exact and survive restarts |
| radar settings and downlinks | settings, file, globals of the use cases; the two queues | page, former command, frame, load | what is acknowledged holds; every downlink is answered once |
| bridge connection (`main.c` health thread, `B100.c`) | configured flag, `g_status`, settings, parameters | health cycle, settings POST, operator requests, `/lan.html` fallback | the bridge calls this camera back; no network parameter is lost |
| bridge client (`B100.c` 741-1173) | last `fcntDown`, joined, duty-cycle window | status and receive callbacks, join, restart, send | a downlink is dispatched once; joined settles on the truth; a lost network is joined again |
| confirmed uplinks (`main.c` 1645-1659) | counter, awaiting flag | take a flag before a send, clear on ACK, timeout or rejoin | every tenth uplink is confirmed; the wait for its ACK ends |

Threads. One FCGI thread serves every HTTP request in turn: settings, operator
requests, and the callbacks the bridge POSTs, hence all downlinks and OTA
commands. The GLib main loop runs camera events or inference; detectx has a
thread that fetches frames, radar one in which the radar library delivers scenes.
Each app adds a health thread and a publish thread. They share the features'
state under per-module mutexes, and `main.c`'s own variables mostly under none.
No lock is held across a request to the bridge except `g_http_mutex`, which
serialises the requests themselves, and in aoa the mutex of presence uplinks and
that of an OTA scene command.

What is hard: a settings change, a frame or a second publisher between the two
halves of an operation that waits for the bridge or for AOA; answers that are
lost after the other side acted, or that overtake events; reports that fail and
must be merged with newer data; flags that two threads set; queues and tables
that fill; pages that are lost, repeated or of another scene; files that are
emptied before they are written; restarts with files of earlier versions. The
list, line by line, is under `hazards` in `PROJECT.json`.

## Modules

`PROJECT.json` maps each definition to its lines.

| Module | Models | Checked in |
|---|---|---|
| `OccupancyInterval` | what detectx promises about a reported peak, over the frames themselves | abstract specification |
| `DetectxOccupancy`, `DetectxOccupancyProofs` | `detectx/app/occupancy.c` and the publishing protocol of `detectx/app/main.c` | `detectx_occupancy`; refines `OccupancyInterval` |
| `DetectxStart` | model bundle, labels and selection, stream, from start to end | `app_parts`, subject `start` |
| `DetectxPipeline` | buffers, inference, thresholds and suppression | `app_parts`, subject `frames` |
| `AoaCounting` | `counter.c` and its uplinks | `aoa_features` |
| `AoaOccupancy` | `occupancy.c` and the decoder made for it | `aoa_features`, `aoa_features_decoder` |
| `AoaPresence` | `presence.c` and its uplinks | `aoa_features` |
| `AoaStreams`, `AoaStreamsProofs` | these three side by side | `aoa_features` |
| `AoaSettings` | migration, merging, loading and writing | `app_parts`, subject `upgrade` |
| `OtaQueue`, `OtaQueueProofs` | response queue and deferred bridge configurations | `aoa_uplinks`; refined by `RadarDownlinks` |
| `OtaScene` | scenes set in pages, with AOA and the settings | `app_parts`, subjects `scenes`, `one scene` |
| `OtaTranslator` | encoder, app and decoder of scenes, streams, actions, bridge parameters | `app_parts`, subject `translator` |
| `OtaInformation` | device and bridge information in pages of a text | `app_parts`, subject `information` |
| `OtaFrames` | `OtaTranslator` and `OtaInformation` side by side | `app_parts`; its proofs are in `AoaUplinksProofs` |
| `RadarTracks` | `RadarDetection.c` and the object table of `radar/app/main.c` | `radar_counting`, `radar_counting_twice` |
| `RadarCounting` | `counting.c`, `ota_counting.c`, the counters' file | `radar_counting`, `radar_counting_torn` |
| `RadarTraffic`, `RadarTrafficProofs` | both side by side | `radar_counting` |
| `RadarReports` | `occupancy.c`, `speed.c`, the periodic streams | `radar_reports` |
| `RadarAlert` | `alert.c` and its uplinks | `radar_reports` |
| `RadarDownlinks`, `RadarDownlinksProofs` | reading, dispatching and answering of radar's downlinks | `radar_reports`; refines `OtaQueue` |
| `RadarUplinks` | reports and alert beside the downlinks; its proofs are in `RadarDownlinksProofs` | `radar_reports` |
| `RadarConfig` | settings in memory, file and effect; the commands that change them | `app_parts`, subject `settings` |
| `HealthMonitor` | callback configuration and connection state | `health_monitor` |
| `BridgeParams` | parameters of the bridge, cached and sent back | `aoa_uplinks` |
| `BridgeSession` | the LoRaWAN session and the deduplication of downlinks | `bridge_session`, `bridge_session_autojoin` |
| `BridgeLink`, `BridgeProofs` | both side by side | `health_monitor` |
| `ConfirmedUplinks` | every tenth uplink and the wait for its ACK | `aoa_uplinks` |
| `AoaUplinks`, `AoaUplinksProofs` | both beside `OtaQueue` | `aoa_uplinks` |
| `AppParts`, `AppPartsProofs` | `RadarConfig`, `AoaSettings`, `OtaScene`, `DetectxStart` and `DetectxPipeline` side by side | `app_parts` |

Composition. Where components interact, the module holds both sides: publishers
with the feature they publish, the health thread with the bridge's callbacks,
operator, encoder, app and decoder, OTA pages with AOA and the settings file.
Components whose state lies under different mutexes and which only share the
threads that run them are checked one at a time in one run: a variable `subject`
is chosen in the initial state and says which of them moves. The run therefore
covers the sum of their state spaces. Their product would show nothing more of a
safety property, since no action of one reads or writes a variable of another.
One of them is extended, the others are instances. `AoaStreams`, `AoaUplinks`,
`BridgeLink`, `RadarTraffic` and `RadarUplinks` hold such instances and the properties that are
stated of them; the run's `MC` module extends it with the bounds and `subject`, and
the proofs extend it with the theorems, so that both speak of the same definitions.
`AppParts` does so for parts of all three apps and `OtaFrames` for the frames of aoa;
`MCAppParts` extends both.

Each of the following sections says how state and actions correspond to the code.

### DetectxOccupancy

The variables are `OccupancyState` and the schedule of `main.c` under their own
names. Two publishers run the same code: the publish thread when the interval
has elapsed, and the FCGI thread for the publish endpoint and the port-100
downlink. `pc` names the point between two locked sections: `called` (the
decision under `g_publish_mutex`), `begin`, `sending` (no lock held), `answered`,
`published`. A settings POST takes two sections as well (`Configure_Occupancy`,
then `Occupancy_Configure`), so that it interleaves with all of them. A send has
three outcomes: the bridge takes the uplink and its answer arrives, it takes it
and the answer is lost, or it does not take it.

Time is one Boolean, `intervalElapsed`. `open` and `detached` are history
variables, the counts of the frames behind the numbers; no action reads them.
`TokenWindow` assumes that the 32-bit or wider token does not come round during
one request of at most 30 seconds; with the small `MaxToken` of the run it
keeps a wrap from colliding with a publisher that is still waiting.

The promise (detectx/README.md:16) is stated in `OccupancyInterval`:
frames enter the open interval, a publish detaches it, an acknowledgement shows
the peak of exactly the detached frames, a failure puts them back. The mapping is
the identity on `open` and `detached` and `shown <- last_published`.

### DetectxStart and DetectxPipeline

A resource is a name in `held`; `main` is the point of the program. Each
acquisition may fail, and the code's release path follows. `Grounded`: what is
held stands on what it was made from. `AllOrNothing`: a part is set up completely
or not at all, and at the end nothing is left. Without memory for the image provider
itself, its own release path reads through a null pointer (imgprovider.c:106, 156) and the
process ends (`crashed`). `Meant`: the selected labels are
classes of the model in use, each with a name of its own, also when the settings
were left by another variant of the app.

In the pipeline `vdo` is the camera's side of the buffers, `deliveredFrames` and
`processedFrames` the two queues, `yuvBuffer` the frame in hand. `PoolKept`: each
buffer is in one place, refused ones in none. `Representative`: of the boxes that
pass the thresholds, no two counted ones of a class overlap, and one that is not
counted overlaps one that is and is at least as sure; boxes are intervals with
their real intersection over union; that the suppression finds no memory for its own
arrays, and then passes all boxes on (detection_nms.c:29), is left out. `FramesFlow`: frames are counted again and
again, unless the camera refused so many buffers that the app has all others.

### AoaCounting, AoaOccupancy, AoaPresence

`AoaCounting` holds AOA itself (`aoa`: its sums), the events on their way to the
main loop, the answers to requests for the accumulated counts, the counters with
their reference, and the file. `NoOvercount`: the total of a counter is at most
the crossings there were, unless an answer overtook an event or was overtaken by
one (`overtaken`); the property includes the types of counting and presence. `PublishesFresh`: a value that is published is the sum that AOA
told last since the start; after a restart or a reset nothing is published before
AOA has been heard again. A crash can occur at any step.

`AoaOccupancy` renews its status object in two steps, under the mutex and after
it. `StatusCurrent`: unless two renewals crossed, the status shows what the
samples and the selection say. `crossed` is set only where areas that a thread built
before a change replace those that another built after it: `behind` notes for each
thread whether what it holds is older than a change, and whether the newer was stored
meanwhile. `DecodedAsReported` is one of the violations below.

`AoaPresence` distinguishes of `g_state_generation` only whether an uplink's
payload is still current. `ClearArmed`: an area has a clear armed exactly if it
is active and AOA no longer holds it so. `PresenceAnnounced`: what the network was
told last is what the areas are, or an uplink is pending, unless settings or a
reset hid or dropped a change (`unannounced`).

### AoaSettings and RadarConfig

A settings object is a function from keys to values. A start merges the file into
the defaults key by key, as `ACAP.c` does, looks at its version, migrates and
writes. `SameAfterRestart`: the settings in memory, once written, migrate and load
to themselves, from the file of any earlier version, and are what is in effect and
what GET answers. In `RadarConfig` a setting lives in memory, in the file, and in
the globals that the use cases read. `AckedHolds`: what a command acknowledged
stays in effect until it is set again, or until the app restarts from a file that a
failed write left behind. `StoredInEffect`: between commands the settings in
memory, every form of GET and the effect agree; the schedule of an alert command
that ended in APPLY_FAILED is the exception.

### OtaQueue and RadarDownlinks

The handlers of `B100_Downlink_Handler` are grouped by what they do to the
queues: answer now, answer and announce a restart, or defer a bridge
configuration. The publish thread's loop is `pc`: pop a configuration, call the
bridge, queue its acknowledgement, pop a response that is due, send, then restart
the bridge or put the response back. `waiting` stands for `next_attempt > now`.

`RadarDownlinks` has the same queues behind radar's dispatcher: ports, framed
commands, commands in the form of earlier versions, and damaged frames; handlers
that ask the camera's radar or the bridge leave the FCGI thread waiting while the
queues are drained. `DownlinksAnswered`: each downlink that calls for an answer is
answered once, through the queues or from within its handler, never both ways.
`DownlinksSound` is this with the types, the order of the queues and
`AckedSensitivity`: what an answer said of the radar's sensitivity is what the camera
took. The theorem `ImplementsQueue` maps it to `OtaQueue`.

### OtaScene, OtaTranslator, OtaInformation

In `OtaScene`, `transfers` are the pages that senders have under way, lost,
repeated and out of order; `pending` is the transfer the app has accepted;
applying it reads AOA's whole configuration, changes it, sets it, writes the
settings, and sets AOA back if that failed. Each can fail, users edit AOA
meanwhile, and the app restarts. `WholeTransfers`: a scene has the
corners its user drew or all those of one transfer that was sent for it.
`Together`: AOA's corners and the app's settings of a scene come from the same
transfer, unless AOA's answer was lost, it could not be set back, the app stopped
halfway, the file was cut, or the user drew the scene anew (`apart`).
`TransfersRecur`: a sender that goes on is acknowledged again and again, whatever
transfer was given up before.

`OtaTranslator` composes the generated encoder, the handlers and the generated
decoder byte for byte, sizes and page limits included, and the rounding of
coordinates in both directions; `FramesUnderstood`: what
the app takes is what was asked, what the encoder makes is refused for no reason,
the decoder reads the encoder's frames and the app's answers, and a scene that is
read and sent back stays where it is. `ConstantsAssumption` names the documented ranges of
a request (`Documented`) and what can be found at a port (`Version`).

`OtaInformation` has the text that is cut into pages and rebuilt for
each; `InformationTold`: what the decoder accepts as complete is what a page
showed, unless a number changed its length in between, or lies on two pages. The value of
a number is the number as its form has it: a structured frame has tenths of a degree and
two bytes of restarts, the text whole degrees, and a device sends one form or the other.
Restarts beyond 65535 and temperatures below zero are left out. `FramesRead` of
`OtaFrames` is both with the types.

### RadarTracks, RadarCounting, RadarReports, RadarAlert

`RadarTracks` takes a scene in one step, since one thread delivers it: cache,
once-a-second copies, goodbyes, and then what `main.c` does with each.
The radar may use an id again at any time, also while the table still holds the object of
the id's last track; objects expire when a scene does not list them, and when the FCGI
thread builds the status page (`Radar_Status_JSON`).
`BalanceExact`: an object leaves the balance once for each time it entered, unless
the table dropped it first. `SpeedOfThisTrack`: of the speeds recorded of a track, one is
the fastest that the table saw during that very track. A second one, which the list
samples after the first copy of an ended track reset the samples, is lower, and there
only if the track was handed over twice (`early`); and a speed of an earlier track with
this id can come along only if that track ended other than as a vehicle that the app is
sure of, so that its samples stayed (`inherited`). `TwiceOnlyWhenDue` bounds the
violation below.

`RadarCounting` has the scenes' configuration, the totals, the file with its inode
and the temporary file, three savers, and kills at every step. `TotalsExact`: within
one run of the process, a scene's total is the tracks that crossed this very scene
since it was made or reset, or the scenes it replaced under its id; scenes are told
apart by the number of the request that made them (`made`). `CountersSurvive`: totals do not fall behind those of a
publish that ended with its save, unless two savers raced (`raced`): nothing is
claimed of the file after that, and the run begins no publish then
(`PublishesAfterRace`), though saves of the other threads, kills and restarts go on.

`RadarReports` keeps peaks and speed summaries, in km/h or mph, with the code's
integer rounding and the clamp to a byte. `RadarAlert` keeps times as ages that
stop at the limit they are compared with. `ChangeAnnounced`: if the last payload
the network accepted disagrees with the alert, the right one is pending or was
never sent since the timers were reset, unless two uplinks crossed or an alert
ended before its payload was built. `InactiveHeard`: however uplinks cross, while
no alert is on for good, the network is told so again and again.

### HealthMonitor and BridgeParams

Two threads can configure the callbacks: the health thread (main() does it first,
before the thread starts) and the FCGI thread (`b100_request_status`). A call reads
the address, waits for `g_http_mutex`, sends `/set` to the bridge that `g_ip` names by
then, tries `/lan.html` if that fails, and sets the flag. `http_get_ex` cuts the URL of
that form at 255 characters: with any IPv4 addresses the callback's address arrives, the
status URI may, the receive URI and the credentials never do, and a 200 counts as a
success. `Calls_Sent` says which callbacks can then get through; what does not arrive
may stay as the bridge had it.

A settings POST takes several steps without a common lock, in two orders (`ClearsFlag`):
aoa and radar write the bridge's address, then the callback's, then clear the flag;
detectx clears the flag with the callback's address and hands over the bridge's address
last. Bridges are external: up or down, a firmware that takes `/set` or only the form,
HTTP API enabled or not, a callback target, the callbacks that get through, whether the
last configuration was a cut form, a callback owed. `ReapplyOnFailure` distinguishes aoa,
which repeats a configuration when the bridge reports failing callbacks, from radar and
detectx, which do not.

`ConfiguredHonest`: while the flag is set, the bridge of the settings calls back where
they say, with all its callbacks, unless it was configured by a form that was cut, or the
settings changed while the request was under way (`raced`, the one history variable).
`CallbacksRecover`: once the settings lead to this camera and the bridge answers, it ends
up calling this camera; if `/set` succeeds, its status callbacks get through as well. A
bridge that only ever takes the form may stay without them.

`BridgeParams` splits the fallback into its two requests, the parameters read and
the page sent back, with another thread, the operator and the bridge's own web page
in between. `NetworkKept`: a bridge has the network parameters last asked for,
unless it was sent ones that were read before that or from another bridge
(`crossed`). The page takes `/get` as complete; for a parameter that an answer lacks the
code sends a default instead (B100.c:1227-1249), which is not modelled, as the bridge's
documentation lists them all. `AnswersCatchUp`, in `HealthThreadSettles`: what the
app remembers and answers catches up with the bridge, whatever was lost or changed
elsewhere.

### BridgeSession

`joined`, `statusCode` and `last_dispatched_fcntDown` (with `NoCounter` for
`g_downlink_dedup_init = 0`) are the client's. Status codes are grouped by what the
code does with them. A callback is one step: the FCGI thread takes the next, stores
what it says, clears the deduplication if the code is one of the four that end a
session, then dispatches the downlink it carries. A join or restart has two
halves, for the bridge acts before its answer is noted, and the answer may be lost. The
health thread's `/info` has three: the bridge answers, the answer is stored, a
snapshot is taken; then follow the status request and the decision to join.

The bridge is external: `net` (idle, joining, joined), the next counter `fcnt`, which
starts over with a session, and `outbox`, the callbacks it has yet to deliver, in
order, since it delivers one request at a time. A downlink is reported by a receive
callback, a status callback or both (`B100.c:930`). Faults: power cycle, lost session,
failed join, lost callback, lost answer. `NetJoins` waits until the answer to the
join that started it is noted: a join takes seconds on the air, an answer
milliseconds. A bridge that is joining refuses another join (http_api.md:795).
A callback that is sent again after its answer was lost is not modelled.

History variables follow the downlinks as they are handled. `dispatched`: the last
one reached the handler; `missed`: for those that did not, whether the session
before it had ended in a way the app was told (`announced`); `repeated`: for those
that reached it twice, whether a join or restart of this camera had cleared the
deduplication in between (`cleared`).

### ConfirmedUplinks

`Next_Confirmed_Flag` takes the flag of an uplink under `g_health_mutex`; the send
follows without a lock, so that two publishers may swap. `owed` is the status
callback of the last uplink taken; the bridge takes the next after it. A snapshot of
`g_status` drives the health thread, which ends the wait on status 10, on a restart
code and on a timeout; reading and clearing the timeout are two steps, as in the
code. `run` counts the uplinks that the bridge took since the last confirmed one,
`excused` records a refused confirmed uplink or a restart. OTA responses and the
page's test message are sent unconfirmed and are not counted by the code.

## Runs

| Run | Bounds | Shows |
|---|---|---|
| `detectx_occupancy` | 2 labels, 4 selections of which 2 valid, counts 0..2 with a payload byte that holds 1, tokens 1..3, 1 settings change | `SlotOwned`; `PeakExact`; refinement of `OccupancyInterval`; `ShownWasSent`; `PublishGoesOn` |
| `health_monitor` | 2 bridges, one of which may not take `/set`, 2 addresses of which one is the camera's, 1 request, 1 fault, both orders of a settings POST, aoa's health cycle; the session rests | `ConfiguredHonest`; `CallbacksRecover` |
| `aoa_uplinks` | queues of 2, 4 downlinks; every third uplink confirmed, 2 refusals, 2 restarts; 2 bridges in networks of their own, rates 0 and 4, 2 changes | `QueuesInOrder`; `NoRequestForgotten`; `AckHonest`; `RunBounded`; `NetworkKept`; `QueuesDrain`; `HealthThreadSettles` |
| `bridge_session` | 2 downlinks a session, 2 callbacks under way; 2 faults of five kinds, both values of each autojoin setting, 1 request | `MissedOnlyUnannounced`; `DownlinkOnce`; `Rejoins`; `Shown` |
| `bridge_session_autojoin` | a bridge with autojoin, 2 power cycles | violated: `NoneMissed` |
| `radar_counting` | 2 objects, interchangeable (symmetry), a table of 1, 2 places; 2 counting scenes, 2 requests, 1 restart, 1 track, no publish begun after two saves raced (`PublishesAfterRace`) | `TracksSound`; `TwiceOnlyWhenDue`; `SpeedOfThisTrack`; `BalanceExact`; `TotalsExact`; `CountersSurvive` |
| `radar_counting_twice` | the same | violated: `TrackCountedOnce` |
| `radar_counting_torn` | the same | violated: `CountersFileWhole` |
| `radar_reports` | 2 vehicles of 61 and 420 km/h in mph, limit 50, bytes of 255, 1 settings change; alert limits of one tick; 2 downlinks on queues of one, 1 change by others | `RadarSound`; `ChangeAnnounced`; `DownlinksSound`; `PublishRecurs`; `InactiveHeard` |
| `aoa_features` | 1 scenario with 2 crossings, 2 events, 1 change; 2 occupancy areas, 2 classes, one sample that overflows a byte; 2 presence areas with delays 0 and 1, 1 settings change | `NoOvercount`; `PublishesFresh`; `StatusCurrent`; `ClearArmed`; `PresenceAnnounced`; `StreamsRecur` |
| `aoa_features_decoder` | the same, occupancy only | violated: `DecodedAsReported` |
| `app_parts` | radar settings with 2 changes; files of aoa versions 1, 2, 6, 7, 8 and none; two scenes, two senders, two pages; 7 bundles, 3 files, 2 posts; 5 buffers, 4 boxes; scenes of 8 to 10 corners, 1 edit; 2 changes of the device's numbers | `SettingsHold`; `ScenesWhole`; `DetectxSound`; `FramesRead`; `PartsRecur` |

A property of a composed run is a conjunction of properties of its components, with
their type invariants: `SlotOwned` is `OneOwner` with the types, `AckHonest` is
`RestartAfterAck` and `AckReportsResult`, `QueuesDrain` is `ResponsesDelivered` (every
response is accepted, and the restart it announces is issued) and `ConfigsApplied`,
`HealthThreadSettles` is
`WaitEnds` and `AnswersCatchUp`, `RadarSound` is `SummariesConsistent`,
`PendingMeansActive` and `NextTimeAgrees`, `DownlinksSound` is `DownlinksAnswered`,
`QueuesSound` and `AckedSensitivity`. Each part is stated and commented in its own
module.

Why the bounds suffice. Two publishers are all that any app has. One settings
change replaces the labels during a send, and the other publisher can have begun
the next interval when the old answer comes; three token values let the token wrap
behind a waiting publisher. A byte that holds 1 against counts up to 2 makes
saturation and a plain value both occur; in `radar_reports` it is 420 km/h, which
is more than 255 mph. Queues of two with four downlinks fill, overflow, and
overflow by the response put back. One settings POST reaches every point of a
health cycle. Two downlinks a session make an equal and a different counter occur.
`ConfirmedUplinks` confirms every third uplink instead of every tenth: nothing
depends on the number but how long a run is, and three leaves room for two
publishers to be between flag and send. A table of one for two objects is full, and
is taken over. Two counting scenes can be exchanged, replaced under the same id and
deleted. One scenario is enough for `NoOvercount`, since no counter reads another;
two areas are needed where a payload has an order. The five buffers and the number
of frames kept for the app are the code's, `OTA_MAX_BODY_SIZE`, the page sizes and
the coordinates of `OtaTranslator` too: scenes of 8 to 10 corners need one page, or
two, or fill one exactly. The bundles are wrong in one way each.
`CHECK_DEADLOCK FALSE` stands where the bounded inputs of a subject are used up and
the program then waits for the next: `aoa_features`, `app_parts`, `radar_counting`.

Fairness. Each thread is a loop that sleeps and continues, hence weak fairness of
its steps; time passes. Of uplinks, requests and writes that are tried again and
again some succeed, hence strong fairness: refusals are duty-cycle windows,
outages and a full disk, which end. `HealthMonitor` assumes nothing of the bridges
but the premises of its property, that from some time on the bridge stays up and a
configuration succeeds in one of its two ways.
`BridgeSession` assumes that callbacks are handled, that a bridge that keeps trying
joins in the end (strongly fair outside the seconds of a health cycle, since a join
that happens only then is not an outage but a coincidence), and, in the premise
`Timely` of `StaysJoined`, that from some time on callbacks do not stay on their way
for a whole minute between two cycles. Without that premise a restart callback that
is delayed for a cycle each time would have the session torn down again and again.
`JoinedShown` needs no such premise. For `TransfersRecur` one sender repeats its
pages, some of which arrive; for `FramesFlow` the camera delivers; for
`InactiveHeard` the radar goes on reporting frames. Operators, other senders,
downlinks and faults are never fair.

### The four violations

`NoneMissed` states README.md:79. Codes 1, 4, 14 and 18 clear the deduplication; a
bridge with autojoin reports a restart with 5 and the new session with 7, which do
not. If the last downlink dispatched and the first of the new session carry the same
counter, the latter is dropped, unless the health thread's own join intervenes.
`MissedOnlyUnannounced` shows that with a bridge without autojoin a downlink is lost
only if no callback announced the end of the session before.

`TrackCountedOnce` states radar/README.md:89, that a track which crosses the line
counts once. A track whose once-a-second copy is due in the very scene that ends it
is copied as an ended one and then gets its goodbye copy, so that `main.c` hands it
to Counting and Speed twice. `TwiceOnlyWhenDue` shows that there is no other way.

`CountersFileWhole` states radar/README.md:89, that totals persist across restarts.
Two savers use one name for the temporary file and no lock: the second empties the
file that the first then renames, and a kill before the second has written leaves
no counters. `CountersSurvive` shows that a race of savers is needed for that.

`DecodedAsReported` states aoa/app/main.c:2340, that the decoder reads the areas in
the order of the payload. `Occupancy_Build_Payload` omits an area that has no
sample or no selected label; the generated decoder goes through its own list and
gives the omitted area's name to the next area's labels.

### Observations

What the models show without a run of its own, because no text of the repository
says otherwise or because a property excuses it by name:

- Callbacks. A POST that clears `g_callbacks_configured` while the health thread
  waits for the answer to an earlier configuration is undone by that answer; in detectx
  a configuration that goes to the old bridge after the clear does the same, for the
  bridge's address changes last. aoa repairs it when callbacks to the old address fail
  (`CallbacksRecover`), radar and detectx do not. Premise of `CallbacksRecover`: a bridge with its HTTP API
  enabled has some callback address. One that reports `disabled` callbacks with the
  API enabled and answers 412 to the status request is not configured again once
  the flag is set (B100.c:690-697). After a POST with a wrong address `connected`
  stays as it was, since no status request is made.
- Confirmed uplinks. The count is set back before the send, so that a refused
  confirmed uplink is followed by a whole run of unconfirmed ones; `RunBounded`
  shows that this or a restart is needed for a longer run. Status 10 of an earlier
  uplink may end a later wait (main.c:1405); nothing but the log depends on it.
- `/lan.html`. The endpoint is cut at 255 characters by `http_get_ex`, after the
  callback's address and before its credentials, and a 200 still counts as success: the
  flag is set, the receive URI and the credentials have not arrived. aoa sends them again
  if status callbacks fail, radar and detectx never do. Parameters
  read from one bridge may go to another if `g_ip` changes in between (`crossed`).
- OTA scenes. A bad first page leaves a pending transfer that counts as expired; a
  repeated page is refused as INVALID_VALUE; after a lost acknowledgement the last
  page opens a new transfer, which keeps others out until its timeout.
- OTA translator. An 8-corner presence area of a version-1 sender has a second page
  of 21 bytes, which is refused as INVALID_LENGTH. Pages of GET that were read before
  and after an edit of corners alone merge to a scene that never was, for the
  fingerprint covers id, type and name.
- Information. Text that gets a digit longer between two pages repeats or loses a
  character, and an equal number of pages hides it.
- Radar settings. The occupancy and alert handlers acknowledge OK although the file
  was not written; the alert's schedule can be half applied. A refused list of
  counting scenes is written all the same, and the next start has no scenes.
- Radar alert. Two uplinks that cross leave the network with the wrong state until
  the heartbeat.
- Radar tracks. A track that is handed over twice leaves two speeds, the second being
  that of its last scene. The samples of a track that ended as a person, or unsurely, stay
  in the table for a minute, and a vehicle that gets its id meanwhile inherits them.
- Radar reports. Vehicles and peaks recorded during a send are cleared by the reset
  that follows its acceptance.
- aoa settings. A file of version 8 loses its `downlinkCommands`, one of 2 to 7
  keeps them. The results of the migration's writes are ignored.
- aoa counting. An answer that an event overtook counts crossings twice
  (`overtaken`); a counter left from a scenario that AOA no longer has blocks
  publishing after a restart, since its reference never comes.
- detectx. `labels_parse_file` cuts labels to 60 characters, so that the later check
  of their length cannot fail. A later capture may get an older frame than the
  newest one when several are queued.

## Proofs

Each module `XProofs` extends a module that the run's `MC` module extends too, so
that the theorems are about the definitions which TLC checks. They hold for every
value of the constants that `ConstantsAssumption` of each component allows; TLC
evaluates these assumptions in the runs.

| Module | Theorem | States |
|---|---|---|
| `DetectxOccupancyProofs` | `SlotSafe`, `PeaksExact` | `SlotOwned`, `PeakExact` are invariants |
| | `Shown` | `ShownWasSent`, of every step |
| | `Refinement` | `ImplementsInterval` |
| `OtaQueueProofs` | `QueuesKept` | `QueuesInOrder`: responses and configurations leave in order, within capacity |
| | `RequestsKept` | `NoRequestForgotten`: whatever was asked waits, or has ended with its answer queued or dropped |
| | `AnswersTrue` | `AckHonest`: a restart follows its acknowledgement, once; an answer tells what the bridge did |
| `AoaUplinksProofs` | `LinkObserved` | `RunBounded` |
| | `NetworkStays` | `NetworkKept` |
| | `FramesKept` | `FramesRead`, from `FramesHold` and `InformationHold` |
| `AoaStreamsProofs` | `CountsHold` | `NoOvercount` |
| | `FreshHolds` | `PublishesFresh` |
| | `StatusHolds` | `StatusCurrent` |
| | `AreasClear` | `ClearArmed` |
| | `ChangesAnnounced` | `PresenceAnnounced` |
| `RadarTrafficProofs` | `TracksHold` | `TracksSound` |
| | `TwiceOnlySo` | `TwiceOnlyWhenDue` |
| | `SpeedIsItsOwn` | `SpeedOfThisTrack` |
| | `BalanceHolds` | `BalanceExact` |
| | `TotalsHold` | `TotalsExact` |
| | `PublishedKept` | `CountersSurvive` |
| `RadarDownlinksProofs` | `AnsweredOnce` | `DownlinksAnswered` |
| | `ImplementsQueue` | every step of radar's downlinks is one of `OtaQueue` or a stutter |
| | `QueuesHold` | `QueuesSound`, what `OtaQueue` promises, for radar |
| | `DownlinksHold` | `DownlinksSound` |
| | `AlertHeard` | `ChangeAnnounced` |
| | `SummariesHold` | `RadarSound` |
| `BridgeProofs` | `FlagKept` | `ConfiguredHonest` |
| | `NoneMissedIfTold` | `MissedOnlyUnannounced` |
| | `HandledOnce` | `DownlinkOnce` |
| `AppPartsProofs` | `SettingsKept` | `SettingsHold`, from `RadarSettingsHold` and `AoaSettingsHold` |
| | `ScenesKept` | `ScenesWhole` |
| | `DetectxKept` | `DetectxSound`, from `StartSound` and `FramesSound` |

The arguments, one per inductive invariant:

- `DetectxOccupancyProofs`. `OneOwner` is not inductive. The invariant is the types;
  `Tokens` (the token of a waiting publisher is its own and differs from another's);
  `Owned` (the interval in flight has an owner whose snapshot is the pending
  interval); `Settled` (without a publish in flight nothing is pending); `PeakExact`;
  and `Sent` (the payload of an accepted send is built from the sender's snapshot).
  `Shown` follows in the one step that changes `last_published`, and `Refinement` maps
  each action to the abstract action of the same role or to a stutter: recording a
  frame of labels outside the selection records no count, a publish of an empty
  interval detaches nothing, and a stale answer changes nothing.
- `OtaQueueProofs`. A response put back finds room for one more than the capacity, and
  while the publish thread holds one there is that room (`Bounded`). What was applied
  came before what is being applied, and that before what waits (`ConfigsOrdered`);
  responses the same way. `QueuesInOrder` itself says nothing of what is in the thread's
  hands, hence the strengthening. `Accounted` partitions the numbers of all requests:
  ended, or deferred and either waiting or being applied, none twice. `Truthful` and
  `Restarted` say of the responses in the queue and in the thread's hands what
  `AckHonest` says of those accepted; that a number is in one place only is what keeps
  an answer from standing for two configurations.
- `AoaUplinksProofs`. `RunBounded` says nothing of flags that were taken and whose
  uplinks were not yet sent. `RunCounted`: as long as no confirmed uplink is on its way
  and none was lost, the uplinks since the last confirmed one, sent or about to be,
  are at most one more than the counter says. For `NetworkKept`, `Calls`: network
  parameters in the hands of a thread that is to send them back are those asked of the
  bridge that will get them, or are marked as outdated, or the bridge is already crossed
  (`InHand`).
- `AoaUplinksProofs`, frames. Two bytes bring back the number that was split into them
  (`WireU16`); corners are read at offsets, so that byte `k` of a page belongs to corner
  `k \div size` (`CornerBytes`). The invariants say of every page taken, and of every
  answer, which of the versions that there were (`known`) it was made from. A scene has
  at most two pages and a text at most six, and a concatenation is the function of its
  prefixes, which can be named: no induction is needed. Pages of a text made at different
  times put together a text that is woven of those of these times; where fields begin and
  end (`Before`) is the same in all of them as long as no number changed its length, and
  then what the decoder cuts out between two separators is a field of one of them, unless
  it lies on two pages.
- `AoaStreamsProofs`, presence. `Armed` is preserved per area by each of the helpers from
  which the actions are built, one lemma each, and lifted to the function of areas.
  `Announced`: a payload under way says what is so until a change overtakes it, and
  such a change is owed; the generation of `presence.c` decides exactly this.
- `AoaStreamsProofs`, occupancy. `RenewalsSound`: when nothing is left to build, the
  areas built last are the truth, older ones have a newer one beside them, and the
  status is the truth unless a newer one is yet to be stored or the renewals crossed.
- `AoaStreamsProofs`, counting. That a total is no more than the crossings does not
  follow from the total alone: an event adds the difference to the reference, whatever
  it is. `SumsFollow`: the sums that AOA reports of a scenario, in the order in which
  they are processed and starting from the reference, rise by at most one at each event,
  and AOA's own sum is no more than the last. `AnswersFollow`: an answer that neither
  overtook an event nor was overtaken by one says nothing new. `TotalsBounded`: the
  total and the events still under way are together at most the crossings. `PublishesFresh` adds that a reference, and the value of a payload under way,
  is the sum told last.
- `RadarTrafficProofs`, tracks. All four properties are about what is done with a track
  when it ends, so the invariant says what holds while it runs (`Running`): it was
  handed to nobody yet, and its object has the class, the place and the fastest speed
  that the table saw of it, or the table has not had it. An object that no running track
  is listed for has samples only if its last track ended other than as a sure vehicle
  (`Resting`), so that a new track with its id starts from nothing or is `inherited`.
- `RadarTrafficProofs`, counting. The settings' tree, the file and the scenes counted
  for may differ; `ScenesApart` says that a scene with the number of the same request is
  the same scene in all three, and `NeverCrossed` that one which is not counted for
  brings no crossings along. For the file, `ThreadsSound` places the three savers (of
  the publish thread and `main()` only one is under way), and `OneAtATime` says, as
  long as no two saves raced: the temporary file is another than the counters' and
  whole before it is renamed (`FilesSound`), and the file, the totals and the snapshot
  that will replace the file are all at least what was published and saved (`Floored`).
- `RadarDownlinksProofs`, downlinks. `DownlinksAnswered` is inductive with the types
  (`Counts`): each handler adds to exactly one of the three places an answer can be.
  The refinement maps a handler that waits to a stutter until it answers; `QueuesHold`
  then has the invariants of `OtaQueueProofs` for radar, through its instance `P`.
  For `AckedSensitivity`, nothing counts as acknowledged while a handler that sets the
  sensitivity waits for the camera (`SensitivitySound`).
- `RadarDownlinksProofs`, alert. `UnderWay`: an uplink that no other crossed says what was
  decided, and if the alert is another by now that is announced. `LastHeard` says the
  same of the network.
- `RadarDownlinksProofs`, reports. The summary is computed with integer division, so that
  an average between the extremes needs `vehicles * minimum <= sum <= vehicles * maximum`
  (`Ordered`); the conversion to mph and the clamp to a byte keep the order
  (`Product`, `Quotient`, `QuotientsOrdered`).
- `BridgeProofs`, callbacks. While no settings are half stored and none raced (`Settled`),
  what either thread is configuring is what the settings ask for, and a successful answer
  that is not noted yet stands for a bridge that is configured so (`AsAsked`). So it does
  not matter which thread ends last and sets the flag.
- `BridgeProofs`, session. The counter with which a downlink is compared depends on the
  callbacks before it in the outbox. `Behind` says of a place in the outbox that this
  counter will be below a bound, because it is, or because a callback before it clears
  the deduplication; `SessionTold` and `DownlinksTold` say so of the next downlink of a
  session that was announced and of those on their way, and `SecondCopy` says what the
  second report of a downlink finds when its turn comes.
- `AppPartsProofs`, radar settings. A command changes memory, file and effect one after
  the other, and the page, the downlinks and the start do so in different orders. The
  invariant says of each of the three what it is between any two of these steps: which
  of the old and the new settings is in effect while a command is served (`InEffect`),
  and what the file holds until it is written (`OnFile`).
- `AppPartsProofs`, aoa settings. While a migration writes, settings in memory and file
  differ; `Stands` names the settings that a start at this moment would end with, and
  the invariant is that they are the ones that were kept (`Kept`) and formed as some
  version forms them (`Formed`). That nothing changes at the second start rests on a
  lemma: migrating what was migrated changes nothing.
- `AppPartsProofs`, scenes. What is applied was read from AOA, is whole, and agreed with
  the settings when it was read; AOA and settings are out of step only in the scene
  that is being applied, and only until the roll-back ends. A pending transfer holds
  pages of one scene and one sender.
- `AppPartsProofs`, start. `Grounded` is nearly inductive: the invariant adds the order
  in which `main` acquires and releases, what is held at each of its points, and that
  the labels of a selection belong to the model that is in use.
- `AppPartsProofs`, frames. `Placed`: each buffer is in exactly one of five places, with
  the camera, in one of the two queues, in hand, or lost when the camera refused it back,
  and no queue holds one twice. That every object
  keeps a representative is a fact about the greedy suppression, which is recursive: its
  result exists and is as it should be, by the box of least rank that were otherwise
  (`WFMin` of the library). An induction written with a set works where the theorems that
  take an operator do not.

History definitions were made exact while the proofs were written, where the run's
bounds had hidden that they were not: `Made` and `Inherited` of `RadarCounting`, which
number the scenes and carry over what a replaced scene of the same id had counted, and
`crossed` of `AoaOccupancy`, which had excused any two renewals at once, also those that
store their areas in order.

Only model-checked:

- all liveness properties, and fairness with them, out of the prover's reach;
- the violations, which are counterexamples.

## Not modelled

Protobuf transport, HTTP parsing, digest authentication, logging and the web pages:
I/O or user interface. Inference itself: an arbitrary set of boxes. Vendored and
generated code: cJSON, protobuf-c, the radar's scene messages. The contents of status
groups, apart from those that the modules name. Strings are model values or members
of small sets; torn reads of a string setting that is being copied are not
considered. In detail:

- `ACAP.c`: only settings (reading, merging, writing, the endpoint). VAPIX requests,
  whose response code is read after the unlock (2123-2134), events and the status
  container have no properties here.
- `B100.c`: metrics copied from callbacks, GPS, the duty-cycle window, which is tested
  before a send and may be renewed in between (1072).
- The translators of detectx and radar: detectx's knows the frames of its own service
  only, radar's is generated for the commands of earlier versions.
- `radar/app/main.c:3362-3549`: commands on ports 100, 110, 120 and 130 in the earlier
  form cannot be reached, as the dispatcher hands these ports on before.
- Reordering of callbacks by the network between bridge and camera: the bridge waits for
  each answer.

## Plan

1. Compositions: `OtaQueue` behind the dispatch of `BridgeSession`, so that a downlink is
   handled and answered once from the air to the air; `ConfirmedUplinks` with its bridge.
2. The translators of radar and detectx, from their generators; the duty-cycle window with
   the uplinks it refuses; VAPIX requests of two threads.
