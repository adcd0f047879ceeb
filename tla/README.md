# petkit-local: a TLA+ development

The repository packages container images with Nix. Nearly all of its own program
logic is one of them: `apps/petkit-local-dev/addon/petkit_local`, a Python add-on
that stands in for the PetKit cloud, so that feeders, litter boxes, fountains and
cameras work with Home Assistant alone. This directory models that add-on. The Nix
expressions, image scripts, CI workflows and Go container tests keep no state of
their own and are left aside. Paths below are relative to
`src/apps/petkit-local-dev/addon/petkit_local`.

The add-on is one process with one asyncio event loop. Handlers interleave only at
their awaits, and two things break that comfort: `asyncio.to_thread`, whose threads
go on after the task that awaited them was cancelled, and the outside world (devices,
the broker's sessions, the file system, ffmpeg, kills of the container).

## 1. Inventory

| Component (files) | State | Operations | Meets | What is hard, what makes it correct |
|---|---|---|---|---|
| Device registry (`devices/registry.py`, `devices/base.py`, `utils/jsonio.py`) | devices in memory, `devices.json`, dirty flag, flusher task and its thread | `get_or_create`, `remove`, `save`, `mark_dirty`, `flush`, `stop` | every handler | a thread writing old text after a newer save; kills; failed writes. Credentials given out are on disk; what is dirty is written |
| Command delivery (`ha/command_router.py`, `web/api/_common.py`, `http/handlers/heartbeat.py`) | `command_queue`, `mqtt_connected`, `online`, `mqtt_connected_at` per device | deliver over MQTT, queue, pop on a heartbeat, `note_iot_status`, watchdog | broker plugin, bridge | a stale sample, a late disconnect, a rename. No command lost, none twice by one transport, the flag tells the truth |
| Broker plugin (`mqtt/auth.py`) and bridge (`mqtt/bridge.py`) | live sessions by name, the bridge's client | authenticate, connected, disconnected, handle a message, publish, reconnect | registry, publisher, event store | session takeover, half-open sockets |
| Broker process (`mqtt/broker.py`) | the library's | configure, patch | plugin | external |
| Media ingest (`media/pipeline.py`, `http/handlers/upload_file_info.py`) | `.raw`, the friendly tree, media rows, detached tasks | report, locate, decrypt, claim a name, write, mark ready, remove raw | bucket, store | tasks side by side, resends, failures between steps. No footage lost, a ready row plays |
| Stitcher (`media/stitch.py`) | work directory, media rows and files | candidates, join, verify, remove, move, swap, mark | store, ingest | several steps, any of which fails or is the last before a kill |
| Retention (`media/retention.py`) | caps; deletes rows and files | sweep rows, sweep directories | store, ingest, stitcher | rows and files change between selection and deletion |
| Event store (`events/store.py`, `models.py`, `migrations.py`, `ingest.py`) | SQLite | upserts, queries, prunes | everything that reports | order and repetition of events |
| Event decoding (`events/codes.py`, `decode.py`, `normalize.py`) | none | pure | store, bridge | tables |
| Visit sessions (`events/sessions.py`) | none | group events and media into visits | panel | independence of the order; transitive parents |
| Vendor cloud MQTT (`mqtt/upstream.py`) | a client per device, backoff | connect, relay both ways, stop | bridge, panel | reconnect races with configuration changes |
| BLE relay (`mqtt/ble_relay.py`, `devices/ble/*`) | pending requests, BLE devices | send, correlate, poll | bridge | answers out of order, a gateway that changes |
| HTTP server, proxy (`http/server.py`, `proxy.py`, `middleware/*`) | circuit breaker, recorded traffic | local answer or the cloud's | handlers | breaker transitions with requests in flight; commands popped by an answer that is not used |
| Device HTTP handlers (`http/handlers/*`) | through the registry | signup, state report, stubs | registry, delivery | signup is the registry's |
| Bucket, DNS, redaction (`http/bucket.py`, `dns.py`, `redact/*`) | files | store an upload; pure rewriting | ingest | I/O |
| Pets and faces (`ai/pets.py`, `web/api/pets.py`, `http/handlers/pets.py`) | rows of pets with their identities, face photos in the media table and on disk | edit, import, delete, upload, attribute an event | store | two tables and files changed in several steps; history and future agree on whose an identity is |
| Home Assistant side (`ha/*`) | discovery state | publish discovery, states, availability | registry | when to retract, what is retained |
| Panel and hub (`web/*`) | history ring, subscriber queues, log buffer | publish, subscribe, routes | everything | bounded queues |
| Patchers (`patchers/*`, `web/api/patchers.py`) | lock per device, the list of active patches | apply, verify, remove | registry, devices over HTTP | one step of several failing |
| Camera sidecar (`media/go2rtc.py`) | child process, its configuration, backoff | start, restart, stop | panel, registry | restarts against configuration changes |
| Start and stop (`main/*`, `config.py`) | - | wiring, ordered shutdown | all | the order of stops |
| State parsing, payloads, tables (`devices/state_*.py`, `payloads.py`, `defaults.py`) | none | pure | handlers | tables of constants |

`PROJECT.json` lists the same parts with what is modelled of each, and the hazards
with the line where each one bites and the property that would notice.

## 2. Plan

The order follows what a loss would cost: credentials and settings first, then
commands, then footage, then the rest.

| Step | Modules | Composed in |
|---|---|---|
| 1. Registry, its writer and the process around it, implementing an abstract book of credentials | `Registry`, `DeviceBook`, `RegistryProofs` | `MCRegistry`, `MCServices` |
| 2. Router, heartbeat, broker plugin, watchdog, bridge for one device, implementing an abstract mailbox | `CommandDelivery`, `CommandMailbox`, `CommandProofs` | `MCCommandDelivery` |
| 3. Ingest, stitcher, retention and the media table | `MediaLifecycle`, `MediaProofs` | `MCMedia` |
| 4. Reports to rows to cards | `EventCodes`, `Sessions`, `Visits`, `PanelProofs` | `MCStories`, `MCVisits`, `MCHousehold` |
| 5. Pets, their identities and faces | `PetBook`, `PetProofs` | `MCPets`, `MCHousehold` |
| 6. Proxy mode: requests and the cloud's broker | `Redact`, `CloudProxy`, `UpstreamLink`, `ServicesProofs` | `MCServices`, `MCUpstreamStop` |
| 7. Accessories behind a parent | `BleAccessories`, `BleProofs` | `MCServices` |
| 8. Patches, camera sidecar, hub | `Patchers` (proofs in `DeviceProofs`), `Sidecar`, `Hub`, `EventFeed` (in `ServicesProofs`) | `MCServices` |
| 9. Readings, settings and meals of a device | `StateReport` (`DeviceProofs`), `Settings`, `FeedPlan` (`PanelProofs`) | `MCServices`, `MCHousehold` |

All of these are written. `CloudProxy` and `UpstreamLink` take redaction as constants,
which `MCServices` and `MCUpstreamStop` give by `Redact`; `Visits` rests on `Sessions` and
that on `EventCodes`. Components that share no variable are checked in one run, each beside
the others at rest.

Still worth doing: the server-side subscription of a new broker session in `CommandDelivery`,
the one hazard listed that no property covers.

## 3. The modules

### Registry and DeviceBook (`devices/registry.py`, `devices/base.py`, `utils/jsonio.py`, `main/lifecycle.py`)

A device is `[cred, serial, ver]`: the credentials minted for it, whether its serial
is known, and a version that stands for every other field. `mem` is `_devices`, `disk`
the parsed `devices.json`, `dirty` the flag. `flusher` is the flusher task: `idle`
(sleeping), `writing` (awaiting its thread), `wrote` or `failed` (the thread is done,
the task not yet resumed). `text` is what the thread carries; when the task is
cancelled the thread becomes an element of `orphans` and still writes.

| Action | Code |
|---|---|
| `Register`, `Refresh`, `Configure`, `Remove` | `get_or_create`, the handlers that `mark_dirty`, the panel's routes that `save`, `remove` |
| `FlushBegin`, `ThreadReplaces`, `ThreadFails`, `FlushEnd` | `flush()` before its await, the thread, after it |
| `Stop`, `LoopClose`, `Exit`, `OrphanReplaces`, `OrphanFails` | `stop()`, the cancellation of what is left, the interpreter joining its threads |
| `Boot`, `Crash` | `_load()`, a kill |

`os.replace` is atomic, so a kill leaves the old or the new file; only the name is
switched and no action is half done. `raced` and `saveFailed` are history variables: a
thread may have undone a save or may yet do so; a save failed and nothing was written since.

`DeviceBook` is what a device is promised: the credentials it was given stay its own until it is
removed. Its `book` is what a device would be recognised by (`Recognised`): memory while the
process lives, the file when it was killed. Kills and restarts are therefore steps in which the
book must not change, unless one of the two histories excuses it.

### CommandDelivery and CommandMailbox

One device and what the add-on believes of it. The device side (`alive`, `cur`,
`quiet`, `poll`) is external: it holds a session or not, stops polling when it is on
the broker, and samples `iotStatus` when it sends a request, not when the request is
handled. The broker side (`open`, `sname`, `live`) is the broker's sessions, whether
the serial was known when a session was opened (the MQTT name depends on it), and the
plugin's `_live_sessions`. `mqttConnected`, `online` and `queue` are the fields of
`Device`. Time is three facts: the grace period runs (`graced`), the device has been
silent for `offline_timeout` (`stale`), and a sample is in flight (`poll`). Each of
`Authenticate`, `SessionEnds` with `DisconnectHook`, `HandleHeartbeat` with
`NoteIotStatus`, `Watchdog`, `HandleCommand`, `PublishReturns`, `PublishRaises`,
`BridgeConnects`, `BridgeDrops`, `FillSerial` is one handler; `HandleCommand` ends where
the code awaits the publish.

`CommandMailbox` is what the user is promised: a command is held until handed to a
transport, each transport is handed it at most once, both only when a publish failed
in doubt, and only a restart forgets one. The mapping is
`held <- publishing \cup Queued`.

### MediaLifecycle (`media/pipeline.py`, `stitch.py`, `retention.py`, `upload_file_info.py`, the media table)

The chunks of one visit, that is one (device, related_event, category). A file name is
a triple: the second of the chunk, the number `_claim_unique_path` appends, `mp4` or
`ts`. `file` maps each path to the set of chunks in the file, `{}` for a placeholder,
or `NoFile`; `row` and `clipRow` are the media table; `task` the program counters of
the running `process_file_info` calls; `stitch`, `batch`, `joined`, `clip` those of
`stitch_episode`, with `clip` the content of its work file; `sweep`, `expiring` those of
`sweep_category`. Every action is what happens between two awaits. What ffmpeg and
ffprobe say is a choice: any two or more readable chunks may be the ones joined.
Which rows are over a cap is a choice as well.

The pet's name and the event label in a file name are not modelled: the chunks carry
the label of the clip, which is the case in which the clip takes a chunk's name.
History: `shown` (ready once), `expired` (deletion due), `trampled` (lost from a file
to an operation on another file, and which), `stranded` (its file went for a clip
whose row never came), `loose` (seconds of which a name was given up by retention or taken
by a task without a claim: two names of such a second may meet).

### EventCodes, Sessions and Visits (`events/codes.py`, `normalize.py`, `store.py`, `sessions.py`)

`EventCodes` holds the tables: which codes are of which kind, which are details, may
head a card or close something, per category of device, and the sets that the code
derives from all tables merged. `Sessions` is the six passes of `group_sessions()` as pure
operators over the rows of one page, in the code's order. `Visits` is the table of events
(`rows`, the time of each report's row) and what events alone tell of a device (`derived`).
`Receive` is one report with everything its handler does; `Restart` forgets `derived`.
A report is upserted by its uid, so a report that comes again moves its row in time.

### PetBook (`ai/pets.py`, `web/api/pets.py`)

Every call to the store is an await, so each request of the panel (edit, import,
delete, upload, remove a photo) is a sequence of steps that keeps what it read; the
ingestion of an event resolves an identity in one step and stores the row in another.
Files and rows are separate, and a kill may fall between them.

### Redact, CloudProxy and UpstreamLink (`http/redact/*`, `http/proxy.py`, `http/middleware/proxy.py`, `mqtt/upstream.py`)

`CloudProxy` and `UpstreamLink` take redaction as constants with an assumption of what it
does (`RedactionAssumption`, `LinkAssumption`), and the runs give them `Redact`'s operators, of
which TLC evaluates the assumption. `Redact` is the walk over a reply as a tree of objects, lists and strings that hold
JSON, with each rule as the set of keys it overwrites or the node it drops.
`CloudProxy` runs requests through `proxy_middleware()`: `Ask` (the local handler starts),
`Handled`, `Looked` (DNS), `Replied` or `Failed`, `Done`, each the code between two awaits;
the shared session may be replaced and the settings changed in each. `UpstreamLink` is
the supervisor (`sup`), one device's connection task with the credentials it logged in
with, the messages it relays in both directions over the local broker, which carries
them back to it, and the shutdown that cancels and awaits it all.

### BleAccessories (`mqtt/ble_relay.py`, `devices/ble/*`, `web/api/ble.py`, `http/cloud_fetch.py`)

Accessories by id, their settings as the registry holds them (`states`) and as they are
(`actual`, by MAC), relay sessions, readings on their way, the import from the cloud that
registers first and announces later, and what each parent was told of its K3. A reading has
the settings block, the fields of the other frame, or both, and is merged into what is held.

A command of a CTW3 makes a frame of what is held (`Frame`), connects, writes it and records the
one field it was sent for. There are two frames: the settings block (`BlockFields`, cmd 221), which
needs every other field to have been reported, and `ModeFields` (cmd 220), where a mode brings its
own power and suspend and no power means no suspend (`SetsToo`). Of the settings block, the child
lock and the inductive switches, which count as 0 when no block was read, are left out: a reading of
the block has them all. A W5's frame of power and mode is one byte, needs no reading and is not modelled.

### Patchers (`patchers/*`, `web/api/patchers.py`)

An operation takes the device's lock, detects, stages a file, queues the script that
fetches it, waits, takes the file away, and rewrites and uploads the wrapper; until its file is
staged it may give up. The device runs what it was handed in order; scripts may be lost, and one handed over MQTT
overtakes those that wait for a heartbeat.

### Sidecar (`media/go2rtc.py`), Hub and EventFeed (`web/hub.py`)

`Sidecar`: cameras with addresses and streams, probes with a cache, the configuration
rendered and its write, which may fail, the process and what it serves, viewers. `Hub`: the
ring, each page's replay and queue with what it missed, and the bounded tables of devices and of
upstream calls.
`EventFeed` is what a page is promised. It knows no ring, replay or queue: a page is owed the
last events as of its opening and each one after, is shown the first it is owed, and an event may
be kept from it only while it is owed a queue's length of others.

### StateReport (`devices/state_parsers.py`, `consumables.py`, `ha/publisher.py`)

One Wi-Fi device of one of four types. A body is the set of fields it carries with
their values; one field stands for all that are treated alike, so the two parsers are
the same composition of extractors as in the code, in the same order of precedence.
`said` is the history of what the device last said of each key. `connected` is the
publisher's flag, `link` the connection itself.

### Settings (`ha/commands.py`, `ha/command_router.py`, `mqtt/bridge.py`, `devices/payloads.py`)

Four fields of one device: a switch, a bounded number and the pair of the feeder's
surplus, of which an entity shows the level (`surplusControl`) and none the
`surplusStandard` (`Shown`). A change is coerced, checked, stored and sent over MQTT or queued;
the device posts what changed on it, or everything; of a post the add-on stores what is shown
(`SyncSettingsFromDevice`). `DeviceInfo` is the device asking for all its settings. Messages
arrive in order per transport and in any order across transports, or not at all. At registration
the defaults are stored, which the device need not be set to (`Shipped`). `doubtful` is the
history of the fields on which the two sides may have come apart: differing from the start, in a
message that was lost, or, for `surplusStandard`, in commands that crossed; a post or an answer
that has the field takes it out again.

### FeedPlan (`http/handlers/feed.py`, `web/api/schedules.py`)

A feeder with a clock and the plan it fetched last. The stored schedule has a stamp
that says its meals count seconds; the user's editor, the text entity, one-off feeds and
the feeder's own property posts each change it in their way. `want` is the time of day
the user meant.

## 4. The runs

| Run | Checks | Bounds |
|---|---|---|
| `services` | see below; about 289,000 states | see below |
| `registry_signup` | `SignupSurvives` is violated | 2 ids, 2 credentials, 1 change of a device, no failed write |
| `registry_stop` | `StopLosesNothing` is violated | the same |
| `command_delivery` | `TypeOK`, `OnMqttMeansFlag`, `FlagMeansSession`, `FlagComesDown`, `QueueDrains`, `MailboxSpec` | 2 commands, 2 sessions reused for ever, 1 restart |
| `command_picked_up` | `PickedUpEitherWay` is violated | the same |
| `media` | `TypeOK`, `TasksKeepApart`, `FootageKept`, `ReadyRowPlays`, `TimelineKeeps`, `EpisodeSettles` | 3 chunks (2 of one second), 2 numbers, 2 tasks, 3 reports, 1 upset; about 1,471,000 states |
| `media_excluded` | `ExcludedKeepFile` is violated | the same, no upset |
| `media_late` | `SurvivingRowsKeepFiles` is violated | the same, no upset |
| `household` | see below; about 1,193,000 states | see below |
| `pets_own_id` | `HistoryAgrees` is violated | pets may be given another pet's own id |
| `visits_head` | `SummaryHeadsCard` is violated | one meal of two reports, one sent again |
| `upstream_stop` | `ShutdownEnds` is violated | as `link` below |

*How a run holds several components.* `MCServices` extends the registry's, the accessories',
the proxy's, the link's, the hub's, the patchers' and the reports' modules and has an instance
of `Sidecar` and of `Redact`; `MCHousehold` extends those of the pets, the stories of reports,
the timeline, the feeder's plan and the settings. The components of a run share no variable;
`focus` says which of them moves in a behaviour, and the
others are in a state in which no action with fairness is enabled, so that they do not
make a behaviour unfair. A property of one component is therefore checked in all of
that component's behaviours.

`services`:

| Focus | Properties | Bounds and why they are enough |
|---|---|---|
| `registry` | `CleanMeansDurable`, `BookSpec`, `EventuallyWritten` | as `registry_signup`, but with a failed write; the ids are alike, and the first to sign up is `a` |
| `proxy` | `AnswersAreOurs`, `SessionsKept`, `DeadCloudIsCheap`, `AlwaysAnswered` | 2 requests side by side, one endpoint that may go to the cloud and one that may not, 2 client sessions, 1 change among 3 settings (one of which loops back to the add-on), 3 shapes of reply; the breaker's threshold is the code's |
| `link` | `NoEcho`, `LinkFollowsSetting` | 3 toggles, 2 captures of credentials: on, off and on again while a task ends |
| `pairing` | `K3Forgotten` | 2 ids, 2 MACs, 2 parents, 3 operations, no command; those of the first accessory are named first, since they are alike |
| `commands` | `BlocksKept` | one fountain of 2 block fields, 2 commands under way, 3 operations: two in each other's way and a removal, or one and a removal and another id for its MAC; readings have both frames |
| `modes` | `BlocksKept` | one fountain that stays, the 3 fields of its mode, 2 commands, one after the other; readings without a mode or without the block |
| `patch` | `WrapperFilesPresent`, `ActiveMatchesDevice` | 3 patches of different kinds, 2 operations, a queue of 3 |
| `sidecar` | `SidecarSettles` | 2 cameras, 2 addresses, 4 changes of anything |
| `hub` | `EventFeedSpec` | 2 pages, a ring of 3, a replay of 2, queues of 2, 4 events: each limit is passed |
| `reports` | `HeldIsReported`, `HaCatchesUp` | 4 device types, 2 changes of all readings, 1 break, 1 restart; both only before readings change |

`TypesOK` is the type invariant of all of them.

`household`:

| Focus | Properties | Bounds and why they are enough |
|---|---|---|
| `pets` | `HistoryAgrees`, `PhotosInOrder` | 2 requests under way out of 3, 1 report that may come again and again, 3 row ids, 1 foreign identity, 1 photo per pet, 1 kill (in place of the third request). The requests are symmetric |
| `visits` | `CardsComplete`, `VisitsCountedOnce`, `LastSeenAgrees`, `FeedTotals` | 8 stories of up to four reports of two boxes and a feeder in any order, 1 sent again, 1 restart; gaps of 60 and 300 seconds against windows of 120 and 600 |
| `meals` | `PlanComplete`, `MealsOnTime` | a day of 4 ticks, a minute of 2, a week of 2 days, 8 ticks after the first (two days and the start of a third), 2 changes; an editor is opened only while there is a change left |
| `settings` | `SettingsAgree` | 2 changes here, 1 on the device, 1 request for all settings, three of the four in one behaviour; messages may be lost |

*Registry.* Two ids are what one write can carry of the one while it loses the other;
two credentials let an id be removed and sign up again; one failed write can hit a
`save()`, a thread or an orphan. Restarts, stops and kills are not bounded.
`BookSpec` and `CleanMeansDurable` exempt the histories `raced` and `saveFailed`, and
the run `registry_signup` shows why the first is needed. `BookSpec` is the refinement of
`DeviceBook`, over kills and the starts after them; since a kill may come at any moment it
contains `IdentityDurable`, that what was signed up is on disk. `EventuallyWritten` is the
debounced writer's promise.

*Command delivery.* Two sessions are the least with a takeover; ended ones are reused,
so their succession is not bounded. Two commands show one queued and one being
published. `OnMqttMeansFlag` and `FlagMeansSession` say that neither a late disconnect
nor a stale sample takes the flag from a session in use and that it is not left up for
one that is gone, but for a rename; `FlagComesDown` that even then it does not stay up.
`MailboxSpec` checks the refinement.

*Proxy and the cloud's broker.* `AnswersAreOurs`: no command, firmware, address or
identity of the cloud's reaches the device, its refusal never takes the place of the
local answer, commands that the local answer took out of the queue are in the answer that
is sent, and what only the add-on knows is answered by it. `SessionsKept`: a request goes
out through a session that resolves by the server the request was checked against, which
does not lead back to the add-on, and a session nobody uses does not stay open.
`DeadCloudIsCheap`: a cloud that does not answer costs the threshold, less one, and one
timeout for each request under way. `AlwaysAnswered`: each request ends in an answer.
`NoEcho`: nothing that came from the cloud goes back up, and what reaches the local broker
from it holds nothing foreign. `LinkFollowsSetting`: while proxy mode, credentials and the
device stay, a connection is made again and again, whatever was toggled while an earlier
one was ending; once proxy mode is off for good, none is left.

*Accessories and patches.* `BlocksKept` is about frames written whole from what was last
reported. It excuses accessories whose reported settings could not be their own (`mixed`): one whose
commands overlap or are lost, one whose reading was overtaken by a write, an id that was given to
another accessory, a late write of the id that had the MAC before, and one that was sent more than
was recorded of it (a mode's power and suspend, the suspend of a fountain that is off), until a full
reading. It therefore holds for one command at a time; what overlapping commands do is among the
observations of section 5. `K3Forgotten` excuses a K3 that
changed its parent or was announced after its removal (`stray`); `ActiveMatchesDevice` and
`WrapperFilesPresent` uploads that were lost or overtaken (`adrift`, `unsure`).

*Hub and sidecar.* `EventFeedSpec` is the refinement of `EventFeed`, by the order in which a page is
shown events and by which ones it may miss; it contains `PageSeesAll`, that what a page was and
will be shown and what it misses are the events from its replay on. `SidecarSettles` says where the
process ends up once cameras and viewers leave it alone; what holds on the way is proved
(section 6).

*Reports.* `HeldIsReported` needs all three transports and both parsers to agree, per
device type. `HaCatchesUp` is about a link that breaks under a publish or between two.

*Timeline.* `CardsComplete` says that the passes partition the rows of a page, by device,
with pictures on one line; it is checked on the page of all rows and on one that begins in
the middle of an episode.

*Meals and settings.* `PlanComplete`: until the feeder asks again, it holds every feed of
the schedule it asked for and no other. `MealsOnTime` excuses two cases (`intact`): an editor's
copy in minutes, loaded before the conversion and saved with the stamp, so that it is never
converted; and the feeder's own post of a schedule in seconds whose meals all fall before 00:24,
which has no stamp, so that the next `dev_feed_get` multiplies it by 60.
`SettingsAgree` speaks of moments with nothing under way: of a shown field a post or an answer
makes good whatever was lost; `surplusStandard` is the device's unless it is `doubtful`, and only
the answer to `dev_device_info` ends that. Its mutant stores nothing that is posted.

*Media.* Two chunks of one second collide on a name, the third makes a clip of two
with one left out, and an earlier clip of the same visit may exist from the start. One
upset (a failed call, a kill, an upload sent again, a selection of expired media) can
fall anywhere; two numbers are enough for two chunks of one second unless one of them
is reported again, when a third claim waits, so that a longer series of numbers adds no
collision. `TasksKeepApart` is what the reservation of names is for. `FootageKept` says that
footage is lost only where one operation takes the file of another, and names these;
`ReadyRowPlays` relates the table to the disk: a ready row has its chunk in its file, but
while a join replaces it, for every second of which no name was given up, taken without a
claim or robbed (`Spoilt`); `TimelineKeeps` says that a chunk once shown is shown by itself
or by a clip until it expires, across kills, and `EpisodeSettles` that no episode is tried
for ever, unless two of its rows name one file (`NamedTwice`). Deadlock is not checked there:
when the budget of reports is spent the visit is over.

### Fairness

`Registry`: weak fairness of `FlushBegin`, `ThreadReplaces` and `FlushEnd`: the loop
runs its flusher every interval and the system runs the thread. Nothing is assumed of
devices, users, stops and kills.

`CommandDelivery`: weak fairness of handling a request that arrived, of the watchdog's
timer, of the clock (`Silence`), of the end of an awaited publish (it has a timeout),
and of the polling of a device that has power and does not rest; strong fairness of
`GraceEnds`, because requests in flight disable it again and again while the grace
period ends all the same. No session has to end and no device has to connect.

`CloudProxy`: weak fairness of the handler's end, of the name lookup and of the timeout
of a request that was sent, and of a session's close; not of the cloud's reply.
`UpstreamLink`: of the supervisor's passes, of a connection's dial (it ends in either way),
its wait and its end after a cancellation; not of messages. `Sidecar`: of the supervisor's
steps, of a round in which a camera that has a stream answers, of a start that works, of a
probe's expiry and of a viewer's leaving. `StateReport`: of events of the device, each of
which ends in `publish_state()`, and of the publisher's loop, which reconnects for ever.

`MediaLifecycle`: weak fairness of the steps of the stitcher and of those of a sweep
under way: both loops run on timers and catch every exception. Nothing is assumed of
the ingest tasks.

## 5. Findings

1. *`flush()` against `save()`* (`registry_signup`, `devices/registry.py:178`). A flush
   hands older text to its thread; a signup is saved at once; then the thread replaces
   the file with the older text, and nothing is dirty. A kill loses the credentials.
2. *`stop()` against its own flusher's thread* (`registry_stop`,
   `devices/registry.py:196`). Cancelling the task does not cancel the thread, which may
   write after the final save.
3. *A queued command of a resting device* (`command_picked_up`,
   `web/api/_common.py:119`). It is not picked up "either way" on the next poll, since
   such a device does not poll and nothing else drains the queue.
4. *A clip over an excluded chunk* (`media_excluded`, `media/stitch.py:297`). The clip is
   named after the episode's first chunk even when that chunk is left out of the join.
5. *Late chunks of a stitched visit* (`media_late`, `media/stitch.py:435`). Their clip has
   the unique `file_id` of the first one; the row swap fails after their files are gone.

6. *A pet given another pet's own id* (`pets_own_id`, `web/api/pets.py:156`). The history
   moves to the one and future events stay with the other.
7. *The head of a meal* (`visits_head`, `events/sessions.py:301`). A feeder's codes are
   looked up in the litter boxes' table, so a meal's start that is sent again heads the card
   and the completion becomes a step.
8. *Shutdown while a connection is being stopped* (`upstream_stop`,
   `mqtt/upstream.py:320`). `UpstreamMQTT.stop()` takes the supervisor's own cancellation
   for that of the task it awaits; the shutdown waits for ever and registries are not saved.

### Observations

Behaviour met while modelling that no document of the repository contradicts, or that a
property excuses by name. The models contain it where they cover the code.

- *Media.* Retention may free the name of a placeholder whose task still holds the claim, and
  another task may then claim it (`media/retention.py` against `media/pipeline.py:94`). Two
  `.ts` fallbacks of one chunk land on one name. Both need two upsets, so the run does not meet
  them: the proof of `ReadyRowPlays` did.
- *Pets.* Edits that overlap with each other or with a report can leave a history with
  the pet that gave the identity up. A photo uploaded while its pet is being deleted
  outlives it. The Home Assistant entities of a deleted pet stay.
- *Visits.* A report without an episode id is not recognised when it comes again: a feed
  counts twice. A late report of an earlier day empties today's feed totals. The pet of a
  card depends on the order of its linked results.
- *Vendor cloud.* `forward_up` answers with the newest credentials on a connection that
  logged in with older ones (`mqtt/upstream.py:416`). The connection of a removed device
  lives until it drops. A changed DNS setting fails the requests under way, and the breaker
  counts those.
- *Accessories.* `publish_ble_command` returns True although the publish returned False
  (`mqtt/ble_relay.py:105`). Two commands that overlap lose a field. An answer that
  disconnects between a command's connect and its write makes the write go nowhere. A K3
  that changes its parent stays with the old one. An import that fails midway has
  registered what it never announces. A K3 can be announced after its removal. The ids
  chosen by the add-on start at 900001, which is below the eight digits they are said to
  be above. A W5 whose lock was never reported is written as unlocked. A mode of a CTW3 is sent with
  power 1 and suspend 1 and only the mode is recorded (`web/api/ble.py:451`), so a change of suspend
  that follows before the next reading may be sent with the power held from before. Resuming a CTW3
  that is held to be off records suspend 1 while 0 was sent.
- *Patches.* A wrapper left on the heartbeat queue can run after the removal that overtook
  it over MQTT. An upload that nobody confirms has twelve seconds before its file is taken
  away. The list of patches is saved before the upload.
- *Camera sidecar.* A probe that an address change overtakes stores the old address's
  answer for ten minutes.
- *Panel.* The deletion of a device looks for `publisher` and `event_hub`, which the panel
  does not set (it sets `ha_publisher` and `hub`), so discovery is not withdrawn and the hub
  keeps the device's diagnostics (`web/api/devices.py:502`). `api_send_command` does not
  publish the state it changed.
- *Publisher.* A new connection to Home Assistant publishes no Wi-Fi device's state until
  its next event (`ha/publisher.py:193`). A publish that fails while the connection holds
  leaves `_connected` down until the connection drops.
- *Meals.* A copy that the editor loaded before the conversion to seconds is saved with the
  stamp. A schedule that the feeder posts itself is stored as it comes, without the stamp
  (`mqtt/bridge.py:535`): with all its meals before 00:24 it is taken for minutes, although
  `http/handlers/feed.py:62` says that such a schedule "carries the stamp and is left alone".
  `dev_feed_get` over MQTT serves what is stored, not converted. The feeder's own
  `feed` property drops deferred feeds and the stamp. The countdowns of a plan pushed over
  the heartbeat queue are as old as the wait. `api_save_schedule` says that a schedule is
  stored and not pushed, and pushes it.
- *Settings.* A queued change may arrive after a newer one sent over MQTT; the device's post
  then stores the older value, but for `surplusStandard`: no entity shows it, so a posted one is
  never stored (`mqtt/bridge.py:549`), and the add-on and the feeder differ on it until the feeder
  asks `dev_device_info`. `ha/entities/selects.py:40` says that the surplus control is not seeded;
  `devices/defaults.py:135` seeds it.
- *Readings.* An HTTP report without `wifi` clears the signal strength. Two parsers do not
  take the address that every parser is said to take. A fault that ends clears the message
  of another that lasts. The record of an N60 change made here is overwritten by a
  `sprayResetTime` that the state already holds (`devices/consumables.py:58`).

## 6. What is proved

TLAPS proves the following for all values of the constants: any number of devices, chunks,
tasks, requests, pets, accessories, patches, pages and events, and any bounds. The constants'
assumptions are all that is used; each is named at its module's head and evaluated by TLC in the
runs. Every safety invariant of the passing runs is a theorem, and so are the three refinements and
the action property; some theorems state more than a run checks. The exceptions are listed at the end. `PROJECT.json` lists the theorems.

The properties are seldom inductive, so each module strengthens them. Types are part of every
invariant below. The proofs have one lemma or step per action, and under it one per conjunct
that the action can disturb; what several actions share (`save()`, a request's move, a script's
sending, a pass over the cards) has a lemma of its own.

### RegistryProofs

`TypeCorrect`, `SignupIsDurable` (`IdentityDurable`), `CleanIsDurable` (`CleanMeansDurable`).
The properties say nothing of what a thread carries. `IInv` adds `PhaseInv` (where threads can
be in each phase), `CredInv` (without a race every text in flight has the registry's
credentials) and `CleanInv` (what each state of the flusher says of the file when nothing is
dirty).

`ImplementsBook` (`BookSpec`) is the refinement. A sign-up and a removal are the book's entries; no
change of settings, flush, failure or stop shows, since memory's credentials stay and no thread
outlives the process; a kill or a start puts the file in memory's place, where `IdentityDurable` says
that they agree or a history excuses the step.

### CommandProofs

`TypeCorrect`, `SessionKeepsFlag` (`OnMqttMeansFlag`), `FlagIsBacked` (`FlagMeansSession`),
`ImplementsMailbox` (`MailboxSpec`). `IInv` adds `SessionInv` (the session in use is the one the
plugin knows and an old sample is still in the grace period, which is what keeps
`NoteIotStatus` from taking the flag), `NameInv`, and `CopyInv`, which says by where a command is
how often each transport was handed it. The refinement has one lemma per action that moves a
command; every other step stutters.

### MediaProofs

Five theorems from four invariants, over one chain `IInv`, `FInv`, `RInv` and beside it `AInv`.

- `TypeCorrect` and `TimelineIsKept` (`TimelineKeeps`), from `IInv`. What makes the second
  inductive is `SelectInv`: whatever a sweep holds is due, and if it holds the id of the present
  clip it holds the chunks of that clip; ids of clips only grow, so a clip that comes while a
  sweep is under way is in nobody's hands. `ClipInv` says that there is nothing to lose in the
  clip's row when a clip is written into it. `TaskInv`, `PathInv` and `BatchInv` are what the
  types need.
- `FootageIsKept` (`FootageKept`), from `FInv`. `FiledInv` says that what a task has written is
  safe, which is what lets it remove the raw file two awaits later; `FootageInv` that a chunk
  outside the staging directory is in a file, due, or lost in one of the six ways that the model
  writes down.
- `TasksAreKeptApart` (`TasksKeepApart`), from `AInv`. While no clip and no failure has taken a
  name without a claim (`Quiet`), a claimed file is an empty one of one task (`QuietInv`).
- `ReadyRowsPlay` (`ReadyRowPlays`), from `RInv`, the deepest of them. It follows names: the
  name a task has claimed is there and its own (`TasksInv`), a ready row has its chunk in a file
  that no other row names (`RowsInv`), what a join was given is where it was (`EntriesInv`), and
  names that retention has in its hands are of seconds marked `loose` (`NamesInv`). The lemma
  `NobodyCame` covers the steps after which no name has a new user. The proof showed that
  `ReadyRowPlays` had to excuse more than the run had found: see section 5.

The proofs assume that the chunks are positive numbers and 1 a number of a name.

### BleProofs

`TypeCorrect` (which includes that no two accessories share a MAC), `K3IsForgotten`
(`K3Forgotten`), `BlocksAreKept` (`BlocksKept`). `K3Inv` says that what a parent was told is its
K3, and `NotesInv` that what an import has still to announce is paired or froze when it was
removed. `BlocksInv` is about accessories that are not `mixed`: at most one command is under
way, to the MAC of its accessory, and its frame says what the accessory does but for what it sets
(`OneAtATime`); what the registry holds is what the accessory does, but for the setting about to be
recorded (`HeldIsActual`). `FrameIs` is the lemma that a frame which may be sent restates what is
held of everything else.

### PetProofs

`TypeCorrect`, `PhotosAreInOrder` (`PhotosInOrder`), `HistoryIsKept` (`HistoryAgrees`).
`AlbumInv`: a shown photo is there or about to lose its row (`Shown`), uploads have faces of
their own (`UploadsApart`), ids are not reused (`Minted`), and the cap is kept (`Counted`).
`HInv` has what always holds of the book (`Ledger`) and, while no two writers have overlapped,
`Calm`: at most one is under way, each of its steps knows which identities are unsettled
(`Stage`), and all others have one owner who has their events (`Settled`). `HistoryIsKept` has a
hypothesis, that no pet is given another pet's own id; the run `pets_own_id` shows that it is
needed.

### PanelProofs

- *Meals*: `FeedTypeCorrect`, `PlanIsComplete` (`PlanComplete`), `MealsAreOnTime`
  (`MealsOnTime`). `FeedInv` joins `PlanComplete` with `Timely`: an answer is always converted, and
  while no save has stamped minutes and no post has left early seconds unstamped, every stored meal
  means the time it says.
  The arithmetic of days and minutes is in lemmas (`Quotient`, `Grows`, `MinutesInDay`). It
  assumes that `EmptyTick` is less than a day: the feeder is back before a third day begins.
- *Settings*: `SettingsTypeCorrect`, `SettingsDoAgree` (`SettingsAgree`). `SettingsInv` says where
  a value may be that is stored and not on the device, or the other way round. The last post about
  a field that the device owes no post of has it as it is (`Posted`). A field that no post mentions
  is doubtful, or on its way to the device, or the two agree (`Settled`). For a field that is not
  shown, no post counts, and all that is under way agrees with what is stored (`Aligned`). It
  assumes that what a device is shipped with are settings (`ShippedAssumption`).
- *Timeline*: `TimelineTypeCorrect`, `NothingIsLostFromThePage` (`CardsComplete`),
  `VisitsAreCountedOnce` (`VisitsCountedOnce`), `LastSeenIsNewest` (`LastSeenAgrees`),
  `TotalsCountTheDay` (`FeedTotals`). Each of the six passes of `group_sessions()` keeps the
  cards `Filed` (lines are rows of the page, on one card, once, beside rows of its device) and
  loses no row; the passes after the first two only attach rows, which leaves the `Heads` and
  therefore the count alone. `Agrees` and `Running` say what `derived` owes to the rows heard.
  The proofs assume finitely many reports and that an episode's id tells its device.

### ServicesProofs

- *Proxy*: `TheAnswersAreOurs` (`AnswersAreOurs`), `SessionsAreKept` (`SessionsKept`),
  `DeadCloudCostsLittle` (`DeadCloudIsCheap`), `ProxyTypeCorrect`. `AnswersInv` says at each await of a request what it
  may carry (`Ours`). `Cost` counts: while the breaker is closed what was paid is at most its
  failures, and once it is open each request still out may add one.
- *The cloud's broker*: `LinkTypeCorrect`, `NothingEchoes` (`NoEcho`). `LinkInv` says that what is
  on the local broker from the cloud has a topic that only a server publishes on.
- *Hub*: `PageDoesSeeAll` (`PageSeesAll`), `HubKeepsItsLimits`, `ImplementsEventFeed`
  (`EventFeedSpec`). The ring ends at the last event without a gap (`EndsAt`);
  what a page was shown, will be shown and has missed is each event from its replay on, once
  (`Gapless`). `LimitsInv` adds the lengths, and that a table holds a key once, which moving an
  entry to the end must keep (`WithoutIs`). For the refinement a page that is closed is blank
  (`ClosedInv`), what it is owed comes after what it was shown (`OwedInOrder`), the event sent is the
  first of these (`TakenFirst`), and a full queue is as many events owed, none of them twice
  (`NoneTwice`, `FullIsBehind`).
- *Camera sidecar*: `SidecarTypeCorrect`, `ServesWhatItRendered` (`RenderedIsServed`),
  `CutsOffForAReason` (`CutOffForAReason`). `reconcile()` compares with what was rendered last, which
  is right only if the running process serves that, whatever did not start, died or was cancelled in
  between: that is the first, with there being one process at most; and it is why, by the second,
  viewers lose their stream to the supervisor only when what is to be served changed, or at
  shutdown. `SidecarInv` adds that what is on its way to a new process is not empty, in `config`
  before it is written and in `rendered` after.

What redaction does to a tree is a recursive walk. The proofs know of it what `RedactionAssumption`
and `LinkAssumption` say, that the result holds nothing foreign and is no refusal if the reply was
none; TLC evaluates both with `Redact` for the replies of the runs.

### DeviceProofs

- *Patches*: `FilesAreThere` (`WrapperFilesPresent`), `ListIsTrue` (`ActiveMatchesDevice`),
  `PatchTypeCorrect`.
  `FilesInv` follows scripts from the moment they are sent: a patch that the wrapper names, will
  name or that the panel lists has its file on the device or on the way, and where a script
  deletes it an upload comes after (`AllBacked`); an operation that uploaded finds its file when
  it activates (`AllReady`); one operation holds the lock (`OneHolds`). `ListInv` takes what was
  handed over and what is queued as one list, of which the last script about the wrapper
  decides.
- *Reports*: `ReportTypeCorrect`, `HeldAsReported` (`HeldIsReported`). `ReportInv`: what is held is
  what was said last (`Mirror`), and the box's time of replacement never goes back (`StampInv`).
  Each extractor of the parsers has a lemma that what it writes is what the body says (`Truly`),
  and the composition of a type's extractors one that every key the body speaks of is written.

### Only model-checked

- All liveness (`EventuallyWritten`, `FlagComesDown`, `QueueDrains`, `EpisodeSettles`,
  `AlwaysAnswered`, `LinkFollowsSetting`, `SidecarSettles`, `HaCatchesUp`): fairness and ENABLED
  are beyond the prover.
- `TypesOK` of `MCServices` and of `MCHousehold` as such: they join the types of the components
  of a run, and `MCServices` uses `Redact`, whose recursion the prover cannot take. Each
  component's part is a theorem, or a conjunct of an invariant that is proved.
- What `Redact` makes of every tree: it would need induction over data.

## 7. What is not modelled

- The broker's subscription table: a publish that returns counts as handed over, though
  the server-side subscription of a session that has just connected may not exist yet
  (`mqtt/auth.py:210`). The check of a client's name and password.
- Several devices in one delivery model: queue and flag belong to a device, and the
  handlers touch one device at a time.
- Migrations of the database, which run once before anything else; the queries of
  exports and statistics; the prunes of events and logs.
- Labels, texts and the repair of malformed JSON in `events/decode.py`; Home Assistant's
  discovery payloads, entity tables and buttons; payloads built from constants; the
  panel's rendering: what could be wrong is a constant or a layout, which a model would
  repeat.
- The bytes of an accessory's frames and the timing of its polls: a frame is its fields,
  a poll may come at any time. A W5's power and mode, and the reset of a filter.
- Of a state report, `box` (`devices/state_parsers.py:643`): it is 0 in every capture and the error's
  flag for a full box overrules it. In `flush()`, an exception of the JSON encoder
  (`devices/registry.py:170`): what a registry holds can be encoded.
- The text of the scripts that patch a device: a script does what it is for, is lost, or
  runs late.
- The wire format of DNS and of the bucket's requests, TLS, the routing table, the
  handlers with fixed answers, sounds, talk and time zones.
- Numbers of bytes, caps and dates in retention; the decryption of an upload; images,
  which take the path of a video without the remux.
- The front end, the Nix expressions, image scripts, workflows and container tests.
