---------------------------- MODULE UpstreamLink ----------------------------
(***************************************************************************)
(* Proxy mode's second half: one device's connection to the real cloud's   *)
(* broker, kept up by a supervisor that follows the panel's setting, the   *)
(* messages relayed both ways over the local broker, and the shutdown that *)
(* has to end it all.  A message is a topic's shape, where it came from    *)
(* and a JSON tree; the local broker carries one message at a time.        *)
(***************************************************************************)
EXTENDS Naturals

CONSTANTS
  CloudBodies,        \* what messages of the cloud may hold, as trees
  DeviceBody,         \* what the device's messages hold
  Policy,             \* the redaction policy
  CleanBody(_, _),    \* redact_mqtt(): what it leaves of a message's tree
  ForeignBody(_, _),  \* a tree holds what the policy keeps out
  MaxToggles,         \* changes of the setting and of the registry
  MaxCreds            \* times the cloud's credentials are captured

\* What the module assumes of its constants.
LinkAssumption ==
  /\ MaxToggles \in Nat /\ MaxCreds \in Nat \ {0}
  /\ \A body \in CloudBodies : ~ForeignBody(CleanBody(body, Policy), Policy)

VARIABLES
  on, toggles,     \* proxy mode and its MQTT half are wanted
  version,       \* the captured credentials, 0 for none
  known,         \* the registry has the device
  sup,           \* the supervisor: "asleep", "stopping" (awaits a task), "gone"
  task,          \* [state, creds]: the connection's task
  tracked,       \* the task is in _tasks
  client,        \* the connection is in _clients
  shutdown,      \* "no", "asked", "stopped", "done"
  bus,           \* the message on the local broker, or NoMessage
  out            \* where the last message relayed to the cloud came from

linkVars == <<on, toggles, version, known, sup, task, tracked, client, shutdown, bus, out>>

NoTask == [state |-> "none", creds |-> 0]
NoMessage == [shape |-> "none"]

\* Topics by their shape.  parse_topic() knows the first six.
Parsed == {"event", "service", "service_reply", "user_get", "ota_inform", "ota_upgrade"}
Shapes == Parsed \cup {"post_reply", "rrpc"}

\* What a server publishes on; a reply travels the other way.
IsServerPublished(shape) == shape \in {"service", "user_get", "ota_upgrade"}
\* What a device originates and may go up.
IsFromDevice(shape) == shape \in {"event", "ota_inform"}

LinkInit ==
  /\ on \in BOOLEAN /\ toggles = 0 /\ version \in {0, 1} /\ known = TRUE
  /\ sup = "asleep" /\ task = NoTask /\ tracked = FALSE /\ client = FALSE
  /\ shutdown = "no" /\ bus = NoMessage /\ out = "none"

-----------------------------------------------------------------------------
(* The supervisor.                                                          *)

Finished == task.state \in {"none", "done"}
CancelTask == IF Finished THEN NoTask ELSE [task EXCEPT !.state = "ending"]

\* Every connection is dropped, and the supervisor waits until they ended.
StopAll ==
  /\ tracked' = FALSE
  /\ task' = IF tracked THEN CancelTask ELSE task

\* A task that ended by itself is taken out of _tasks at the next pass.
NeverSwept == FALSE
Swept == tracked /\ task.state = "done"

StartWanted ==
  LET kept == tracked /\ ~Swept
  IN IF ~kept /\ version > 0 /\ known
     THEN tracked' = TRUE /\ task' = [state |-> "new", creds |-> 0]
     ELSE tracked' = kept /\ task' = IF kept THEN task ELSE NoTask

\* reconcile(): every five seconds.
Reconcile ==
  /\ sup = "asleep"
  /\ IF ~on THEN /\ StopAll
                 /\ sup' = IF tracked /\ ~Finished THEN "stopping" ELSE "asleep"
            ELSE StartWanted /\ UNCHANGED sup
  /\ UNCHANGED <<on, toggles, version, known, client, shutdown, bus, out>>

\* The task stop() awaited has ended: the supervisor goes back to its loop.
\* This is so as well when the supervisor itself was cancelled meanwhile: the
\* handler around the await takes either cancellation for the task's.
SupStopped ==
  /\ sup = "stopping" /\ Finished /\ sup' = "asleep"
  /\ UNCHANGED <<on, toggles, version, known, task, tracked, client, shutdown, bus, out>>

-----------------------------------------------------------------------------
(* The connection's task.                                                   *)

TaskLeft == <<on, toggles, version, known, sup, tracked, shutdown, bus, out>>

\* The loop's head: credentials and device are looked up afresh.
TaskDials ==
  /\ task.state = "new"
  /\ task' = IF version > 0 /\ known THEN [state |-> "dialing", creds |-> version]
             ELSE IF tracked THEN [state |-> "done", creds |-> 0] ELSE NoTask
  /\ UNCHANGED client /\ UNCHANGED TaskLeft

DialEnds(ok) ==
  /\ task.state = "dialing"
  /\ task' = [task EXCEPT !.state = IF ok THEN "up" ELSE "waiting"]
  /\ client' = ok
  /\ UNCHANGED TaskLeft

\* The connection drops, or a relayed message fails to publish.
Drop ==
  /\ task.state = "up" /\ task' = [task EXCEPT !.state = "waiting"] /\ client' = FALSE
  /\ UNCHANGED TaskLeft

\* Ten seconds later.
WaitOver ==
  /\ task.state = "waiting" /\ task' = [state |-> "new", creds |-> 0]
  /\ UNCHANGED client /\ UNCHANGED TaskLeft

\* A cancelled task has disconnected and left.
Ended ==
  /\ task.state = "ending" /\ task' = NoTask /\ client' = FALSE
  /\ UNCHANGED TaskLeft

-----------------------------------------------------------------------------
(* Messages.                                                                *)

BusLeft == <<on, toggles, version, known, sup, task, tracked, client, shutdown>>

Relayable(shape) == shape \in Parsed /\ shape # "ota_upgrade"
PassesDown(shape) == Relayable(shape) /\ IsServerPublished(shape)

\* The cloud sends a message.  Firmware is blocked, anything but a server's
\* own topic refused, the rest redacted and published on the local broker,
\* unless the bridge has no connection to it.
FromCloud(shape, body) ==
  /\ task.state = "up" /\ bus = NoMessage /\ PassesDown(shape)
  /\ bus' = [shape |-> shape, origin |-> "cloud", body |-> CleanBody(body, Policy)]
  /\ UNCHANGED out /\ UNCHANGED BusLeft

\* The device publishes.
FromDevice(shape) ==
  /\ bus = NoMessage /\ shape \in {"event", "service_reply", "ota_inform"}
  /\ bus' = [shape |-> shape, origin |-> "device", body |-> DeviceBody]
  /\ UNCHANGED out /\ UNCHANGED BusLeft

\* What the bridge hears of every message on the local broker: a server's own
\* frame comes back to it and is dropped; what a device originates goes up.
BridgeHears ==
  /\ bus # NoMessage /\ bus' = NoMessage
  /\ out' = IF ~IsServerPublished(bus.shape) /\ known /\ client /\ version > 0
               /\ IsFromDevice(bus.shape)
            THEN bus.origin ELSE out
  /\ UNCHANGED BusLeft

-----------------------------------------------------------------------------
(* The panel, the HTTP proxy, and the end.                                  *)

Edit ==
  /\ toggles < MaxToggles /\ toggles' = toggles + 1
  /\ \/ on' = ~on /\ UNCHANGED known
     \/ known' = ~known /\ UNCHANGED on
  /\ UNCHANGED <<version, sup, task, tracked, client, shutdown, bus, out>>

\* put(): a proxied reply brought the device's credentials.
Captured ==
  /\ version < MaxCreds /\ version' = version + 1
  /\ UNCHANGED <<on, toggles, known, sup, task, tracked, client, shutdown, bus, out>>

\* _stop_tasks() cancels the supervisor, once.  One that awaits a task passes
\* the cancellation on to it.
ShutdownAsked ==
  /\ shutdown = "no" /\ shutdown' = "asked"
  /\ sup' = IF sup = "asleep" THEN "gone" ELSE sup
  /\ UNCHANGED <<on, toggles, version, known, task, tracked, client, bus, out>>

\* The supervisor was awaited: the connections are stopped.
LinksStop ==
  /\ shutdown = "asked" /\ sup = "gone"
  /\ shutdown' = "stopped" /\ StopAll
  /\ UNCHANGED <<on, toggles, version, known, sup, client, bus, out>>

\* The connections have ended: the rest of cleanup_background() runs, down to
\* the last write of the registries.
CleanupEnds ==
  /\ shutdown = "stopped" /\ Finished /\ shutdown' = "done"
  /\ UNCHANGED <<on, toggles, version, known, sup, task, tracked, client, bus, out>>

LinkNext ==
  \/ Reconcile \/ SupStopped \/ TaskDials \/ DialEnds(TRUE) \/ DialEnds(FALSE)
  \/ Drop \/ WaitOver \/ Ended
  \/ \E shape \in Shapes, body \in CloudBodies : FromCloud(shape, body)
  \/ \E shape \in Shapes : FromDevice(shape)
  \/ BridgeHears \/ Edit \/ Captured \/ ShutdownAsked \/ LinksStop \/ CleanupEnds

\* Tasks that can go on do, dialling ends one way or the other, and a backoff
\* is over some time.
LinkFairness ==
  /\ WF_linkVars(Reconcile) /\ WF_linkVars(SupStopped) /\ WF_linkVars(TaskDials)
  /\ WF_linkVars(DialEnds(TRUE) \/ DialEnds(FALSE)) /\ WF_linkVars(WaitOver)
  /\ WF_linkVars(Ended) /\ WF_linkVars(LinksStop) /\ WF_linkVars(CleanupEnds)

LinkSpec == LinkInit /\ [][LinkNext]_linkVars /\ LinkFairness

-----------------------------------------------------------------------------

LinkTypeOK ==
  /\ on \in BOOLEAN /\ toggles \in 0..MaxToggles /\ version \in 0..MaxCreds /\ known \in BOOLEAN
  /\ sup \in {"asleep", "stopping", "gone"} /\ tracked \in BOOLEAN /\ client \in BOOLEAN
  /\ task \in [state : {"none", "new", "dialing", "up", "waiting", "ending", "done"},
               creds : 0..MaxCreds]
  /\ shutdown \in {"no", "asked", "stopped", "done"}
  /\ bus.shape \in Shapes \cup {"none"} /\ out \in {"none", "device", "cloud"}

(* What the cloud said never goes back up to it, although the bridge hears   *)
(* its own publishes and tells nobody's apart; and what reaches the local    *)
(* broker from the cloud holds no shell command, firmware or address of the  *)
(* cloud's and is no offer of firmware.                                      *)
NoEcho ==
  /\ out # "cloud"
  /\ bus # NoMessage /\ bus.origin = "cloud" =>
       bus.shape # "ota_upgrade" /\ ~ForeignBody(bus.body, Policy)

Connecting == task.state \in {"new", "dialing", "up", "waiting"}

(* The connection follows the setting whatever happened before: while proxy  *)
(* mode, credentials and the device stay, a connection is made again and     *)
(* again; once proxy mode stays off, no connection is left.                  *)
LinkFollowsSetting ==
  /\ <>[](on /\ known /\ version > 0 /\ shutdown = "no") => []<>Connecting
  /\ <>[](~on) => <>[](task.state = "none" /\ ~client)

(* Shutdown goes through: registries are written after the connections were  *)
(* dropped, so a step that waits for ever keeps them from being written.     *)
ShutdownEnds == shutdown = "asked" ~> shutdown = "done"
=============================================================================
