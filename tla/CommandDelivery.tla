-------------------------- MODULE CommandDelivery --------------------------
(***************************************************************************)
(* How a command for one device reaches it: over MQTT while the flag       *)
(* mqtt_connected is up, on the answer to its next HTTP heartbeat          *)
(* otherwise.  The flag is raised by the broker's authenticate hook        *)
(* (mqtt/auth.py) and taken down by its disconnect hook, by a heartbeat    *)
(* that says the device has no session (http/handlers/heartbeat.py) and by *)
(* the availability watchdog (ha/publisher.py).  ha/command_router.py      *)
(* reads it, and so does the panel (web/api/_common.py).                   *)
(*                                                                         *)
(* The device is external: it opens sessions, drops them with or without   *)
(* the broker noticing, and stops polling once it is on the broker         *)
(* (patchers/common.py 137-141).  Time is kept as three facts: a poll      *)
(* carries a sample of the device's session, the grace period after a      *)
(* CONNECT runs, and the device has been silent for offline_timeout.       *)
(***************************************************************************)
EXTENDS Naturals, Sequences, FiniteSets

CONSTANTS
  Commands,   \* the commands that may be accepted
  Sessions,   \* the broker's session objects, reused once they are forgotten
  NoSession,
  MaxRestart  \* how often the add-on restarts

ASSUME SessionsAssumption == NoSession \notin Sessions /\ MaxRestart \in Nat

VARIABLES
  \* the device
  alive,      \* it has power and a network
  cur,        \* the session it holds
  quiet,      \* it has stopped polling: it is on the broker
  poll,       \* its heartbeat request in flight, with the iotStatus sampled
  \* the broker and its plugin
  open,       \* sessions the broker has not torn down
  sname,      \* was the serial known, when a session was opened?
  live,       \* _live_sessions of the device
  \* devices.base.Device
  serial,     \* is the serial known?  The MQTT name depends on it
  mqttConnected,
  online,
  graced,     \* less than IOT_STATUS_GRACE since mqtt_connected_at
  stale,      \* nothing heard of it for offline_timeout
  queue,      \* command_queue
  \* the bridge and the commands
  bridgeUp,   \* MQTTBridge._client is set
  publishing, \* commands whose publish is awaited
  seen,       \* history: commands accepted
  sent,       \* history: how often a transport was handed each command
  restarts

device == <<alive, cur, quiet, poll>>
broker == <<open, sname, live>>
flags == <<mqttConnected, online, graced, stale>>
commands == <<queue, publishing, seen, sent>>
vars == <<device, broker, serial, flags, bridgeUp, commands, restarts>>

-----------------------------------------------------------------------------
Transports == {"mqtt", "http"}
Queued == {queue[k] : k \in 1..Len(queue)}

TypeOK ==
  /\ alive \in BOOLEAN
  /\ cur \in Sessions \cup {NoSession}
  /\ quiet \in BOOLEAN
  /\ poll \in {"none", "on", "off"}
  /\ open \subseteq Sessions
  /\ sname \in [Sessions -> BOOLEAN]
  /\ live \in Sessions \cup {NoSession}
  /\ {serial, mqttConnected, online, graced, stale, bridgeUp} \subseteq BOOLEAN
  /\ queue \in Seq(Commands)
  /\ publishing \subseteq Commands
  /\ seen \subseteq Commands
  /\ sent \in [Commands -> [Transports -> Nat]]
  /\ restarts \in Nat

Init ==
  /\ alive = TRUE
  /\ cur = NoSession
  /\ quiet = FALSE
  /\ poll = "none"
  /\ open = {}
  /\ sname = [s \in Sessions |-> FALSE]
  /\ live = NoSession
  /\ serial = FALSE
  /\ mqttConnected = FALSE
  /\ online = FALSE
  /\ graced = FALSE
  /\ stale = FALSE
  /\ bridgeUp = FALSE
  /\ queue = <<>>
  /\ publishing = {}
  /\ seen = {}
  /\ sent = [c \in Commands |-> [t \in Transports |-> 0]]
  /\ restarts = 0

-----------------------------------------------------------------------------
(* The broker's plugin                                                     *)

\* authenticate() and _mark_mqtt_connected(): the device connects with the
\* name it was last told.  An older session may still be in the broker.
Authenticate(s) ==
  /\ alive /\ cur = NoSession
  /\ s \notin open /\ live # s
  /\ cur' = s
  /\ open' = open \cup {s}
  /\ sname' = [sname EXCEPT ![s] = serial]
  /\ live' = s
  /\ mqttConnected' = TRUE
  /\ online' = TRUE
  /\ graced' = TRUE
  /\ stale' = FALSE
  /\ UNCHANGED <<alive, quiet, poll, serial, bridgeUp, commands, restarts>>

\* Mutant of DisconnectHook: the flag stays while any session is left.
DisconnectHookAnySession(s) ==
  IF sname[s] = serial /\ mqttConnected /\ open \subseteq {s}
  THEN live' = NoSession /\ mqttConnected' = FALSE
  ELSE UNCHANGED <<live, mqttConnected>>

\* on_broker_client_disconnected(): the device is found by the name in the
\* client id, and only the session last accepted takes the flag down.
DisconnectHook(s) ==
  IF sname[s] = serial /\ mqttConnected /\ live \in {s, NoSession}
  THEN live' = NoSession /\ mqttConnected' = FALSE
  ELSE UNCHANGED <<live, mqttConnected>>

\* The broker tears a session down: the device closed it, it broke, another
\* one took it over, or its keep-alive expired.
SessionEnds(s) ==
  /\ s \in open
  /\ open' = open \ {s}
  /\ IF cur = s
     THEN cur' = NoSession /\ quiet' = FALSE
     ELSE UNCHANGED <<cur, quiet>>
  /\ DisconnectHook(s)
  /\ UNCHANGED <<alive, poll, sname, serial, online, graced, stale, bridgeUp,
                 commands, restarts>>

\* A publish of the device reaches the bridge: _handle_message() finds it by
\* the name in the topic.
DevicePublishes ==
  /\ cur \in open
  /\ bridgeUp /\ sname[cur] = serial
  /\ online' = TRUE
  /\ stale' = FALSE
  /\ UNCHANGED <<device, broker, serial, mqttConnected, graced, bridgeUp,
                 commands, restarts>>

\* get_or_create() learns the serial number and renames the device.
FillSerial ==
  /\ alive /\ ~serial
  /\ serial' = TRUE
  /\ stale' = FALSE
  /\ UNCHANGED <<device, broker, mqttConnected, online, graced, bridgeUp,
                 commands, restarts>>

-----------------------------------------------------------------------------
(* The heartbeat and the watchdog                                          *)

\* The device samples its session and sends a request.
PollSent ==
  /\ alive /\ ~quiet /\ poll = "none"
  /\ poll' = IF cur = NoSession THEN "off" ELSE "on"
  /\ UNCHANGED <<alive, cur, quiet, broker, serial, flags, bridgeUp, commands,
                 restarts>>

\* Mutant of NoteIotStatus: a sample from before the CONNECT is believed.
NoteIotStatusUngraced == mqttConnected' = (mqttConnected /\ poll = "on")

\* note_iot_status().
NoteIotStatus ==
  mqttConnected' = (mqttConnected /\ (poll = "on" \/ graced))

\* Mutant of HandleHeartbeat: a device with the flag up is given the idle answer.
HandleHeartbeatIdleOnMqtt ==
  /\ poll # "none"
  /\ poll' = "none"
  /\ online' = TRUE
  /\ stale' = FALSE
  /\ IF mqttConnected
     THEN UNCHANGED <<mqttConnected, queue, sent>>
     ELSE /\ NoteIotStatus
          /\ queue' = <<>>
          /\ sent' = [c \in Commands |->
               IF c \in Queued THEN [sent[c] EXCEPT !["http"] = @ + 1] ELSE sent[c]]
  /\ UNCHANGED <<alive, cur, quiet, broker, serial, graced, bridgeUp, publishing,
                 seen, restarts>>

\* handle_heartbeat(): no await between the sample and the answer, so the
\* whole queue leaves with it.
HandleHeartbeat ==
  /\ poll # "none"
  /\ poll' = "none"
  /\ online' = TRUE
  /\ stale' = FALSE
  /\ NoteIotStatus
  /\ queue' = <<>>
  /\ sent' = [c \in Commands |->
                IF c \in Queued THEN [sent[c] EXCEPT !["http"] = @ + 1] ELSE sent[c]]
  /\ UNCHANGED <<alive, cur, quiet, broker, serial, graced, bridgeUp, publishing,
                 seen, restarts>>

\* availability_watchdog().
Watchdog ==
  /\ online /\ stale
  /\ online' = FALSE
  /\ mqttConnected' = FALSE
  /\ UNCHANGED <<device, broker, serial, graced, stale, bridgeUp, commands,
                 restarts>>

-----------------------------------------------------------------------------
(* Commands                                                                *)

\* handle_command(), up to the await of the publish: publish_to_device()
\* raises at once without a client, and the command goes to the queue.
HandleCommand(c) ==
  /\ c \notin seen
  /\ seen' = seen \cup {c}
  /\ IF mqttConnected /\ bridgeUp
     THEN publishing' = publishing \cup {c} /\ UNCHANGED queue
     ELSE queue' = Append(queue, c) /\ UNCHANGED publishing
  /\ UNCHANGED <<device, broker, serial, flags, bridgeUp, sent, restarts>>

PublishReturns(c) ==
  /\ c \in publishing /\ bridgeUp
  /\ publishing' = publishing \ {c}
  /\ sent' = [sent EXCEPT ![c]["mqtt"] = @ + 1]
  /\ UNCHANGED <<device, broker, serial, flags, bridgeUp, queue, seen, restarts>>

\* Mutant of PublishRaises: the failure is logged and the command forgotten.
PublishRaisesDropped(c) ==
  /\ c \in publishing
  /\ publishing' = publishing \ {c}
  /\ \/ sent' = [sent EXCEPT ![c]["mqtt"] = @ + 1]
     \/ UNCHANGED sent
  /\ UNCHANGED <<device, broker, serial, flags, bridgeUp, queue, seen, restarts>>

\* Mutant of PublishRaises: the command is wrapped once more on its way.
PublishRaisesWrapped(c) ==
  /\ c \in publishing
  /\ publishing' = publishing \ {c}
  /\ queue' = Append(queue, <<c>>)
  /\ UNCHANGED <<device, broker, serial, flags, bridgeUp, sent, seen, restarts>>

\* The publish raises, on a lost link or a timeout: the frame may have left
\* all the same.
PublishRaises(c) ==
  /\ c \in publishing
  /\ publishing' = publishing \ {c}
  /\ queue' = Append(queue, c)
  /\ \/ sent' = [sent EXCEPT ![c]["mqtt"] = @ + 1]
     \/ UNCHANGED sent
  /\ UNCHANGED <<device, broker, serial, flags, bridgeUp, seen, restarts>>

\* MQTTBridge.start(): the reconnect waits longer than a publish on the lost
\* client takes to raise.
BridgeConnects ==
  /\ ~bridgeUp /\ publishing = {}
  /\ bridgeUp' = TRUE
  /\ UNCHANGED <<device, broker, serial, flags, commands, restarts>>

BridgeDrops ==
  /\ bridgeUp
  /\ bridgeUp' = FALSE
  /\ UNCHANGED <<device, broker, serial, flags, commands, restarts>>

\* A new process: neither the queue nor the flags are in devices.json.
Restart ==
  /\ restarts < MaxRestart
  /\ restarts' = restarts + 1
  /\ cur' = NoSession
  /\ quiet' = FALSE
  /\ poll' = "none"
  /\ open' = {}
  /\ live' = NoSession
  /\ mqttConnected' = FALSE
  /\ online' = FALSE
  /\ graced' = FALSE
  /\ stale' = FALSE
  /\ bridgeUp' = FALSE
  /\ queue' = <<>>
  /\ publishing' = {}
  /\ UNCHANGED <<alive, sname, serial, seen, sent>>

-----------------------------------------------------------------------------
(* The device and the clock                                                *)

\* On the broker for some 40 seconds, the device stops polling.
FallsQuiet ==
  /\ cur # NoSession /\ ~quiet
  /\ quiet' = TRUE
  /\ UNCHANGED <<alive, cur, poll, broker, serial, flags, bridgeUp, commands,
                 restarts>>

\* It loses power or its network: the broker keeps a half-open session.
PowerOff ==
  /\ alive
  /\ alive' = FALSE
  /\ cur' = NoSession
  /\ quiet' = FALSE
  /\ UNCHANGED <<poll, broker, serial, flags, bridgeUp, commands, restarts>>

PowerOn ==
  /\ ~alive
  /\ alive' = TRUE
  /\ UNCHANGED <<cur, quiet, poll, broker, serial, flags, bridgeUp, commands,
                 restarts>>

\* No request is in flight as long as the grace period (heartbeat.py 162-168).
GraceEnds ==
  /\ graced /\ poll # "off"
  /\ graced' = FALSE
  /\ UNCHANGED <<device, broker, serial, mqttConnected, online, stale, bridgeUp,
                 commands, restarts>>

\* offline_timeout passes without contact.  A device that holds the session
\* the plugin knows sends a packet within that time, if only a PINGREQ, and
\* on_mqtt_packet_received() stamps it.
Silence ==
  /\ ~stale /\ ~(cur # NoSession /\ live = cur)
  /\ stale' = TRUE
  /\ UNCHANGED <<device, broker, serial, mqttConnected, online, graced, bridgeUp,
                 commands, restarts>>

Next ==
  \/ \E s \in Sessions : Authenticate(s) \/ SessionEnds(s)
  \/ \E c \in Commands : HandleCommand(c) \/ PublishReturns(c) \/ PublishRaises(c)
  \/ DevicePublishes \/ FillSerial
  \/ PollSent \/ HandleHeartbeat \/ Watchdog
  \/ BridgeConnects \/ BridgeDrops \/ Restart
  \/ FallsQuiet \/ PowerOff \/ PowerOn \/ GraceEnds \/ Silence

\* The server handles what arrived and its timers run (the grace period ends
\* although requests come and go); a device that has power and does not rest
\* on the broker keeps polling.  No session has to end, no device has to
\* connect, and nobody has to send a command.
Fairness ==
  /\ WF_vars(HandleHeartbeat) /\ WF_vars(Watchdog)
  /\ SF_vars(GraceEnds) /\ WF_vars(Silence)
  /\ WF_vars(PollSent)
  /\ \A c \in Commands : WF_vars(PublishReturns(c) \/ PublishRaises(c))

Spec == Init /\ [][Next]_vars
FairSpec == Spec /\ Fairness

-----------------------------------------------------------------------------
(* Properties                                                              *)

\* A device that holds a session has its commands sent over MQTT: no late end
\* of an older session, no heartbeat sampled before the CONNECT and no
\* watchdog takes the flag of a session in use down (auth.py 365-372,
\* base.py 176-182, auth.py 297-306).
OnMqttMeansFlag == cur # NoSession => mqttConnected

\* The flag stands for a session the broker has: one it has torn down leaves
\* the flag up only when the device was renamed during it.
FlagMeansSession ==
  mqttConnected => live \in open \/ (live \in Sessions /\ sname[live] # serial)

\* A flag that stands for nothing comes down: whichever way the session was
\* lost (the hook, a half-open socket, a rename, a power cut), a heartbeat or
\* the watchdog clears it, unless the device opens another session.
FlagComesDown == (mqttConnected /\ cur = NoSession) ~> (~mqttConnected \/ cur # NoSession)

\* A queued command leaves with a heartbeat, as long as the device has power
\* and stays off the broker.
QueueDrains ==
  \A c \in Commands :
    c \in Queued ~> (c \notin Queued \/ ~alive \/ cur # NoSession)

\* The system keeps the promise of the mailbox.
Mailbox == INSTANCE CommandMailbox WITH held <- publishing \cup Queued
MailboxSpec == Mailbox!Spec

\* A command whose publish failed is picked up with the next poll either way.
\* (Docstring of _deliver(), web/api/_common.py 102-103; heartbeat.py 191-192
\* calls the queue "the path that always works".)
PickedUpEitherWay ==
  \A c \in Commands : c \in Queued ~> (c \notin Queued \/ ~alive)
=============================================================================
