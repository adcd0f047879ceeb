--------------------------- MODULE CommandProofs ---------------------------
(***************************************************************************)
(* The safety of CommandDelivery for any commands and sessions: what the   *)
(* flag mqtt_connected says about the device's session, and that the       *)
(* system implements the mailbox, step by step.                            *)
(***************************************************************************)
EXTENDS CommandDelivery, TLAPS

\* A session in use is the one the plugin knows, it has the flag, the device
\* is not silent in it, and a sample taken before it is still in the grace
\* period.
SessionInv ==
  cur # NoSession =>
    /\ cur \in open /\ live = cur
    /\ mqttConnected /\ ~stale
    /\ poll = "off" => graced

\* No session was opened under a name the device has not had yet.
NameInv == \A s \in Sessions : sname[s] => serial

\* Where a command is says how often each transport was handed it.
CopyInv ==
  /\ \A c \in Commands : c \notin seen =>
       c \notin publishing /\ c \notin Queued /\ sent[c] = [t \in Transports |-> 0]
  /\ \A c \in publishing : c \notin Queued /\ sent[c] = [t \in Transports |-> 0]
  /\ \A c \in Queued : sent[c]["http"] = 0

IInv == TypeOK /\ SessionInv /\ NameInv /\ FlagMeansSession /\ CopyInv

-----------------------------------------------------------------------------
(* Lemmas about the queue                                                  *)

LEMMA QueuedInCommands == TypeOK => Queued \subseteq Commands
BY DEF TypeOK, Queued

LEMMA AppendQueued ==
  ASSUME TypeOK, NEW c \in Commands, queue' = Append(queue, c)
  PROVE  queue' \in Seq(Commands) /\ Queued' = Queued \cup {c}
<1>1. queue \in Seq(Commands) /\ queue' \in Seq(Commands) /\ Len(queue') = Len(queue) + 1
  BY DEF TypeOK
<1>2. \A k \in 1..Len(queue) : queue'[k] = queue[k]
  BY <1>1
<1>3. queue'[Len(queue) + 1] = c
  BY <1>1
<1>4. Len(queue) \in Nat
  BY <1>1
<1>5. 1..Len(queue') = (1..Len(queue)) \cup {Len(queue) + 1}
  BY <1>1, <1>4
<1> QED BY <1>1, <1>2, <1>3, <1>5 DEF Queued

LEMMA EmptyQueue == queue' = <<>> => Queued' = {} /\ queue' \in Seq(Commands)
BY DEF Queued

-----------------------------------------------------------------------------
(* The invariant, action by action: types, session, flag, copies           *)

LEMMA InitInv == Init => IInv
<1> SUFFICES ASSUME Init PROVE IInv
  OBVIOUS
<1>1. Queued = {}
  BY DEF Init, Queued
<1>2. TypeOK
  <2>1. queue \in Seq(Commands)
    BY DEF Init
  <2> QED BY <2>1 DEF Init, TypeOK, Transports
<1>3. SessionInv /\ NameInv /\ FlagMeansSession
  BY DEF Init, SessionInv, NameInv, FlagMeansSession
<1>4. CopyInv
  BY <1>1 DEF Init, CopyInv
<1> QED BY <1>2, <1>3, <1>4 DEF IInv

\* Where no step of the device, the broker or the flags happens.
LEMMA CommandStepKeepsSession ==
  ASSUME IInv, UNCHANGED <<device, broker, serial, flags>>
  PROVE  SessionInv' /\ NameInv' /\ FlagMeansSession'
BY DEF IInv, SessionInv, NameInv, FlagMeansSession, device, broker, flags

\* Where no command moves.
LEMMA DeviceStepKeepsCopies ==
  ASSUME IInv, UNCHANGED commands
  PROVE  CopyInv'
BY DEF IInv, CopyInv, Queued, commands

LEMMA AuthenticateKeeps ==
  ASSUME IInv, NEW s \in Sessions, Authenticate(s)
  PROVE  IInv'
<1> USE DEF IInv, TypeOK, Authenticate
<1>1. TypeOK'
  BY DEF commands
<1>2. SessionInv' /\ FlagMeansSession'
  BY DEF SessionInv, FlagMeansSession
<1>3. NameInv'
  BY DEF NameInv
<1> QED BY <1>1, <1>2, <1>3, DeviceStepKeepsCopies

LEMMA SessionEndsKeeps ==
  ASSUME IInv, NEW s \in Sessions, SessionEnds(s)
  PROVE  IInv'
<1> USE SessionsAssumption DEF IInv
<1>1. CASE sname[s] = serial /\ mqttConnected /\ live \in {s, NoSession}
  <2>1. live' = NoSession /\ mqttConnected' = FALSE
    BY <1>1 DEF SessionEnds, DisconnectHook
  <2>2. TypeOK'
    BY <2>1 DEF SessionEnds, TypeOK, commands
  <2>3. cur' = NoSession
    BY <1>1 DEF SessionEnds, SessionInv, TypeOK
  <2>4. NameInv'
    BY DEF SessionEnds, NameInv
  <2> QED BY <2>1, <2>2, <2>3, <2>4, DeviceStepKeepsCopies
          DEF SessionInv, FlagMeansSession, SessionEnds
<1>2. CASE ~(sname[s] = serial /\ mqttConnected /\ live \in {s, NoSession})
  <2>1. UNCHANGED <<live, mqttConnected>>
    BY <1>2 DEF SessionEnds, DisconnectHook
  <2>2. TypeOK'
    BY <2>1 DEF SessionEnds, TypeOK, commands
  <2>3. NameInv'
    BY DEF SessionEnds, NameInv
  <2>4. SessionInv'
    BY <2>1 DEF SessionEnds, SessionInv
  <2>5. FlagMeansSession'
    BY <1>2, <2>1 DEF SessionEnds, FlagMeansSession, TypeOK
  <2> QED BY <2>2, <2>3, <2>4, <2>5, DeviceStepKeepsCopies DEF SessionEnds
<1> QED BY <1>1, <1>2

LEMMA HandleHeartbeatKeeps == ASSUME IInv, HandleHeartbeat PROVE IInv'
<1> USE DEF IInv
<1>1. mqttConnected' \in BOOLEAN /\ (mqttConnected' => mqttConnected)
      /\ (mqttConnected /\ (poll = "on" \/ graced) => mqttConnected')
  BY DEF HandleHeartbeat, NoteIotStatus, TypeOK
<1>2. Queued' = {} /\ queue' \in Seq(Commands)
  BY EmptyQueue DEF HandleHeartbeat
<1>3. sent' \in [Commands -> [Transports -> Nat]]
      /\ \A c \in Commands : c \notin Queued => sent'[c] = sent[c]
  <2>1. ASSUME NEW c \in Commands
        PROVE  (IF c \in Queued THEN [sent[c] EXCEPT !["http"] = @ + 1] ELSE sent[c])
               \in [Transports -> Nat]
    <3>1. sent[c] \in [Transports -> Nat]
      BY DEF TypeOK
    <3>2. [sent[c] EXCEPT !["http"] = @ + 1] \in [Transports -> Nat]
      BY <3>1 DEF Transports
    <3> QED BY <3>1, <3>2
  <2> QED BY <2>1 DEF HandleHeartbeat
<1>4. TypeOK'
  BY <1>1, <1>2, <1>3 DEF HandleHeartbeat, TypeOK, broker
<1>5. SessionInv'
  BY <1>1 DEF HandleHeartbeat, SessionInv, TypeOK, broker
<1>6. NameInv' /\ FlagMeansSession'
  BY <1>1 DEF HandleHeartbeat, NameInv, FlagMeansSession, broker
<1>7. CopyInv'
  <2>1. publishing' = publishing /\ seen' = seen
    BY DEF HandleHeartbeat
  <2>2. ASSUME NEW c \in Commands, c \notin seen \/ c \in publishing
        PROVE  sent'[c] = [t \in Transports |-> 0]
    BY <1>3, <2>2 DEF CopyInv
  <2>3. publishing \subseteq Commands
    BY DEF TypeOK
  <2> QED BY <1>2, <2>1, <2>2, <2>3 DEF CopyInv
<1> QED BY <1>4, <1>5, <1>6, <1>7

\* The steps of the device, its clock and the flags that move no command.
LEMMA DeviceStepKeeps ==
  ASSUME IInv,
         DevicePublishes \/ FillSerial \/ PollSent \/ Watchdog \/ FallsQuiet
           \/ PowerOff \/ PowerOn \/ GraceEnds \/ Silence
  PROVE  IInv'
<1> USE DEF IInv, TypeOK, SessionInv, NameInv, FlagMeansSession, device, broker, flags,
            commands
<1>1. CASE DevicePublishes
  BY <1>1, DeviceStepKeepsCopies DEF DevicePublishes
<1>2. CASE FillSerial
  BY <1>2, DeviceStepKeepsCopies DEF FillSerial
<1>3. CASE PollSent
  BY <1>3, DeviceStepKeepsCopies DEF PollSent
<1>4. CASE Watchdog
  BY <1>4, DeviceStepKeepsCopies DEF Watchdog
<1>5. CASE FallsQuiet
  BY <1>5, DeviceStepKeepsCopies DEF FallsQuiet
<1>6. CASE PowerOff
  BY <1>6, DeviceStepKeepsCopies DEF PowerOff
<1>7. CASE PowerOn
  BY <1>7, DeviceStepKeepsCopies DEF PowerOn
<1>8. CASE GraceEnds
  BY <1>8, DeviceStepKeepsCopies DEF GraceEnds
<1>9. CASE Silence
  BY <1>9, DeviceStepKeepsCopies DEF Silence
<1> QED BY <1>1, <1>2, <1>3, <1>4, <1>5, <1>6, <1>7, <1>8, <1>9

LEMMA HandleCommandKeeps ==
  ASSUME IInv, NEW c \in Commands, HandleCommand(c)
  PROVE  IInv'
<1> USE DEF IInv
<1>1. UNCHANGED <<device, broker, serial, flags, bridgeUp, sent, restarts>>
      /\ c \notin seen /\ seen' = seen \cup {c}
  BY DEF HandleCommand
<1>2. Queued \subseteq Commands
  BY QueuedInCommands
<1>3. CASE publishing' = publishing \cup {c} /\ UNCHANGED queue
  <2>1. Queued' = Queued
    BY <1>3 DEF Queued
  <2>2. TypeOK'
    BY <1>1, <1>3 DEF TypeOK, device, broker, flags
  <2>3. CopyInv'
    BY <1>1, <1>2, <1>3, <2>1 DEF CopyInv
  <2> QED BY <1>1, <2>2, <2>3, CommandStepKeepsSession
<1>4. CASE queue' = Append(queue, c) /\ UNCHANGED publishing
  <2>1. Queued' = Queued \cup {c} /\ queue' \in Seq(Commands)
    BY <1>4, AppendQueued
  <2>2. TypeOK'
    BY <1>1, <1>4, <2>1 DEF TypeOK, device, broker, flags
  <2>3. sent[c]["http"] = 0
    BY <1>1 DEF CopyInv, Transports
  <2>4. CopyInv'
    BY <1>1, <1>2, <1>4, <2>1, <2>3 DEF CopyInv
  <2> QED BY <1>1, <2>2, <2>4, CommandStepKeepsSession
<1> QED BY <1>3, <1>4 DEF HandleCommand

\* One more frame of command c over MQTT.
LEMMA SentOverMqtt ==
  ASSUME IInv, NEW c \in publishing, sent' = [sent EXCEPT ![c]["mqtt"] = @ + 1]
  PROVE  /\ sent' \in [Commands -> [Transports -> Nat]]
         /\ sent'[c]["http"] = 0 /\ sent'[c]["mqtt"] = 1
         /\ \A d \in Commands : d # c => sent'[d] = sent[d]
<1>1. c \in Commands /\ sent[c] = [t \in Transports |-> 0]
      /\ sent \in [Commands -> [Transports -> Nat]]
  BY DEF IInv, TypeOK, CopyInv
<1>2. [sent[c] EXCEPT !["mqtt"] = @ + 1] \in [Transports -> Nat]
  BY <1>1 DEF Transports
<1>3. sent' = [sent EXCEPT ![c] = [sent[c] EXCEPT !["mqtt"] = @ + 1]]
  BY <1>1
<1> QED BY <1>1, <1>2, <1>3 DEF Transports

LEMMA PublishKeeps ==
  ASSUME IInv, NEW c \in Commands, PublishReturns(c) \/ PublishRaises(c)
  PROVE  IInv'
<1> USE DEF IInv
<1>1. /\ UNCHANGED <<device, broker, serial, flags, bridgeUp, seen, restarts>>
      /\ c \in publishing /\ publishing' = publishing \ {c}
      /\ UNCHANGED queue \/ queue' = Append(queue, c)
      /\ UNCHANGED sent \/ sent' = [sent EXCEPT ![c]["mqtt"] = @ + 1]
  BY DEF PublishReturns, PublishRaises
<1>2. c \in seen /\ sent[c]["http"] = 0
  BY <1>1 DEF CopyInv, Transports
<1>3. /\ sent' \in [Commands -> [Transports -> Nat]]
      /\ sent'[c]["http"] = 0
      /\ \A d \in Commands : d # c => sent'[d] = sent[d]
  <2>1. CASE UNCHANGED sent
    BY <1>2, <2>1 DEF TypeOK
  <2>2. CASE sent' = [sent EXCEPT ![c]["mqtt"] = @ + 1]
    BY <1>1, <2>2, SentOverMqtt
  <2> QED BY <1>1, <2>1, <2>2
<1>4. /\ queue' \in Seq(Commands)
      /\ Queued' = Queued \/ Queued' = Queued \cup {c}
  <2>1. CASE UNCHANGED queue
    BY <2>1 DEF TypeOK, Queued
  <2>2. CASE queue' = Append(queue, c)
    BY <2>2, AppendQueued
  <2> QED BY <1>1, <2>1, <2>2
<1>5. Queued \subseteq Commands
  BY QueuedInCommands
<1>6. TypeOK'
  BY <1>1, <1>3, <1>4 DEF TypeOK, device, broker, flags
<1>7. CopyInv'
  BY <1>1, <1>2, <1>3, <1>4, <1>5 DEF CopyInv, TypeOK
<1> QED BY <1>1, <1>6, <1>7, CommandStepKeepsSession

LEMMA BridgeKeeps == ASSUME IInv, BridgeConnects \/ BridgeDrops PROVE IInv'
<1>1. UNCHANGED <<device, broker, serial, flags, commands, restarts>> /\ bridgeUp' \in BOOLEAN
  BY DEF BridgeConnects, BridgeDrops
<1>2. TypeOK'
  BY <1>1 DEF IInv, TypeOK, device, broker, flags, commands
<1> QED BY <1>1, <1>2, CommandStepKeepsSession, DeviceStepKeepsCopies DEF IInv

LEMMA RestartKeeps == ASSUME IInv, Restart PROVE IInv'
<1> USE DEF IInv
<1>1. Queued' = {} /\ queue' \in Seq(Commands)
  BY EmptyQueue DEF Restart
<1>2. TypeOK'
  <2>1. restarts' \in Nat
    BY DEF Restart, TypeOK
  <2>2. {serial, mqttConnected, online, graced, stale, bridgeUp}' \subseteq BOOLEAN
    BY DEF Restart, TypeOK
  <2> QED BY <1>1, <2>1, <2>2 DEF Restart, TypeOK
<1>3. SessionInv' /\ NameInv' /\ FlagMeansSession'
  BY DEF Restart, SessionInv, NameInv, FlagMeansSession
<1>4. CopyInv'
  BY <1>1 DEF Restart, CopyInv
<1> QED BY <1>2, <1>3, <1>4

LEMMA StutterKeeps == ASSUME IInv, UNCHANGED vars PROVE IInv'
<1>1. UNCHANGED <<device, broker, serial, flags, bridgeUp, commands, restarts>>
  BY DEF vars
<1>2. TypeOK'
  BY <1>1 DEF IInv, TypeOK, device, broker, flags, commands
<1> QED BY <1>1, <1>2, CommandStepKeepsSession, DeviceStepKeepsCopies DEF IInv

LEMMA NextKeeps == IInv /\ [Next]_vars => IInv'
<1> SUFFICES ASSUME IInv, [Next]_vars PROVE IInv'
  OBVIOUS
<1> QED BY StutterKeeps, AuthenticateKeeps, SessionEndsKeeps, HandleHeartbeatKeeps,
           DeviceStepKeeps, HandleCommandKeeps, PublishKeeps, BridgeKeeps, RestartKeeps
        DEF Next

LEMMA Inductive == Spec => []IInv
BY InitInv, NextKeeps, PTL DEF Spec

-----------------------------------------------------------------------------
(* The mailbox                                                             *)

LEMMA MailboxInit == Init => Mailbox!Init
<1> SUFFICES ASSUME Init PROVE Mailbox!Init
  OBVIOUS
<1>1. publishing \cup Queued = {}
  BY DEF Init, Queued
<1>2. sent = [c \in Commands |-> [t \in Mailbox!Transports |-> 0]] /\ seen = {}
  BY DEF Init, Transports, Mailbox!Transports
<1> QED BY <1>1, <1>2 DEF Mailbox!Init

mailbox == <<seen, publishing \cup Queued, sent>>

\* A step that moves no command is a stutter of the mailbox.
LEMMA StutterMaps == UNCHANGED commands => UNCHANGED mailbox
BY DEF commands, mailbox, Queued

LEMMA HandleCommandMaps ==
  ASSUME IInv, NEW c \in Commands, HandleCommand(c)
  PROVE  Mailbox!Accept
<1>1. c \notin seen /\ seen' = seen \cup {c} /\ sent' = sent
  BY DEF HandleCommand
<1>2. (publishing \cup Queued)' = (publishing \cup Queued) \cup {c}
  <2>1. CASE publishing' = publishing \cup {c} /\ UNCHANGED queue
    BY <2>1 DEF Queued
  <2>2. CASE queue' = Append(queue, c) /\ UNCHANGED publishing
    BY <2>2, AppendQueued DEF IInv
  <2> QED BY <2>1, <2>2 DEF HandleCommand
<1> QED BY <1>1, <1>2 DEF Mailbox!Accept

LEMMA PublishReturnsMaps ==
  ASSUME IInv, NEW c \in Commands, PublishReturns(c)
  PROVE  Mailbox!Publish
<1>1. c \in publishing /\ publishing' = publishing \ {c} /\ Queued' = Queued
      /\ seen' = seen
  BY DEF PublishReturns, Queued
<1>2. c \notin Queued /\ sent[c] = [t \in Transports |-> 0]
  BY <1>1 DEF IInv, CopyInv
<1>3. sent' = [sent EXCEPT ![c]["mqtt"] = 1]
  BY <1>2 DEF PublishReturns, Transports
<1>4. (publishing \cup Queued)' = (publishing \cup Queued) \ {c}
  BY <1>1, <1>2
<1> QED BY <1>1, <1>2, <1>3, <1>4 DEF Mailbox!Publish, Mailbox!Transports, Transports

\* A publish that raises moves the command to the queue: the mailbox still
\* holds it, whether the frame left or not.
LEMMA PublishRaisesMaps ==
  ASSUME IInv, NEW c \in Commands, PublishRaises(c)
  PROVE  Mailbox!Publish \/ UNCHANGED mailbox
<1>1. c \in publishing /\ publishing' = publishing \ {c} /\ seen' = seen
      /\ Queued' = Queued \cup {c}
  BY AppendQueued DEF PublishRaises, IInv
<1>2. (publishing \cup Queued)' = publishing \cup Queued
  BY <1>1
<1>3. CASE UNCHANGED sent
  BY <1>1, <1>2, <1>3 DEF mailbox
<1>4. CASE sent' = [sent EXCEPT ![c]["mqtt"] = @ + 1]
  <2>1. sent[c] = [t \in Transports |-> 0]
    BY <1>1 DEF IInv, CopyInv
  <2>2. sent' = [sent EXCEPT ![c]["mqtt"] = 1]
    BY <1>4, <2>1 DEF Transports
  <2> QED BY <1>1, <1>2, <2>1, <2>2 DEF Mailbox!Publish, Mailbox!Transports, Transports
<1> QED BY <1>3, <1>4 DEF PublishRaises

LEMMA HandleHeartbeatMaps ==
  ASSUME IInv, HandleHeartbeat
  PROVE  Mailbox!Answer \/ UNCHANGED mailbox
<1>1. Queued' = {} /\ publishing' = publishing /\ seen' = seen
  BY EmptyQueue DEF HandleHeartbeat
<1>2. Queued \subseteq Commands /\ sent \in [Commands -> [Transports -> Nat]]
  BY QueuedInCommands DEF IInv, TypeOK
<1>3. \A c \in Queued : c \notin publishing /\ sent[c]["http"] = 0
  BY DEF IInv, CopyInv
<1>4. CASE Queued = {}
  <2>1. sent' = sent
    BY <1>2, <1>4 DEF HandleHeartbeat
  <2> QED BY <1>1, <1>4, <2>1 DEF mailbox
<1>5. CASE Queued # {}
  <2>1. sent' = [c \in Commands |->
                  IF c \in Queued THEN [sent[c] EXCEPT !["http"] = 1] ELSE sent[c]]
    <3>1. \A c \in Queued : [sent[c] EXCEPT !["http"] = @ + 1]
                            = [sent[c] EXCEPT !["http"] = 1]
      BY <1>2, <1>3
    <3> QED BY <3>1 DEF HandleHeartbeat
  <2>2. (publishing \cup Queued)' = (publishing \cup Queued) \ Queued
    BY <1>1, <1>3
  <2>3. Queued \in (SUBSET (publishing \cup Queued)) \ {{}}
    BY <1>5
  <2> QED BY <1>1, <1>3, <2>1, <2>2, <2>3 DEF Mailbox!Answer
<1> QED BY <1>4, <1>5

LEMMA RestartMaps == Restart => Mailbox!Restart
<1> SUFFICES ASSUME Restart PROVE Mailbox!Restart
  OBVIOUS
<1>1. (publishing \cup Queued)' = {}
  BY EmptyQueue DEF Restart
<1> QED BY <1>1 DEF Restart, Mailbox!Restart

LEMMA NextMaps == IInv /\ [Next]_vars => [Mailbox!Next]_mailbox
<1> SUFFICES ASSUME IInv, [Next]_vars PROVE Mailbox!Next \/ UNCHANGED mailbox
  OBVIOUS
<1>1. CASE UNCHANGED vars
  BY <1>1, StutterMaps DEF vars
<1>2. ASSUME NEW s \in Sessions, Authenticate(s) \/ SessionEnds(s)
      PROVE  UNCHANGED mailbox
  BY <1>2, StutterMaps DEF Authenticate, SessionEnds
<1>3. ASSUME NEW c \in Commands,
             HandleCommand(c) \/ PublishReturns(c) \/ PublishRaises(c)
      PROVE  Mailbox!Next \/ UNCHANGED mailbox
  BY <1>3, HandleCommandMaps, PublishReturnsMaps, PublishRaisesMaps DEF Mailbox!Next
<1>4. CASE DevicePublishes \/ FillSerial \/ PollSent \/ Watchdog \/ BridgeConnects
           \/ BridgeDrops \/ FallsQuiet \/ PowerOff \/ PowerOn \/ GraceEnds \/ Silence
  BY <1>4, StutterMaps
     DEF DevicePublishes, FillSerial, PollSent, Watchdog, BridgeConnects, BridgeDrops,
         FallsQuiet, PowerOff, PowerOn, GraceEnds, Silence
<1>5. CASE HandleHeartbeat
  BY <1>5, HandleHeartbeatMaps DEF Mailbox!Next
<1>6. CASE Restart
  BY <1>6, RestartMaps DEF Mailbox!Next
<1> QED BY <1>1, <1>2, <1>3, <1>4, <1>5, <1>6 DEF Next

-----------------------------------------------------------------------------
(* Theorems                                                                *)

\* The variables keep their types, whatever the commands and sessions.
THEOREM TypeCorrect == Spec => []TypeOK
<1>1. IInv => TypeOK
  BY DEF IInv
<1> QED BY Inductive, <1>1, PTL

\* A device that holds a session is never routed to the heartbeat queue.
THEOREM SessionKeepsFlag == Spec => []OnMqttMeansFlag
<1>1. IInv => OnMqttMeansFlag
  BY DEF IInv, SessionInv, OnMqttMeansFlag
<1> QED BY Inductive, <1>1, PTL

\* The flag stands for a session the broker has, but for a rename.
THEOREM FlagIsBacked == Spec => []FlagMeansSession
<1>1. IInv => FlagMeansSession
  BY DEF IInv
<1> QED BY Inductive, <1>1, PTL

\* Whatever the interleaving of hooks, polls, publishes and restarts, a
\* command is held until a transport has it, and each has it at most once.
THEOREM ImplementsMailbox == Spec => MailboxSpec
<1>1. Spec => Mailbox!Init
  BY MailboxInit DEF Spec
<1>2. Spec => [][Mailbox!Next]_mailbox
  BY Inductive, NextMaps, PTL DEF Spec
<1> QED BY <1>1, <1>2, PTL DEF MailboxSpec, Mailbox!Spec, mailbox
=============================================================================
