------------------------------ MODULE Settings ------------------------------
(* The settings of one device as the add-on stores them, and as the device  *)
(* has them (ha/commands.py, ha/command_router.py, web/api/devices.py,      *)
(* devices/defaults.py, devices/payloads.py, mqtt/bridge.py).  A change     *)
(* made in Home Assistant or the panel is stored and sent; the device posts *)
(* the settings that change on it, and asks for all of them now and then.   *)
(* Of what it posts the add-on stores the fields that an entity shows.      *)
(*                                                                          *)
(* A message is a partial function from fields to values.  Whether a change *)
(* goes over MQTT or waits for a heartbeat is CommandDelivery's; here it is *)
(* either.  What is stored and never sent (the capabilities, a feeder's     *)
(* portions) and showing a change to Home Assistant are left out.           *)
EXTENDS Integers, Sequences

CONSTANTS
  MaxWrites,    \* bound: changes made in Home Assistant or the panel
  MaxChanges,   \* bound: changes made on the device
  MaxPulls,     \* bound: how often the device asks for its settings
  Shipped       \* what a device may be set to when it is registered

ASSUME SettingsAssumption == {MaxWrites, MaxChanges, MaxPulls} \subseteq Nat

VARIABLES
  settings,   \* config["settings"]
  actual,     \* the device's settings
  mqtt,       \* sets on their way over MQTT, in order
  waiting,    \* device.command_queue
  answer,     \* the answer to dev_device_info on its way, or Nothing
  posts,      \* property posts on their way, in order
  unposted,   \* fields that changed on the device since it posted them
  doubtful,   \* fields on which the two may have come apart, and were not put right since
  writes, changes, pulls

settingsVars ==
  <<settings, actual, mqtt, waiting, answer, posts, unposted, doubtful, writes, changes, pulls>>

Fields == {"light", "volume", "surplusControl", "surplusStandard"}
\* get_setting_fields: those that have a switch, a number or a select.
Shown == Fields \ {"surplusStandard"}
Values == [light |-> 0..1, volume |-> 1..2, surplusControl |-> {0, 30, 60}, surplusStandard |-> 1..2]
AnyValue == UNION {Values[f] : f \in Fields}
PartialSettings ==
  {set \in UNION {[some -> AnyValue] : some \in SUBSET Fields} :
     \A f \in DOMAIN set : set[f] \in Values[f]}
FullSettings == {set \in PartialSettings : DOMAIN set = Fields}
Nothing == [f \in {} |-> 0]

ASSUME ShippedAssumption == Shipped \subseteq FullSettings

SettingsTypeOK ==
  /\ settings \in FullSettings /\ actual \in FullSettings
  /\ mqtt \in Seq(PartialSettings) /\ waiting \in Seq(PartialSettings)
  /\ answer \in FullSettings \cup {Nothing}
  /\ posts \in Seq(PartialSettings)
  /\ unposted \subseteq Fields /\ doubtful \subseteq Fields
  /\ writes \in 0..MaxWrites /\ changes \in 0..MaxChanges /\ pulls \in 0..MaxPulls

\* dict.update(): the new values over the old ones.
Over(new, old) ==
  [f \in DOMAIN new \cup DOMAIN old |-> IF f \in DOMAIN new THEN new[f] ELSE old[f]]
Setting(f, value) == [g \in {f} |-> value]

-----------------------------------------------------------------------------
(* What a command sets.  Junk is a payload that is not a number.            *)

Junk == -1

\* A switch that is not on is off.
CoerceSwitch(payload) == IF payload = 1 THEN 1 ELSE 0
WithinBounds(f, value) == value \in Values[f]

\* The feeder takes its food-surplus level as a pair, but for switching it off.
SURPLUS_CONTROL_TO_STANDARD == [level \in {30, 60} |-> IF level = 30 THEN 1 ELSE 2]

\* The fields a command sets: none if it is refused or says nothing.
HandleHaCommand(f, payload) ==
  CASE f = "light" -> Setting(f, CoerceSwitch(payload))
    [] f = "volume" /\ payload # Junk /\ WithinBounds(f, payload) -> Setting(f, payload)
    [] f = "surplusControl" /\ payload = 0 -> Setting(f, payload)
    [] f = "surplusControl" /\ payload \in DOMAIN SURPLUS_CONTROL_TO_STANDARD ->
         Over(Setting(f, payload),
              Setting("surplusStandard", SURPLUS_CONTROL_TO_STANDARD[payload]))
    [] OTHER -> Nothing

Commands ==
  ({"light"} \X {0, 1, Junk}) \cup ({"volume"} \X {0, 1, 2, 3, Junk})
    \cup ({"surplusControl"} \X {0, 30, 60, Junk})

DefaultSettings == [light |-> 0, volume |-> 1, surplusControl |-> 0, surplusStandard |-> 2]

-----------------------------------------------------------------------------

\* Registered: the defaults are stored, whatever the device is set to.
SettingsInit ==
  /\ settings = DefaultSettings /\ actual \in Shipped
  /\ mqtt = <<>> /\ waiting = <<>> /\ answer = Nothing /\ posts = <<>>
  /\ unposted = {} /\ doubtful = {f \in Fields : actual[f] # settings[f]}
  /\ writes = 0 /\ changes = 0 /\ pulls = 0

\* Messages in a row: of those that say something of a field the last one counts.
Saying(list, f) == {i \in DOMAIN list : f \in DOMAIN list[i]}
Last(list, f) == CHOOSE i \in Saying(list, f) : \A j \in Saying(list, f) : j <= i
AfterAll(list) ==
  [f \in Fields |-> IF Saying(list, f) = {} THEN actual[f] ELSE list[Last(list, f)][f]]

Commanded(f) == Saying(mqtt, f) # {} \/ Saying(waiting, f) # {}

\* A command of Home Assistant or of the panel: stored first, then sent or queued.  One that
\* is given before the last has arrived may overtake it, and no post puts right what is not shown.
Command ==
  /\ writes < MaxWrites /\ writes' = writes + 1
  /\ \E c \in Commands :
       LET set == HandleHaCommand(c[1], c[2]) IN
       /\ set # Nothing
       /\ settings' = Over(set, settings)
       /\ \/ mqtt' = Append(mqtt, set) /\ UNCHANGED waiting
          \/ waiting' = Append(waiting, set) /\ UNCHANGED mqtt
       /\ doubtful' = doubtful \cup
            {f \in DOMAIN set \ Shown : Commanded(f) \/ answer # Nothing}
  /\ UNCHANGED <<actual, answer, posts, unposted, changes, pulls>>

\* The device takes settings over, and will post the fields that change.
Adopt(new) ==
  /\ actual' = new
  /\ unposted' = unposted \cup {f \in Fields : new[f] # actual[f]}

\* Messages that had these fields never arrive.
Lose(fields) ==
  /\ doubtful' = doubtful \cup fields
  /\ UNCHANGED <<actual, unposted>>

ArriveOverMqtt ==
  /\ mqtt # <<>> /\ mqtt' = Tail(mqtt)
  /\ \/ Adopt(Over(Head(mqtt), actual)) /\ UNCHANGED doubtful
     \/ Lose(DOMAIN Head(mqtt))
  /\ UNCHANGED <<settings, waiting, answer, posts, writes, changes, pulls>>

\* A heartbeat takes the whole queue, and its answer may be lost.
Heartbeat ==
  /\ waiting # <<>> /\ waiting' = <<>>
  /\ \/ Adopt(AfterAll(waiting)) /\ UNCHANGED doubtful
     \/ Lose({f \in Fields : Saying(waiting, f) # {}})
  /\ UNCHANGED <<settings, mqtt, answer, posts, writes, changes, pulls>>

\* A button on the device.
DeviceChanges ==
  /\ changes < MaxChanges /\ changes' = changes + 1
  /\ \E f \in {"light", "volume"}, v \in 0..2 :
       v \in Values[f] \ {actual[f]} /\ Adopt(Over(Setting(f, v), actual))
  /\ UNCHANGED <<settings, mqtt, waiting, answer, posts, doubtful, writes, pulls>>

\* A property post has what changed, or everything.  (Bounds: two posts at a time, and one with
\* everything only where there is something to put right.)
Post ==
  /\ \E fields \in {unposted, Fields} :
       /\ fields # {}
       /\ fields = Fields => doubtful \cap Shown # {}
       /\ posts' = Append(posts, [f \in fields |-> actual[f]])
  /\ Len(posts) < 2
  /\ unposted' = {}
  /\ UNCHANGED <<settings, actual, mqtt, waiting, answer, doubtful, writes, changes, pulls>>

KeepStored(set) == Over(settings, set)
\* Of a property post the settings that are shown are stored.
SyncSettingsFromDevice(set) ==
  [f \in Fields |-> IF f \in Shown \cap DOMAIN set THEN set[f] ELSE settings[f]]

PostHandled ==
  /\ posts # <<>> /\ posts' = Tail(posts)
  /\ \/ /\ settings' = SyncSettingsFromDevice(Head(posts))
        /\ doubtful' = doubtful \ (Shown \cap DOMAIN Head(posts))
     \/ /\ doubtful' = doubtful \cup (Shown \cap DOMAIN Head(posts))
        /\ UNCHANGED settings
  /\ UNCHANGED <<actual, mqtt, waiting, answer, unposted, writes, changes, pulls>>

\* dev_device_info: what is stored over the defaults.  The answer may be lost.
DeviceInfo ==
  /\ pulls < MaxPulls /\ pulls' = pulls + 1
  /\ answer' = Over(settings, DefaultSettings)
  /\ UNCHANGED <<settings, actual, mqtt, waiting, posts, unposted, doubtful, writes, changes>>
AnswerTaken ==
  /\ answer # Nothing /\ answer' = Nothing
  /\ \/ /\ Adopt(answer)
        /\ doubtful' = {f \in doubtful : Commanded(f) \/ answer[f] # settings[f]}
     \/ Lose({})
  /\ UNCHANGED <<settings, mqtt, waiting, posts, writes, changes, pulls>>

SettingsNext ==
  \/ Command \/ ArriveOverMqtt \/ Heartbeat \/ DeviceChanges \/ Post \/ PostHandled
  \/ DeviceInfo \/ AnswerTaken

SettingsSpec == SettingsInit /\ [][SettingsNext]_settingsVars

-----------------------------------------------------------------------------

\* However changes made here and on the device cross one another, and in whatever order they
\* arrive: once nothing is on its way, what is stored of a field is what the device does.  Of a
\* shown field a post or an answer of dev_device_info makes good whatever was lost; of one that
\* is not shown (surplusStandard) only that answer does, and two commands that cross, or one
\* that crosses it, leave the two apart as surely as a loss.
SettingsAgree ==
  mqtt = <<>> /\ waiting = <<>> /\ answer = Nothing /\ posts = <<>> /\ unposted = {}
    => \A f \in Fields \ doubtful : settings[f] = actual[f]
=============================================================================
