----------------------------- MODULE StateReport -----------------------------
(* What one Wi-Fi device reports and what Home Assistant is shown of it      *)
(* (devices/state_parsers.py, devices/consumables.py, events/normalize.py,   *)
(* http/handlers/state_report.py, mqtt/bridge.py, ha/publisher.py).  A       *)
(* device reports over HTTP, in the snapshot of an event and in a property   *)
(* post; the first two run both parsers, the last one only its own.          *)
(*                                                                           *)
(* The device is external: all its readings have the value `now', which      *)
(* grows; it is at work and has a fault while `now' is odd.  A body is a     *)
(* partial function from the fields it carries to values.  One field stands  *)
(* for every field that is treated alike: flatField for the flat ones, which *)
(* a device may spell flat_field, litter for the fields of that block, petIn *)
(* and drink for the times in the device block.  Of the retained state the   *)
(* model keeps whether it is the one the add-on would build.                 *)
EXTENDS Integers

CONSTANTS
  Models,     \* the device types, out of t4 t5 d4sh w7h
  MaxNow,     \* bound: the last value of the readings
  MaxDrops,   \* bound: how often the link to Home Assistant's broker breaks
  MaxStarts   \* bound: how often the add-on starts again

ReportAssumption ==
  Models \subseteq {"t4", "t5", "d4sh", "w7h"} /\ {MaxNow, MaxDrops, MaxStarts} \subseteq Nat

VARIABLES
  model,      \* the device's type
  now,        \* the value of its readings
  stamp,      \* when its N60 was replaced, as the box has it; 0 is never
  held,       \* device.state: a partial function from keys to values
  recorded,   \* config["consumables"]["n60"]; 0 is no record
  said,       \* by key: the value of the last report that spoke of it, or None
  stamped,    \* the last time of replacement the box has reported
  connected, link,   \* the publisher's flag, and whether the connection is up
  shown,      \* the retained state document is the one the add-on would build
  drops, starts

reportVars == <<model, now, stamp, held, recorded, said, stamped, connected, link, shown,
                drops, starts>>

None == -2
WORK_MODE_IDLE == -1
AtWork == now % 2 = 1

Litter == {"t4", "t5"}
Keys == {"sandPercent", "petInTime", "hall", "errorMsg", "boxFull", "workingState", "lightOn",
         "rssi", "ip", "totalTime", "flat", "lastDrink", "feedState"}

ReportTypeOK ==
  /\ model \in Models /\ now \in 0..MaxNow /\ stamp \in 0..(MaxNow + 1)
  /\ DOMAIN held \subseteq Keys \cup {"sprayResetTime"}
  /\ \A k \in DOMAIN held : held[k] \in WORK_MODE_IDLE..(MaxNow + 1)
  /\ recorded \in 0..(MaxNow + 1) /\ stamped \in 0..(MaxNow + 1)
  /\ said \in [Keys -> {None} \cup 0..MaxNow]
  /\ connected \in BOOLEAN /\ link \in BOOLEAN /\ shown \in BOOLEAN
  /\ drops \in 0..MaxDrops /\ starts \in 0..MaxStarts

-----------------------------------------------------------------------------
(* Partial functions: {key: value}, and {**other, **first}.                 *)
key :> value == [x \in {key} |-> value]
Joined(first, other) ==
  [x \in DOMAIN first \cup DOMAIN other |-> IF x \in DOMAIN first THEN first[x] ELSE other[x]]
first @@ other == Joined(first, other)

(* The two parsers.  A field that is not there leaves its key alone.        *)

Has(body, field) == field \in DOMAIN body
Take(body, field, key) == IF Has(body, field) THEN key :> body[field] ELSE <<>>

\* Either spelling; snake_case wins.
ExtractCamel(body) ==
  Take(body, "flat_field", "flat") @@ Take(body, "flatField", "flat")

ExtractSensorBlock(body) == Take(body, "sensor", "hall")

\* A time of 0 is the device's "never happened".
ExtractFountainW7h(m, body) ==
  IF m # "w7h" THEN <<>>
  ELSE ExtractCamel(body) @@ ExtractSensorBlock(body)
         @@ (IF Has(body, "drink") /\ body["drink"] > 0 THEN "lastDrink" :> body["drink"] ELSE <<>>)

ExtractFeederNextGen(m, body) ==
  IF m # "d4sh" THEN <<>> ELSE ExtractCamel(body) @@ ExtractSensorBlock(body)

\* Absence means "off" in a snapshot, which carries the litter block, and nothing elsewhere.
IsSnapshot(body) == Has(body, "litter")
ExtractPresenceFlags(body) ==
  IF IsSnapshot(body) THEN "lightOn" :> (IF Has(body, "lightState") THEN 1 ELSE 0) ELSE <<>>

ExtractShared(body) == Take(body, "runtime", "totalTime") @@ ExtractPresenceFlags(body)

\* The flags that are up, as text; a full bin has a key of its own.
ExtractErrorFlags(body) ==
  IF Has(body, "err") THEN "errorMsg" :> body["err"] % 2 @@ "boxFull" :> body["err"] ELSE <<>>

ExtractLitterNested(body) ==
  ExtractShared(body) @@ Take(body, "petIn", "petInTime") @@ ExtractErrorFlags(body)
    @@ Take(body, "litter", "sandPercent")

ExtractIp(body) == Take(body, "other", "ip")
\* Without the block the strength becomes unknown.
ExtractWifiRssi(body) == "rssi" :> (IF Has(body, "wifi") THEN body["wifi"] ELSE None)

\* A box sends its work only while a cycle runs: its absence from a snapshot means idle.
ExtractWorkMode(body) ==
  Take(body, "workState", "workingState") @@ Take(body, "work_state", "workingState")
    @@ (IF IsSnapshot(body) THEN "workingState" :> WORK_MODE_IDLE ELSE <<>>)

ParseLitterCamera(body) ==
  ExtractWifiRssi(body) @@ ExtractIp(body) @@ ExtractSensorBlock(body)
    @@ ExtractLitterNested(body) @@ ExtractCamel(body)
    @@ Take(body, "sprayResetTime", "sprayResetTime") @@ ExtractWorkMode(body)
ParseLitterEsp32(body) ==
  ExtractWifiRssi(body) @@ ExtractLitterNested(body) @@ ExtractCamel(body) @@ ExtractWorkMode(body)
ParseFeeder(m, body) ==
  ExtractWifiRssi(body) @@ ExtractIp(body) @@ Take(body, "feedState", "feedState")
    @@ ExtractErrorFlags(body) @@ ExtractFeederNextGen(m, body) @@ ExtractCamel(body)
    @@ Take(body, "workState", "workingState")
ParseWaterFountain(m, body) ==
  ExtractWifiRssi(body) @@ ExtractErrorFlags(body) @@ ExtractFountainW7h(m, body)
    @@ ExtractCamel(body) @@ Take(body, "workState", "workingState")

ParseStateReport(m, body) ==
  CASE m = "t5" -> ParseLitterCamera(body)
    [] m = "t4" -> ParseLitterEsp32(body)
    [] m = "d4sh" -> ParseFeeder(m, body)
    [] m = "w7h" -> ParseWaterFountain(m, body)

\* A property post is asked for the other spelling first.  (A work that is no object, which no
\* box sends, counts for the other parser only.)
PostedWorkModeOrZero(body) ==
  Take(body, "work_state", "workingState") @@ Take(body, "workState", "workingState")
    @@ (IF IsSnapshot(body) THEN "workingState" :> 0 ELSE <<>>)
PostedWorkMode(body) ==
  Take(body, "work_state", "workingState") @@ Take(body, "workState", "workingState")
    @@ (IF IsSnapshot(body) THEN "workingState" :> WORK_MODE_IDLE ELSE <<>>)

\* (Left out: a `box' of its own, 0 in every capture, which the full flag of err overrules.)
NormalizePropertyParams(m, body) ==
  ExtractIp(body) @@ PostedWorkMode(body) @@ ExtractErrorFlags(body) @@ ExtractShared(body)
    @@ Take(body, "sprayResetTime", "sprayResetTime") @@ Take(body, "flatField", "flat")
    @@ (IF m = "t5" THEN ExtractSensorBlock(body) ELSE <<>>)
    @@ ExtractFeederNextGen(m, body) @@ ExtractFountainW7h(m, body)
    @@ Take(body, "petIn", "petInTime") @@ Take(body, "wifi", "rssi")
    @@ Take(body, "litter", "sandPercent")

\* The body as it came: of its fields, those an entity reads by their own name.
Raw(body) == Take(body, "flatField", "flat") @@ Take(body, "feedState", "feedState")
               @@ Take(body, "sprayResetTime", "sprayResetTime")

-----------------------------------------------------------------------------
(* The consumables.  The box's own time of replacement wins over the one    *)
(* recorded here, which stands in while the box has reported none.          *)

Reported(state) == IF "sprayResetTime" \in DOMAIN state THEN state["sprayResetTime"] ELSE 0

RecordForgotten(state, rec) == Reported(state)
RecordAfter(state, rec) == IF Reported(state) # 0 THEN Reported(state) ELSE rec

ApplyConsumableState(state, rec) ==
  /\ held' = (IF Reported(state) = 0 /\ rec # 0 THEN "sprayResetTime" :> rec ELSE <<>>) @@ state
  /\ recorded' = RecordAfter(state, rec)

\* What the device is told when it asks for its settings.
DeviceInfoStamp == IF Reported(held) # 0 THEN Reported(held) ELSE recorded

-----------------------------------------------------------------------------
(* The device.                                                              *)

Fields(m) ==
  CASE m = "t5" -> {"litter", "petIn", "sensor", "err", "wifi", "other", "runtime", "flatField",
                    "sprayResetTime", "lightState"}
    [] m = "t4" -> {"litter", "petIn", "err", "wifi", "other", "runtime", "flatField", "lightState"}
    [] m = "d4sh" -> {"sensor", "err", "wifi", "other", "flat_field", "feedState"}
    [] m = "w7h" -> {"sensor", "drink", "err", "wifi", "other", "flat_field", "runtime"}

\* Work is an object spelled workState over HTTP and work_state over MQTT.
OfWork(m, transport) ==
  IF m \notin Litter THEN {} ELSE {IF transport = "property" THEN "work_state" ELSE "workState"}

Body(fields) ==
  [f \in {x \in fields : x \in {"workState", "work_state", "lightState"} => AtWork} |->
     IF f = "sprayResetTime" THEN stamp ELSE now]

Bodies(transport) ==
  LET all == Fields(model) \cup OfWork(model, transport) IN
  {Body(all)} \cup
    CASE transport = "http" -> {Body(all \ {"other"})}
      [] transport = "event" -> {}
      [] transport = "property" -> {Body({f}) : f \in {"err", "wifi", "work_state"} \cap all}

\* Where a device speaks of what a key shows.
Source ==
  [sandPercent |-> {"litter"}, petInTime |-> {"petIn"}, hall |-> {"sensor"}, errorMsg |-> {"err"},
   boxFull |-> {"err"}, workingState |-> {"litter", "workState", "work_state"},
   lightOn |-> {"litter"}, rssi |-> {"wifi"}, ip |-> {"other"}, totalTime |-> {"runtime"},
   flat |-> {"flatField", "flat_field"}, lastDrink |-> {"drink"}, feedState |-> {"feedState"}]
Speaks(body, k) == Source[k] \cap DOMAIN body # {} /\ ~(k = "lastDrink" /\ now = 0)
Meaning(k, v) ==
  CASE k \in {"errorMsg", "lightOn"} -> v % 2
    [] k = "workingState" -> IF v % 2 = 1 THEN v ELSE WORK_MODE_IDLE
    [] OTHER -> v

-----------------------------------------------------------------------------

ReportInit ==
  /\ model \in Models /\ now = 0 /\ stamp = 0 /\ held = <<>> /\ recorded = 0
  /\ said = [k \in Keys |-> None] /\ stamped = 0
  /\ connected = FALSE /\ link = FALSE /\ shown = FALSE /\ drops = 0 /\ starts = 0

\* Publishing fails where the connection is down, and takes the flag with it.
PublishState ==
  /\ shown' = IF connected /\ link THEN TRUE ELSE shown /\ held' = held
  /\ connected' = (connected /\ link)
  /\ UNCHANGED link

Heard(body, more) ==
  /\ said' = [k \in Keys |-> IF Speaks(body, k) \/ k \in more THEN now ELSE said[k]]
  /\ stamped' = IF Has(body, "sprayResetTime") /\ stamp # 0 THEN stamp ELSE stamped
  /\ UNCHANGED <<model, now, stamp, drops, starts>>

\* dev_state_report.  A device whose reports name no address has the one it calls from.
HandleStateReport ==
  \E body \in Bodies("http") :
    LET state == NormalizePropertyParams(model, body) @@ ParseStateReport(model, body) @@ held
        missing == "ip" \notin DOMAIN state IN
    /\ ApplyConsumableState((IF missing THEN "ip" :> now ELSE <<>>) @@ state, recorded)
    /\ Heard(body, IF missing THEN {"ip"} ELSE {})
    /\ PublishState

\* An event says nothing of the device's state, or that a fault is open or over, and it may
\* embed a snapshot.  The state is published whichever it is.
HandleEvent ==
  /\ UNCHANGED <<model, now, stamp, held, recorded, said, stamped, drops, starts>>
  /\ PublishState
Fault(opens) == IF opens THEN "errorMsg" :> now % 2 ELSE <<>>
HandleFault ==
  /\ held' = Fault(TRUE) @@ held /\ UNCHANGED recorded
  /\ Heard(<<>>, {"errorMsg"})
  /\ PublishState
HandleSnapshot ==
  \E body \in Bodies("event"), fault \in BOOLEAN :
    LET state == NormalizePropertyParams(model, body) @@ ParseStateReport(model, body)
                   @@ Raw(body) @@ held IN
    /\ ApplyConsumableState(Fault(fault) @@ state, recorded)
    /\ Heard(body, IF fault THEN {"errorMsg"} ELSE {})
    /\ PublishState

HandleProperty ==
  \E body \in Bodies("property") :
    /\ ApplyConsumableState(NormalizePropertyParams(model, body) @@ Raw(body) @@ held, recorded)
    /\ Heard(body, {})
    /\ PublishState

\* The N60 button: a date is recorded, and at once gives way to one the state still holds.
RecordConsumableReset ==
  /\ model = "t5"
  /\ ApplyConsumableState(held, now + 1)
  /\ PublishState
  /\ UNCHANGED <<model, now, stamp, said, stamped, drops, starts>>

\* Readings change; the box's stamp moves with a reset from PetKit's app or the button.
DeviceChanges ==
  /\ now < MaxNow /\ now' = now + 1
  /\ stamp' \in {stamp} \cup (IF model = "t5" THEN {now'} ELSE {})
  /\ UNCHANGED <<model, held, recorded, said, stamped, connected, link, shown, drops, starts>>

\* The add-on stops and starts: the device's state is not kept, its record is.
StartAgain ==
  /\ starts < MaxStarts /\ starts' = starts + 1
  /\ held' = <<>> /\ said' = [k \in Keys |-> None]
  /\ connected' = FALSE /\ link' = FALSE /\ shown' = FALSE
  /\ UNCHANGED <<model, now, stamp, recorded, stamped, drops>>

Break ==
  /\ link /\ drops < MaxDrops
  /\ link' = FALSE /\ drops' = drops + 1
  /\ UNCHANGED <<model, now, stamp, held, recorded, said, stamped, connected, shown, starts>>

\* The publisher's loop: its stream of messages fails, and after a while it connects again.
\* It then announces its entities, and not what they show.
NoticeBreak ==
  /\ connected /\ ~link
  /\ connected' = FALSE
  /\ UNCHANGED <<model, now, stamp, held, recorded, said, stamped, link, shown, drops, starts>>
ReconnectUnflagged == ~connected /\ link' = TRUE /\ UNCHANGED connected
Reconnect == ~connected /\ link' = TRUE /\ connected' = TRUE
StartPublisher ==
  /\ Reconnect
  /\ UNCHANGED <<model, now, stamp, held, recorded, said, stamped, shown, drops, starts>>

ReportNext ==
  \/ HandleStateReport \/ HandleEvent \/ HandleFault \/ HandleSnapshot \/ HandleProperty
  \/ RecordConsumableReset \/ DeviceChanges \/ StartAgain \/ Break \/ NoticeBreak
  \/ StartPublisher

\* A device goes on having events, and the publisher's loop goes on.
ReportFairness == WF_reportVars(HandleEvent) /\ WF_reportVars(StartPublisher)

ReportSpec == ReportInit /\ [][ReportNext]_reportVars /\ ReportFairness

-----------------------------------------------------------------------------

\* Every key holds what the device said last about it, whichever way it came: no parser
\* invents a value, lets an older one through, or knows a field the other one misses.  And
\* once a box has reported when its N60 was replaced, it is never told an older time, nor
\* none: not after a restart, nor while it reports zero.  (payloads.to_device_info.)
HeldIsReported ==
  /\ \A k \in Keys : IF said[k] = None THEN k \notin DOMAIN held \/ held[k] = None
                    ELSE k \in DOMAIN held /\ held[k] = Meaning(k, said[k])
  /\ stamped # 0 => DeviceInfoStamp >= stamped

\* Whatever breaks, Home Assistant is in the end shown what the add-on holds.
HaCatchesUp == <>[]shown
=============================================================================
