--------------------------- MODULE BleAccessories ---------------------------
(***************************************************************************)
(* Accessories that a mains-powered parent reaches over BLE: pairing by    *)
(* the panel and by import from the cloud, what parents are told of their  *)
(* K3 spray, and commands that write a CTW3 fountain's settings through    *)
(* the parent: no frame has a single field, so each is made of what was    *)
(* last reported with one value replaced.  An accessory of the registry    *)
(* is known by its id; on the air it is its MAC.                           *)
(***************************************************************************)
EXTENDS Naturals, Sequences, FiniteSets

CONSTANTS AccIds, Macs, Parents,  \* accessory ids, MACs, registered parents
          BlockFields,            \* the settings of the cmd 221 block
          Commands,               \* commands under way at a time
          MaxOps                  \* pairings, imports, removals and commands

ASSUME BleAssumption ==
  /\ IsFiniteSet(AccIds) /\ IsFiniteSet(Parents)
  /\ 0 \notin AccIds \cup Parents /\ MaxOps \in Nat
  /\ BlockFields \cap {"power", "suspend", "mode"} = {}

VARIABLES
  accs,      \* the BLE registry: id -> [kind, mac, link] or Absent
  states,    \* what the registry holds of each setting, or Unknown
  actual,    \* each accessory's own settings, by MAC
  session,   \* MACs with a BLE session held by a parent
  cmd,       \* commands of the panel
  reading,   \* readings on their way: [mac, block]
  import,    \* the import under way: [left, link, paired], or NoImport
  pending,   \* pairings still to be announced, in order: [id, frozen]
  told,      \* the K3 each parent was last told it owns, 0 for none
  stray,     \* parents whose K3 was moved away or announced after its removal
  mixed,     \* ids whose states may not be the accessory's
  damaged,   \* ids of accessories that lost a setting nobody changed
  ops

bleVars == <<accs, states, actual, session, cmd, reading, import, pending, told, stray,
          mixed, damaged, ops>>

Absent == [kind |-> "absent", mac |-> "none", link |-> 0]
NoCmd == [step |-> "none"]
NoImport == [left |-> {}, link |-> 0, paired |-> <<>>, on |-> FALSE]
Unknown == 2

\* The three settings that share the cmd 220 frame, the two modes being 0 and 1.
ModeFields == {"power", "suspend", "mode"}
AllFields == BlockFields \cup ModeFields
Blank == [f \in AllFields |-> Unknown]
Kinds == {"fountain", "k3"}
Endpoints == {"dev_ble_device", "dev_device_info"}

Paired == {i \in AccIds : accs[i] # Absent}

BleInit ==
  /\ accs = [i \in AccIds |-> Absent] /\ states = [i \in AccIds |-> Blank]
  /\ actual = [m \in Macs |-> [f \in AllFields |-> 1]] /\ session = {}
  /\ cmd = [c \in Commands |-> NoCmd] /\ reading = {}
  /\ import = NoImport /\ pending = <<>>
  /\ told = [p \in Parents |-> 0] /\ stray = {} /\ mixed = {} /\ damaged = {} /\ ops = 0

-----------------------------------------------------------------------------
(* Pairing.                                                                 *)

\* get_by_mac(): the accessory a frame of that MAC belongs to.
ByMac(mac) == {i \in Paired : accs[i].mac = mac}
Clash(id, mac) == ByMac(mac) \ {id} # {}

\* register(): a new accessory, or the fields that are given (a link of 0 is
\* not one) of one that is there.
RegisterAccessory(id, kind, mac, link) ==
  LET old == accs[id]
      new == [kind |-> kind, mac |-> mac, link |-> IF link = 0 THEN old.link ELSE link]
  IN /\ accs' = [accs EXCEPT ![id] = new]
     /\ states' = IF old = Absent THEN [states EXCEPT ![id] = Blank] ELSE states
     /\ mixed' = IF old # Absent /\ old.mac # mac THEN mixed \cup {id} ELSE mixed
     /\ stray' = stray \cup {p \in Parents : /\ told[p] = id /\ old.link = p
                                             /\ new.link # p \/ new.kind # "k3"}

\* The panel's form: everything is checked and registered in one go.
Pair(id, kind, mac, link) ==
  /\ ops < MaxOps /\ ops' = ops + 1 /\ Len(pending) < 2
  /\ ~Clash(id, mac)
  /\ RegisterAccessory(id, kind, mac, link)
  /\ pending' = Append(pending, [id |-> id, frozen |-> Absent])
  /\ UNCHANGED <<actual, session, cmd, reading, import, told, damaged>>

\* An import asks the cloud one endpoint after the other.
ImportStarts(link) ==
  /\ ops < MaxOps /\ ops' = ops + 1 /\ ~import.on
  /\ import' = [left |-> Endpoints, link |-> link, paired |-> <<>>, on |-> TRUE]
  /\ UNCHANGED <<accs, states, actual, session, cmd, reading, pending, told, stray, mixed, damaged>>

NextEndpoint == IF "dev_ble_device" \in import.left THEN "dev_ble_device" ELSE "dev_device_info"
Fetched == import.left \ {NextEndpoint}

\* One endpoint's reply is applied: dev_ble_device names fountains and
\* dev_device_info the parent's K3.  A MAC that is paired to another id is
\* refused, and an accessory that stays as it was is not announced.
ApplyCloudBinding(id, mac) ==
  LET kind == IF NextEndpoint = "dev_ble_device" THEN "fountain" ELSE "k3"
  IN /\ import.left # {} /\ Len(import.paired) < 2
     /\ IF Clash(id, mac)
        THEN /\ import' = [import EXCEPT !.left = Fetched]
             /\ UNCHANGED <<accs, states, mixed, stray>>
        ELSE /\ RegisterAccessory(id, kind, mac, import.link)
             /\ import' = [import EXCEPT !.left = Fetched, !.paired =
                  IF accs'[id] = accs[id] THEN @ ELSE Append(@, [id |-> id, frozen |-> Absent])]
     /\ UNCHANGED <<actual, session, cmd, reading, pending, told, damaged, ops>>

\* The cloud refuses an endpoint or knows no accessory.
EndpointRefused ==
  /\ import.left # {} /\ import' = [import EXCEPT !.left = Fetched]
  /\ UNCHANGED <<accs, states, actual, session, cmd, reading, pending, told, stray, mixed, damaged, ops>>

\* The cloud cannot be reached: what was registered so far is not announced.
ImportFails ==
  /\ import.left # {} /\ import' = NoImport
  /\ UNCHANGED <<accs, states, actual, session, cmd, reading, pending, told, stray, mixed, damaged, ops>>

ImportEnds ==
  /\ import.on /\ import.left = {} /\ Len(pending) + Len(import.paired) <= 2
  /\ import' = NoImport /\ pending' = pending \o import.paired
  /\ UNCHANGED <<accs, states, actual, session, cmd, reading, told, stray, mixed, damaged, ops>>

\* An announcement reaches its await: a K3's parent is told, through the
\* object the pairing returned, which may have left the registry by then.
AnnouncePairing ==
  /\ pending # <<>> /\ pending' = Tail(pending)
  /\ LET note == Head(pending)
         dev == IF note.frozen # Absent THEN note.frozen ELSE accs[note.id]
     IN IF dev.kind = "k3" /\ dev.link # 0
        THEN /\ told' = [told EXCEPT ![dev.link] = note.id]
             /\ stray' = IF note.frozen # Absent THEN stray \cup {dev.link} ELSE stray
        ELSE UNCHANGED <<told, stray>>
  /\ UNCHANGED <<accs, states, actual, session, cmd, reading, import, mixed, damaged, ops>>

\* api_ble_delete(): the parent is read, the accessory removed and saved, and
\* the parent of a K3 told.
ParentAfterRemoval(id) == 0
ParentOf(id) == IF accs[id].kind = "k3" THEN accs[id].link ELSE 0

Freeze(list, id) ==
  [n \in DOMAIN list |-> IF list[n].id = id /\ list[n].frozen = Absent
                         THEN [list[n] EXCEPT !.frozen = accs[id]] ELSE list[n]]

Delete(id) ==
  /\ ops < MaxOps /\ ops' = ops + 1 /\ id \in Paired
  /\ accs' = [accs EXCEPT ![id] = Absent] /\ states' = [states EXCEPT ![id] = Blank]
  /\ pending' = Freeze(pending, id) /\ import' = [import EXCEPT !.paired = Freeze(@, id)]
  /\ told' = IF ParentOf(id) # 0 THEN [told EXCEPT ![ParentOf(id)] = 0] ELSE told
  /\ cmd' = [c \in Commands |-> IF cmd[c].step # "none" /\ cmd[c].id = id
                                THEN [cmd[c] EXCEPT !.gone = TRUE] ELSE cmd[c]]
  /\ mixed' = mixed \ {id}
  /\ UNCHANGED <<actual, session, reading, stray, damaged>>

-----------------------------------------------------------------------------
(* Readings.                                                                *)

\* The poll, or "read now": the parent opens a session to a linked fountain.
Connect(id) ==
  /\ id \in Paired /\ accs[id].kind = "fountain" /\ accs[id].link # 0
  /\ session' = session \cup {accs[id].mac}
  /\ UNCHANGED <<accs, states, actual, cmd, reading, import, pending, told, stray, mixed, damaged, ops>>

\* The accessory reports through the parent: the block, what the other frame has, or both; and
\* no mode while its smart cycle sleeps.
Reports(mac) ==
  /\ mac \in session /\ reading = {}
  /\ \E part \in {BlockFields, ModeFields, AllFields}, gap \in {{}, {"mode"}} :
       reading' = {[mac |-> mac, block |-> [f \in part \ gap |-> actual[mac][f]]]}
  /\ UNCHANGED <<accs, states, actual, session, cmd, import, pending, told, stray, mixed, damaged, ops>>

InFlight(id) == \E c \in Commands : cmd[c].step # "none" /\ cmd[c].id = id /\ ~cmd[c].gone

\* dict.update(): what was held stays where the reading says nothing.
Merged(held, block) == [f \in AllFields |-> IF f \in DOMAIN block THEN block[f] ELSE held[f]]
Overtaken(r) == \E f \in DOMAIN r.block : r.block[f] # actual[r.mac][f]

\* _handle_ble_response(): whoever has the MAC gets the reading, and the
\* session is closed.
HandleBleResponse ==
  \E r \in reading :
    /\ reading' = {}
    /\ IF ByMac(r.mac) = {} THEN UNCHANGED <<states, session, mixed>>
       ELSE \E i \in ByMac(r.mac) :
              IF accs[i].kind = "fountain"
              THEN /\ states' = [states EXCEPT ![i] = Merged(@, r.block)]
                   /\ session' = session \ {r.mac}
                   /\ mixed' = IF Overtaken(r) THEN mixed \cup {i}
                               ELSE IF InFlight(i) \/ DOMAIN r.block # AllFields THEN mixed
                               ELSE mixed \ {i}
              ELSE UNCHANGED <<states, session, mixed>>
    /\ UNCHANGED <<accs, actual, cmd, import, pending, told, stray, damaged, ops>>

\* The hold of half a minute ends.
SessionEnds(mac) ==
  /\ mac \in session /\ session' = session \ {mac}
  /\ UNCHANGED <<accs, states, actual, cmd, reading, import, pending, told, stray, mixed, damaged, ops>>

-----------------------------------------------------------------------------
(* Commands.                                                                *)

FrameOf(field) == IF field \in ModeFields THEN ModeFields ELSE BlockFields

\* What a command sets beside the field it names: picking a mode means running in it, and a
\* fountain that is switched off has nothing to suspend.
SetsToo(field, value) ==
  CASE field = "mode" -> {"power", "suspend"}
    [] field = "power" /\ value = 0 -> {"suspend"}
    [] OTHER -> {}

\* A frame is written whole, so the rest of it must have been reported.  (Left out: childLock
\* and the inductive switches, which no reading of the block leaves out, count as 0 without one.)
CompleteEnough(id, field) == TRUE
Complete(id, field) == field = "mode" \/ \A f \in FrameOf(field) \ {field} : states[id][f] # Unknown

Held(id, f) == IF states[id][f] = Unknown THEN 0 ELSE states[id][f]
Frame(id, field, value) ==
  LET asked == [f \in FrameOf(field) |-> IF f = field THEN value
                                         ELSE IF field = "mode" THEN 1 ELSE Held(id, f)]
  IN IF field \in ModeFields /\ asked["power"] = 0 THEN [asked EXCEPT !["suspend"] = 0] ELSE asked

\* The payload is made from what the registry holds; then the parent is asked
\* to open a session.
Command(c, id, field, value) ==
  /\ ops < MaxOps /\ ops' = ops + 1
  /\ cmd[c] = NoCmd /\ id \in Paired /\ accs[id].kind = "fountain" /\ accs[id].link # 0
  /\ Complete(id, field)
  /\ cmd' = [cmd EXCEPT ![c] =
       [step |-> "connecting", id |-> id, mac |-> accs[id].mac, field |-> field, value |-> value,
        gone |-> FALSE, block |-> Frame(id, field, value)]]
  /\ mixed' = IF InFlight(id) THEN mixed \cup {id} ELSE mixed
  /\ UNCHANGED <<accs, states, actual, session, reading, import, pending, told, stray, damaged>>

\* What a command set will not be what is held once its value is recorded.
Unrecorded(q) ==
  \E f \in DOMAIN q.block :
    (IF f = q.field THEN q.value ELSE states[q.id][f]) \notin {Unknown, q.block[f]}

\* The session is asked for and the frame written.  Either may fall to a
\* connection that is gone, and a write without a session is ignored.
Publish(c, connected, sent) ==
  /\ cmd[c].step = "connecting"
  /\ cmd' = [cmd EXCEPT ![c].step = "recording"]
  /\ LET q == cmd[c]
         lands == sent /\ (connected \/ q.mac \in session)
         others == DOMAIN q.block \ ({q.field} \cup SetsToo(q.field, q.value))
     IN /\ session' = IF connected THEN session \cup {q.mac} ELSE session
        /\ actual' = IF lands THEN [actual EXCEPT ![q.mac] = Merged(@, q.block)] ELSE actual
        /\ damaged' = IF /\ lands /\ q.id \notin mixed /\ ~q.gone
                         /\ \E f \in others : q.block[f] # actual[q.mac][f]
                      THEN damaged \cup {q.id} ELSE damaged
        /\ mixed' = IF lands
                    THEN mixed \cup {i \in ByMac(q.mac) : i # q.id \/ q.gone \/ Unrecorded(q)}
                    ELSE IF q.gone THEN mixed ELSE mixed \cup {q.id}
  /\ UNCHANGED <<accs, states, reading, import, pending, told, stray, ops>>

\* The new value is recorded, whether or not the write left.
Record(c) ==
  /\ cmd[c].step = "recording" /\ cmd' = [cmd EXCEPT ![c] = NoCmd]
  /\ states' = IF cmd[c].gone THEN states
               ELSE [states EXCEPT ![cmd[c].id][cmd[c].field] = cmd[c].value]
  /\ UNCHANGED <<accs, actual, session, reading, import, pending, told, stray, mixed, damaged, ops>>

\* The bridge is not connected: nothing is sent and nothing recorded.
NothingSent(c) ==
  /\ cmd[c].step = "connecting" /\ cmd' = [cmd EXCEPT ![c] = NoCmd]
  /\ UNCHANGED <<accs, states, actual, session, reading, import, pending, told, stray, mixed, damaged, ops>>

BleNext ==
  \/ \E i \in AccIds, m \in Macs, p \in Parents \cup {0}, k \in Kinds : Pair(i, k, m, p)
  \/ \E p \in Parents : ImportStarts(p)
  \/ \E i \in AccIds, m \in Macs : ApplyCloudBinding(i, m)
  \/ EndpointRefused \/ ImportFails \/ ImportEnds \/ AnnouncePairing
  \/ \E i \in AccIds : Delete(i) \/ Connect(i)
  \/ \E m \in Macs : Reports(m) \/ SessionEnds(m)
  \/ HandleBleResponse
  \/ \E c \in Commands, i \in AccIds, f \in AllFields, v \in {0, 1} : Command(c, i, f, v)
  \/ \E c \in Commands, connected, sent \in BOOLEAN : Publish(c, connected, sent)
  \/ \E c \in Commands : Record(c) \/ NothingSent(c)

BleSpec == BleInit /\ [][BleNext]_bleVars

-----------------------------------------------------------------------------

BleTypeOK ==
  /\ accs \in [AccIds -> [kind : Kinds, mac : Macs, link : Parents \cup {0}] \cup {Absent}]
  /\ states \in [AccIds -> [AllFields -> {0, 1, Unknown}]]
  /\ actual \in [Macs -> [AllFields -> {0, 1}]]
  /\ session \subseteq Macs /\ told \in [Parents -> AccIds \cup {0}]
  /\ stray \subseteq Parents /\ mixed \subseteq AccIds /\ ops \in 0..MaxOps
  \* A frame names its accessory by the MAC alone.
  /\ \A i, j \in Paired : i # j => accs[i].mac # accs[j].mac

(* A command changes the setting it names, what it means to set with it      *)
(* (SetsToo), and no other, although a frame is written whole from what was  *)
(* last reported.  Excused is an accessory whose reported settings could not *)
(* be its own: commands overlapped, one was lost, a reading was overtaken,   *)
(* the id was given another accessory, a command of the id that had its MAC  *)
(* before landed late, or a command set more than it recorded: the power and *)
(* suspend of a mode, and the suspend of a fountain that is off.             *)
BlocksKept == damaged = {}

(* A parent is not left believing it owns a K3 that is gone, unless the K3   *)
(* was moved to another parent first or was announced after its removal.     *)
K3Forgotten == \A p \in Parents : told[p] \in Paired \cup {0} \/ p \in stray
=============================================================================
