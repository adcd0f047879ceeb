------------------------------ MODULE BleProofs ------------------------------
(***************************************************************************)
(* The BLE accessories, for any number of accessories, parents, settings   *)
(* and commands: frames name their accessory, a parent forgets a K3 that   *)
(* is removed, and a command changes the setting it names and no other.    *)
(***************************************************************************)
EXTENDS BleAccessories, SequenceTheorems, TLAPS

Accessory == [kind : Kinds, mac : Macs, link : Parents \cup {0}] \cup {Absent}
Note == [id : AccIds, frozen : Accessory]
\* What a reading reports and a frame carries: some of the settings.
Part == UNION {[fields -> {0, 1}] : fields \in SUBSET AllFields}
UnderWay == [step : {"connecting", "recording"}, id : AccIds, mac : Macs, field : AllFields,
             value : {0, 1}, gone : BOOLEAN, block : Part]

MoreTypes ==
  /\ cmd \in [Commands -> UnderWay \cup {NoCmd}]
  /\ reading \subseteq [mac : Macs, block : Part]
  /\ import \in [left : SUBSET Endpoints, link : Parents \cup {0}, paired : Seq(Note),
                 on : BOOLEAN]
  /\ pending \in Seq(Note)

\* What is still to be announced is paired, or froze when it was removed.
Announceable(notes) ==
  \A n \in DOMAIN notes : notes[n].frozen = Absent => notes[n].id \in Paired

NotesInv == Announceable(pending) /\ Announceable(import.paired)

\* What a parent believes to own is its K3.
K3Inv ==
  \A p \in Parents :
    \/ p \in stray
    \/ told[p] = 0
    \/ told[p] \in AccIds /\ accs[told[p]].kind = "k3" /\ accs[told[p]].link = p

IInv == BleTypeOK /\ MoreTypes /\ NotesInv /\ K3Inv

-----------------------------------------------------------------------------
(* The operators                                                           *)

LEMMA PairedKinds ==
  ASSUME BleTypeOK, NEW i \in AccIds
  PROVE  /\ i \in Paired <=> accs[i].kind \in Kinds
         /\ i \in Paired => accs[i] \in [kind : Kinds, mac : Macs, link : Parents \cup {0}]
BY DEF BleTypeOK, Paired, Absent, Kinds

\* A reading or a frame says something of some settings, in their values.
LEMMA PartIs ==
  ASSUME NEW b \in Part
  PROVE  DOMAIN b \subseteq AllFields /\ \A f \in DOMAIN b : b[f] \in {0, 1}
BY DEF Part

LEMMA MergedIs ==
  ASSUME NEW V, NEW held \in [AllFields -> V], NEW b \in Part, {0, 1} \subseteq V
  PROVE  Merged(held, b) \in [AllFields -> V]
<1>1. \A f \in AllFields : (IF f \in DOMAIN b THEN b[f] ELSE held[f]) \in V
  BY PartIs
<1> QED BY <1>1 DEF Merged

\* A frame carries the setting it is sent for, and restates what is held of
\* every other that is not set with it.
LEMMA FrameIs ==
  ASSUME BleTypeOK, NEW i \in AccIds, NEW f \in AllFields, NEW v \in {0, 1}
  PROVE  /\ Frame(i, f, v) \in Part
         /\ f \in DOMAIN Frame(i, f, v) /\ DOMAIN Frame(i, f, v) = FrameOf(f)
         /\ Complete(i, f) => \A g \in FrameOf(f) \ ({f} \cup SetsToo(f, v)) :
              Frame(i, f, v)[g] = states[i][g] /\ states[i][g] # Unknown
<1> DEFINE asked == [g \in FrameOf(f) |-> IF g = f THEN v
                                         ELSE IF f = "mode" THEN 1 ELSE Held(i, g)]
<1>1. /\ FrameOf(f) \subseteq AllFields /\ f \in FrameOf(f)
      /\ f \in ModeFields => FrameOf(f) = ModeFields
      /\ f \notin ModeFields => FrameOf(f) = BlockFields
  BY DEF FrameOf, AllFields
<1>2. asked \in [FrameOf(f) -> {0, 1}]
  <2>1. \A g \in AllFields : Held(i, g) \in {0, 1}
    BY DEF Held, BleTypeOK, Unknown
  <2> QED BY <1>1, <2>1
<1>3. Frame(i, f, v) = IF f \in ModeFields /\ asked["power"] = 0
                       THEN [asked EXCEPT !["suspend"] = 0] ELSE asked
  BY DEF Frame
<1>4. /\ Frame(i, f, v) \in [FrameOf(f) -> {0, 1}]
      /\ \A g \in FrameOf(f) : g # "suspend" \/ f \notin ModeFields \/ asked["power"] # 0 =>
           Frame(i, f, v)[g] = asked[g]
  <2> HIDE DEF asked
  <2> QED BY <1>2, <1>3
<1>5. Frame(i, f, v) \in Part
  BY <1>1, <1>4 DEF Part
<1>6. ASSUME Complete(i, f), NEW g \in FrameOf(f), g # f, g \notin SetsToo(f, v)
      PROVE  Frame(i, f, v)[g] = states[i][g] /\ states[i][g] # Unknown
  <2>1. f # "mode"
    BY <1>1, <1>6 DEF SetsToo, ModeFields
  <2>2. states[i][g] # Unknown /\ asked[g] = states[i][g]
    BY <1>6, <2>1 DEF Complete, Held
  <2>3. g # "suspend" \/ f \notin ModeFields \/ asked["power"] # 0
    <3> SUFFICES ASSUME g = "suspend", f \in ModeFields, asked["power"] = 0 PROVE FALSE
      OBVIOUS
    <3>1. f = "power"
      BY <1>6, <2>1 DEF ModeFields
    <3>2. v = 0
      BY <1>1, <3>1
    <3> QED BY <1>6, <3>1, <3>2 DEF SetsToo
  <2> QED BY <1>4, <2>2, <2>3
<1> QED BY <1>1, <1>4, <1>5, <1>6

\* register() keeps MACs apart and parents right, when the MAC is not taken.
LEMMA RegisterKeeps ==
  ASSUME BleTypeOK, K3Inv, NEW i \in AccIds, NEW k \in Kinds, NEW m \in Macs,
         NEW p \in Parents \cup {0}, ~Clash(i, m), RegisterAccessory(i, k, m, p),
         UNCHANGED <<actual, session, told>>, ops' \in 0..MaxOps
  PROVE  /\ BleTypeOK' /\ K3Inv'
         /\ Paired' = Paired \cup {i}
<1> DEFINE new == [kind |-> k, mac |-> m, link |-> IF p = 0 THEN accs[i].link ELSE p]
<1>1. accs[i].link \in Parents \cup {0}
  BY DEF BleTypeOK, Absent
<1>2. new \in [kind : Kinds, mac : Macs, link : Parents \cup {0}] /\ new # Absent
  BY <1>1 DEF Absent, Kinds
<1>3. accs' = [accs EXCEPT ![i] = new]
  BY DEF RegisterAccessory
<1>4. /\ accs' \in [AccIds -> [kind : Kinds, mac : Macs, link : Parents \cup {0}] \cup {Absent}]
      /\ Paired' = Paired \cup {i}
  BY <1>2, <1>3 DEF BleTypeOK, Paired
<1>5. states' \in [AccIds -> [AllFields -> {0, 1, Unknown}]] /\ mixed' \subseteq AccIds
      /\ stray' \subseteq Parents
  BY DEF RegisterAccessory, BleTypeOK, Blank
<1>6. ASSUME NEW a \in Paired', NEW b \in Paired', a # b PROVE accs'[a].mac # accs'[b].mac
  <2>1. \A j \in Paired : j # i => accs[j].mac # m
    BY DEF Clash, ByMac
  <2>2. accs'[i].mac = m /\ \A j \in AccIds : j # i => accs'[j] = accs[j]
    BY <1>3 DEF BleTypeOK, Paired
  <2>3. a \in AccIds /\ b \in AccIds /\ (a # i => a \in Paired) /\ (b # i => b \in Paired)
    BY <1>4, <1>6 DEF Paired
  <2> QED BY <1>6, <2>1, <2>2, <2>3 DEF BleTypeOK
<1>7. BleTypeOK'
  BY <1>4, <1>5, <1>6 DEF BleTypeOK
<1>8. K3Inv'
  <2>1. ASSUME NEW q \in Parents, q \notin stray', told[q] # 0
        PROVE  told[q] \in AccIds /\ accs'[told[q]].kind = "k3" /\ accs'[told[q]].link = q
    <3>1. q \notin stray /\ told[q] \in AccIds /\ accs[told[q]].kind = "k3" /\ accs[told[q]].link = q
      BY <2>1 DEF RegisterAccessory, K3Inv
    <3>2. CASE told[q] # i
      BY <1>3, <3>1, <3>2 DEF BleTypeOK
    <3>3. CASE told[q] = i
      <4>1. new.kind = "k3" /\ new.link = q
        BY <2>1, <3>1, <3>3 DEF RegisterAccessory
      <4> QED BY <1>3, <3>1, <3>3, <4>1 DEF BleTypeOK
    <3> QED BY <3>2, <3>3
  <2> QED BY <2>1 DEF K3Inv
<1> QED BY <1>4, <1>7, <1>8

\* Announcements that are added, taken or frozen.
LEMMA AppendKeeps ==
  ASSUME NEW notes \in Seq(Note), Announceable(notes), Paired \subseteq Paired',
         NEW i \in AccIds, i \in Paired'
  PROVE  /\ Append(notes, [id |-> i, frozen |-> Absent]) \in Seq(Note)
         /\ Announceable(Append(notes, [id |-> i, frozen |-> Absent]))'
<1>1. PICK note \in Note : note = [id |-> i, frozen |-> Absent]
  BY DEF Note, Accessory
<1>2. PICK more \in Seq(Note) : more = Append(notes, note)
  BY AppendProperties
<1>3. \A n \in DOMAIN more : more[n] = note \/ (n \in DOMAIN notes /\ more[n] = notes[n])
  <2>1. /\ Len(more) = Len(notes) + 1
        /\ \A n \in 1..Len(notes) : more[n] = notes[n]
        /\ more[Len(notes) + 1] = note
    BY <1>2, AppendProperties
  <2>2. /\ Len(notes) \in Nat
        /\ DOMAIN notes = 1..Len(notes)
        /\ DOMAIN more = 1..Len(more)
    OBVIOUS
  <2> QED BY <2>1, <2>2
<1> QED BY <1>1, <1>2, <1>3 DEF Announceable

LEMMA ConcatKeeps ==
  ASSUME NEW a \in Seq(Note), NEW b \in Seq(Note), Announceable(a), Announceable(b)
  PROVE  a \o b \in Seq(Note) /\ Announceable(a \o b)
<1>1. \A n \in DOMAIN (a \o b) :
        \/ n \in DOMAIN a /\ (a \o b)[n] = a[n]
        \/ n - Len(a) \in DOMAIN b /\ (a \o b)[n] = b[n - Len(a)]
  OBVIOUS
<1> QED BY <1>1 DEF Announceable

LEMMA TailKeeps ==
  ASSUME NEW notes \in Seq(Note), notes # <<>>, Announceable(notes)
  PROVE  /\ Tail(notes) \in Seq(Note) /\ Announceable(Tail(notes))
         /\ Head(notes) \in Note
         /\ Head(notes).frozen = Absent => Head(notes).id \in Paired
<1>1. 1 \in DOMAIN notes /\ Head(notes) = notes[1]
  OBVIOUS
<1>2. \A n \in DOMAIN Tail(notes) : n + 1 \in DOMAIN notes /\ Tail(notes)[n] = notes[n + 1]
  OBVIOUS
<1> QED BY <1>1, <1>2 DEF Announceable

LEMMA FunctionsAreSequences ==
  ASSUME NEW S, NEW k \in Nat, NEW f \in [1..k -> S]
  PROVE  f \in Seq(S)
<1>1. [1..k -> S] \in {[1..n -> S] : n \in Nat}
  BY Zenon
<1> QED BY <1>1, SeqDef, Zenon

LEMMA FreezeKeeps ==
  ASSUME BleTypeOK, NEW notes \in Seq(Note), Announceable(notes), NEW i \in Paired,
         accs' = [accs EXCEPT ![i] = Absent], NEW frozen, frozen = Freeze(notes, i)
  PROVE  frozen \in Seq(Note) /\ Announceable(frozen)'
<1>1. i \in AccIds /\ accs[i] \in Accessory /\ accs[i] # Absent
  BY DEF Paired, BleTypeOK, Accessory
<1>2. \A n \in DOMAIN notes : notes[n] \in Note
  OBVIOUS
<1>3. DOMAIN frozen = DOMAIN notes /\ \A n \in DOMAIN notes :
        frozen[n] = IF notes[n].id = i /\ notes[n].frozen = Absent
                    THEN [notes[n] EXCEPT !.frozen = accs[i]] ELSE notes[n]
  BY DEF Freeze
<1>4. \A n \in DOMAIN notes : frozen[n] \in Note
  BY <1>1, <1>2, <1>3 DEF Note
<1>5. frozen \in Seq(Note)
  <2>1. DOMAIN notes = 1..Len(notes) /\ Len(notes) \in Nat
    OBVIOUS
  <2>2. frozen \in [1..Len(notes) -> Note]
    BY <1>3, <1>4, <2>1 DEF Freeze
  <2> QED BY <2>1, <2>2, FunctionsAreSequences, Zenon
<1>6. \A j \in AccIds : j # i /\ j \in Paired => j \in Paired'
  BY DEF Paired, BleTypeOK
<1>7. ASSUME NEW n \in DOMAIN notes, frozen[n].frozen = Absent
      PROVE  frozen[n].id \in Paired'
  <2>1. frozen[n] = notes[n] /\ notes[n].id # i
    BY <1>1, <1>2, <1>3, <1>7 DEF Note
  <2>2. notes[n].id \in Paired /\ notes[n].id \in AccIds
    BY <1>2, <1>7, <2>1 DEF Announceable, Note
  <2> QED BY <1>6, <2>1, <2>2
<1> QED BY <1>3, <1>5, <1>7 DEF Announceable

-----------------------------------------------------------------------------
(* The invariant, step by step                                             *)

LEMMA InitInv == BleInit => IInv
<1> SUFFICES ASSUME BleInit PROVE IInv
  OBVIOUS
<1>1. Paired = {}
  BY DEF BleInit, Paired
<1>2. BleTypeOK
  BY <1>1, BleAssumption DEF BleInit, BleTypeOK, Blank
<1>3. MoreTypes
  BY DEF BleInit, MoreTypes, NoImport
<1>4. NotesInv /\ K3Inv
  BY DEF BleInit, NotesInv, Announceable, K3Inv, NoImport
<1> QED BY <1>2, <1>3, <1>4 DEF IInv

LEMMA PairKeeps ==
  ASSUME IInv, NEW i \in AccIds, NEW m \in Macs, NEW p \in Parents \cup {0}, NEW k \in Kinds,
         Pair(i, k, m, p)
  PROVE  IInv'
<1> USE DEF IInv
<1>1. ops' \in 0..MaxOps
  BY BleAssumption DEF Pair, BleTypeOK
<1>2. BleTypeOK' /\ K3Inv' /\ Paired' = Paired \cup {i}
  BY <1>1, RegisterKeeps DEF Pair
<1>3. pending' \in Seq(Note) /\ Announceable(pending)'
  <2>1. PICK notes \in Seq(Note) : notes = pending /\ Announceable(notes)
    BY DEF MoreTypes, NotesInv
  <2>2. PICK more : more = Append(notes, [id |-> i, frozen |-> Absent]) /\ pending' = more
    BY <2>1 DEF Pair
  <2> QED BY <1>2, <2>1, <2>2, AppendKeeps DEF Announceable
<1>4. Announceable(import.paired)'
  BY <1>2 DEF Pair, NotesInv, Announceable
<1> QED BY <1>2, <1>3, <1>4 DEF Pair, MoreTypes, NotesInv

\* Steps of an import that register nothing.
LEMMA ImportKeeps ==
  ASSUME IInv, \/ \E p \in Parents : ImportStarts(p)
               \/ EndpointRefused \/ ImportFails \/ ImportEnds
  PROVE  IInv'
<1> USE DEF IInv
<1>1. /\ UNCHANGED <<accs, states, actual, session, cmd, reading, told, stray, mixed, damaged>>
      /\ ops' \in 0..MaxOps
  BY BleAssumption DEF ImportStarts, EndpointRefused, ImportFails, ImportEnds, BleTypeOK
<1>2. BleTypeOK' /\ K3Inv' /\ Paired' = Paired
  BY <1>1 DEF BleTypeOK, K3Inv, Paired
<1>3. /\ import' \in [left : SUBSET Endpoints, link : Parents \cup {0}, paired : Seq(Note),
                      on : BOOLEAN]
      /\ Announceable(import.paired)'
  <2>1. CASE import'.paired = <<>>
    <3>1. import' \in [left : SUBSET Endpoints, link : Parents \cup {0}, paired : Seq(Note),
                       on : BOOLEAN]
      <4>1. CASE \E p \in Parents : ImportStarts(p)
        <5>1. PICK p \in Parents : import' = [left |-> Endpoints, link |-> p, paired |-> <<>>, on |-> TRUE]
          BY <4>1 DEF ImportStarts
        <5>2. <<>> \in Seq(Note) /\ Endpoints \in SUBSET Endpoints
          OBVIOUS
        <5> QED BY <5>1, <5>2
      <4>2. CASE ImportFails \/ ImportEnds
        <5>1. import' = [left |-> {}, link |-> 0, paired |-> <<>>, on |-> FALSE]
          BY <4>2 DEF ImportFails, ImportEnds, NoImport
        <5>2. <<>> \in Seq(Note) /\ {} \in SUBSET Endpoints
          OBVIOUS
        <5> QED BY <5>1, <5>2
      <4>3. CASE EndpointRefused
        BY <4>3 DEF EndpointRefused, Fetched, MoreTypes
      <4> QED BY <4>1, <4>2, <4>3
    <3> QED BY <2>1, <3>1 DEF Announceable
  <2>2. CASE EndpointRefused
    <3>1. import' = [import EXCEPT !.left = Fetched] /\ import'.paired = import.paired
      BY <2>2 DEF EndpointRefused, MoreTypes
    <3> QED BY <1>2, <3>1 DEF Fetched, MoreTypes, NotesInv, Announceable
  <2> QED BY <2>1, <2>2 DEF ImportStarts, ImportFails, ImportEnds, NoImport
<1>4. pending' \in Seq(Note) /\ Announceable(pending)'
  <2>1. CASE pending' = pending
    BY <1>2, <2>1 DEF MoreTypes, NotesInv, Announceable
  <2>2. CASE ImportEnds
    <3>1. PICK a \in Seq(Note), b \in Seq(Note) :
            a = pending /\ b = import.paired /\ Announceable(a) /\ Announceable(b)
      BY DEF MoreTypes, NotesInv
    <3> QED BY <1>2, <2>2, <3>1, ConcatKeeps DEF ImportEnds, Announceable
  <2> QED BY <2>1, <2>2 DEF ImportStarts, EndpointRefused, ImportFails
<1> QED BY <1>1, <1>2, <1>3, <1>4 DEF MoreTypes, NotesInv

LEMMA ApplyKeeps ==
  ASSUME IInv, NEW i \in AccIds, NEW m \in Macs, ApplyCloudBinding(i, m)
  PROVE  IInv'
<1> USE DEF IInv
<1> DEFINE k == IF NextEndpoint = "dev_ble_device" THEN "fountain" ELSE "k3"
<1>1. UNCHANGED <<actual, session, cmd, reading, pending, told, damaged, ops>>
  BY DEF ApplyCloudBinding
<1>2. CASE Clash(i, m)
  <2>1. /\ import' = [import EXCEPT !.left = Fetched]
        /\ UNCHANGED <<accs, states, mixed, stray>>
    BY <1>2 DEF ApplyCloudBinding
  <2>2. BleTypeOK' /\ K3Inv' /\ Paired' = Paired
    BY <1>1, <2>1 DEF BleTypeOK, K3Inv, Paired
  <2>3. MoreTypes' /\ NotesInv'
    BY <1>1, <2>1, <2>2 DEF MoreTypes, NotesInv, Announceable, Fetched
  <2> QED BY <2>2, <2>3
<1>3. CASE ~Clash(i, m)
  <2>1. /\ RegisterAccessory(i, k, m, import.link) /\ k \in Kinds /\ import.link \in Parents \cup {0}
        /\ import' = [import EXCEPT !.left = Fetched, !.paired =
             IF accs'[i] = accs[i] THEN @ ELSE Append(@, [id |-> i, frozen |-> Absent])]
    BY <1>3 DEF ApplyCloudBinding, Kinds, MoreTypes
  <2>2. BleTypeOK' /\ K3Inv' /\ Paired' = Paired \cup {i}
    <3> HIDE DEF k
    <3> QED BY <1>1, <1>3, <2>1, RegisterKeeps DEF BleTypeOK
  <2>3. PICK notes \in Seq(Note) : notes = import.paired /\ Announceable(notes)
    BY DEF MoreTypes, NotesInv
  <2>4. import'.paired \in Seq(Note) /\ Announceable(import.paired)'
    <3>1. CASE accs'[i] = accs[i]
      BY <2>1, <2>2, <2>3, <3>1 DEF Announceable, MoreTypes
    <3>2. CASE accs'[i] # accs[i]
      <4>1. PICK more : /\ more = Append(notes, [id |-> i, frozen |-> Absent])
                        /\ import'.paired = more
        BY <2>1, <2>3, <3>2 DEF MoreTypes
      <4> QED BY <2>2, <2>3, <4>1, AppendKeeps DEF Announceable
    <3> QED BY <3>1, <3>2
  <2>5. import' \in [left : SUBSET Endpoints, link : Parents \cup {0}, paired : Seq(Note),
                     on : BOOLEAN]
    BY <2>1, <2>4 DEF MoreTypes, Fetched
  <2>6. Announceable(pending)'
    BY <1>1, <2>2 DEF NotesInv, Announceable
  <2> QED BY <1>1, <2>2, <2>4, <2>5, <2>6 DEF MoreTypes, NotesInv
<1> QED BY <1>2, <1>3

LEMMA AnnounceKeeps == ASSUME IInv, AnnouncePairing PROVE IInv'
<1> USE DEF IInv
<1> DEFINE dev(note) == IF note.frozen # Absent THEN note.frozen ELSE accs[note.id]
<1>1. PICK notes \in Seq(Note), note \in Note :
        /\ notes = pending /\ notes # <<>> /\ note = Head(notes) /\ pending' = Tail(notes)
        /\ Tail(notes) \in Seq(Note) /\ Announceable(Tail(notes))
        /\ note.frozen = Absent => note.id \in Paired
  <2>1. pending \in Seq(Note) /\ pending # <<>> /\ pending' = Tail(pending)
    BY DEF AnnouncePairing, MoreTypes
  <2> QED BY <2>1, TailKeeps DEF NotesInv
<1>2. UNCHANGED <<accs, states, actual, session, cmd, reading, import, mixed, damaged, ops>>
  BY DEF AnnouncePairing
<1>3. IF dev(note).kind = "k3" /\ dev(note).link # 0
      THEN /\ told' = [told EXCEPT ![dev(note).link] = note.id]
           /\ stray' = IF note.frozen # Absent THEN stray \cup {dev(note).link} ELSE stray
      ELSE UNCHANGED <<told, stray>>
  BY <1>1 DEF AnnouncePairing
<1>4. note.id \in AccIds /\ dev(note) \in Accessory
  BY <1>1 DEF Note, BleTypeOK, Accessory
<1>5. dev(note).link \in Parents \cup {0}
  BY <1>4 DEF Accessory, Absent
<1>6. BleTypeOK'
  <2> HIDE DEF dev
  <2> QED BY <1>2, <1>3, <1>4, <1>5 DEF BleTypeOK, Paired
<1>7. K3Inv'
  <2>1. CASE dev(note).kind = "k3" /\ dev(note).link # 0
    <3>1. PICK q \in Parents : q = dev(note).link
      BY <1>5, <2>1
    <3>2. told' = [told EXCEPT ![q] = note.id] /\ stray \subseteq stray'
      BY <1>3, <2>1, <3>1
    <3>3. q \in stray' \/ (accs[note.id].kind = "k3" /\ accs[note.id].link = q)
      BY <1>3, <2>1, <3>1
    <3> QED BY <1>2, <1>4, <3>2, <3>3 DEF K3Inv, BleTypeOK
  <2>2. CASE ~(dev(note).kind = "k3" /\ dev(note).link # 0)
    BY <1>2, <1>3, <2>2 DEF K3Inv
  <2> QED BY <2>1, <2>2
<1>8. Announceable(pending)' /\ Announceable(import.paired)'
  BY <1>1, <1>2 DEF Announceable, Paired, NotesInv
<1> QED BY <1>1, <1>2, <1>6, <1>7, <1>8 DEF MoreTypes, NotesInv

LEMMA DeleteKeeps == ASSUME IInv, NEW i \in AccIds, Delete(i) PROVE IInv'
<1> USE DEF IInv
<1>1. /\ i \in Paired /\ accs' = [accs EXCEPT ![i] = Absent]
      /\ states' = [states EXCEPT ![i] = Blank]
      /\ pending' = Freeze(pending, i)
      /\ import' = [import EXCEPT !.paired = Freeze(import.paired, i)]
      /\ told' = IF ParentOf(i) # 0 THEN [told EXCEPT ![ParentOf(i)] = 0] ELSE told
      /\ mixed' = mixed \ {i} /\ ops' \in 0..MaxOps
      /\ UNCHANGED <<actual, session, reading, stray, damaged>>
  BY BleAssumption DEF Delete, MoreTypes, BleTypeOK
<1>2. ParentOf(i) \in Parents \cup {0}
  BY DEF ParentOf, BleTypeOK, Absent
<1>3. Paired' = Paired \ {i}
  BY <1>1 DEF Paired, BleTypeOK
<1>4. BleTypeOK'
  <2>1. /\ accs' \in [AccIds -> Accessory] /\ states' \in [AccIds -> [AllFields -> {0, 1, Unknown}]]
    BY <1>1 DEF BleTypeOK, Accessory, Blank
  <2>2. told' \in [Parents -> AccIds \cup {0}]
    BY <1>1, <1>2 DEF BleTypeOK
  <2>3. \A a, b \in Paired' : a # b => accs'[a].mac # accs'[b].mac
    BY <1>1, <1>3 DEF BleTypeOK, Paired
  <2> QED BY <1>1, <2>1, <2>2, <2>3 DEF BleTypeOK, Accessory
<1>5. cmd' \in [Commands -> UnderWay \cup {NoCmd}]
  <2>1. \A c \in Commands : cmd[c].step # "none" =>
          [cmd[c] EXCEPT !.gone = TRUE] \in UnderWay
    <3> SUFFICES ASSUME NEW c \in Commands, cmd[c].step # "none"
                 PROVE  [cmd[c] EXCEPT !.gone = TRUE] \in UnderWay
      OBVIOUS
    <3>1. PICK q \in UnderWay : q = cmd[c]
      BY DEF MoreTypes, NoCmd
    <3>2. [q EXCEPT !.gone = TRUE] \in UnderWay
      BY DEF UnderWay
    <3> QED BY <3>1, <3>2
  <2> QED BY <2>1 DEF Delete, MoreTypes
<1>6. pending' \in Seq(Note) /\ Announceable(pending)'
  <2>1. PICK notes \in Seq(Note) : notes = pending /\ Announceable(notes)
    BY DEF MoreTypes, NotesInv
  <2> PICK frozen : frozen = Freeze(notes, i)
    OBVIOUS
  <2>2. frozen \in Seq(Note) /\ Announceable(frozen)'
    BY <1>1, <2>1, FreezeKeeps
  <2> QED BY <1>1, <2>1, <2>2 DEF Announceable
<1>7. /\ import' \in [left : SUBSET Endpoints, link : Parents \cup {0}, paired : Seq(Note),
                      on : BOOLEAN]
      /\ Announceable(import.paired)'
  <2>1. PICK notes \in Seq(Note) : notes = import.paired /\ Announceable(notes)
    BY DEF MoreTypes, NotesInv
  <2> PICK frozen : frozen = Freeze(notes, i)
    OBVIOUS
  <2>2. frozen \in Seq(Note) /\ Announceable(frozen)'
    BY <1>1, <2>1, FreezeKeeps
  <2>3. import' = [import EXCEPT !.paired = frozen]
    BY <1>1, <2>1
  <2> QED BY <2>2, <2>3 DEF MoreTypes, Announceable
<1>8. K3Inv'
  <2>1. ASSUME NEW p \in Parents, p \notin stray, told'[p] # 0
        PROVE  told'[p] \in AccIds /\ accs'[told'[p]].kind = "k3" /\ accs'[told'[p]].link = p
    <3>1. told'[p] = told[p] /\ p # ParentOf(i)
      BY <1>1, <1>2, <2>1, BleAssumption DEF BleTypeOK
    <3>2. told[p] \in AccIds /\ accs[told[p]].kind = "k3" /\ accs[told[p]].link = p
      BY <2>1, <3>1 DEF K3Inv
    <3>3. told[p] # i
      BY <3>1, <3>2 DEF ParentOf
    <3> QED BY <1>1, <3>1, <3>2, <3>3 DEF BleTypeOK
  <2> QED BY <1>1, <2>1 DEF K3Inv
<1> QED BY <1>1, <1>4, <1>5, <1>6, <1>7, <1>8 DEF MoreTypes, NotesInv

\* Readings and commands leave the registry's accessories alone.
LEMMA RestKeeps ==
  ASSUME IInv, UNCHANGED <<accs, import, pending, told, stray>>,
         states' \in [AccIds -> [AllFields -> {0, 1, Unknown}]], actual' \in [Macs -> [AllFields -> {0, 1}]],
         session' \subseteq Macs, mixed' \subseteq AccIds, ops' \in 0..MaxOps,
         cmd' \in [Commands -> UnderWay \cup {NoCmd}],
         reading' \subseteq [mac : Macs, block : Part]
  PROVE  IInv'
<1> USE DEF IInv
<1>1. Paired' = Paired
  BY DEF Paired
<1>2. BleTypeOK' /\ K3Inv'
  BY <1>1 DEF BleTypeOK, K3Inv
<1>3. MoreTypes' /\ NotesInv'
  BY <1>1 DEF MoreTypes, NotesInv, Announceable
<1> QED BY <1>2, <1>3

LEMMA ReadingKeeps ==
  ASSUME IInv, \/ \E i \in AccIds : Connect(i)
               \/ \E m \in Macs : Reports(m) \/ SessionEnds(m)
               \/ HandleBleResponse
  PROVE  IInv'
<1> USE DEF IInv
<1>1. UNCHANGED <<accs, actual, cmd, import, pending, told, stray, ops>>
  BY DEF Connect, Reports, SessionEnds, HandleBleResponse
<1>2. session' \subseteq Macs
  BY DEF Connect, Reports, SessionEnds, HandleBleResponse, BleTypeOK, Paired, Absent
<1>3. reading' \subseteq [mac : Macs, block : Part]
  <2>1. ASSUME NEW m \in Macs, Reports(m) PROVE reading' \subseteq [mac : Macs, block : Part]
    <3>1. PICK fields \in SUBSET AllFields :
            reading' = {[mac |-> m, block |-> [f \in fields |-> actual[m][f]]]}
      BY <2>1 DEF Reports, AllFields
    <3>2. [f \in fields |-> actual[m][f]] \in [fields -> {0, 1}]
      BY DEF BleTypeOK
    <3>3. [f \in fields |-> actual[m][f]] \in Part
      BY <3>2 DEF Part
    <3> QED BY <3>1, <3>3
  <2>2. CASE ~\E m \in Macs : Reports(m)
    BY <2>2 DEF Connect, SessionEnds, HandleBleResponse, MoreTypes
  <2> QED BY <2>1, <2>2
<1>4. states' \in [AccIds -> [AllFields -> {0, 1, Unknown}]] /\ mixed' \subseteq AccIds
  <2>1. CASE HandleBleResponse
    <3>1. PICK r \in reading :
            \/ UNCHANGED <<states, mixed>>
            \/ \E i \in ByMac(r.mac) : /\ states' = [states EXCEPT ![i] = Merged(states[i], r.block)]
                                       /\ mixed' \subseteq mixed \cup {i}
      BY <2>1 DEF HandleBleResponse
    <3>2. \A i \in AccIds : Merged(states[i], r.block) \in [AllFields -> {0, 1, Unknown}]
      <4>1. r.block \in Part /\ {0, 1} \subseteq {0, 1, Unknown}
        BY DEF MoreTypes
      <4>2. \A i \in AccIds : states[i] \in [AllFields -> {0, 1, Unknown}]
        BY DEF BleTypeOK
      <4> QED BY <4>1, <4>2, MergedIs
    <3> QED BY <3>1, <3>2 DEF BleTypeOK, ByMac, Paired
  <2>2. CASE UNCHANGED <<states, mixed>>
    BY <2>2 DEF BleTypeOK
  <2> QED BY <2>1, <2>2 DEF Connect, Reports, SessionEnds
<1> QED BY <1>1, <1>2, <1>3, <1>4, RestKeeps DEF BleTypeOK, MoreTypes

LEMMA CommandKeeps ==
  ASSUME IInv, NEW c \in Commands, NEW i \in AccIds, NEW f \in AllFields, NEW v \in {0, 1},
         Command(c, i, f, v)
  PROVE  IInv'
<1> USE DEF IInv
<1> DEFINE b == Frame(i, f, v)
           q == [step |-> "connecting", id |-> i, mac |-> accs[i].mac, field |-> f, value |-> v,
                 gone |-> FALSE, block |-> b]
<1>1. cmd' = [cmd EXCEPT ![c] = q] /\ i \in Paired
  BY DEF Command
<1>2. b \in Part
  BY FrameIs
<1>3. accs[i].mac \in Macs
  BY <1>1, PairedKinds
<1>4. q \in UnderWay
  <2> HIDE DEF b
  <2> QED BY <1>2, <1>3 DEF UnderWay
<1>5. cmd' \in [Commands -> UnderWay \cup {NoCmd}]
  <2> HIDE DEF q
  <2> QED BY <1>1, <1>4 DEF MoreTypes
<1>6. /\ UNCHANGED <<accs, states, actual, session, reading, import, pending, told, stray>>
      /\ mixed' \subseteq AccIds /\ ops' \in 0..MaxOps
  BY BleAssumption DEF Command, BleTypeOK
<1> QED BY <1>5, <1>6, RestKeeps DEF BleTypeOK, MoreTypes

LEMMA UnderWayIs ==
  ASSUME IInv, NEW c \in Commands, cmd[c].step # "none"
  PROVE  /\ cmd[c] \in UnderWay /\ cmd[c].id \in AccIds /\ cmd[c].mac \in Macs
         /\ cmd[c].field \in AllFields /\ cmd[c].value \in {0, 1}
         /\ cmd[c].block \in Part /\ cmd[c].gone \in BOOLEAN
         /\ cmd[c].step \in {"connecting", "recording"}
BY DEF IInv, MoreTypes, UnderWay, NoCmd

LEMMA PublishKeeps ==
  ASSUME IInv, NEW c \in Commands, NEW connected \in BOOLEAN, NEW sent \in BOOLEAN,
         Publish(c, connected, sent)
  PROVE  IInv'
<1>1. cmd[c].step = "connecting" /\ cmd' = [cmd EXCEPT ![c].step = "recording"]
  BY DEF Publish
<1>2. PICK q \in UnderWay : /\ q = cmd[c] /\ q.id \in AccIds /\ q.mac \in Macs /\ q.block \in Part
                            /\ [q EXCEPT !.step = "recording"] \in UnderWay
  BY <1>1, UnderWayIs DEF UnderWay
<1>3. cmd' \in [Commands -> UnderWay \cup {NoCmd}]
  BY <1>1, <1>2 DEF IInv, MoreTypes
<1>4. /\ session' \subseteq Macs /\ actual' \in [Macs -> [AllFields -> {0, 1}]]
      /\ mixed' \subseteq AccIds
  <2>1. Merged(actual[q.mac], q.block) \in [AllFields -> {0, 1}]
    <3>1. actual[q.mac] \in [AllFields -> {0, 1}]
      BY <1>2 DEF IInv, BleTypeOK
    <3> QED BY <1>2, <3>1, MergedIs
  <2>2. \/ actual' = actual
        \/ actual' = [actual EXCEPT ![q.mac] = Merged(actual[q.mac], q.block)]
    BY <1>2 DEF Publish
  <2>3. actual' \in [Macs -> [AllFields -> {0, 1}]]
    BY <1>2, <2>1, <2>2 DEF IInv, BleTypeOK
  <2> QED BY <1>2, <2>3 DEF Publish, IInv, BleTypeOK, ByMac, Paired
<1>5. UNCHANGED <<accs, states, reading, import, pending, told, stray, ops>>
  BY DEF Publish
<1> QED BY <1>3, <1>4, <1>5, RestKeeps DEF IInv, BleTypeOK, MoreTypes

LEMMA AnswerKeeps ==
  ASSUME IInv, NEW c \in Commands, Record(c) \/ NothingSent(c)
  PROVE  IInv'
<1>1. /\ cmd' = [cmd EXCEPT ![c] = NoCmd]
      /\ UNCHANGED <<accs, actual, session, reading, import, pending, told, stray, mixed, ops>>
  BY DEF Record, NothingSent
<1>2. states' \in [AccIds -> [AllFields -> {0, 1, Unknown}]]
  <2>1. CASE Record(c)
    <3>1. PICK i \in AccIds, f \in AllFields, v \in {0, 1} :
            i = cmd[c].id /\ f = cmd[c].field /\ v = cmd[c].value
      BY <2>1, UnderWayIs DEF Record
    <3> QED BY <2>1, <3>1 DEF Record, IInv, BleTypeOK
  <2>2. CASE NothingSent(c)
    BY <2>2 DEF NothingSent, IInv, BleTypeOK
  <2> QED BY <2>1, <2>2
<1>3. cmd' \in [Commands -> UnderWay \cup {NoCmd}]
  BY <1>1 DEF IInv, MoreTypes
<1> QED BY <1>1, <1>2, <1>3, RestKeeps DEF IInv, BleTypeOK, MoreTypes

LEMMA NextInv == IInv /\ [BleNext]_bleVars => IInv'
<1> SUFFICES ASSUME IInv, [BleNext]_bleVars PROVE IInv'
  OBVIOUS
<1>1. CASE UNCHANGED bleVars
  BY <1>1 DEF bleVars, IInv, BleTypeOK, MoreTypes, NotesInv, Announceable, K3Inv, Paired
<1>2. CASE BleNext
  BY <1>2, PairKeeps, ImportKeeps, ApplyKeeps, AnnounceKeeps, DeleteKeeps, ReadingKeeps,
     CommandKeeps, PublishKeeps, AnswerKeeps DEF BleNext
<1> QED BY <1>1, <1>2

(* For any number of accessories, parents, settings and commands the variables *)
(* keep their types, and two accessories never share a MAC: a frame names its  *)
(* accessory.                                                                  *)
THEOREM TypeCorrect == BleSpec => []BleTypeOK
<1>1. BleInit => IInv
  BY InitInv
<1>2. IInv /\ [BleNext]_bleVars => IInv'
  BY NextInv
<1>3. IInv => BleTypeOK
  BY DEF IInv
<1> QED BY <1>1, <1>2, <1>3, PTL DEF BleSpec

(* A parent is not left believing it owns a K3 that is gone, unless the K3 was *)
(* moved to another parent first or was announced after its removal.           *)
THEOREM K3IsForgotten == BleSpec => []K3Forgotten
<1>1. BleInit => IInv
  BY InitInv
<1>2. IInv /\ [BleNext]_bleVars => IInv'
  BY NextInv
<1>3. IInv => K3Forgotten
  BY DEF IInv, K3Inv, K3Forgotten, Paired, Absent
<1> QED BY <1>1, <1>2, <1>3, PTL DEF BleSpec

-----------------------------------------------------------------------------
(* A command changes the setting it names and no other                     *)

\* A command that is under way for an accessory, whose removal would end it.
Open(c, i) == cmd[c].step # "none" /\ cmd[c].id = i /\ ~cmd[c].gone

\* An accessory with a command under way: the command is the only one, goes to
\* its MAC, and its frame differs from what the accessory does in what it sets
\* at most, and no more once it is written.
Says(q, f) ==
  f \in DOMAIN q.block /\ (q.step = "recording" \/ f \notin {q.field} \cup SetsToo(q.field, q.value))

OneAtATime(i) ==
  \A c \in Commands : Open(c, i) =>
    /\ cmd[c].mac = accs[i].mac
    /\ \A f \in AllFields : Says(cmd[c], f) => cmd[c].block[f] = actual[accs[i].mac][f]
    /\ cmd[c].field \in DOMAIN cmd[c].block
    /\ cmd[c].step = "recording" => cmd[c].block[cmd[c].field] = cmd[c].value
    /\ \A d \in Commands : Open(d, i) => d = c

\* What the registry holds of a setting is the accessory's, except of the one
\* that is written and about to be recorded.
HeldIsActual(i) ==
  \A f \in AllFields :
    \/ states[i][f] \in {Unknown, actual[accs[i].mac][f]}
    \/ \E c \in Commands : Open(c, i) /\ cmd[c].step = "recording" /\ cmd[c].field = f

BlocksInv ==
  /\ BlocksKept
  /\ \A c \in Commands, i \in AccIds : Open(c, i) => i \in Paired
  /\ \A i \in Paired : i \in mixed \/ (OneAtATime(i) /\ HeldIsActual(i))

BInv == IInv /\ BlocksInv

\* An accessory stays as it is while its block, its states and its commands do.
LEMMA AccessoryStays ==
  ASSUME NEW i \in AccIds, OneAtATime(i), HeldIsActual(i), accs'[i].mac = accs[i].mac,
         states'[i] = states[i], actual'[accs[i].mac] = actual[accs[i].mac],
         \A c \in Commands : Open(c, i)' \/ Open(c, i) => cmd'[c] = cmd[c]
  PROVE  OneAtATime(i)' /\ HeldIsActual(i)'
BY DEF OneAtATime, HeldIsActual, Open

LEMMA BlocksStay ==
  ASSUME BInv, UNCHANGED <<accs, states, actual, cmd, damaged>>, mixed \subseteq mixed'
  PROVE  BlocksInv'
<1>1. Paired' = Paired
  BY DEF Paired
<1> QED BY <1>1 DEF BInv, BlocksInv, BlocksKept, OneAtATime, HeldIsActual, Open

LEMMA BlocksInit == ASSUME BleInit PROVE BlocksInv
<1>1. Paired = {} /\ \A c \in Commands, i \in AccIds : ~Open(c, i)
  BY DEF BleInit, Paired, Open, NoCmd
<1> QED BY <1>1 DEF BleInit, BlocksInv, BlocksKept

\* A new accessory has nothing reported and no command; one that is there keeps
\* its MAC or is excused.
LEMMA BlocksRegister ==
  ASSUME BInv, NEW i \in AccIds, NEW k \in Kinds, NEW m \in Macs, NEW p \in Parents \cup {0},
         RegisterAccessory(i, k, m, p), Paired' = Paired \cup {i}, UNCHANGED <<actual, cmd, damaged>>
  PROVE  BlocksInv'
<1> USE DEF BInv
<1>1. /\ mixed \subseteq mixed' /\ accs'[i].mac = m
      /\ \A j \in AccIds : j # i => accs'[j] = accs[j] /\ states'[j] = states[j]
  BY DEF RegisterAccessory, IInv, BleTypeOK
<1>2. \A c \in Commands, j \in AccIds : Open(c, j)' <=> Open(c, j)
  BY DEF Open
<1>3. ASSUME NEW j \in Paired', j \notin mixed' PROVE OneAtATime(j)' /\ HeldIsActual(j)'
  <2>1. CASE j # i
    <3>1. j \in Paired /\ j \in AccIds /\ j \notin mixed
      BY <1>1, <1>3, <2>1 DEF Paired
    <3> QED BY <1>1, <2>1, <3>1, AccessoryStays DEF BlocksInv
  <2>2. CASE j = i /\ i \in Paired
    <3>1. accs[i].mac = m /\ states' = states /\ i \notin mixed
      BY <1>1, <1>3, <2>2 DEF RegisterAccessory, Paired
    <3> QED BY <1>1, <2>2, <3>1, AccessoryStays DEF BlocksInv
  <2>3. CASE j = i /\ i \notin Paired
    <3>1. \A c \in Commands : ~Open(c, i)'
      BY <1>2, <2>3 DEF BlocksInv
    <3>2. \A f \in AllFields : states'[i][f] = Unknown
      BY <2>3 DEF RegisterAccessory, Paired, Blank, IInv, BleTypeOK
    <3> QED BY <2>3, <3>1, <3>2 DEF OneAtATime, HeldIsActual
  <2> QED BY <2>1, <2>2, <2>3
<1> QED BY <1>2, <1>3 DEF BlocksInv, BlocksKept

LEMMA BlocksPairing ==
  ASSUME BInv, \/ \E i \in AccIds, m \in Macs, p \in Parents \cup {0}, k \in Kinds : Pair(i, k, m, p)
               \/ \E i \in AccIds, m \in Macs : ApplyCloudBinding(i, m)
  PROVE  BlocksInv'
<1> USE DEF BInv, IInv
<1>1. CASE \E i \in AccIds, m \in Macs, p \in Parents \cup {0}, k \in Kinds : Pair(i, k, m, p)
  <2>1. PICK i \in AccIds, m \in Macs, p \in Parents \cup {0}, k \in Kinds : Pair(i, k, m, p)
    BY <1>1
  <2>2. Paired' = Paired \cup {i}
    <3>1. ops' \in 0..MaxOps
      BY <2>1, BleAssumption DEF Pair, BleTypeOK
    <3> QED BY <2>1, <3>1, RegisterKeeps DEF Pair
  <2> QED BY <2>1, <2>2, BlocksRegister DEF Pair
<1>2. ASSUME NEW i \in AccIds, NEW m \in Macs, ApplyCloudBinding(i, m) PROVE BlocksInv'
  <2>1. CASE Clash(i, m)
    BY <1>2, <2>1, BlocksStay DEF ApplyCloudBinding
  <2>2. CASE ~Clash(i, m)
    <3>1. PICK k \in Kinds, p \in Parents \cup {0} : RegisterAccessory(i, k, m, p)
      BY <1>2, <2>2 DEF ApplyCloudBinding, Kinds, MoreTypes
    <3>2. UNCHANGED <<actual, session, cmd, told, damaged, ops>>
      BY <1>2 DEF ApplyCloudBinding
    <3>3. Paired' = Paired \cup {i}
      BY <2>2, <3>1, <3>2, RegisterKeeps DEF BleTypeOK
    <3> QED BY <3>1, <3>2, <3>3, BlocksRegister
  <2> QED BY <2>1, <2>2
<1> QED BY <1>1, <1>2

LEMMA BlocksDelete == ASSUME BInv, NEW i \in AccIds, Delete(i) PROVE BlocksInv'
<1> USE DEF BInv
<1>1. /\ i \in Paired /\ mixed' = mixed \ {i} /\ UNCHANGED <<actual, damaged>>
      /\ \A j \in AccIds : j # i => accs'[j] = accs[j] /\ states'[j] = states[j]
      /\ \A c \in Commands : cmd'[c] = IF cmd[c].step # "none" /\ cmd[c].id = i
                                       THEN [cmd[c] EXCEPT !.gone = TRUE] ELSE cmd[c]
  BY DEF Delete, IInv, BleTypeOK
<1>2. Paired' = Paired \ {i}
  BY DEF Delete, Paired, IInv, BleTypeOK
<1>3. \A c \in Commands, j \in AccIds : Open(c, j)' => j # i /\ Open(c, j)
  <2> SUFFICES ASSUME NEW c \in Commands, NEW j \in AccIds, Open(c, j)' PROVE j # i /\ Open(c, j)
    OBVIOUS
  <2>1. CASE cmd[c].step # "none" /\ cmd[c].id = i
    <3>1. PICK q \in UnderWay : q = cmd[c]
      BY <2>1, UnderWayIs
    <3>2. cmd'[c].gone
      BY <1>1, <2>1, <3>1 DEF UnderWay
    <3> QED BY <3>2 DEF Open
  <2>2. CASE ~(cmd[c].step # "none" /\ cmd[c].id = i)
    BY <1>1, <2>2 DEF Open
  <2> QED BY <2>1, <2>2
<1>4. ASSUME NEW j \in Paired', j \notin mixed' PROVE OneAtATime(j)' /\ HeldIsActual(j)'
  <2>1. j \in Paired /\ j \in AccIds /\ j # i /\ j \notin mixed
    BY <1>1, <1>2, <1>4 DEF Paired
  <2>2. \A c \in Commands : Open(c, j)' \/ Open(c, j) => cmd'[c] = cmd[c]
    BY <1>1, <1>3, <2>1 DEF Open
  <2> QED BY <1>1, <2>1, <2>2, AccessoryStays DEF BlocksInv
<1>5. \A c \in Commands, j \in AccIds : Open(c, j)' => j \in Paired'
  BY <1>2, <1>3 DEF BlocksInv
<1> QED BY <1>1, <1>4, <1>5 DEF BlocksInv, BlocksKept

LEMMA BlocksResponse == ASSUME BInv, HandleBleResponse PROVE BlocksInv'
<1> USE DEF BInv
<1>1. UNCHANGED <<accs, actual, cmd, damaged>>
  BY DEF HandleBleResponse
<1>2. Paired' = Paired /\ \A c \in Commands, j \in AccIds : Open(c, j)' <=> Open(c, j)
  BY <1>1 DEF Paired, Open
<1>3. CASE UNCHANGED <<states, mixed>>
  BY <1>1, <1>3, BlocksStay
<1>4. ASSUME NEW r \in reading, NEW i \in ByMac(r.mac),
             states' = [states EXCEPT ![i] = Merged(states[i], r.block)],
             mixed' = IF Overtaken(r) THEN mixed \cup {i}
                      ELSE IF InFlight(i) \/ DOMAIN r.block # AllFields THEN mixed
                      ELSE mixed \ {i}
      PROVE  BlocksInv'
  <2>1. i \in AccIds /\ i \in Paired /\ accs[i].mac = r.mac
    BY DEF ByMac, Paired
  <2>2. ASSUME NEW j \in Paired', j \notin mixed' PROVE OneAtATime(j)' /\ HeldIsActual(j)'
    <3>1. j \in AccIds /\ j \in Paired
      BY <1>2, <2>2 DEF Paired
    <3>2. CASE j # i
      <4>1. j \notin mixed /\ states'[j] = states[j]
        BY <1>4, <2>2, <3>1, <3>2 DEF IInv, BleTypeOK
      <4> QED BY <1>1, <3>1, <4>1, AccessoryStays DEF BlocksInv
    <3>3. CASE j = i
      <4>1. ~Overtaken(r) /\ r.block \in Part
        BY <1>4, <2>1, <2>2, <3>3 DEF IInv, MoreTypes
      <4>2. HeldIsActual(i)'
        <5>1. \A f \in AllFields : states'[i][f] = IF f \in DOMAIN r.block THEN actual[r.mac][f]
                                                  ELSE states[i][f]
          <6>1. states[i] \in [AllFields -> {0, 1, Unknown}] /\ states'[i] = Merged(states[i], r.block)
            BY <1>4, <2>1 DEF IInv, BleTypeOK
          <6>2. \A f \in AllFields : Merged(states[i], r.block)[f] =
                  IF f \in DOMAIN r.block THEN r.block[f] ELSE states[i][f]
            BY DEF Merged
          <6> QED BY <4>1, <6>1, <6>2 DEF Overtaken
        <5>2. CASE i \in mixed
          <6>1. DOMAIN r.block = AllFields
            BY <1>4, <2>2, <3>3, <4>1, <5>2
          <6> QED BY <1>1, <2>1, <5>1, <6>1 DEF HeldIsActual
        <5>3. CASE i \notin mixed
          BY <1>1, <1>2, <2>1, <5>1, <5>3 DEF BlocksInv, HeldIsActual
        <5> QED BY <5>2, <5>3
      <4>3. OneAtATime(i)'
        <5>1. CASE i \in mixed
          <6>1. ~InFlight(i)
            BY <1>4, <2>2, <3>3, <4>1, <5>1
          <6> QED BY <1>2, <2>1, <6>1 DEF InFlight, Open, OneAtATime
        <5>2. CASE i \notin mixed
          BY <1>1, <2>1, <5>2 DEF BlocksInv, OneAtATime, Open
        <5> QED BY <5>1, <5>2
      <4> QED BY <3>3, <4>2, <4>3
    <3> QED BY <3>2, <3>3
  <2> QED BY <1>1, <1>2, <2>2 DEF BlocksInv, BlocksKept
<1> QED BY <1>3, <1>4 DEF HandleBleResponse

LEMMA BlocksCommand ==
  ASSUME BInv, NEW c \in Commands, NEW i \in AccIds, NEW f \in AllFields, NEW v \in {0, 1},
         Command(c, i, f, v)
  PROVE  BlocksInv'
<1> USE DEF BInv
<1> DEFINE b == Frame(i, f, v)
           q == [step |-> "connecting", id |-> i, mac |-> accs[i].mac, field |-> f, value |-> v,
                 gone |-> FALSE, block |-> b]
<1>1. /\ UNCHANGED <<accs, states, actual, damaged>> /\ cmd[c] = NoCmd /\ i \in Paired
      /\ cmd' = [cmd EXCEPT ![c] = q] /\ Complete(i, f)
      /\ mixed' = IF InFlight(i) THEN mixed \cup {i} ELSE mixed
  BY DEF Command
<1>2. cmd'[c] = q /\ \A d \in Commands : d # c => cmd'[d] = cmd[d]
  <2> HIDE DEF q
  <2> QED BY <1>1 DEF IInv, MoreTypes
<1>3. Paired' = Paired /\ ~\E j \in AccIds : Open(c, j)
  BY <1>1 DEF Paired, Open, NoCmd
<1>4. \A d \in Commands, j \in AccIds : Open(d, j)' <=> Open(d, j) \/ (d = c /\ j = i)
  <2>1. \A j \in AccIds : Open(c, j)' <=> j = i
    BY <1>2 DEF Open
  <2>2. \A d \in Commands, j \in AccIds : d # c => (Open(d, j)' <=> Open(d, j))
    BY <1>2 DEF Open
  <2> QED BY <1>3, <2>1, <2>2
<1>5. ASSUME NEW j \in Paired', j \notin mixed' PROVE OneAtATime(j)' /\ HeldIsActual(j)'
  <2>1. j \in AccIds /\ j \in Paired /\ j \notin mixed
    BY <1>1, <1>3, <1>5 DEF Paired
  <2>2. OneAtATime(j) /\ HeldIsActual(j)
    BY <2>1 DEF BlocksInv
  <2>3. CASE j # i
    <3>1. \A d \in Commands : Open(d, j)' \/ Open(d, j) => cmd'[d] = cmd[d]
      BY <1>2, <1>3, <1>4, <2>1, <2>3
    <3> QED BY <1>1, <2>1, <2>2, <3>1, AccessoryStays
  <2>4. CASE j = i
    <3>1. \A d \in Commands : ~Open(d, i)
      BY <1>1, <1>5, <2>4 DEF InFlight, Open
    <3>2. \A g \in AllFields : states[i][g] \in {Unknown, actual[accs[i].mac][g]}
      BY <2>2, <2>4, <3>1 DEF HeldIsActual
    <3>3. f \in DOMAIN b /\ \A g \in DOMAIN b \ ({f} \cup SetsToo(f, v)) : b[g] = actual[accs[i].mac][g]
      <4>1. b \in Part /\ f \in DOMAIN b /\ DOMAIN b = FrameOf(f) /\ DOMAIN b \subseteq AllFields
        BY FrameIs, PartIs DEF IInv
      <4>2. \A g \in DOMAIN b \ ({f} \cup SetsToo(f, v)) : b[g] = states[i][g] /\ states[i][g] # Unknown
        BY <1>1, <4>1, FrameIs DEF IInv
      <4> QED BY <3>2, <4>1, <4>2
    <3>4. OneAtATime(i)'
      <4>1. \A d \in Commands : Open(d, i)' => d = c
        BY <1>4, <2>1, <2>4, <3>1
      <4>2. /\ cmd'[c].mac = accs[i].mac /\ cmd'[c].field = f /\ cmd'[c].block = b
            /\ cmd'[c].step = "connecting" /\ cmd'[c].value = v
        BY <1>2
      <4> HIDE DEF b, q
      <4>3. ASSUME NEW d \in Commands, Open(d, i)'
            PROVE  /\ cmd'[d].mac = accs'[i].mac
                   /\ \A g \in AllFields : Says(cmd'[d], g) =>
                        cmd'[d].block[g] = actual'[accs'[i].mac][g]
                   /\ cmd'[d].field \in DOMAIN cmd'[d].block
                   /\ cmd'[d].step = "recording" => cmd'[d].block[cmd'[d].field] = cmd'[d].value
        BY <1>1, <3>3, <4>1, <4>2, <4>3 DEF Says
      <4> QED BY <4>1, <4>3 DEF OneAtATime
    <3>5. HeldIsActual(i)'
      BY <1>1, <3>2 DEF HeldIsActual
    <3> QED BY <2>4, <3>4, <3>5
  <2> QED BY <2>3, <2>4
<1> QED BY <1>1, <1>3, <1>4, <1>5 DEF BlocksInv, BlocksKept

LEMMA BlocksPublish ==
  ASSUME BInv, NEW c \in Commands, NEW connected \in BOOLEAN, NEW sent \in BOOLEAN,
         Publish(c, connected, sent)
  PROVE  BlocksInv'
<1> USE DEF BInv
<1>1. cmd[c].step = "connecting"
  BY DEF Publish
<1>2. PICK q \in UnderWay : /\ q = cmd[c] /\ q.id \in AccIds /\ q.mac \in Macs /\ q.block \in Part
                            /\ q.step = "connecting" /\ q.field \in AllFields /\ q.value \in {0, 1}
  BY <1>1, UnderWayIs
<1> DEFINE lands == sent /\ (connected \/ q.mac \in session)
           others == DOMAIN q.block \ ({q.field} \cup SetsToo(q.field, q.value))
<1>3. /\ cmd' = [cmd EXCEPT ![c] = [q EXCEPT !.step = "recording"]]
      /\ actual' = IF lands THEN [actual EXCEPT ![q.mac] = Merged(actual[q.mac], q.block)] ELSE actual
      /\ damaged' = IF /\ lands /\ q.id \notin mixed /\ ~q.gone
                       /\ \E f \in others : q.block[f] # actual[q.mac][f]
                    THEN damaged \cup {q.id} ELSE damaged
      /\ mixed' = IF lands
                  THEN mixed \cup {i \in ByMac(q.mac) : i # q.id \/ q.gone \/ Unrecorded(q)}
                  ELSE IF q.gone THEN mixed ELSE mixed \cup {q.id}
      /\ UNCHANGED <<accs, states>>
  BY <1>2 DEF Publish
<1> HIDE DEF lands
<1>4. /\ \A d \in Commands : d # c => cmd'[d] = cmd[d]
      /\ cmd'[c] = [q EXCEPT !.step = "recording"]
  BY <1>3 DEF IInv, MoreTypes
<1>5. /\ cmd'[c].step = "recording" /\ cmd'[c].id = q.id /\ cmd'[c].mac = q.mac
      /\ cmd'[c].field = q.field /\ cmd'[c].gone = q.gone /\ cmd'[c].block = q.block
      /\ cmd'[c].value = q.value
  BY <1>4 DEF UnderWay
<1>6. \A d \in Commands, j \in AccIds : Open(d, j)' <=> Open(d, j)
  BY <1>1, <1>2, <1>4, <1>5, ZenonT(60) DEF Open
<1>7. Paired' = Paired
  BY <1>3 DEF Paired
<1>8. BlocksKept'
  <2>1. q.id \notin mixed /\ ~q.gone => \A f \in others : q.block[f] = actual[q.mac][f]
    <3> SUFFICES ASSUME q.id \notin mixed, ~q.gone
                 PROVE  \A f \in others : q.block[f] = actual[q.mac][f]
      OBVIOUS
    <3>1. Open(c, q.id) /\ q.id \in Paired
      BY <1>2 DEF Open, BlocksInv
    <3>2. OneAtATime(q.id)
      BY <3>1 DEF BlocksInv
    <3> QED BY <1>2, <3>1, <3>2, PartIs DEF OneAtATime, Says
  <2>2. damaged' = damaged
    BY <1>3, <2>1
  <2> QED BY <2>2 DEF BlocksInv, BlocksKept
<1>9. ASSUME NEW j \in Paired', j \notin mixed' PROVE OneAtATime(j)' /\ HeldIsActual(j)'
  <2>1. j \in AccIds /\ j \in Paired /\ j \notin mixed
    BY <1>3, <1>7, <1>9 DEF Paired
  <2>2. OneAtATime(j) /\ HeldIsActual(j)
    BY <2>1 DEF BlocksInv
  <2>3. CASE Open(c, j)
    <3>1. q.id = j /\ ~q.gone /\ q.mac = accs[j].mac
      BY <1>2, <2>2, <2>3 DEF Open, OneAtATime
    <3>2. lands /\ ~Unrecorded(q)
      BY <1>2, <1>3, <1>9, <2>1, <3>1 DEF ByMac
    <3>3. \A f \in AllFields : actual'[q.mac][f] = IF f \in DOMAIN q.block THEN q.block[f]
                                                  ELSE actual[q.mac][f]
      <4>1. actual'[q.mac] = Merged(actual[q.mac], q.block)
        BY <1>2, <1>3, <3>2 DEF IInv, BleTypeOK
      <4> QED BY <4>1 DEF Merged
    <3>4. q.field \in DOMAIN q.block /\ q.block[q.field] = q.value
      <4>1. q.field \in DOMAIN q.block
        BY <1>2, <2>2, <2>3 DEF OneAtATime
      <4> QED BY <1>2, <3>2, <4>1 DEF Unrecorded, Unknown
    <3>5. OneAtATime(j)'
      <4>1. \A d \in Commands : Open(d, j)' => d = c
        BY <1>6, <2>1, <2>2, <2>3 DEF OneAtATime
      <4>2. \A f \in AllFields : Says(cmd'[c], f) => cmd'[c].block[f] = actual'[q.mac][f]
        BY <1>5, <3>3 DEF Says
      <4> QED BY <1>3, <1>5, <3>1, <3>4, <4>1, <4>2 DEF OneAtATime
    <3>6. HeldIsActual(j)'
      <4>1. ASSUME NEW f \in AllFields, f # q.field
            PROVE  states[j][f] \in {Unknown, actual'[q.mac][f]}
        <5>1. CASE f \in DOMAIN q.block
          BY <3>1, <3>2, <3>3, <4>1, <5>1 DEF Unrecorded
        <5>2. CASE f \notin DOMAIN q.block
          <6>1. ~\E d \in Commands : Open(d, j) /\ cmd[d].step = "recording"
            BY <1>1, <2>2, <2>3 DEF OneAtATime
          <6> QED BY <2>2, <3>1, <3>3, <5>2, <6>1 DEF HeldIsActual
        <5> QED BY <5>1, <5>2
      <4>2. ASSUME NEW f \in AllFields
            PROVE  \/ states'[j][f] \in {Unknown, actual'[accs'[j].mac][f]}
                   \/ \E d \in Commands : Open(d, j)' /\ cmd'[d].step = "recording" /\ cmd'[d].field = f
        <5>1. CASE f = q.field
          BY <1>5, <1>6, <2>1, <2>3, <5>1
        <5>2. CASE f # q.field
          BY <1>3, <3>1, <4>1, <5>2
        <5> QED BY <5>1, <5>2
      <4> QED BY <4>2 DEF HeldIsActual
    <3> QED BY <3>5, <3>6
  <2>4. CASE ~Open(c, j)
    <3>1. actual'[accs[j].mac] = actual[accs[j].mac]
      <4>1. CASE accs[j].mac = q.mac /\ lands
        <5>1. j \in ByMac(q.mac)
          BY <2>1, <4>1 DEF ByMac
        <5>2. j # q.id \/ q.gone
          BY <1>1, <1>2, <2>4 DEF Open
        <5> QED BY <1>3, <1>9, <4>1, <5>1, <5>2
      <4>2. CASE accs[j].mac # q.mac \/ ~lands
        BY <1>3, <2>1, <4>2, PairedKinds DEF IInv, BleTypeOK
      <4> QED BY <4>1, <4>2
    <3>2. \A d \in Commands : Open(d, j)' \/ Open(d, j) => cmd'[d] = cmd[d]
      BY <1>4, <1>6, <2>1, <2>4
    <3> QED BY <1>3, <2>1, <2>2, <3>1, <3>2, AccessoryStays
  <2> QED BY <2>3, <2>4
<1> QED BY <1>6, <1>7, <1>8, <1>9 DEF BlocksInv

LEMMA BlocksAnswer == ASSUME BInv, NEW c \in Commands, Record(c) \/ NothingSent(c) PROVE BlocksInv'
<1> USE DEF BInv
<1>1. /\ cmd' = [cmd EXCEPT ![c] = NoCmd] /\ cmd[c].step # "none"
      /\ UNCHANGED <<accs, actual, mixed, damaged>>
  BY DEF Record, NothingSent
<1>2. /\ \A d \in Commands : d # c => cmd'[d] = cmd[d]
      /\ cmd'[c] = NoCmd
  BY <1>1 DEF IInv, MoreTypes
<1>3. PICK q \in UnderWay : /\ q = cmd[c] /\ q.id \in AccIds /\ q.mac \in Macs /\ q.block \in Part
                            /\ q.field \in AllFields
  BY <1>1, UnderWayIs
<1>4. \A d \in Commands, j \in AccIds : Open(d, j)' => d # c /\ Open(d, j)
  BY <1>2 DEF Open, NoCmd
<1>5. Paired' = Paired
  BY <1>1 DEF Paired
<1>6. states' = IF cmd[c].step = "recording" /\ ~q.gone
                THEN [states EXCEPT ![q.id][q.field] = q.value] ELSE states
  BY <1>3 DEF Record, NothingSent
<1>7. ASSUME NEW j \in Paired', j \notin mixed' PROVE OneAtATime(j)' /\ HeldIsActual(j)'
  <2>1. j \in AccIds /\ j \in Paired /\ j \notin mixed
    BY <1>1, <1>5, <1>7 DEF Paired
  <2>2. OneAtATime(j) /\ HeldIsActual(j)
    BY <2>1 DEF BlocksInv
  <2>3. OneAtATime(j)'
    BY <1>1, <1>2, <1>4, <2>1, <2>2 DEF OneAtATime
  <2>4. CASE ~Open(c, j) \/ cmd[c].step # "recording"
    <3>1. states'[j] = states[j]
      BY <1>1, <1>3, <1>6, <2>1, <2>4 DEF Open, IInv, BleTypeOK
    <3>2. \A d \in Commands : Open(d, j) /\ cmd[d].step = "recording" =>
            Open(d, j)' /\ cmd'[d] = cmd[d]
      BY <1>2, <2>4 DEF Open
    <3>3. HeldIsActual(j)'
      BY <1>1, <2>2, <3>1, <3>2 DEF HeldIsActual
    <3> QED BY <2>3, <3>3
  <2>5. CASE Open(c, j) /\ cmd[c].step = "recording"
    <3>1. q.id = j /\ ~q.gone /\ q.value = actual[accs[j].mac][q.field]
      BY <1>3, <2>2, <2>5 DEF Open, OneAtATime, Says
    <3>2. states' = [states EXCEPT ![j][q.field] = q.value]
      BY <1>6, <2>5, <3>1
    <3>3. /\ states'[j][q.field] = q.value
          /\ \A f \in AllFields : f # q.field => states'[j][f] = states[j][f]
      BY <1>3, <2>1, <3>2 DEF IInv, BleTypeOK
    <3>4. \A d \in Commands : Open(d, j) => d = c
      BY <2>2, <2>5 DEF OneAtATime
    <3>5. ASSUME NEW f \in AllFields PROVE states'[j][f] \in {Unknown, actual'[accs'[j].mac][f]}
      <4>1. CASE f = q.field
        BY <1>1, <3>1, <3>3, <4>1
      <4>2. CASE f # q.field
        BY <1>1, <1>3, <2>2, <3>3, <3>4, <4>2 DEF HeldIsActual
      <4> QED BY <4>1, <4>2
    <3>6. HeldIsActual(j)'
      BY <3>5 DEF HeldIsActual
    <3> QED BY <2>3, <3>6
  <2> QED BY <2>4, <2>5
<1> QED BY <1>1, <1>4, <1>5, <1>7 DEF BlocksInv, BlocksKept

LEMMA BlocksNext == BInv /\ [BleNext]_bleVars => BInv'
<1> SUFFICES ASSUME BInv, [BleNext]_bleVars PROVE BlocksInv'
  BY NextInv DEF BInv
<1>1. CASE \/ UNCHANGED bleVars
           \/ \E p \in Parents : ImportStarts(p)
           \/ EndpointRefused \/ ImportFails \/ ImportEnds \/ AnnouncePairing
           \/ \E i \in AccIds : Connect(i)
           \/ \E m \in Macs : Reports(m) \/ SessionEnds(m)
  BY <1>1, BlocksStay DEF bleVars, ImportStarts, EndpointRefused, ImportFails, ImportEnds,
     AnnouncePairing, Connect, Reports, SessionEnds
<1>2. CASE \/ \E i \in AccIds, m \in Macs, p \in Parents \cup {0}, k \in Kinds : Pair(i, k, m, p)
           \/ \E i \in AccIds, m \in Macs : ApplyCloudBinding(i, m)
  BY <1>2, BlocksPairing
<1>3. CASE \E i \in AccIds : Delete(i)
  BY <1>3, BlocksDelete
<1>4. CASE HandleBleResponse
  BY <1>4, BlocksResponse
<1>5. CASE \E c \in Commands, i \in AccIds, f \in AllFields, v \in {0, 1} : Command(c, i, f, v)
  BY <1>5, BlocksCommand
<1>6. CASE \E c \in Commands, connected, sent \in BOOLEAN : Publish(c, connected, sent)
  BY <1>6, BlocksPublish
<1>7. CASE \E c \in Commands : Record(c) \/ NothingSent(c)
  BY <1>7, BlocksAnswer
<1> QED BY <1>1, <1>2, <1>3, <1>4, <1>5, <1>6, <1>7 DEF BleNext

(* A command changes the setting it names, what is set with it, and no other,  *)
(* although a frame is written whole, unless the accessory is one of those     *)
(* BlocksKept excuses.                                                         *)
THEOREM BlocksAreKept == BleSpec => []BlocksKept
<1>1. BleInit => BInv
  BY InitInv, BlocksInit DEF BInv
<1>2. BInv /\ [BleNext]_bleVars => BInv'
  BY BlocksNext
<1>3. BInv => BlocksKept
  BY DEF BInv, BlocksInv
<1> QED BY <1>1, <1>2, <1>3, PTL DEF BleSpec
=============================================================================
