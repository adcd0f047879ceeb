---------------------------- MODULE DeviceProofs ----------------------------
(***************************************************************************)
(* A device's patches and its reports, each for every value of the         *)
(* constants.  Patches: for any patches of every kind, any number of       *)
(* operations and a queue of any length, the files a device's wrapper      *)
(* names are there, and the list of active patches is what it booted with. *)
(* A script is followed from the moment it is sent: what is handed over    *)
(* and what is queued are one list, and what matters of it is who has the  *)
(* last word.  Reports: for each model and however long it reports, what   *)
(* is held is what the device said last.                                   *)
(***************************************************************************)
EXTENDS Patchers, StateReport, SequenceTheorems, TLAPS

-----------------------------------------------------------------------------
(* Partial functions                                                       *)

LEMMA Merge ==
  ASSUME NEW f, NEW g
  PROVE  /\ DOMAIN (f @@ g) = DOMAIN f \cup DOMAIN g
         /\ \A k \in DOMAIN f : (f @@ g)[k] = f[k]
         /\ \A k \in DOMAIN g \ DOMAIN f : (f @@ g)[k] = g[k]
<1>1. f @@ g = Joined(f, g)
  BY DEF @@
<1>2. Joined(f, g) = [k \in DOMAIN f \cup DOMAIN g |-> IF k \in DOMAIN f THEN f[k] ELSE g[k]]
  BY DEF Joined
<1> QED BY <1>1, <1>2

LEMMA Single ==
  ASSUME NEW k, NEW v PROVE DOMAIN (k :> v) = {k} /\ (k :> v)[k] = v
BY DEF :>

-----------------------------------------------------------------------------
(* Scripts on their way                                                    *)

\* What a device is sent.
Scripts ==
  [run : {"put"}, by : Ops, patch : Patches \ Fileless]
    \cup [run : {"wrap", "unwrap"}, by : Ops, gone : SUBSET (Patches \ Fileless)]
    \cup [run : {"reboot"}, by : Ops]

Puts(c, p) == c.run = "put" /\ c.patch = p
Deletes(c, p) == c.run \in {"wrap", "unwrap"} /\ p \in c.gone
Wraps(c) == c.run = "wrap"

PutIn(list, p) == \E i \in 1..Len(list) : Puts(list[i], p)
PutAfter(list, i, p) == \E j \in 1..Len(list) : j > i /\ Puts(list[j], p)
WrapIn(list) == \E i \in 1..Len(list) : Wraps(list[i])
WrapFrom(list, i) == \E j \in 1..Len(list) : j >= i /\ Wraps(list[j])

\* A list of scripts grows by one.
LEMMA ScriptAdded ==
  ASSUME NEW list \in Seq(Scripts), NEW c \in Scripts, NEW p
  PROVE  LET longer == Append(list, c) IN
         /\ longer \in Seq(Scripts) /\ Len(longer) = Len(list) + 1 /\ Len(list) \in Nat
         /\ longer[Len(list) + 1] = c /\ \A i \in 1..Len(list) : longer[i] = list[i]
         /\ PutIn(longer, p) <=> PutIn(list, p) \/ Puts(c, p)
         /\ WrapIn(longer) <=> WrapIn(list) \/ Wraps(c)
         /\ \A i \in 1..Len(list) : /\ PutAfter(longer, i, p) <=> PutAfter(list, i, p) \/ Puts(c, p)
                                    /\ WrapFrom(longer, i) <=> WrapFrom(list, i) \/ Wraps(c)
         /\ WrapFrom(longer, Len(list) + 1) <=> Wraps(c)
<1> DEFINE longer == Append(list, c)
           n == Len(list)
<1>1. /\ longer \in Seq(Scripts) /\ Len(longer) = n + 1 /\ n \in Nat
      /\ longer[n + 1] = c /\ \A i \in 1..n : longer[i] = list[i]
  OBVIOUS
<1> HIDE DEF longer
<1>2. PutIn(longer, p) <=> PutIn(list, p) \/ Puts(c, p)
  <2>1. PutIn(longer, p) <=> \E i \in 1..(n + 1) : Puts(longer[i], p)
    BY <1>1 DEF PutIn
  <2>2. 1..(n + 1) = 1..n \cup {n + 1}
    BY <1>1
  <2> HIDE DEF n
  <2> QED BY <1>1, <2>1, <2>2 DEF PutIn, n
<1>3. WrapIn(longer) <=> WrapIn(list) \/ Wraps(c)
  BY <1>1 DEF WrapIn
<1>4. ASSUME NEW i \in 1..n
      PROVE  /\ PutAfter(longer, i, p) <=> PutAfter(list, i, p) \/ Puts(c, p)
             /\ WrapFrom(longer, i) <=> WrapFrom(list, i) \/ Wraps(c)
  BY <1>1 DEF PutAfter, WrapFrom
<1>5. WrapFrom(longer, n + 1) <=> Wraps(c)
  BY <1>1 DEF WrapFrom
<1> QED BY <1>1, <1>2, <1>3, <1>4, <1>5 DEF longer

\* The first of a list is taken away.
LEMMA ScriptTaken ==
  ASSUME NEW list \in Seq(Scripts), list # <<>>, NEW p
  PROVE  LET rest == Tail(list) IN
         /\ rest \in Seq(Scripts) /\ Len(rest) = Len(list) - 1 /\ Len(list) \in Nat \ {0}
         /\ Head(list) = list[1] /\ list[1] \in Scripts
         /\ \A i \in 1..Len(rest) : i + 1 \in 1..Len(list) /\ rest[i] = list[i + 1]
         /\ PutIn(list, p) <=> PutIn(rest, p) \/ Puts(list[1], p)
         /\ WrapIn(list) <=> WrapIn(rest) \/ Wraps(list[1])
         /\ PutAfter(list, 1, p) <=> PutIn(rest, p)
         /\ WrapFrom(list, 1) <=> WrapIn(list)
         /\ \A i \in 1..Len(rest) : /\ PutAfter(rest, i, p) <=> PutAfter(list, i + 1, p)
                                    /\ WrapFrom(rest, i) <=> WrapFrom(list, i + 1)
<1> DEFINE rest == Tail(list)
           n == Len(list)
<1>1. /\ rest \in Seq(Scripts) /\ Len(rest) = n - 1 /\ n \in Nat \ {0}
      /\ Head(list) = list[1] /\ list[1] \in Scripts
      /\ \A i \in 1..(n - 1) : rest[i] = list[i + 1]
  OBVIOUS
<1> HIDE DEF rest
<1>0. \A j \in 1..n : j # 1 => j - 1 \in 1..(n - 1) /\ rest[j - 1] = list[j]
  BY <1>1
<1>2. PutIn(list, p) <=> PutIn(rest, p) \/ Puts(list[1], p)
  BY <1>0, <1>1 DEF PutIn
<1>3. WrapIn(list) <=> WrapIn(rest) \/ Wraps(list[1])
  BY <1>0, <1>1 DEF WrapIn
<1>4. PutAfter(list, 1, p) <=> PutIn(rest, p)
  BY <1>0, <1>1 DEF PutIn, PutAfter
<1>5. WrapFrom(list, 1) <=> WrapIn(list)
  BY <1>1 DEF WrapIn, WrapFrom
<1>6. ASSUME NEW i \in 1..(n - 1)
      PROVE  /\ PutAfter(rest, i, p) <=> PutAfter(list, i + 1, p)
             /\ WrapFrom(rest, i) <=> WrapFrom(list, i + 1)
  <2>1. \A j \in 1..(n - 1) : /\ j + 1 \in 1..n /\ rest[j] = list[j + 1]
                              /\ (j > i <=> j + 1 > i + 1) /\ (j >= i <=> j + 1 >= i + 1)
    BY <1>1
  <2>2. \A j \in 1..n : j >= i + 1 => /\ j - 1 \in 1..(n - 1) /\ rest[j - 1] = list[j]
                                      /\ (j - 1 > i <=> j > i + 1) /\ j - 1 >= i
    BY <1>0, <1>1
  <2>3. \A j \in 1..n : j > i + 1 => j >= i + 1
    BY <1>1
  <2> HIDE DEF n
  <2> QED BY <1>1, <2>1, <2>2, <2>3 DEF PutAfter, WrapFrom, n
<1> QED BY <1>1, <1>2, <1>3, <1>4, <1>5, <1>6 DEF rest

\* A list follows another.
LEMMA ScriptsJoined ==
  ASSUME NEW list \in Seq(Scripts), NEW more \in Seq(Scripts), NEW p
  PROVE  LET both == list \o more IN
         /\ both \in Seq(Scripts) /\ Len(both) = Len(list) + Len(more)
         /\ Len(list) \in Nat /\ Len(more) \in Nat
         /\ \A i \in 1..Len(list) : both[i] = list[i]
         /\ \A i \in 1..Len(both) : i \in 1..Len(list) \/ (i - Len(list) \in 1..Len(more)
                                                           /\ both[i] = more[i - Len(list)])
         /\ PutIn(both, p) <=> PutIn(list, p) \/ PutIn(more, p)
         /\ WrapIn(both) <=> WrapIn(list) \/ WrapIn(more)
         /\ \A i \in 1..Len(list) : /\ PutAfter(both, i, p) <=> PutAfter(list, i, p) \/ PutIn(more, p)
                                    /\ WrapFrom(both, i) <=> WrapFrom(list, i) \/ WrapIn(more)
         /\ \A i \in 1..Len(more) : /\ PutAfter(both, i + Len(list), p) <=> PutAfter(more, i, p)
                                    /\ WrapFrom(both, i + Len(list)) <=> WrapFrom(more, i)
<1> DEFINE both == list \o more
           n == Len(list)
           m == Len(more)
<1>1. /\ both \in Seq(Scripts) /\ Len(both) = n + m /\ n \in Nat /\ m \in Nat
      /\ \A i \in 1..n : both[i] = list[i]
      /\ \A i \in 1..m : both[i + n] = more[i]
  OBVIOUS
<1> HIDE DEF both, n, m
<1>2. \A i \in 1..(n + m) : i \in 1..n \/ (i - n \in 1..m /\ both[i] = more[i - n])
  BY <1>1
<1>3. /\ \A i \in 1..n : i \in 1..(n + m)
      /\ \A i \in 1..m : i + n \in 1..(n + m) /\ i + n > n
  BY <1>1
<1>4. /\ PutIn(both, p) <=> PutIn(list, p) \/ PutIn(more, p)
      /\ WrapIn(both) <=> WrapIn(list) \/ WrapIn(more)
  BY <1>1, <1>2, <1>3 DEF PutIn, WrapIn, n, m
<1>5. ASSUME NEW i \in 1..n
      PROVE  /\ PutAfter(both, i, p) <=> PutAfter(list, i, p) \/ PutIn(more, p)
             /\ WrapFrom(both, i) <=> WrapFrom(list, i) \/ WrapIn(more)
  <2>1. \A j \in 1..m : j + n > i /\ j + n >= i
    BY <1>1
  <2> QED BY <1>1, <1>2, <1>3, <2>1 DEF PutAfter, WrapFrom, PutIn, WrapIn, n, m
<1>6. ASSUME NEW i \in 1..m
      PROVE  /\ PutAfter(both, i + n, p) <=> PutAfter(more, i, p)
             /\ WrapFrom(both, i + n) <=> WrapFrom(more, i)
  <2>1. \A j \in 1..n : ~(j > i + n) /\ ~(j >= i + n)
    BY <1>1
  <2>2. \A j \in 1..m : (j + n > i + n <=> j > i) /\ (j + n >= i + n <=> j >= i)
    BY <1>1
  <2>3. \A j \in 1..(n + m) : j \in 1..n \/ (j - n \in 1..m /\ both[j] = more[j - n]
                                           /\ (j > i + n <=> j - n > i) /\ (j >= i + n <=> j - n >= i))
    BY <1>1, <1>2
  <2> QED BY <1>1, <1>3, <2>1, <2>2, <2>3 DEF PutAfter, WrapFrom, n, m
<1> QED BY <1>1, <1>2, <1>4, <1>5, <1>6 DEF both, n, m

-----------------------------------------------------------------------------
(* What their invariant says                                               *)

\* The steps in which an operation holds the lock, and those in which it has sent something.
Past == {"sent", "activate", "wrapped", "reboot"}
Holding == {"detect", "fetch", "space", "upload"} \cup Past

PatchTypes ==
  /\ op \in [Ops -> [step : Steps, patch : Patches, remove : BOOLEAN]]
  /\ active \subseteq Patches
  /\ staged \in [files : SUBSET Patches, wrapper : SUBSET SUBSET Patches]
  /\ queue \in Seq(Scripts) /\ Len(queue) =< QueueBound /\ inbox \in Seq(Scripts)
  /\ files \subseteq Patches /\ wrapper \subseteq Patches /\ mounted \subseteq Patches
  /\ unsure \subseteq Patches /\ adrift \in BOOLEAN

\* One operation holds the lock.
OneHolds == \A o1, o2 \in Ops : op[o1].step \in Holding /\ op[o2].step \in Holding => o1 = o2

\* An upload on its way is of the patch its operation is about.
Placed(c) == c.run = "put" => op[c.by].patch = c.patch /\ op[c.by].step \notin {"none", "waiting"}
SendersKnown == /\ \A i \in 1..Len(inbox) : Placed(inbox[i])
                /\ \A i \in 1..Len(queue) : Placed(queue[i])

\* A wrapper that is to be fetched is there to be fetched.
WrapperStaged == WrapIn(inbox) \/ WrapIn(queue) => staged.wrapper # {}

StagedNames(p) == \E names \in staged.wrapper : p \in names

\* A patch the device's wrapper names, now or once it fetched the staged one, or that the panel
\* calls active, has its file there or on the way; and where a file is to be deleted that is
\* still named afterwards, it is uploaded again behind.
There(p) == p \in files \/ p \in Fileless \/ PutIn(inbox, p) \/ PutIn(queue, p)
Backed(p) ==
  /\ \/ p \in active \/ p \in wrapper
     \/ StagedNames(p) /\ (WrapIn(inbox) \/ WrapIn(queue))
     => There(p)
  /\ \A i \in 1..Len(inbox) :
       /\ Deletes(inbox[i], p)
       /\ p \in active \/ (StagedNames(p) /\ (WrapFrom(inbox, i) \/ WrapIn(queue)))
       => PutAfter(inbox, i, p)
  /\ \A i \in 1..Len(queue) :
       /\ Deletes(queue[i], p)
       /\ p \in active \/ (StagedNames(p) /\ WrapFrom(queue, i))
       => PutAfter(queue, i, p)
AllBacked == \A p \in Patches \ unsure : Backed(p)

\* An apply that uploaded its file finds it there when it comes to activate it.
Kept(p) ==
  /\ There(p)
  /\ \A i \in 1..Len(queue) : Deletes(queue[i], p) => PutAfter(queue, i, p)
  /\ \A i \in 1..Len(inbox) : Deletes(inbox[i], p) => PutAfter(inbox, i, p) \/ PutIn(queue, p)
Settled(p) ==
  /\ Kept(p)
  /\ \A i \in 1..Len(inbox) : Deletes(inbox[i], p) => PutAfter(inbox, i, p)
Ready(o) ==
  /\ op[o].step \in {"fetch", "space", "upload", "sent"} => ~op[o].remove
  /\ op[o].step \in {"upload", "sent"} => op[o].patch \notin Fileless
  /\ op[o].step = "sent" => /\ op[o].patch \in staged.files
                            /\ op[o].patch \notin unsure => Kept(op[o].patch)
  /\ op[o].step = "activate" /\ ~op[o].remove /\ op[o].patch \notin unsure =>
       Settled(op[o].patch)
AllReady == \A o \in Ops : Ready(o)

FilesInv ==
  /\ PatchTypes /\ OneHolds /\ SendersKnown /\ WrapperStaged /\ AllBacked /\ AllReady

\* Nothing is sent, staged or named at first.
LEMMA FilesInit == PatchInit => FilesInv
<1> SUFFICES ASSUME PatchInit PROVE FilesInv
  OBVIOUS
<1>1. (CHOOSE p \in Patches : TRUE) \in Patches
  BY PatcherAssumption
<1> DEFINE none == CHOOSE p \in Patches : TRUE
<1> HIDE DEF none
<1>2. /\ op = [o \in Ops |-> [step |-> "none", patch |-> none, remove |-> FALSE]]
      /\ none \in Patches /\ \A o \in Ops : op[o].step = "none"
  BY <1>1 DEF PatchInit, none
<1>3. op \in [Ops -> [step : Steps, patch : Patches, remove : BOOLEAN]]
  BY <1>2 DEF Steps
<1>4. inbox = <<>> /\ queue = <<>> /\ Len(inbox) = 0 /\ Len(queue) = 0
  BY DEF PatchInit
<1>5. PatchTypes
  <2>1. <<>> \in Seq(Scripts) /\ 0 =< QueueBound
    BY PatcherAssumption
  <2>2. [files |-> {}, wrapper |-> {}] \in [files : SUBSET Patches, wrapper : SUBSET SUBSET Patches]
    OBVIOUS
  <2> QED BY <1>3, <1>4, <2>1, <2>2 DEF PatchInit, PatchTypes
<1>6. OneHolds /\ AllReady
  BY <1>2 DEF OneHolds, AllReady, Ready, Holding, Past
<1>7. SendersKnown /\ WrapperStaged
  BY <1>4 DEF SendersKnown, WrapperStaged, WrapIn
<1>8. AllBacked
  BY <1>4 DEF PatchInit, AllBacked, Backed, WrapIn
<1> QED BY <1>5, <1>6, <1>7, <1>8 DEF FilesInv

-----------------------------------------------------------------------------
(* Sending a script                                                        *)

\* A script goes to the device at once, with nothing to overtake or overtaking what is queued,
\* or it is queued.
LEMMA SendIs ==
  ASSUME PatchTypes, NEW c \in Scripts, SendRunCmd(c)
  PROVE  /\ unsure \subseteq unsure' /\ unsure' \subseteq Patches /\ adrift' \in BOOLEAN
         /\ inbox' \in Seq(Scripts) /\ queue' \in Seq(Scripts) /\ Len(queue') =< QueueBound
         /\ \/ /\ inbox' = Append(inbox, c) /\ queue' = queue /\ Len(queue) = 0
            \/ /\ inbox' = Append(inbox, c) /\ queue' = queue
               /\ \A p \in Patches \ unsure' :
                    /\ ~Deletes(c, p) /\ ~Puts(c, p)
                    /\ \A i \in 1..Len(queue) : ~Deletes(queue[i], p) /\ ~Puts(queue[i], p)
            \/ /\ queue' = Append(queue, c) /\ inbox' = inbox
<1>1. /\ inbox \in Seq(Scripts) /\ queue \in Seq(Scripts) /\ Len(queue) =< QueueBound
      /\ Len(queue) \in Nat /\ QueueBound \in Nat /\ unsure \subseteq Patches /\ adrift \in BOOLEAN
  BY PatcherAssumption DEF PatchTypes
<1>2. CASE inbox' = Append(inbox, c) /\ queue' = queue /\ queue = <<>>
  BY <1>1, <1>2 DEF SendRunCmd
<1>3. CASE inbox' = Append(inbox, c) /\ queue' = queue /\ queue # <<>>
  <2>1. CASE /\ unsure' = unsure \cup UNION {Touched(d) : d \in Among(Append(queue, c))}
             /\ adrift' = TRUE
    <3> DEFINE all == Append(queue, c)
    <3>1. /\ all[Len(queue) + 1] = c /\ \A i \in 1..Len(queue) : all[i] = queue[i]
          /\ DOMAIN all = 1..(Len(queue) + 1) /\ Len(queue) + 1 \in DOMAIN all
          /\ \A i \in 1..Len(queue) : i \in DOMAIN all
          /\ \A i \in DOMAIN all : all[i] \in Scripts
      BY <1>1
    <3> HIDE DEF all
    <3>2. \A d \in Scripts : Touched(d) \subseteq Patches
      BY DEF Scripts, Touched
    <3>3. \A i \in DOMAIN all : Touched(all[i]) \subseteq unsure'
      BY <2>1 DEF Among, all
    <3>4. unsure' \subseteq Patches
      BY <1>1, <2>1, <3>1, <3>2 DEF Among, all
    <3>5. \A d \in Scripts, p \in Patches : Deletes(d, p) \/ Puts(d, p) => p \in Touched(d)
      BY DEF Scripts, Touched, Deletes, Puts
    <3>6. ASSUME NEW p \in Patches \ unsure', NEW i \in DOMAIN all
          PROVE  ~Deletes(all[i], p) /\ ~Puts(all[i], p)
      BY <3>1, <3>3, <3>5
    <3>7. ASSUME NEW p \in Patches \ unsure'
          PROVE  /\ ~Deletes(c, p) /\ ~Puts(c, p)
                 /\ \A i \in 1..Len(queue) : ~Deletes(queue[i], p) /\ ~Puts(queue[i], p)
      <4>1. ~Deletes(all[Len(queue) + 1], p) /\ ~Puts(all[Len(queue) + 1], p)
        BY <3>1, <3>6
      <4>2. ASSUME NEW i \in 1..Len(queue)
            PROVE  ~Deletes(queue[i], p) /\ ~Puts(queue[i], p)
        <5>1. i \in DOMAIN all /\ all[i] = queue[i]
          BY <3>1
        <5>2. ~Deletes(all[i], p) /\ ~Puts(all[i], p)
          BY <3>6, <5>1
        <5> QED BY <5>1, <5>2
      <4> QED BY <3>1, <4>1, <4>2
    <3> QED BY <1>1, <1>3, <2>1, <3>4, <3>7
  <2>2. queue' = Append(queue, c) /\ inbox' = inbox /\ unsure' = unsure /\ adrift' = adrift
          /\ Len(queue) < QueueBound => queue' # queue
    BY <1>1
  <2>3. queue' # Append(queue, c)
    BY <1>1, <1>3
  <2> QED BY <1>3, <2>1, <2>3 DEF SendRunCmd
<1>4. CASE queue' = Append(queue, c) /\ inbox' = inbox /\ Len(queue) < QueueBound
            /\ UNCHANGED <<unsure, adrift>>
  BY <1>1, <1>4
<1> QED BY <1>2, <1>3, <1>4 DEF SendRunCmd

\* What a patch needs is kept by a script that does not delete its file while it is named.
LEMMA SendBacks ==
  ASSUME PatchTypes, NEW c \in Scripts, SendRunCmd(c),
         NEW p \in Patches, p \notin unsure', Backed(p), UNCHANGED <<files, wrapper>>,
         p \in active' => p \in active \/ Settled(p),
         \/ ~Wraps(c) /\ (StagedNames(p)' <=> StagedNames(p))
         \/ StagedNames(p)' => p \in active',
         Deletes(c, p) => p \notin active'
  PROVE  Backed(p)'
<1>1. inbox \in Seq(Scripts) /\ queue \in Seq(Scripts) /\ c \in Scripts
  BY DEF PatchTypes
<1> DEFINE direct == inbox' = Append(inbox, c) /\ queue' = queue
           queued == queue' = Append(queue, c) /\ inbox' = inbox
           n == Len(inbox)
           m == Len(queue)
<1>2. /\ direct => /\ Len(inbox') = n + 1 /\ Len(queue') = m /\ n \in Nat
                   /\ inbox'[n + 1] = c /\ \A i \in 1..n : inbox'[i] = inbox[i]
                   /\ PutIn(inbox', p) <=> PutIn(inbox, p) \/ Puts(c, p)
                   /\ WrapIn(inbox') <=> WrapIn(inbox) \/ Wraps(c)
                   /\ \A i \in 1..n : /\ PutAfter(inbox', i, p) <=> PutAfter(inbox, i, p) \/ Puts(c, p)
                                      /\ WrapFrom(inbox', i) <=> WrapFrom(inbox, i) \/ Wraps(c)
                   /\ WrapFrom(inbox', n + 1) <=> Wraps(c)
  <2> DEFINE longer == Append(inbox, c)
  <2> HIDE DEF longer
  <2>1. /\ longer \in Seq(Scripts) /\ Len(longer) = n + 1 /\ n \in Nat
        /\ longer[n + 1] = c /\ \A i \in 1..n : longer[i] = inbox[i]
        /\ PutIn(longer, p) <=> PutIn(inbox, p) \/ Puts(c, p)
        /\ WrapIn(longer) <=> WrapIn(inbox) \/ Wraps(c)
        /\ \A i \in 1..n : /\ PutAfter(longer, i, p) <=> PutAfter(inbox, i, p) \/ Puts(c, p)
                           /\ WrapFrom(longer, i) <=> WrapFrom(inbox, i) \/ Wraps(c)
        /\ WrapFrom(longer, n + 1) <=> Wraps(c)
    BY <1>1, ScriptAdded DEF longer
  <2>2. direct => inbox' = longer /\ Len(queue') = m
    BY DEF longer
  <2> HIDE DEF direct
  <2> QED BY <2>1, <2>2
<1>3. /\ queued => /\ Len(queue') = m + 1 /\ Len(inbox') = n /\ m \in Nat
                   /\ queue'[m + 1] = c /\ \A i \in 1..m : queue'[i] = queue[i]
                   /\ PutIn(queue', p) <=> PutIn(queue, p) \/ Puts(c, p)
                   /\ WrapIn(queue') <=> WrapIn(queue) \/ Wraps(c)
                   /\ \A i \in 1..m : /\ PutAfter(queue', i, p) <=> PutAfter(queue, i, p) \/ Puts(c, p)
                                      /\ WrapFrom(queue', i) <=> WrapFrom(queue, i) \/ Wraps(c)
                   /\ WrapFrom(queue', m + 1) <=> Wraps(c)
  <2> DEFINE longer == Append(queue, c)
  <2> HIDE DEF longer
  <2>1. /\ longer \in Seq(Scripts) /\ Len(longer) = m + 1 /\ m \in Nat
        /\ longer[m + 1] = c /\ \A i \in 1..m : longer[i] = queue[i]
        /\ PutIn(longer, p) <=> PutIn(queue, p) \/ Puts(c, p)
        /\ WrapIn(longer) <=> WrapIn(queue) \/ Wraps(c)
        /\ \A i \in 1..m : /\ PutAfter(longer, i, p) <=> PutAfter(queue, i, p) \/ Puts(c, p)
                           /\ WrapFrom(longer, i) <=> WrapFrom(queue, i) \/ Wraps(c)
        /\ WrapFrom(longer, m + 1) <=> Wraps(c)
    BY <1>1, ScriptAdded DEF longer
  <2>2. queued => queue' = longer /\ Len(inbox') = n
    BY DEF longer
  <2> HIDE DEF queued
  <2> QED BY <2>1, <2>2
<1>4. \/ direct /\ m = 0
      \/ direct /\ ~Deletes(c, p) /\ \A i \in 1..m : ~Deletes(queue[i], p)
      \/ queued
  BY SendIs
<1>5. direct \/ queued
  BY <1>4
<1> HIDE DEF n, m, direct, queued
<1>6. There(p) => There(p)'
  <2>1. PutIn(inbox, p) \/ PutIn(queue, p) => PutIn(inbox', p) \/ PutIn(queue', p)
    BY <1>2, <1>3, <1>5 DEF direct, queued
  <2>2. (p \in Fileless)' <=> p \in Fileless
    BY DEF Fileless
  <2> QED BY <2>1, <2>2 DEF There
<1>7. (WrapIn(inbox) \/ WrapIn(queue))' <=> WrapIn(inbox) \/ WrapIn(queue) \/ Wraps(c)
  <2>1. WrapIn(inbox)' <=> WrapIn(inbox')
    BY DEF WrapIn
  <2>2. WrapIn(queue)' <=> WrapIn(queue')
    BY DEF WrapIn
  <2> QED BY <1>2, <1>3, <1>5, <2>1, <2>2 DEF direct, queued
<1>8. (p \in active \/ p \in wrapper \/ (StagedNames(p) /\ (WrapIn(inbox) \/ WrapIn(queue))))'
        => There(p)'
  <2>1. SUFFICES ASSUME (p \in active \/ p \in wrapper
                          \/ (StagedNames(p) /\ (WrapIn(inbox) \/ WrapIn(queue))))'
                 PROVE  There(p)
    BY <1>6
  <2>2. CASE p \in active'
    BY <2>2 DEF Backed, Settled, Kept
  <2>3. CASE p \in wrapper
    BY <2>3 DEF Backed
  <2>4. CASE StagedNames(p)' /\ ~Wraps(c) /\ StagedNames(p) /\ (WrapIn(inbox) \/ WrapIn(queue))
    BY <2>4 DEF Backed
  <2> QED BY <1>7, <2>1, <2>2, <2>3, <2>4
<1>9. ASSUME NEW i \in 1..Len(inbox'), Deletes(inbox'[i], p),
             p \in active' \/ (StagedNames(p)' /\ (WrapFrom(inbox', i) \/ WrapIn(queue')))
      PROVE  PutAfter(inbox', i, p)
  <2>0. p \in active' => /\ \A k \in 1..n : Deletes(inbox[k], p) => PutAfter(inbox, k, p)
    BY DEF Backed, Settled, n
  <2>1. CASE direct
    <3>1. CASE i = n + 1
      <4>1. Deletes(c, p) /\ m = 0
        BY <1>2, <1>4, <1>9, <2>1, <3>1 DEF direct, queued
      <4>2. ~WrapIn(queue')
        BY <2>1, <4>1 DEF WrapIn, direct, m
      <4> QED BY <1>2, <1>9, <2>1, <3>1, <4>1, <4>2
    <3>2. CASE i \in 1..n
      <4>1. Deletes(inbox[i], p)
        BY <1>2, <1>9, <2>1, <3>2
      <4>2. CASE p \in active'
        BY <1>2, <2>0, <2>1, <3>2, <4>1, <4>2
      <4>3. CASE ~(p \in active')
        <5>1. StagedNames(p) /\ (WrapFrom(inbox, i) \/ WrapIn(queue))
          BY <1>2, <1>9, <2>1, <3>2, <4>3 DEF direct
        <5>2. PutAfter(inbox, i, p)
          BY <3>2, <4>1, <5>1 DEF Backed, n
        <5> QED BY <1>2, <2>1, <3>2, <5>2
      <4> QED BY <4>2, <4>3
    <3> QED BY <1>2, <1>9, <2>1, <3>1, <3>2
  <2>2. CASE queued
    <3>1. i \in 1..n /\ inbox' = inbox /\ Deletes(inbox[i], p)
      BY <1>9, <2>2 DEF queued, n
    <3>2. CASE p \in active'
      BY <2>0, <3>1, <3>2
    <3>3. CASE ~(p \in active')
      <4>1. StagedNames(p) /\ (WrapFrom(inbox, i) \/ WrapIn(queue))
        BY <1>3, <1>9, <2>2, <3>1, <3>3
      <4> QED BY <3>1, <4>1 DEF Backed, n
    <3> QED BY <3>2, <3>3
  <2> QED BY <1>5, <2>1, <2>2
<1>10. ASSUME NEW i \in 1..Len(queue'), Deletes(queue'[i], p),
              p \in active' \/ (StagedNames(p)' /\ WrapFrom(queue', i))
       PROVE  PutAfter(queue', i, p)
  <2>0. p \in active' => \A k \in 1..m : Deletes(queue[k], p) => PutAfter(queue, k, p)
    BY DEF Backed, Settled, Kept, m
  <2>1. CASE direct
    <3>1. i \in 1..m /\ queue' = queue
      BY <1>10, <2>1 DEF direct, m
    <3>2. CASE p \in active'
      BY <1>10, <2>0, <3>1, <3>2
    <3>3. CASE ~(p \in active')
      <4>1. StagedNames(p) /\ WrapFrom(queue, i)
        <5>1. WrapFrom(queue, i) => WrapIn(queue)
          BY DEF WrapFrom, WrapIn
        <5> QED BY <1>10, <3>1, <3>3
      <4> QED BY <1>10, <3>1, <4>1 DEF Backed, m
    <3> QED BY <3>2, <3>3
  <2>2. CASE queued
    <3>1. CASE i = m + 1
      BY <1>3, <1>10, <2>2, <3>1
    <3>2. CASE i \in 1..m
      <4>1. Deletes(queue[i], p)
        BY <1>3, <1>10, <2>2, <3>2
      <4>2. CASE p \in active'
        BY <1>3, <2>0, <2>2, <3>2, <4>1, <4>2
      <4>3. CASE ~(p \in active')
        <5>1. StagedNames(p) /\ WrapFrom(queue, i)
          BY <1>3, <1>10, <2>2, <3>2, <4>3
        <5>2. PutAfter(queue, i, p)
          BY <3>2, <4>1, <5>1 DEF Backed, m
        <5> QED BY <1>3, <2>2, <3>2, <5>2
      <4> QED BY <4>2, <4>3
    <3> QED BY <1>3, <1>10, <2>2, <3>1, <3>2
  <2> QED BY <1>5, <2>1, <2>2
<1> QED BY <1>8, <1>9, <1>10 DEF Backed, There, PutIn, PutAfter, WrapIn, WrapFrom

-----------------------------------------------------------------------------
(* The steps of an operation                                               *)

\* One operation moves to another step and keeps its patch.
LEMMA GotoIs ==
  ASSUME PatchTypes, NEW o \in Ops, NEW step \in Steps, Goto(o, step)
  PROVE  /\ op' \in [Ops -> [step : Steps, patch : Patches, remove : BOOLEAN]]
         /\ op'[o].step = step /\ op'[o].patch = op[o].patch /\ op'[o].remove = op[o].remove
         /\ \A q \in Ops \ {o} : op'[q] = op[q]
<1> DEFINE moved == [op[o] EXCEPT !.step = step]
<1>1. op[o] \in [step : Steps, patch : Patches, remove : BOOLEAN]
  BY DEF PatchTypes
<1>2. /\ moved \in [step : Steps, patch : Patches, remove : BOOLEAN]
      /\ moved.step = step /\ moved.patch = op[o].patch /\ moved.remove = op[o].remove
  BY <1>1
<1>3. op' = [op EXCEPT ![o] = moved]
  BY DEF Goto
<1> HIDE DEF moved
<1> QED BY <1>2, <1>3 DEF PatchTypes

\* Only the operation that holds the lock is at a step the invariant speaks of.
LEMMA OthersWait ==
  ASSUME OneHolds, NEW o \in Ops, op[o].step \in Holding, \A q \in Ops \ {o} : op'[q] = op[q]
  PROVE  /\ OneHolds' /\ \A q \in Ops \ {o} : Ready(q)'
<1>1. \A q \in Ops \ {o} : op'[q].step \notin Holding
  BY DEF OneHolds
<1>2. \A q \in Ops \ {o} : op'[q].step \notin {"fetch", "space", "upload", "sent", "activate"}
  BY <1>1 DEF Holding, Past
<1> QED BY <1>1, <1>2 DEF OneHolds, Ready, Holding, Past

\* No script comes but the one that is sent, and an operation that sent one keeps to its patch.
LEMMA SendersKeep ==
  ASSUME PatchTypes, SendersKnown, NEW c,
         \A q \in Ops : op[q].step \notin {"none", "waiting"} =>
           op'[q].step \notin {"none", "waiting"} /\ op'[q].patch = op[q].patch,
         \A i \in 1..Len(inbox') : \/ Placed(c)' /\ inbox'[i] = c
                                   \/ \E j \in 1..Len(inbox) : inbox'[i] = inbox[j]
                                   \/ \E j \in 1..Len(queue) : inbox'[i] = queue[j],
         \A i \in 1..Len(queue') : \/ Placed(c)' /\ queue'[i] = c
                                   \/ \E j \in 1..Len(queue) : queue'[i] = queue[j]
  PROVE  SendersKnown'
<1>1. ASSUME NEW d, Placed(d), d \in Scripts PROVE Placed(d)'
  <2>1. d.by \in Ops
    BY <1>1 DEF Scripts
  <2> QED BY <1>1, <2>1 DEF Placed
<1>2. /\ \A j \in 1..Len(inbox) : inbox[j] \in Scripts /\ Placed(inbox[j])
      /\ \A j \in 1..Len(queue) : queue[j] \in Scripts /\ Placed(queue[j])
  BY DEF PatchTypes, SendersKnown
<1>3. ASSUME NEW i \in 1..Len(inbox') PROVE Placed(inbox[i])'
  <2>1. CASE Placed(c)' /\ inbox'[i] = c
    BY <2>1 DEF Placed
  <2>2. ASSUME NEW j \in 1..Len(inbox), inbox'[i] = inbox[j] PROVE Placed(inbox[i])'
    <3>1. Placed(inbox[j]) /\ inbox[j] \in Scripts
      BY <1>2
    <3> DEFINE d == inbox[j]
    <3>2. op'[inbox[j].by].patch = op[inbox[j].by].patch \/ op[inbox[j].by].step \in {"none", "waiting"}
      BY <3>1 DEF Scripts
    <3> QED BY <2>2, <3>1 DEF Placed, Scripts
  <2>3. ASSUME NEW j \in 1..Len(queue), inbox'[i] = queue[j] PROVE Placed(inbox[i])'
    <3>1. Placed(queue[j]) /\ queue[j] \in Scripts
      BY <1>2
    <3> QED BY <2>3, <3>1 DEF Placed, Scripts
  <2> QED BY <2>1, <2>2, <2>3
<1>4. ASSUME NEW i \in 1..Len(queue') PROVE Placed(queue[i])'
  <2>1. CASE Placed(c)' /\ queue'[i] = c
    BY <2>1 DEF Placed
  <2>2. ASSUME NEW j \in 1..Len(queue), queue'[i] = queue[j] PROVE Placed(queue[i])'
    <3>1. Placed(queue[j]) /\ queue[j] \in Scripts
      BY <1>2
    <3> QED BY <2>2, <3>1 DEF Placed, Scripts
  <2> QED BY <2>1, <2>2
<1> QED BY <1>3, <1>4 DEF SendersKnown

\* An operation moves on and sends nothing.
LEMMA MoveFiles ==
  ASSUME FilesInv, NEW o \in Ops, NoCommand, UNCHANGED <<active, staged, deviceVars>>,
         op' \in [Ops -> [step : Steps, patch : Patches, remove : BOOLEAN]],
         \A q \in Ops \ {o} : op'[q] = op[q],
         op[o].step \notin {"none", "waiting"} =>
           op'[o].step \notin {"none", "waiting"} /\ op'[o].patch = op[o].patch,
         OneHolds', Ready(o)'
  PROVE  FilesInv'
<1>0. UNCHANGED <<active, staged, files, wrapper, mounted, queue, inbox, unsure, adrift>>
  BY DEF deviceVars, NoCommand
<1>1. PatchTypes'
  BY <1>0 DEF FilesInv, PatchTypes, Scripts, Fileless, Steps
<1>2. SendersKnown'
  <2>1. \A q \in Ops : op[q].step \notin {"none", "waiting"} =>
           op'[q].step \notin {"none", "waiting"} /\ op'[q].patch = op[q].patch
    OBVIOUS
  <2> QED BY <1>0, <2>1, SendersKeep DEF FilesInv
<1>3. WrapperStaged'
  BY <1>0 DEF FilesInv, WrapperStaged, WrapIn
<1>4. AllBacked'
  BY <1>0 DEF FilesInv, AllBacked, Backed, StagedNames, There, PutIn, PutAfter, WrapIn, WrapFrom,
              Fileless
<1>5. ASSUME NEW q \in Ops \ {o} PROVE Ready(q)'
  <2>1. Ready(q) /\ op'[q] = op[q]
    BY DEF FilesInv, AllReady
  <2> QED BY <1>0, <2>1 DEF Ready, Kept, Settled, There, PutIn, PutAfter, Fileless
<1> QED BY <1>1, <1>2, <1>3, <1>4, <1>5 DEF FilesInv, AllReady

\* An operation is asked for, or takes the lock, which nobody holds.
LEMMA StartsFiles ==
  ASSUME FilesInv, NEW o \in Ops, NEW p \in Patches, NEW remove \in BOOLEAN,
         Start(o, p, remove) \/ TakeLock(o)
  PROVE  FilesInv'
<1>1. CASE Start(o, p, remove)
  <2> DEFINE new == [step |-> "waiting", patch |-> p, remove |-> remove]
  <2>1. new \in [step : Steps, patch : Patches, remove : BOOLEAN] /\ new.step = "waiting"
    BY DEF Steps
  <2>2. op' = [op EXCEPT ![o] = new] /\ op[o].step = "none" /\ NoCommand
         /\ UNCHANGED <<active, staged, deviceVars>>
    BY <1>1 DEF Start
  <2> HIDE DEF new
  <2>3. op' \in [Ops -> [step : Steps, patch : Patches, remove : BOOLEAN]] /\ op'[o] = new
         /\ \A q \in Ops \ {o} : op'[q] = op[q]
    BY <2>1, <2>2 DEF FilesInv, PatchTypes
  <2>4. Ready(o)'
    BY <2>1, <2>3 DEF Ready
  <2>5. OneHolds'
    BY <2>1, <2>3 DEF FilesInv, OneHolds, Holding, Past
  <2> QED BY <2>2, <2>3, <2>4, <2>5, MoveFiles
<1>2. CASE TakeLock(o)
  <2>1. /\ op[o].step = "waiting" /\ Holder = {} /\ Goto(o, "detect") /\ NoCommand
        /\ UNCHANGED <<active, staged, deviceVars>> /\ PatchTypes
    BY <1>2 DEF TakeLock, MyTurn, FilesInv
  <2>2. /\ op' \in [Ops -> [step : Steps, patch : Patches, remove : BOOLEAN]]
        /\ op'[o].step = "detect" /\ op'[o].patch = op[o].patch
        /\ \A q \in Ops \ {o} : op'[q] = op[q]
    BY <2>1, GotoIs DEF Steps
  <2>3. \A q \in Ops : op[q].step \notin Holding
    BY <2>1 DEF Holder, Running, Holding, Past
  <2>4. OneHolds'
    BY <2>2, <2>3 DEF OneHolds
  <2>5. Ready(o)'
    BY <2>2 DEF Ready
  <2> QED BY <2>1, <2>2, <2>4, <2>5, MoveFiles
<1> QED BY <1>1, <1>2

\* Nothing is sent before the upload: the step that comes next is one the patch calls for.
LEMMA PreparesFiles ==
  ASSUME FilesInv, NEW o \in Ops, Detected(o) \/ FileFetched(o) \/ GivesUp(o) \/ Fits(o)
  PROVE  FilesInv'
<1>1. /\ op[o].step \in {"detect", "fetch", "space", "upload"} /\ NoCommand
      /\ UNCHANGED <<active, staged, deviceVars>> /\ PatchTypes /\ OneHolds /\ Ready(o)
  BY DEF Detected, FileFetched, GivesUp, Fits, FilesInv, AllReady
<1>2. op[o].step \in Holding
  BY <1>1 DEF Holding
<1> DEFINE Fine(step) ==
      /\ step \in {"fetch", "space", "activate", "done", "upload"}
      /\ step \in {"fetch", "space", "upload"} => ~op[o].remove
      /\ step = "upload" => op[o].patch \notin Fileless
      /\ step = "activate" => op[o].remove \/ op[o].patch \in Fileless
<1>3. PICK step : Fine(step) /\ Goto(o, step)
  <2>1. CASE Detected(o)
    <3> DEFINE step == IF op[o].remove THEN "activate"
             ELSE IF Kind[op[o].patch] \in {"binary", "bundle", "tool"} THEN "fetch" ELSE "space"
    <3>1. Goto(o, step) /\ Fine(step)
      BY <2>1 DEF Detected
    <3> QED BY <3>1
  <2>2. CASE FileFetched(o)
    <3>1. Goto(o, "space") /\ Fine("space")
      BY <1>1, <2>2 DEF FileFetched, Ready
    <3> QED BY <3>1
  <2>3. CASE GivesUp(o)
    <3>1. Goto(o, "done") /\ Fine("done")
      BY <2>3 DEF GivesUp
    <3> QED BY <3>1
  <2>4. CASE Fits(o)
    <3> DEFINE step == IF op[o].patch \in Fileless THEN "activate" ELSE "upload"
    <3>1. Goto(o, step) /\ Fine(step)
      BY <2>4 DEF Fits, Ready, FilesInv, AllReady
    <3> QED BY <3>1
  <2> QED BY <2>1, <2>2, <2>3, <2>4
<1>4. step \in Steps
  BY <1>3 DEF Steps
<1>5. /\ op' \in [Ops -> [step : Steps, patch : Patches, remove : BOOLEAN]]
      /\ op'[o].step = step /\ op'[o].patch = op[o].patch /\ op'[o].remove = op[o].remove
      /\ \A q \in Ops \ {o} : op'[q] = op[q]
  BY <1>1, <1>3, <1>4, GotoIs
<1>6. OneHolds'
  BY <1>1, <1>2, <1>5, OthersWait
<1>7. (op[o].patch \in Fileless => ~ \E i \in 1..Len(inbox) : Deletes(inbox[i], op[o].patch))
      /\ (op[o].patch \in Fileless => ~ \E i \in 1..Len(queue) : Deletes(queue[i], op[o].patch))
  <2>1. \A d \in Scripts : op[o].patch \in Fileless => ~Deletes(d, op[o].patch)
    BY DEF Scripts, Deletes
  <2>2. inbox \in Seq(Scripts) /\ queue \in Seq(Scripts)
    BY <1>1 DEF PatchTypes
  <2>3. /\ \A i \in 1..Len(inbox) : inbox[i] \in Scripts
        /\ \A i \in 1..Len(queue) : queue[i] \in Scripts
    BY <2>2
  <2> QED BY <2>1, <2>3
<1>8. Ready(o)'
  <2>1. UNCHANGED <<inbox, queue, files>>
    BY <1>1 DEF NoCommand, deviceVars
  <2>2. op[o].patch \in Fileless => Settled(op[o].patch)'
    BY <1>5, <1>7, <2>1 DEF Settled, Kept, There, Fileless
  <2>4. op'[o].step \in {"fetch", "space", "upload", "sent"} => ~op'[o].remove
    BY <1>3, <1>5
  <2>5. op'[o].step \in {"upload", "sent"} => op'[o].patch \notin Fileless
    BY <1>3, <1>5
  <2>6. op'[o].step # "sent" /\ (op'[o].step = "activate" /\ ~op'[o].remove => op[o].patch \in Fileless)
    BY <1>3, <1>5
  <2> QED BY <1>5, <2>2, <2>4, <2>5, <2>6 DEF Ready, Fileless
<1> QED BY <1>1, <1>3, <1>5, <1>6, <1>8, MoveFiles

\* An operation moves on and sends a script.
LEMMA SendFiles ==
  ASSUME FilesInv, NEW o \in Ops, op[o].step \in Holding, NEW c \in Scripts, SendRunCmd(c), Placed(c)',
         op' \in [Ops -> [step : Steps, patch : Patches, remove : BOOLEAN]],
         \A q \in Ops \ {o} : op'[q] = op[q],
         op'[o].step \notin {"none", "waiting"}, op'[o].patch = op[o].patch, Ready(o)',
         active' \subseteq Patches, UNCHANGED deviceVars,
         staged' \in [files : SUBSET Patches, wrapper : SUBSET SUBSET Patches],
         staged'.wrapper = staged.wrapper \/ staged'.wrapper # {},
         Wraps(c) => staged'.wrapper # {},
         \A p \in active' \ unsure' : p \in active \/ Settled(p),
         (~Wraps(c) /\ staged'.wrapper = staged.wrapper) \/ staged'.wrapper = {active'},
         \A p \in active' : ~Deletes(c, p)
  PROVE  FilesInv'
<1>0. /\ PatchTypes /\ OneHolds /\ SendersKnown /\ WrapperStaged /\ AllBacked
      /\ files' = files /\ wrapper' = wrapper /\ mounted' = mounted
  BY DEF FilesInv, deviceVars
<1>1. PatchTypes'
  BY <1>0, SendIs DEF PatchTypes, Scripts, Fileless, Steps
<1>2. OneHolds' /\ \A q \in Ops \ {o} : Ready(q)'
  BY <1>0, OthersWait
<1>3. /\ inbox \in Seq(Scripts) /\ queue \in Seq(Scripts)
      /\ inbox' = Append(inbox, c) \/ inbox' = inbox
      /\ queue' = Append(queue, c) \/ queue' = queue
  BY <1>0, SendIs DEF PatchTypes
<1>4. SendersKnown'
  <2>1. \A i \in 1..Len(inbox') : (Placed(c)' /\ inbox'[i] = c)
                                   \/ \E j \in 1..Len(inbox) : inbox'[i] = inbox[j]
    <3>1. CASE inbox' = inbox
      BY <3>1
    <3>2. CASE inbox' = Append(inbox, c)
      <4>1. /\ Len(inbox') = Len(inbox) + 1 /\ inbox'[Len(inbox) + 1] = c /\ Len(inbox) \in Nat
            /\ \A i \in 1..Len(inbox) : inbox'[i] = inbox[i]
        BY <1>3, <3>2
      <4> QED BY <4>1
    <3> QED BY <1>3, <3>1, <3>2
  <2>2. \A i \in 1..Len(queue') : (Placed(c)' /\ queue'[i] = c)
                                   \/ \E j \in 1..Len(queue) : queue'[i] = queue[j]
    <3>1. CASE queue' = queue
      BY <3>1
    <3>2. CASE queue' = Append(queue, c)
      <4>1. /\ Len(queue') = Len(queue) + 1 /\ queue'[Len(queue) + 1] = c /\ Len(queue) \in Nat
            /\ \A i \in 1..Len(queue) : queue'[i] = queue[i]
        BY <1>3, <3>2
      <4> QED BY <4>1
    <3> QED BY <1>3, <3>1, <3>2
  <2>3. \A q \in Ops : op[q].step \notin {"none", "waiting"} =>
           op'[q].step \notin {"none", "waiting"} /\ op'[q].patch = op[q].patch
    OBVIOUS
  <2> QED BY <1>0, <2>1, <2>2, <2>3, SendersKeep
<1>5. WrapperStaged'
  <2>1. WrapIn(inbox)' => WrapIn(inbox) \/ Wraps(c)
    BY <1>3, ScriptAdded DEF WrapIn
  <2>2. WrapIn(queue)' => WrapIn(queue) \/ Wraps(c)
    BY <1>3, ScriptAdded DEF WrapIn
  <2> QED BY <1>0, <2>1, <2>2 DEF WrapperStaged
<1>6. ASSUME NEW p \in Patches, p \notin unsure' PROVE Backed(p)'
  <2>1. Backed(p)
    BY <1>0, <1>6, SendIs DEF AllBacked
  <2>2. \/ ~Wraps(c) /\ (StagedNames(p)' <=> StagedNames(p))
        \/ StagedNames(p)' => p \in active'
    BY DEF StagedNames
  <2> QED BY <1>0, <1>6, <2>1, <2>2, SendBacks
<1> QED BY <1>1, <1>2, <1>4, <1>5, <1>6 DEF FilesInv, AllReady, AllBacked

\* The file is staged and a script sent that fetches it: it is behind all that delete it.
LEMMA UploadFiles ==
  ASSUME FilesInv, NEW o \in Ops, Upload(o)
  PROVE  FilesInv'
<1>0. PICK p \in Patches : p = op[o].patch
  BY DEF FilesInv, PatchTypes
<1> DEFINE c == PutFile(o, p)
<1>1. /\ PatchTypes /\ Ready(o) /\ op[o].step = "upload" /\ Goto(o, "sent")
      /\ staged' = [staged EXCEPT !.files = @ \cup {p}]
      /\ SendRunCmd(c) /\ UNCHANGED <<active, deviceVars>>
  BY <1>0 DEF Upload, FilesInv, AllReady
<1>2. /\ op' \in [Ops -> [step : Steps, patch : Patches, remove : BOOLEAN]]
      /\ op'[o].step = "sent" /\ op'[o].patch = p /\ op'[o].remove = op[o].remove
      /\ \A q \in Ops \ {o} : op'[q] = op[q]
  BY <1>0, <1>1, GotoIs DEF Steps
<1>3. p \in Patches \ Fileless /\ ~op[o].remove
  BY <1>0, <1>1 DEF Ready, PatchTypes
<1>4. /\ c \in Scripts /\ ~Wraps(c) /\ Puts(c, p) /\ c.by = o /\ c.patch = p
      /\ \A q : ~Deletes(c, q)
  BY <1>3 DEF Scripts, PutFile, Wraps, Puts, Deletes
<1> HIDE DEF c
<1>5. /\ staged' \in [files : SUBSET Patches, wrapper : SUBSET SUBSET Patches]
      /\ staged'.wrapper = staged.wrapper /\ p \in staged'.files
  <2>1. staged \in [files : SUBSET Patches, wrapper : SUBSET SUBSET Patches]
    BY <1>1 DEF PatchTypes
  <2> QED BY <1>1, <1>3, <2>1
<1>6. Placed(c)'
  BY <1>2, <1>4 DEF Placed
<1>7. ASSUME p \notin unsure' PROVE Kept(p)'
  <2>1. /\ inbox \in Seq(Scripts) /\ queue \in Seq(Scripts)
    BY <1>1 DEF PatchTypes
  <2>2. CASE inbox' = Append(inbox, c) /\ queue' = queue /\ Len(queue) = 0
    <3>1. /\ PutIn(inbox', p) /\ Len(inbox') = Len(inbox) + 1 /\ Len(inbox) \in Nat
          /\ inbox'[Len(inbox) + 1] = c /\ \A i \in 1..Len(inbox) : PutAfter(inbox', i, p)
      BY <1>4, <2>1, <2>2, ScriptAdded
    <3>2. \A i \in 1..Len(inbox') : Deletes(inbox'[i], p) => PutAfter(inbox', i, p)
      BY <1>4, <3>1
    <3>3. \A i \in 1..Len(queue') : FALSE
      BY <2>2
    <3> QED BY <3>1, <3>2, <3>3 DEF Kept, There, PutIn, PutAfter
  <2>3. CASE queue' = Append(queue, c) /\ inbox' = inbox
    <3>1. /\ PutIn(queue', p) /\ Len(queue') = Len(queue) + 1 /\ Len(queue) \in Nat
          /\ queue'[Len(queue) + 1] = c /\ \A i \in 1..Len(queue) : PutAfter(queue', i, p)
      BY <1>4, <2>1, <2>3, ScriptAdded
    <3>2. \A i \in 1..Len(queue') : Deletes(queue'[i], p) => PutAfter(queue', i, p)
      BY <1>4, <3>1
    <3> QED BY <3>1, <3>2 DEF Kept, There, PutIn, PutAfter
  <2>4. CASE ~Puts(c, p)
    BY <1>4, <2>4
  <2> QED BY <1>1, <1>3, <1>4, <1>7, <2>2, <2>3, <2>4, SendIs
<1>8. Ready(o)'
  BY <1>2, <1>3, <1>5, <1>7 DEF Ready, Fileless
<1> QED BY <1>0, <1>1, <1>2, <1>4, <1>5, <1>6, <1>8, SendFiles DEF Holding, FilesInv, PatchTypes

\* A reboot touches no file.
LEMMA RebootsFiles ==
  ASSUME FilesInv, NEW o \in Ops, Reboots(o)
  PROVE  FilesInv'
<1> DEFINE c == Reboot(o)
<1>1. /\ PatchTypes /\ op[o].step = "reboot" /\ Goto(o, "done")
      /\ SendRunCmd(c) /\ UNCHANGED <<active, staged, deviceVars>>
  BY DEF Reboots, FilesInv
<1>2. /\ op' \in [Ops -> [step : Steps, patch : Patches, remove : BOOLEAN]]
      /\ op'[o].step = "done" /\ op'[o].patch = op[o].patch /\ op'[o].remove = op[o].remove
      /\ \A q \in Ops \ {o} : op'[q] = op[q]
  BY <1>1, GotoIs DEF Steps
<1>3. c \in Scripts /\ ~Wraps(c) /\ c.run = "reboot" /\ \A q : ~Deletes(c, q)
  BY DEF Scripts, Reboot, Wraps, Deletes
<1> HIDE DEF c
<1>4. Placed(c)' /\ Ready(o)'
  BY <1>2, <1>3 DEF Placed, Ready
<1> QED BY <1>1, <1>2, <1>3, <1>4, SendFiles DEF Holding, Past, PatchTypes

\* An operation moves on with nothing sent, and what is staged may go.
LEMMA StageFiles ==
  ASSUME FilesInv, NEW o \in Ops, op[o].step \in Holding, NoCommand, UNCHANGED <<active, deviceVars>>,
         op' \in [Ops -> [step : Steps, patch : Patches, remove : BOOLEAN]],
         \A q \in Ops \ {o} : op'[q] = op[q],
         op'[o].step \notin {"none", "waiting"}, op'[o].patch = op[o].patch, Ready(o)',
         staged' \in [files : SUBSET Patches, wrapper : SUBSET SUBSET Patches],
         staged'.wrapper = staged.wrapper \/ (Len(inbox) = 0 /\ Len(queue) = 0)
  PROVE  FilesInv'
<1>0. /\ UNCHANGED <<active, files, wrapper, mounted, queue, inbox, unsure, adrift>>
      /\ PatchTypes /\ OneHolds /\ SendersKnown /\ WrapperStaged /\ AllBacked
  BY DEF deviceVars, NoCommand, FilesInv
<1>1. PatchTypes'
  BY <1>0 DEF PatchTypes, Scripts, Fileless, Steps
<1>2. OneHolds' /\ \A q \in Ops \ {o} : Ready(q)'
  BY <1>0, OthersWait
<1>3. SendersKnown'
  <2>1. \A q \in Ops : op[q].step \notin {"none", "waiting"} =>
           op'[q].step \notin {"none", "waiting"} /\ op'[q].patch = op[q].patch
    OBVIOUS
  <2> QED BY <1>0, <2>1, SendersKeep
<1>4. WrapperStaged'
  BY <1>0 DEF WrapperStaged, WrapIn
<1>5. AllBacked'
  <2>1. CASE staged'.wrapper = staged.wrapper
    BY <1>0, <2>1 DEF AllBacked, Backed, StagedNames, There, PutIn, PutAfter, WrapIn, WrapFrom, Fileless
  <2>2. CASE Len(inbox) = 0 /\ Len(queue) = 0
    BY <1>0, <2>2 DEF AllBacked, Backed, There, PutIn, PutAfter, WrapIn, WrapFrom, Fileless
  <2> QED BY <2>1, <2>2
<1> QED BY <1>1, <1>2, <1>3, <1>4, <1>5 DEF FilesInv, AllReady

\* The wait for an upload or a wrapper ends: nothing is on its way that the staged file or
\* wrapper could be missed by, or it is kept.
LEMMA WaitsFiles ==
  ASSUME FilesInv, NEW o \in Ops, Uploaded(o) \/ Wrapped(o)
  PROVE  FilesInv'
<1>0. PICK p \in Patches : p = op[o].patch
  BY DEF FilesInv, PatchTypes
<1>1. /\ PatchTypes /\ Ready(o) /\ NoCommand /\ UNCHANGED <<active, deviceVars>>
      /\ staged \in [files : SUBSET Patches, wrapper : SUBSET SUBSET Patches]
      /\ UNCHANGED <<inbox, queue, files, unsure>>
  BY DEF Uploaded, Wrapped, FilesInv, AllReady, PatchTypes, NoCommand, deviceVars
<1>2. CASE Uploaded(o)
  <2>1. op[o].step = "sent" /\ Len(inbox) = 0 /\ Goto(o, "activate")
    BY <1>2 DEF Uploaded
  <2>2. staged' = staged \/ staged' = [staged EXCEPT !.files = @ \ {p}]
    BY <1>0, <1>2 DEF Uploaded
  <2>3. staged' \in [files : SUBSET Patches, wrapper : SUBSET SUBSET Patches]
        /\ staged'.wrapper = staged.wrapper
    BY <1>1, <2>2
  <2>4. /\ op' \in [Ops -> [step : Steps, patch : Patches, remove : BOOLEAN]]
        /\ op'[o].step = "activate" /\ op'[o].patch = p /\ op'[o].remove = op[o].remove
        /\ \A q \in Ops \ {o} : op'[q] = op[q]
    BY <1>0, <1>1, <2>1, GotoIs DEF Steps
  <2>5. p \notin unsure => Settled(p)
    BY <1>0, <1>1, <2>1 DEF Ready, Settled
  <2>6. p \notin unsure' => Settled(p)'
    BY <1>1, <2>5 DEF Settled, Kept, There, PutIn, PutAfter, Fileless
  <2>7. Ready(o)'
    BY <2>4, <2>6 DEF Ready
  <2> QED BY <1>0, <1>1, <2>1, <2>3, <2>4, <2>7, StageFiles DEF Holding, Past
<1>3. CASE Wrapped(o)
  <2>1. op[o].step = "wrapped" /\ Goto(o, "reboot")
    BY <1>3 DEF Wrapped
  <2>2. staged' = staged \/ (staged' = [staged EXCEPT !.wrapper = {}] /\ Len(inbox) = 0 /\ Len(queue) = 0)
    BY <1>3 DEF Wrapped
  <2>3. staged' \in [files : SUBSET Patches, wrapper : SUBSET SUBSET Patches]
        /\ (staged'.wrapper = staged.wrapper \/ (Len(inbox) = 0 /\ Len(queue) = 0))
    BY <1>1, <2>2
  <2>4. /\ op' \in [Ops -> [step : Steps, patch : Patches, remove : BOOLEAN]]
        /\ op'[o].step = "reboot" /\ op'[o].patch = p /\ op'[o].remove = op[o].remove
        /\ \A q \in Ops \ {o} : op'[q] = op[q]
    BY <1>0, <1>1, <2>1, GotoIs DEF Steps
  <2>5. Ready(o)'
    BY <2>4 DEF Ready
  <2> QED BY <1>0, <1>1, <2>1, <2>3, <2>4, <2>5, StageFiles DEF Holding, Past
<1> QED BY <1>2, <1>3

\* The wrapper names every active patch: there is a block or a mount for each kind.
LEMMA WrapperIsAll ==
  ASSUME NEW some \in SUBSET Patches
  PROVE  AppInitWrapper(some) = some
<1>1. \A p \in some : Kind[p] \in {"binary", "bundle", "tool", "sink", "mount"}
  BY PatcherAssumption
<1> QED BY <1>1 DEF AppInitWrapper, PreInitBlocks, BindMounts

\* A list is saved whose patches are backed, and the wrapper made from it sent: what it deletes
\* it does not name.
LEMMA ActivateFiles ==
  ASSUME FilesInv, NEW o \in Ops, NEW stages \in BOOLEAN, Activate(o, stages)
  PROVE  FilesInv'
<1>0. PICK p \in Patches : p = op[o].patch
  BY DEF FilesInv, PatchTypes
<1> DEFINE chosen == IF op[o].remove THEN active \ {p} ELSE active \cup {p}
           gone == {p} \ Fileless
<1>1. /\ PatchTypes /\ Ready(o) /\ op[o].step = "activate" /\ active' = chosen /\ UNCHANGED deviceVars
      /\ op[o].step \in Holding
      /\ staged \in [files : SUBSET Patches, wrapper : SUBSET SUBSET Patches]
      /\ active \subseteq Patches /\ active' \subseteq Patches
  BY <1>0 DEF Activate, FilesInv, AllReady, PatchTypes, Holding, Past
<1>2. \A q \in active' \ unsure : q \in active \/ Settled(q)
  <2>1. ~op[o].remove /\ p \notin unsure => Settled(p)
    BY <1>0, <1>1 DEF Ready
  <2> QED BY <1>1, <2>1
<1>3. gone \in SUBSET (Patches \ Fileless) /\ {} \in SUBSET (Patches \ Fileless)
  OBVIOUS
<1>4. op[o].remove => p \notin active'
  BY <1>1
<1>5. ASSUME NEW step \in {"done", "wrapped"}, Goto(o, step)
      PROVE  /\ op' \in [Ops -> [step : Steps, patch : Patches, remove : BOOLEAN]]
             /\ op'[o].step = step /\ op'[o].patch = p /\ Ready(o)'
             /\ \A q \in Ops \ {o} : op'[q] = op[q]
  <2>1. /\ op' \in [Ops -> [step : Steps, patch : Patches, remove : BOOLEAN]]
        /\ op'[o].step = step /\ op'[o].patch = p
        /\ \A q \in Ops \ {o} : op'[q] = op[q]
    BY <1>0, <1>1, <1>5, GotoIs DEF Steps
  <2> QED BY <2>1 DEF Ready
<1>6. CASE op[o].remove /\ chosen = {} /\ Goto(o, "done") /\ staged' = staged
             /\ SendRunCmd(Unwrap(o, gone))
  <2> DEFINE c == Unwrap(o, gone)
  <2>1. c \in Scripts /\ ~Wraps(c) /\ c.run # "put"
    BY <1>3 DEF Scripts, Unwrap, Wraps
  <2>2. \A q \in active' : ~Deletes(c, q)
    BY <1>1, <1>6
  <2>3. SendRunCmd(c)
    BY <1>6
  <2> HIDE DEF c, chosen
  <2>4. Placed(c)' /\ unsure \subseteq unsure'
    BY <1>1, <2>1, <2>3, SendIs DEF Placed
  <2> QED BY <1>0, <1>1, <1>2, <1>5, <1>6, <2>1, <2>2, <2>3, <2>4, SendFiles
<1>7. CASE /\ Goto(o, "wrapped") /\ staged' = [staged EXCEPT !.wrapper = {AppInitWrapper(chosen)}]
           /\ SendRunCmd(Wrap(o, IF op[o].remove THEN gone ELSE {}))
  <2>0. PICK lost : lost = IF op[o].remove THEN gone ELSE {}
    OBVIOUS
  <2> DEFINE c == Wrap(o, lost)
  <2>1. c \in Scripts /\ Wraps(c) /\ c.run # "put"
    BY <1>3, <2>0 DEF Scripts, Wrap, Wraps
  <2>2. \A q \in active' : ~Deletes(c, q)
    BY <1>4, <2>0 DEF Deletes, Wrap
  <2>3. SendRunCmd(c)
    BY <1>7, <2>0
  <2>4. staged' = [staged EXCEPT !.wrapper = {active'}]
    <3>1. AppInitWrapper(chosen) = chosen
      BY <1>1, WrapperIsAll
    <3> QED BY <1>1, <1>7, <3>1
  <2>5. /\ staged' \in [files : SUBSET Patches, wrapper : SUBSET SUBSET Patches]
        /\ staged'.wrapper = {active'} /\ staged'.wrapper # {}
    BY <1>1, <2>4
  <2> HIDE DEF c, chosen
  <2>6. Placed(c)' /\ unsure \subseteq unsure'
    BY <1>1, <2>1, <2>3, SendIs DEF Placed
  <2> QED BY <1>0, <1>1, <1>2, <1>5, <1>7, <2>1, <2>2, <2>3, <2>5, <2>6, SendFiles
<1>8. CASE Goto(o, "done") /\ staged' = staged /\ UNCHANGED <<queue, inbox, unsure>> /\ adrift' = TRUE
  <2>0. /\ UNCHANGED <<files, wrapper, mounted, staged, queue, inbox, unsure>> /\ adrift' \in BOOLEAN
        /\ OneHolds /\ SendersKnown /\ WrapperStaged /\ AllBacked
    BY <1>1, <1>8 DEF deviceVars, FilesInv
  <2> HIDE DEF chosen
  <2>1. PatchTypes'
    BY <1>1, <1>5, <1>8, <2>0 DEF PatchTypes, Scripts, Fileless, Steps
  <2>2. OneHolds' /\ \A q \in Ops \ {o} : Ready(q)'
    BY <1>1, <1>5, <1>8, <2>0, OthersWait
  <2>3. SendersKnown'
    <3>1. \A q \in Ops : op[q].step \notin {"none", "waiting"} =>
             op'[q].step \notin {"none", "waiting"} /\ op'[q].patch = op[q].patch
      BY <1>0, <1>5, <1>8
    <3> QED BY <1>1, <2>0, <3>1, SendersKeep
  <2>4. WrapperStaged'
    BY <2>0 DEF WrapperStaged, WrapIn
  <2>5. ASSUME NEW q \in Patches, q \notin unsure' PROVE Backed(q)'
    <3>1. Backed(q) /\ (q \in active' => q \in active \/ Settled(q))
      BY <1>2, <2>0, <2>5 DEF AllBacked
    <3> QED BY <2>0, <3>1 DEF Backed, Settled, Kept, StagedNames, There, PutIn, PutAfter, WrapIn,
                                WrapFrom, Fileless
  <2> QED BY <1>5, <1>8, <2>1, <2>2, <2>3, <2>4, <2>5 DEF FilesInv, AllReady, AllBacked
<1>9. \/ op[o].remove /\ chosen = {} /\ Goto(o, "done") /\ staged' = staged /\ SendRunCmd(Unwrap(o, gone))
      \/ /\ Goto(o, "wrapped") /\ staged' = [staged EXCEPT !.wrapper = {AppInitWrapper(chosen)}]
         /\ SendRunCmd(Wrap(o, IF op[o].remove THEN gone ELSE {}))
      \/ Goto(o, "done") /\ staged' = staged /\ UNCHANGED <<queue, inbox, unsure>> /\ adrift' = TRUE
  BY <1>0 DEF Activate
<1> QED BY <1>6, <1>7, <1>8, <1>9

-----------------------------------------------------------------------------
(* The device and its messages                                             *)

\* No operation moves: the invariant asks for what each patch has after the step.
LEMMA ThereFiles ==
  ASSUME FilesInv, UNCHANGED <<op, active, staged>>, adrift' \in BOOLEAN,
         queue' \in Seq(Scripts), Len(queue') =< QueueBound, inbox' \in Seq(Scripts),
         files' \subseteq Patches, wrapper' \subseteq Patches, mounted' \subseteq Patches,
         unsure' \subseteq Patches,
         \A i \in 1..Len(inbox') : \/ \E j \in 1..Len(inbox) : inbox'[i] = inbox[j]
                                   \/ \E j \in 1..Len(queue) : inbox'[i] = queue[j],
         \A i \in 1..Len(queue') : \E j \in 1..Len(queue) : queue'[i] = queue[j],
         \A p \in Patches \ unsure' :
           /\ Backed(p)'
           /\ \/ Settled(p)'
              \/ p \notin unsure /\ (Kept(p) => Kept(p)') /\ (Settled(p) => Settled(p)')
  PROVE  FilesInv'
<1>1. PatchTypes'
  BY DEF FilesInv, PatchTypes, Scripts, Fileless, Steps
<1>2. OneHolds'
  BY DEF FilesInv, OneHolds
<1>3. SendersKnown'
  <2>1. \A i \in 1..Len(inbox') : (Placed(0)' /\ inbox'[i] = 0)
                                   \/ (\E j \in 1..Len(inbox) : inbox'[i] = inbox[j])
                                   \/ (\E j \in 1..Len(queue) : inbox'[i] = queue[j])
    OBVIOUS
  <2>2. \A i \in 1..Len(queue') : (Placed(0)' /\ queue'[i] = 0)
                                   \/ (\E j \in 1..Len(queue) : queue'[i] = queue[j])
    OBVIOUS
  <2>3. \A q \in Ops : op[q].step \notin {"none", "waiting"} =>
           op'[q].step \notin {"none", "waiting"} /\ op'[q].patch = op[q].patch
    OBVIOUS
  <2> QED BY <2>1, <2>2, <2>3, SendersKeep DEF FilesInv
<1>4. WrapperStaged'
  <2>1. WrapIn(inbox)' \/ WrapIn(queue)' => WrapIn(inbox) \/ WrapIn(queue)
    BY DEF WrapIn
  <2> QED BY <2>1 DEF FilesInv, WrapperStaged
<1>5. AllBacked'
  BY DEF AllBacked
<1>6. ASSUME NEW o \in Ops PROVE Ready(o)'
  <2>1. PICK p \in Patches : p = op[o].patch /\ p = op'[o].patch
    BY DEF FilesInv, PatchTypes
  <2>2. Ready(o)
    BY DEF FilesInv, AllReady
  <2>3. p \notin unsure' => \/ Settled(p)'
                            \/ p \notin unsure /\ (Kept(p) => Kept(p)') /\ (Settled(p) => Settled(p)')
    OBVIOUS
  <2>4. Settled(p)' => Kept(p)'
    BY DEF Settled
  <2>5. op[o].step = "sent" /\ p \notin unsure' => Kept(p)'
    BY <2>1, <2>2, <2>3, <2>4 DEF Ready
  <2>6. op[o].step = "activate" /\ ~op[o].remove /\ p \notin unsure' => Settled(p)'
    BY <2>1, <2>2, <2>3 DEF Ready
  <2>7. p \notin Fileless => (p \notin Fileless)'
    BY DEF Fileless
  <2> QED BY <2>1, <2>2, <2>5, <2>6, <2>7 DEF Ready
<1> QED BY <1>1, <1>2, <1>3, <1>4, <1>5, <1>6 DEF FilesInv, AllReady

\* What was queued follows what was handed over.
LEMMA HeartbeatFiles ==
  ASSUME FilesInv, Heartbeat
  PROVE  FilesInv'
<1>1. /\ queue' = <<>> /\ inbox' = inbox \o queue
      /\ UNCHANGED <<op, active, staged, files, wrapper, mounted, unsure, adrift>>
      /\ PatchTypes /\ inbox \in Seq(Scripts) /\ queue \in Seq(Scripts)
      /\ Len(queue') = 0 /\ queue' \in Seq(Scripts) /\ Len(queue') =< QueueBound
  BY PatcherAssumption DEF Heartbeat, deviceVars, FilesInv, PatchTypes
<1> DEFINE both == inbox \o queue
           n == Len(inbox)
           m == Len(queue)
<1> HIDE DEF both
<1>0. inbox' = both
  BY <1>1 DEF both
<1>2. ASSUME NEW p \in Patches
      PROVE  /\ both \in Seq(Scripts) /\ Len(both) = Len(inbox) + Len(queue)
             /\ Len(inbox) \in Nat /\ Len(queue) \in Nat
             /\ \A i \in 1..Len(inbox) : both[i] = inbox[i]
             /\ \A i \in 1..Len(both) : i \in 1..Len(inbox) \/ (i - Len(inbox) \in 1..Len(queue)
                                                           /\ both[i] = queue[i - Len(inbox)])
             /\ PutIn(both, p) <=> PutIn(inbox, p) \/ PutIn(queue, p)
             /\ WrapIn(both) <=> WrapIn(inbox) \/ WrapIn(queue)
             /\ \A i \in 1..Len(inbox) :
                  /\ PutAfter(both, i, p) <=> PutAfter(inbox, i, p) \/ PutIn(queue, p)
                  /\ WrapFrom(both, i) <=> WrapFrom(inbox, i) \/ WrapIn(queue)
             /\ \A i \in 1..Len(queue) : /\ PutAfter(both, i + Len(inbox), p) <=> PutAfter(queue, i, p)
                                         /\ WrapFrom(both, i + Len(inbox)) <=> WrapFrom(queue, i)
  BY <1>1, ScriptsJoined DEF both
<1>3. ASSUME NEW p \in Patches
      PROVE  \A i \in 1..Len(both) :
               \/ /\ i \in 1..n /\ both[i] = inbox[i]
                  /\ PutAfter(both, i, p) <=> PutAfter(inbox, i, p) \/ PutIn(queue, p)
                  /\ WrapFrom(both, i) <=> WrapFrom(inbox, i) \/ WrapIn(queue)
               \/ \E k \in 1..m : /\ both[i] = queue[k]
                                  /\ PutAfter(both, i, p) <=> PutAfter(queue, k, p)
                                  /\ WrapFrom(both, i) <=> WrapFrom(queue, k)
  <2>1. ASSUME NEW i \in 1..Len(both), i \notin 1..n
        PROVE  \E k \in 1..m : /\ both[i] = queue[k]
                               /\ PutAfter(both, i, p) <=> PutAfter(queue, k, p)
                               /\ WrapFrom(both, i) <=> WrapFrom(queue, k)
    <3>1. i - n \in 1..m /\ both[i] = queue[i - n] /\ n \in Nat /\ m \in Nat /\ i \in Int
      BY <1>2, <2>1
    <3>2. (i - n) + n = i
      BY <3>1
    <3>3. (PutAfter(both, (i - n) + n, p) <=> PutAfter(queue, i - n, p))
          /\ (WrapFrom(both, (i - n) + n) <=> WrapFrom(queue, i - n))
      BY <1>2, <3>1
    <3> QED BY <3>1, <3>2, <3>3
  <2> QED BY <1>2, <2>1
<1>4. ASSUME NEW p \in Patches, Backed(p) PROVE Backed(p)'
  <2> HIDE DEF n, m
  <2>1. There(p) => There(p)'
    BY <1>0, <1>1, <1>2 DEF There, Fileless
  <2>2. (WrapIn(inbox) \/ WrapIn(queue))' => WrapIn(inbox) \/ WrapIn(queue)
    <3>1. WrapIn(queue)' <=> FALSE
      BY <1>1 DEF WrapIn
    <3>2. WrapIn(inbox)' => WrapIn(inbox) \/ WrapIn(queue)
      BY <1>0, <1>2 DEF WrapIn
    <3> QED BY <3>1, <3>2
  <2>3. StagedNames(p)' <=> StagedNames(p)
    BY <1>1 DEF StagedNames
  <2>4. ASSUME NEW i \in 1..Len(both), Deletes(both[i], p),
               p \in active \/ (StagedNames(p) /\ WrapFrom(both, i))
        PROVE  PutAfter(both, i, p)
    <3>1. CASE /\ i \in 1..n /\ both[i] = inbox[i]
               /\ PutAfter(both, i, p) <=> PutAfter(inbox, i, p) \/ PutIn(queue, p)
               /\ WrapFrom(both, i) <=> WrapFrom(inbox, i) \/ WrapIn(queue)
      BY <1>4, <2>4, <3>1 DEF Backed, n
    <3>2. ASSUME NEW k \in 1..m, both[i] = queue[k],
                 PutAfter(both, i, p) <=> PutAfter(queue, k, p),
                 WrapFrom(both, i) <=> WrapFrom(queue, k)
          PROVE  PutAfter(both, i, p)
      BY <1>4, <2>4, <3>2 DEF Backed, m
    <3> QED BY <1>3, <3>1, <3>2
  <2>5. /\ \A i \in 1..Len(queue') : FALSE
        /\ ~WrapIn(queue)'
    BY <1>1 DEF WrapIn
  <2>6. (p \in active \/ p \in wrapper \/ (StagedNames(p) /\ (WrapIn(inbox) \/ WrapIn(queue))))'
          => There(p)'
    BY <1>1, <1>4, <2>1, <2>2, <2>3 DEF Backed
  <2>7. /\ 1..Len(inbox') = 1..Len(both)
        /\ \A i : /\ Deletes(inbox[i], p)' <=> Deletes(both[i], p)
                  /\ WrapFrom(inbox, i)' <=> WrapFrom(both, i)
                  /\ PutAfter(inbox, i, p)' <=> PutAfter(both, i, p)
    BY <1>0 DEF Deletes, WrapFrom, PutAfter
  <2>8. \A i \in 1..Len(inbox') :
          Deletes(inbox[i], p)' /\ (p \in active' \/ (StagedNames(p)' /\ WrapFrom(inbox, i)'))
            => PutAfter(inbox, i, p)'
    BY <1>1, <2>3, <2>4, <2>7
  <2> QED BY <2>5, <2>6, <2>8 DEF Backed
<1>5. ASSUME NEW p \in Patches, Kept(p) PROVE Settled(p)'
  <2> HIDE DEF n, m
  <2>1. There(p)'
    BY <1>0, <1>1, <1>2, <1>5 DEF Kept, There, Fileless
  <2>2. ASSUME NEW i \in 1..Len(both), Deletes(both[i], p) PROVE PutAfter(both, i, p)
    <3>1. CASE /\ i \in 1..n /\ both[i] = inbox[i]
               /\ PutAfter(both, i, p) <=> PutAfter(inbox, i, p) \/ PutIn(queue, p)
      BY <1>5, <2>2, <3>1 DEF Kept, n
    <3>2. ASSUME NEW k \in 1..m, both[i] = queue[k],
                 PutAfter(both, i, p) <=> PutAfter(queue, k, p)
          PROVE  PutAfter(both, i, p)
      BY <1>5, <2>2, <3>2 DEF Kept, m
    <3> QED BY <1>3, <3>1, <3>2
  <2>3. \A i \in 1..Len(queue') : FALSE
    BY <1>1
  <2>4. /\ 1..Len(inbox') = 1..Len(both)
        /\ \A i : /\ Deletes(inbox[i], p)' <=> Deletes(both[i], p)
                  /\ PutAfter(inbox, i, p)' <=> PutAfter(both, i, p)
    BY <1>0 DEF Deletes, PutAfter
  <2>5. \A i \in 1..Len(inbox') : Deletes(inbox[i], p)' => PutAfter(inbox, i, p)'
    BY <2>2, <2>4
  <2> QED BY <2>1, <2>3, <2>5 DEF Settled, Kept
<1>6. ASSUME NEW p \in Patches \ unsure'
      PROVE  /\ Backed(p)'
             /\ \/ Settled(p)'
                \/ p \notin unsure /\ (Kept(p) => Kept(p)') /\ (Settled(p) => Settled(p)')
  <2>1. p \notin unsure /\ Backed(p)
    BY <1>1 DEF FilesInv, AllBacked
  <2>2. Settled(p) => Kept(p)
    BY DEF Settled
  <2>3. Settled(p)' => Kept(p)'
    BY DEF Settled
  <2> QED BY <1>4, <1>5, <2>1, <2>2, <2>3
<1>7. \A i \in 1..Len(inbox') : \/ \E j \in 1..Len(inbox) : inbox'[i] = inbox[j]
                                \/ \E j \in 1..Len(queue) : inbox'[i] = queue[j]
  <2>1. PICK p \in Patches : TRUE
    BY PatcherAssumption
  <2> QED BY <1>0, <1>3, <2>1
<1>8. inbox' \in Seq(Scripts)
  BY <1>0, <1>2, PatcherAssumption
<1> QED BY <1>1, <1>6, <1>7, <1>8, ThereFiles DEF PatchTypes

\* The first script of the device's goes, and with it at most what it deletes.
LEMMA TakenBacks ==
  ASSUME PatchTypes, inbox # <<>>, inbox' = Tail(inbox), UNCHANGED <<active, staged, queue>>,
         NEW p \in Patches,
         p \in files => p \in files' \/ Deletes(inbox[1], p),
         Puts(inbox[1], p) => p \in files'
  PROVE  /\ (\/ p \in wrapper' => p \in wrapper /\ (p \in files => p \in files')
             \/ Wraps(inbox[1]) /\ StagedNames(p)) /\ Backed(p) => Backed(p)'
         /\ Kept(p) => Kept(p)'
         /\ Settled(p) => Settled(p)'
<1> DEFINE rest == Tail(inbox)
           first == inbox[1]
<1> HIDE DEF rest
<1>1. /\ Len(rest) = Len(inbox) - 1 /\ Len(inbox) \in Nat \ {0} /\ 1 \in 1..Len(inbox)
      /\ \A i \in 1..Len(rest) : i + 1 \in 1..Len(inbox) /\ rest[i] = inbox[i + 1]
      /\ PutIn(inbox, p) <=> PutIn(rest, p) \/ Puts(first, p)
      /\ WrapIn(inbox) <=> WrapIn(rest) \/ Wraps(first)
      /\ PutAfter(inbox, 1, p) <=> PutIn(rest, p)
      /\ WrapFrom(inbox, 1) <=> WrapIn(inbox)
      /\ \A i \in 1..Len(rest) : /\ PutAfter(rest, i, p) <=> PutAfter(inbox, i + 1, p)
                                 /\ WrapFrom(rest, i) <=> WrapFrom(inbox, i + 1)
  <2>1. inbox \in Seq(Scripts)
    BY DEF PatchTypes
  <2>2. \A k \in Nat \ {0} : 1 \in 1..k
    OBVIOUS
  <2> QED BY <2>1, <2>2, ScriptTaken DEF rest
<1>2. inbox' = rest /\ queue' = queue
  BY DEF rest
<1>3. /\ PutIn(inbox, p)' <=> PutIn(rest, p)
      /\ PutIn(queue, p)' <=> PutIn(queue, p)
      /\ WrapIn(inbox)' <=> WrapIn(rest)
      /\ WrapIn(queue)' <=> WrapIn(queue)
      /\ StagedNames(p)' <=> StagedNames(p)
  BY <1>2 DEF PutIn, WrapIn, StagedNames
<1>4. \A i \in 1..Len(queue') : /\ i \in 1..Len(queue)
                                /\ Deletes(queue[i], p)' <=> Deletes(queue[i], p)
                                /\ PutAfter(queue, i, p)' <=> PutAfter(queue, i, p)
                                /\ WrapFrom(queue, i)' <=> WrapFrom(queue, i)
  BY <1>2 DEF PutAfter, WrapFrom, Deletes
<1>5. \A i \in 1..Len(inbox') : /\ i + 1 \in 1..Len(inbox)
                                /\ Deletes(inbox[i], p)' <=> Deletes(inbox[i + 1], p)
                                /\ PutAfter(inbox, i, p)' <=> PutAfter(inbox, i + 1, p)
                                /\ WrapFrom(inbox, i)' <=> WrapFrom(inbox, i + 1)
  <2>1. ASSUME NEW i \in 1..Len(rest)
        PROVE  /\ i + 1 \in 1..Len(inbox) /\ rest[i] = inbox[i + 1]
               /\ PutAfter(rest, i, p) <=> PutAfter(inbox, i + 1, p)
               /\ WrapFrom(rest, i) <=> WrapFrom(inbox, i + 1)
    BY <1>1
  <2>2. ASSUME NEW i \in 1..Len(rest)
        PROVE  /\ inbox'[i] = rest[i]
               /\ PutAfter(inbox, i, p)' <=> PutAfter(rest, i, p)
               /\ WrapFrom(inbox, i)' <=> WrapFrom(rest, i)
    BY <1>2 DEF PutAfter, WrapFrom
  <2>3. 1..Len(inbox') = 1..Len(rest)
    BY <1>2
  <2> QED BY <2>1, <2>2, <2>3 DEF Deletes
<1>6. (p \in Fileless)' <=> p \in Fileless
  BY DEF Fileless
<1>7. There(p) /\ (Deletes(first, p) => p \in files' \/ PutIn(rest, p) \/ PutIn(queue, p)) => There(p)'
  BY <1>1, <1>3, <1>6 DEF There
<1>8. Kept(p) => Kept(p)'
  <2>1. ASSUME Kept(p)
        PROVE  /\ There(p)'
               /\ \A i \in 1..Len(queue') : Deletes(queue[i], p)' => PutAfter(queue, i, p)'
               /\ \A i \in 1..Len(inbox') : Deletes(inbox[i], p)' => PutAfter(inbox, i, p)' \/ PutIn(queue, p)'
    <3>1. /\ There(p)
          /\ \A i \in 1..Len(queue) : Deletes(queue[i], p) => PutAfter(queue, i, p)
          /\ \A i \in 1..Len(inbox) : Deletes(inbox[i], p) => PutAfter(inbox, i, p) \/ PutIn(queue, p)
      BY <2>1 DEF Kept
    <3>2. Deletes(first, p) => PutIn(rest, p) \/ PutIn(queue, p)
      BY <1>1, <3>1
    <3> QED BY <1>3, <1>4, <1>5, <1>7, <3>1, <3>2
  <2> QED BY <2>1 DEF Kept
<1>9. Settled(p) => Settled(p)'
  <2>1. ASSUME Settled(p)
        PROVE  \A i \in 1..Len(inbox') : Deletes(inbox[i], p)' => PutAfter(inbox, i, p)'
    BY <1>5, <2>1 DEF Settled
  <2> QED BY <1>8, <2>1 DEF Settled
<1>10. ASSUME Backed(p),
              \/ p \in wrapper' => p \in wrapper /\ (p \in files => p \in files')
              \/ Wraps(first) /\ StagedNames(p)
       PROVE  Backed(p)'
  <2>1. /\ p \in active \/ p \in wrapper \/ (StagedNames(p) /\ (WrapIn(inbox) \/ WrapIn(queue)))
           => There(p)
        /\ \A i \in 1..Len(inbox) :
             Deletes(inbox[i], p)
               /\ (p \in active \/ (StagedNames(p) /\ (WrapFrom(inbox, i) \/ WrapIn(queue))))
             => PutAfter(inbox, i, p)
        /\ \A i \in 1..Len(queue) :
             Deletes(queue[i], p) /\ (p \in active \/ (StagedNames(p) /\ WrapFrom(queue, i)))
             => PutAfter(queue, i, p)
    BY <1>10 DEF Backed
  <2>2. ASSUME (p \in active \/ p \in wrapper
                 \/ (StagedNames(p) /\ (WrapIn(inbox) \/ WrapIn(queue))))'
        PROVE  There(p)'
    <3>1. CASE p \in active \/ (StagedNames(p) /\ (WrapIn(inbox) \/ WrapIn(queue)))
      <4>1. There(p)
        BY <2>1, <3>1
      <4>2. Deletes(first, p) => PutIn(rest, p)
        BY <1>1, <2>1, <3>1
      <4> QED BY <1>7, <4>1, <4>2
    <3>2. CASE p \in wrapper /\ (p \in files => p \in files')
      <4>1. There(p)
        BY <2>1, <3>2
      <4> QED BY <1>1, <1>3, <1>6, <3>2, <4>1 DEF There
    <3> QED BY <1>1, <1>3, <1>10, <2>2, <3>1, <3>2
  <2>3. \A i \in 1..Len(inbox') :
          Deletes(inbox[i], p)'
            /\ (p \in active' \/ (StagedNames(p)' /\ (WrapFrom(inbox, i)' \/ WrapIn(queue)')))
          => PutAfter(inbox, i, p)'
    BY <1>3, <1>5, <2>1
  <2>4. \A i \in 1..Len(queue') :
          Deletes(queue[i], p)' /\ (p \in active' \/ (StagedNames(p)' /\ WrapFrom(queue, i)'))
          => PutAfter(queue, i, p)'
    BY <1>3, <1>4, <2>1
  <2> QED BY <2>2, <2>3, <2>4 DEF Backed
<1> QED BY <1>8, <1>9, <1>10

\* The invariant follows from what the first script does to each patch.
LEMMA TakenFiles ==
  ASSUME FilesInv, inbox # <<>>, inbox' = Tail(inbox), UNCHANGED <<op, active, staged, queue>>,
         adrift' \in BOOLEAN, files' \subseteq Patches, wrapper' \subseteq Patches,
         mounted' \subseteq Patches, unsure' \subseteq Patches,
         \A p \in Patches \ unsure' :
           \/ p \in unsure /\ Backed(p)' /\ Settled(p)'
           \/ /\ p \notin unsure
              /\ p \in files => p \in files' \/ Deletes(inbox[1], p)
              /\ Puts(inbox[1], p) => p \in files'
              /\ \/ p \in wrapper' => p \in wrapper /\ (p \in files => p \in files')
                 \/ Wraps(inbox[1]) /\ StagedNames(p)
  PROVE  FilesInv'
<1>1. PatchTypes /\ inbox \in Seq(Scripts) /\ queue \in Seq(Scripts) /\ Len(queue) =< QueueBound
  BY DEF FilesInv, PatchTypes
<1>2. ASSUME NEW p \in Patches \ unsure'
      PROVE  /\ Backed(p)'
             /\ \/ Settled(p)'
                \/ p \notin unsure /\ (Kept(p) => Kept(p)') /\ (Settled(p) => Settled(p)')
  <2>1. CASE p \in unsure /\ Backed(p)' /\ Settled(p)'
    BY <2>1
  <2>2. CASE /\ p \notin unsure
             /\ p \in files => p \in files' \/ Deletes(inbox[1], p)
             /\ Puts(inbox[1], p) => p \in files'
             /\ \/ p \in wrapper' => p \in wrapper /\ (p \in files => p \in files')
                \/ Wraps(inbox[1]) /\ StagedNames(p)
    <3>1. Backed(p)
      BY <2>2 DEF FilesInv, AllBacked
    <3>2. Backed(p)' /\ (Kept(p) => Kept(p)') /\ (Settled(p) => Settled(p)')
      BY <1>1, <2>2, <3>1, TakenBacks
    <3> QED BY <2>2, <3>2
  <2> QED BY <2>1, <2>2
<1>3. /\ \A i \in 1..Len(inbox') : \E j \in 1..Len(inbox) : inbox'[i] = inbox[j]
      /\ inbox' \in Seq(Scripts)
  <2> DEFINE rest == Tail(inbox)
  <2> HIDE DEF rest
  <2>1. /\ rest \in Seq(Scripts)
        /\ \A i \in 1..Len(rest) : i + 1 \in 1..Len(inbox) /\ rest[i] = inbox[i + 1]
    BY <1>1, ScriptTaken DEF rest
  <2>2. inbox' = rest
    BY DEF rest
  <2>3. ASSUME NEW i \in 1..Len(rest) PROVE \E j \in 1..Len(inbox) : rest[i] = inbox[j]
    BY <2>1
  <2> QED BY <2>1, <2>2, <2>3
<1>4. /\ \A i \in 1..Len(queue') : \E j \in 1..Len(queue) : queue'[i] = queue[j]
      /\ queue' \in Seq(Scripts) /\ Len(queue') =< QueueBound
  BY <1>1
<1> QED BY <1>2, <1>3, <1>4, ThereFiles

\* The file of a lost upload is unsure unless the device has it.
LEMMA LoseFiles ==
  ASSUME FilesInv, Lose
  PROVE  FilesInv'
<1> DEFINE first == inbox[1]
<1>1. /\ inbox # <<>> /\ inbox' = Tail(inbox)
      /\ UNCHANGED <<op, active, staged, queue, files, wrapper, mounted>>
      /\ Head(inbox) = first /\ first \in Scripts
  <2>1. inbox \in Seq(Scripts) /\ inbox # <<>>
    BY DEF FilesInv, PatchTypes, Lose
  <2> QED BY <2>1 DEF Lose, deviceVars
<1>2. /\ unsure' = unsure \cup UNION {{c.patch} \ files : c \in {d \in {first} : d.run = "put"}}
      /\ adrift' = (adrift \/ \E c \in {first} : c.run # "put")
  BY <1>1 DEF Lose, Forfeit
<1> HIDE DEF first
<1>3. /\ unsure \subseteq unsure' /\ adrift' \in BOOLEAN
      /\ \A p \in Patches : Puts(first, p) => p \in files \/ p \in unsure'
  BY <1>2 DEF Puts
<1>4. unsure' \subseteq Patches /\ files \subseteq Patches /\ wrapper \subseteq Patches
      /\ mounted \subseteq Patches
  BY <1>1, <1>2 DEF FilesInv, PatchTypes, Scripts
<1> QED BY <1>1, <1>3, <1>4, TakenFiles DEF first

\* An upload puts its file there or is too late for it; a wrapper, its removal and a reboot
\* delete only what is not named or comes again.
LEMMA RunFiles ==
  ASSUME FilesInv, Run
  PROVE  FilesInv'
<1> DEFINE c == inbox[1]
<1>1. /\ inbox # <<>> /\ inbox' = Tail(inbox) /\ Head(inbox) = c /\ c \in Scripts
      /\ UNCHANGED <<op, active, staged, queue>> /\ Len(inbox) \in Nat /\ 1 \in 1..Len(inbox)
      /\ RunPut(c) \/ RunWrap(c) \/ RunUnwrap(c) \/ RunReboot(c)
  <2>1. inbox \in Seq(Scripts) /\ inbox # <<>>
    BY DEF FilesInv, PatchTypes, Run
  <2> QED BY <2>1 DEF Run
<1>2. /\ files \subseteq Patches /\ wrapper \subseteq Patches /\ mounted \subseteq Patches
      /\ unsure \subseteq Patches /\ adrift \in BOOLEAN
      /\ staged \in [files : SUBSET Patches, wrapper : SUBSET SUBSET Patches]
  BY DEF FilesInv, PatchTypes
<1>3. CASE RunPut(c)
  <2>0. c.run = "put"
    BY <1>3 DEF RunPut
  <2>1. PICK p \in Patches \ Fileless : p = c.patch
    BY <1>1, <2>0 DEF Scripts
  <2>2. c.by \in Ops /\ op[c.by].patch = p
    BY <1>1, <2>0, <2>1 DEF FilesInv, SendersKnown, Placed, Scripts
  <2>3. p \in staged.files \/ op[c.by].step # "sent"
    BY <2>2 DEF FilesInv, AllReady, Ready
  <2>4. /\ UNCHANGED <<wrapper, mounted, adrift>>
        /\ files' = IF p \in staged.files THEN files \cup {p} ELSE files
        /\ p \in staged.files \/ (unsure' = unsure \cup {p})
        /\ p \in staged.files =>
             \/ unsure' = unsure
             \/ /\ unsure' = unsure \ {p}
                /\ ~ \E d \in Among(queue \o inbox) : d # c /\ p \in Touched(d)
    BY <1>3, <2>1, <2>3 DEF RunPut
  <2>5. \A q \in Patches : Puts(c, q) => q = p
    BY <2>1 DEF Puts
  <2>6. p \in files' \/ p \in unsure'
    BY <2>4
  <2>7. ASSUME p \in unsure, p \notin unsure' PROVE Backed(p)' /\ Settled(p)'
    <3>1. p \in files' /\ ~ \E d \in Among(queue \o inbox) : d # c /\ p \in Touched(d)
      BY <2>4, <2>7
    <3>2. inbox \in Seq(Scripts) /\ queue \in Seq(Scripts)
      BY DEF FilesInv, PatchTypes
    <3>3. /\ \A i \in 1..Len(queue) : queue[i] \in Among(queue \o inbox)
          /\ \A i \in 1..Len(inbox) : inbox[i] \in Among(queue \o inbox)
      <4> DEFINE all == queue \o inbox
      <4>1. /\ DOMAIN all = 1..(Len(queue) + Len(inbox)) /\ Len(queue) \in Nat /\ Len(inbox) \in Nat
            /\ \A i \in 1..Len(queue) : all[i] = queue[i]
            /\ \A i \in 1..Len(inbox) : all[i + Len(queue)] = inbox[i]
        BY <3>2
      <4> HIDE DEF all
      <4>2. /\ \A i \in 1..Len(queue) : i \in DOMAIN all
            /\ \A i \in 1..Len(inbox) : i + Len(queue) \in DOMAIN all
        BY <4>1
      <4> QED BY <4>1, <4>2 DEF Among, all
    <3>4. \A d : Deletes(d, p) => d # c /\ p \in Touched(d)
      BY <2>0 DEF Deletes, Touched
    <3>5. /\ \A i \in 1..Len(queue) : ~Deletes(queue[i], p)
          /\ \A i \in 1..Len(inbox) : ~Deletes(inbox[i], p)
      BY <3>1, <3>3, <3>4
    <3>6. \A i \in 1..Len(queue') : ~Deletes(queue[i], p)'
      BY <1>1, <3>5 DEF Deletes
    <3>7. \A i \in 1..Len(inbox') : ~Deletes(inbox[i], p)'
      <4> DEFINE rest == Tail(inbox)
      <4> HIDE DEF rest
      <4>1. \A i \in 1..Len(rest) : i + 1 \in 1..Len(inbox) /\ rest[i] = inbox[i + 1]
        BY <1>1, <3>2, ScriptTaken DEF rest
      <4>2. inbox' = rest
        BY <1>1 DEF rest
      <4>3. ASSUME NEW i \in 1..Len(rest) PROVE ~Deletes(rest[i], p)
        BY <3>5, <4>1
      <4> QED BY <4>2, <4>3 DEF Deletes
    <3>8. There(p)'
      BY <3>1 DEF There
    <3> QED BY <3>6, <3>7, <3>8 DEF Backed, Settled, Kept
  <2> HIDE DEF c
  <2>8. /\ adrift' \in BOOLEAN /\ files' \subseteq Patches /\ wrapper' \subseteq Patches
        /\ mounted' \subseteq Patches /\ unsure' \subseteq Patches /\ files \subseteq files'
    BY <1>2, <2>4
  <2>9. \A q \in Patches \ unsure' :
           \/ q \in unsure /\ Backed(q)' /\ Settled(q)'
           \/ /\ q \notin unsure
              /\ q \in files => q \in files' \/ Deletes(c, q)
              /\ Puts(c, q) => q \in files'
              /\ q \in wrapper' => q \in wrapper /\ (q \in files => q \in files')
    BY <2>4, <2>5, <2>6, <2>7, <2>8
  <2> QED BY <1>1, <2>8, <2>9, TakenFiles DEF c
<1>4. CASE RunWrap(c)
  <2>1. c.run = "wrap" /\ Wraps(c) /\ UNCHANGED <<mounted, unsure, adrift>>
        /\ files' = files \ c.gone
    BY <1>4 DEF RunWrap, Wraps
  <2>2. WrapIn(inbox)
    BY <1>1, <2>1 DEF WrapIn
  <2>3. staged.wrapper # {} /\ wrapper' = UNION staged.wrapper
    BY <1>4, <2>2 DEF RunWrap, FilesInv, WrapperStaged
  <2>4. \A q : q \in wrapper' => StagedNames(q)
    BY <2>3 DEF StagedNames
  <2>5. \A q \in files \ files' : Deletes(c, q)
    BY <2>1 DEF Deletes
  <2>6. \A q : ~Puts(c, q)
    BY <2>1 DEF Puts
  <2> HIDE DEF c
  <2>7. files' \subseteq Patches /\ wrapper' \subseteq Patches
    BY <1>2, <2>1, <2>3
  <2> QED BY <1>1, <1>2, <2>1, <2>4, <2>5, <2>6, <2>7, TakenFiles DEF c
<1>5. CASE RunUnwrap(c)
  <2>1. c.run = "unwrap" /\ unsure' = unsure /\ wrapper' = {} /\ files' = files \ c.gone
        /\ mounted' = {}
    BY <1>5 DEF RunUnwrap, BootWith
  <2>2. adrift' \in BOOLEAN
    BY <1>2, <1>5 DEF RunUnwrap
  <2>5. \A q \in files \ files' : Deletes(c, q)
    BY <2>1 DEF Deletes
  <2>6. \A q : ~Puts(c, q)
    BY <2>1 DEF Puts
  <2> HIDE DEF c
  <2> QED BY <1>1, <1>2, <2>1, <2>2, <2>5, <2>6, TakenFiles DEF c
<1>6. CASE RunReboot(c)
  <2>1. c.run = "reboot" /\ UNCHANGED <<files, wrapper, unsure>> /\ adrift' \in BOOLEAN
        /\ mounted' \subseteq Patches
    BY <1>2, <1>6 DEF RunReboot, BootWith
  <2>2. \A q : ~Puts(c, q)
    BY <2>1 DEF Puts
  <2> HIDE DEF c
  <2> QED BY <1>1, <1>2, <2>1, <2>2, TakenFiles DEF c
<1> QED BY <1>1, <1>3, <1>4, <1>5, <1>6

\* What was queued is forgotten, and the files it would have brought are unsure.
LEMMA RestartFiles ==
  ASSUME FilesInv, Restart
  PROVE  FilesInv'
<1>1. /\ op' = [o \in Ops |-> IF o \in Running THEN [op[o] EXCEPT !.step = "done"] ELSE op[o]]
      /\ queue' = <<>> /\ UNCHANGED <<active, staged, inbox, files, wrapper, mounted>>
      /\ unsure' = unsure \cup UNION {{c.patch} \ files : c \in {d \in Among(queue) : d.run = "put"}}
      /\ op \in [Ops -> [step : Steps, patch : Patches, remove : BOOLEAN]]
      /\ queue \in Seq(Scripts) /\ inbox \in Seq(Scripts) /\ unsure \subseteq Patches
      /\ adrift \in BOOLEAN
  BY DEF Restart, deviceVars, FilesInv, PatchTypes
<1>2. ASSUME NEW o \in Ops
      PROVE  /\ op'[o] \in [step : Steps, patch : Patches, remove : BOOLEAN]
             /\ op'[o].patch = op[o].patch /\ op'[o].step \in {"none", "done"}
             /\ op[o].step \notin {"none", "waiting"} => op'[o].step = "done"
  <2>1. op[o] \in [step : Steps, patch : Patches, remove : BOOLEAN]
    BY <1>1
  <2>2. op'[o] = IF o \in Running THEN [op[o] EXCEPT !.step = "done"] ELSE op[o]
    BY <1>1
  <2>3. o \notin Running => op[o].step \in {"none", "done"}
    BY DEF Running
  <2>4. "done" \in Steps
    BY DEF Steps
  <2> QED BY <2>1, <2>2, <2>3, <2>4
<1>3. op' \in [Ops -> [step : Steps, patch : Patches, remove : BOOLEAN]]
  BY <1>1, <1>2
<1>4. \A i \in 1..Len(queue) : queue[i] \in Scripts /\ queue[i] \in Among(queue)
  BY <1>1 DEF Among
<1>5. \A c \in Among(queue) : c \in Scripts
  BY <1>1 DEF Among
<1>6. unsure' \subseteq Patches
  BY <1>1, <1>5 DEF Scripts
<1>7. PatchTypes'
  <2>1. <<>> \in Seq(Scripts) /\ Len(<<>>) =< QueueBound
    BY PatcherAssumption
  <2>2. adrift' \in BOOLEAN
    BY <1>1 DEF Restart
  <2> QED BY <1>1, <1>3, <1>6, <2>1, <2>2 DEF FilesInv, PatchTypes, Scripts, Fileless, Steps
<1>8. OneHolds' /\ AllReady'
  BY <1>2 DEF OneHolds, AllReady, Ready, Holding, Past
<1>9. SendersKnown'
  <2>1. \A q \in Ops : op[q].step \notin {"none", "waiting"} =>
           op'[q].step \notin {"none", "waiting"} /\ op'[q].patch = op[q].patch
    BY <1>2
  <2>2. \A i \in 1..Len(inbox') : \E j \in 1..Len(inbox) : inbox'[i] = inbox[j]
    BY <1>1
  <2>3. \A i \in 1..Len(queue') : FALSE
    BY <1>1
  <2> QED BY <2>1, <2>2, <2>3, SendersKeep DEF FilesInv
<1>10. ~WrapIn(queue)' /\ ~PutIn(queue, 0)' /\ \A i \in 1..Len(queue') : FALSE
  BY <1>1 DEF WrapIn, PutIn
<1>11. WrapperStaged'
  BY <1>1, <1>10 DEF FilesInv, WrapperStaged, WrapIn
<1>12. ASSUME NEW p \in Patches, p \notin unsure' PROVE Backed(p)'
  <2>1. Backed(p)
    BY <1>1, <1>12 DEF FilesInv, AllBacked
  <2>2. PutIn(queue, p) => p \in files
    <3>1. ASSUME NEW i \in 1..Len(queue), Puts(queue[i], p), p \notin files PROVE FALSE
      <4>1. queue[i] \in {d \in Among(queue) : d.run = "put"} /\ queue[i].patch = p
        BY <1>4, <3>1 DEF Puts
      <4>2. p \in UNION {{c.patch} \ files : c \in {d \in Among(queue) : d.run = "put"}}
        BY <3>1, <4>1
      <4> QED BY <1>1, <1>12, <4>2
    <3> QED BY <3>1 DEF PutIn
  <2>3. There(p) => There(p)'
    BY <1>1, <2>2 DEF There, PutIn, Fileless
  <2>4. /\ WrapIn(inbox)' <=> WrapIn(inbox)
        /\ StagedNames(p)' <=> StagedNames(p)
        /\ 1..Len(inbox') = 1..Len(inbox)
        /\ \A i : /\ Deletes(inbox[i], p)' <=> Deletes(inbox[i], p)
                  /\ PutAfter(inbox, i, p)' <=> PutAfter(inbox, i, p)
                  /\ WrapFrom(inbox, i)' <=> WrapFrom(inbox, i)
    BY <1>1 DEF WrapIn, StagedNames, Deletes, PutAfter, WrapFrom
  <2> QED BY <1>1, <1>10, <2>1, <2>3, <2>4 DEF Backed
<1> QED BY <1>7, <1>8, <1>9, <1>11, <1>12 DEF FilesInv, AllBacked

\* Every step keeps what is named backed.
LEMMA FilesNext == FilesInv /\ [PatchNext]_patchVars => FilesInv'
<1> SUFFICES ASSUME FilesInv, [PatchNext]_patchVars PROVE FilesInv'
  OBVIOUS
<1>1. CASE UNCHANGED patchVars
  BY <1>1 DEF patchVars, FilesInv, PatchTypes, OneHolds, SendersKnown, Placed, WrapperStaged, AllBacked,
              AllReady, Ready, Kept, Settled, Backed, StagedNames, There, PutIn, PutAfter, WrapIn,
              WrapFrom, Scripts, Fileless, Steps
<1>2. ASSUME NEW o \in Ops, NEW p \in Patches, NEW remove \in BOOLEAN, Start(o, p, remove)
      PROVE  FilesInv'
  BY <1>2, StartsFiles
<1>3. ASSUME NEW o \in Ops,
             \/ TakeLock(o) \/ Detected(o) \/ FileFetched(o) \/ GivesUp(o) \/ Fits(o)
             \/ Upload(o) \/ Uploaded(o) \/ Wrapped(o) \/ Reboots(o)
      PROVE  FilesInv'
  <2>1. PICK p \in Patches : TRUE
    BY PatcherAssumption
  <2>2. CASE TakeLock(o)
    BY <2>1, <2>2, StartsFiles
  <2>3. CASE Detected(o) \/ FileFetched(o) \/ GivesUp(o) \/ Fits(o)
    BY <2>3, PreparesFiles
  <2>4. CASE Upload(o)
    BY <2>4, UploadFiles
  <2>5. CASE Uploaded(o) \/ Wrapped(o)
    BY <2>5, WaitsFiles
  <2>6. CASE Reboots(o)
    BY <2>6, RebootsFiles
  <2> QED BY <1>3, <2>2, <2>3, <2>4, <2>5, <2>6
<1>4. ASSUME NEW o \in Ops, NEW stages \in BOOLEAN, Activate(o, stages) PROVE FilesInv'
  BY <1>4, ActivateFiles
<1> QED BY <1>1, <1>2, <1>3, <1>4, HeartbeatFiles, RunFiles, LoseFiles, RestartFiles DEF PatchNext

(* Once a device has run what it was sent, the wrapper it boots from names *)
(* no file that is not there, whichever patches were applied and removed,  *)
(* in whatever order the commands came, and whatever was lost or forgotten *)
(* on the way; but for files whose upload was lost, late or overtaken.     *)
THEOREM FilesAreThere == PatchSpec => []WrapperFilesPresent
<1>1. FilesInv => WrapperFilesPresent
  <2> SUFFICES ASSUME FilesInv, Quiet, NEW p \in wrapper, p \notin unsure
               PROVE  p \in files \cup Fileless
    BY DEF WrapperFilesPresent
  <2>1. p \in Patches /\ Backed(p)
    BY DEF FilesInv, PatchTypes, AllBacked
  <2>2. Len(inbox) = 0 /\ Len(queue) = 0
    BY DEF Quiet
  <2> QED BY <2>1, <2>2 DEF Backed, There, PutIn
<1> QED BY <1>1, FilesInit, FilesNext, PTL DEF PatchSpec

\* The operations, the scripts and what is known of the device keep their types, whatever
\* was queued.
THEOREM PatchTypeCorrect == PatchSpec => []PatchTypeOK
<1>1. FilesInv => PatchTypeOK
  BY DEF FilesInv, PatchTypes, PatchTypeOK
<1> QED BY <1>1, FilesInit, FilesNext, PTL DEF PatchSpec

-----------------------------------------------------------------------------
(* What the list, the wrapper and the device agree on                      *)

Rewires(c) == c.run \in {"wrap", "unwrap"}
Newest(list, i) == Rewires(list[i]) /\ \A j \in 1..Len(list) : j > i => ~Rewires(list[j])

\* Once the device has run a list of scripts its wrapper names what is active: it does already,
\* or the last script about the wrapper fetches the staged one, or takes the wrapper away.
Names(list, named, fetched, chosen) ==
  /\ (\A i \in 1..Len(list) : ~Rewires(list[i])) => named = chosen
  /\ \A i \in 1..Len(list) :
       Newest(list, i) => IF Wraps(list[i]) THEN fetched = {chosen} ELSE chosen = {}

\* Once it has run the list it has booted with that wrapper.
Boots(list, up, meant) ==
  IF list = <<>> THEN up = meant ELSE list[Len(list)].run \in {"reboot", "unwrap"}

Pipe == inbox \o queue
UnderWay == \E o \in Ops : op[o].step \in Past
Agrees == /\ Names(Pipe, wrapper, staged.wrapper, active)
          /\ UnderWay \/ Boots(Pipe, mounted, active \cap (files \cup Fileless))
ListInv == FilesInv /\ (~adrift => Agrees)

\* A script that says nothing about the wrapper changes nothing; one that does has the last word.
LEMMA NamesAdded ==
  ASSUME NEW list \in Seq(Scripts), NEW c \in Scripts, NEW named, NEW fetched, NEW chosen
  PROVE  /\ ~Rewires(c) /\ Names(list, named, fetched, chosen)
              => Names(Append(list, c), named, fetched, chosen)
         /\ Rewires(c) /\ (IF Wraps(c) THEN fetched = {chosen} ELSE chosen = {})
              => Names(Append(list, c), named, fetched, chosen)
         /\ \A up, meant : c.run \in {"reboot", "unwrap"} => Boots(Append(list, c), up, meant)
<1> DEFINE longer == Append(list, c)
           n == Len(list)
<1>1. /\ Len(longer) = n + 1 /\ n \in Nat /\ longer # <<>>
      /\ longer[n + 1] = c /\ \A i \in 1..n : longer[i] = list[i]
  OBVIOUS
<1> HIDE DEF longer, n
<1>2. 1..(n + 1) = 1..n \cup {n + 1} /\ \A i \in 1..n : i < n + 1 /\ ~(i > n + 1)
  BY <1>1
<1>3. ASSUME ~Rewires(c), Names(list, named, fetched, chosen)
      PROVE  Names(longer, named, fetched, chosen)
  <2>1. ASSUME NEW i \in 1..(n + 1), Newest(longer, i)
        PROVE  IF Wraps(longer[i]) THEN fetched = {chosen} ELSE chosen = {}
    <3>1. i \in 1..n /\ longer[i] = list[i]
      BY <1>1, <1>2, <1>3, <2>1 DEF Newest
    <3>2. Newest(list, i)
      BY <1>1, <1>2, <2>1, <3>1 DEF Newest, n
    <3> QED BY <1>3, <3>1, <3>2 DEF Names, n
  <2>2. (\A i \in 1..(n + 1) : ~Rewires(longer[i])) => named = chosen
    BY <1>1, <1>2, <1>3 DEF Names, n
  <2> QED BY <1>1, <2>1, <2>2 DEF Names
<1>4. ASSUME Rewires(c), IF Wraps(c) THEN fetched = {chosen} ELSE chosen = {}
      PROVE  Names(longer, named, fetched, chosen)
  <2>1. ASSUME NEW i \in 1..(n + 1), Newest(longer, i) PROVE i = n + 1
    BY <1>1, <1>2, <1>4, <2>1 DEF Newest
  <2> QED BY <1>1, <1>2, <1>4, <2>1 DEF Names
<1>5. ASSUME NEW up, NEW meant, c.run \in {"reboot", "unwrap"} PROVE Boots(longer, up, meant)
  BY <1>1, <1>5 DEF Boots
<1> QED BY <1>3, <1>4, <1>5 DEF longer

\* When the first script was run the rest goes on from there.
LEMMA NamesTaken ==
  ASSUME NEW list \in Seq(Scripts), list # <<>>, NEW named, NEW after, NEW fetched, NEW chosen,
         Names(list, named, fetched, chosen),
         Rewires(list[1]) => after = (IF Wraps(list[1]) THEN UNION fetched ELSE {}),
         ~Rewires(list[1]) => after = named
  PROVE  /\ Names(Tail(list), after, fetched, chosen)
         /\ Tail(list) = <<>> => after = chosen
         /\ \A up, meant, then, aim : Boots(list, up, meant) =>
              IF Tail(list) = <<>> THEN list[1].run \in {"reboot", "unwrap"}
              ELSE Boots(Tail(list), then, aim)
<1> DEFINE rest == Tail(list)
           n == Len(list)
<1>1. /\ Len(rest) = n - 1 /\ n \in Nat \ {0} /\ (rest = <<>> <=> n = 1)
      /\ \A i \in 1..(n - 1) : rest[i] = list[i + 1]
  <2>1. /\ rest \in Seq(Scripts) /\ Len(rest) = n - 1 /\ n \in Nat \ {0}
        /\ \A i \in 1..(n - 1) : rest[i] = list[i + 1]
    OBVIOUS
  <2> HIDE DEF rest
  <2>2. rest = <<>> <=> Len(rest) = 0
    BY <2>1, EmptySeq
  <2> QED BY <2>1, <2>2
<1> HIDE DEF rest, n
<1>2. /\ \A j \in 1..n : j # 1 => j - 1 \in 1..(n - 1) /\ rest[j - 1] = list[j]
      /\ \A j \in 1..(n - 1) : j + 1 \in 1..n /\ rest[j] = list[j + 1] /\ j + 1 > 1
  BY <1>1
<1>3. (\A i \in 1..(n - 1) : ~Rewires(rest[i])) => after = chosen
  <2>1. SUFFICES ASSUME \A i \in 1..(n - 1) : ~Rewires(rest[i]) PROVE after = chosen
    OBVIOUS
  <2>2. \A j \in 1..n : j # 1 => ~Rewires(list[j])
    BY <1>2, <2>1
  <2>3. 1 \in 1..n /\ \A j \in 1..n : j > 1 => j # 1
    BY <1>1
  <2>4. CASE Rewires(list[1])
    <3>1. Newest(list, 1)
      BY <2>2, <2>3, <2>4 DEF Newest, n
    <3>2. IF Wraps(list[1]) THEN fetched = {chosen} ELSE chosen = {}
      BY <2>3, <3>1 DEF Names, n
    <3> QED BY <2>4, <3>2
  <2>5. CASE ~Rewires(list[1])
    BY <2>2, <2>5 DEF Names, n
  <2> QED BY <2>4, <2>5
<1>4. ASSUME NEW i \in 1..(n - 1), Newest(rest, i)
      PROVE  IF Wraps(rest[i]) THEN fetched = {chosen} ELSE chosen = {}
  <2>1. ASSUME NEW j \in 1..n, j > i + 1 PROVE ~Rewires(list[j])
    <3>1. j # 1 /\ j - 1 > i
      BY <1>1, <2>1
    <3>2. j - 1 \in 1..(n - 1) /\ rest[j - 1] = list[j]
      BY <1>2, <3>1
    <3> QED BY <1>1, <1>4, <3>1, <3>2 DEF Newest
  <2>2. Newest(list, i + 1)
    BY <1>2, <1>4, <2>1 DEF Newest, n
  <2> QED BY <1>2, <2>2 DEF Names, n
<1>5. Names(rest, after, fetched, chosen)
  BY <1>1, <1>3, <1>4 DEF Names
<1>6. rest = <<>> => after = chosen
  BY <1>1, <1>3
<1>7. ASSUME NEW up, NEW meant, NEW then, NEW aim, Boots(list, up, meant)
      PROVE  IF rest = <<>> THEN list[1].run \in {"reboot", "unwrap"}
              ELSE Boots(rest, then, aim)
  <2>1. list[n].run \in {"reboot", "unwrap"}
    BY <1>7 DEF Boots, n
  <2>2. n # 1 => rest[n - 1] = list[n]
    BY <1>1
  <2> QED BY <1>1, <2>1, <2>2 DEF Boots
<1> QED BY <1>5, <1>6, <1>7 DEF rest

\* A script that overtakes none is the last.
LEMMA PipeGrows ==
  ASSUME PatchTypes, NEW c \in Scripts, SendRunCmd(c), ~adrift'
  PROVE  ~adrift /\ Pipe' = Append(Pipe, c) /\ Pipe \in Seq(Scripts)
<1>1. inbox \in Seq(Scripts) /\ queue \in Seq(Scripts)
  BY DEF PatchTypes
<1>2. ~adrift /\ \/ inbox' = Append(inbox, c) /\ queue' = queue /\ queue = <<>>
                 \/ inbox' = inbox /\ queue' = Append(queue, c)
  BY DEF SendRunCmd
<1>3. Append(inbox, c) \o <<>> = Append(inbox \o <<>>, c)
  BY <1>1
<1>4. inbox \o Append(queue, c) = Append(inbox \o queue, c)
  BY <1>1
<1> QED BY <1>1, <1>2, <1>3, <1>4, SMTT(60) DEF Pipe

\* The first script handed over is the first of all.
LEMMA PipeShrinks ==
  ASSUME PatchTypes, inbox # <<>>, inbox' = Tail(inbox), queue' = queue
  PROVE  /\ Pipe' = Tail(Pipe) /\ Pipe \in Seq(Scripts) /\ Pipe # <<>> /\ Pipe[1] = inbox[1]
         /\ queue = <<>> /\ Len(inbox) = 1 => Pipe' = <<>>
<1>1. inbox \in Seq(Scripts) /\ queue \in Seq(Scripts)
  BY DEF PatchTypes
<1>2. Tail(inbox) \o queue = Tail(inbox \o queue)
  BY <1>1
<1>3. inbox \o queue \in Seq(Scripts) /\ inbox \o queue # <<>> /\ (inbox \o queue)[1] = inbox[1]
  BY <1>1
<1>4. Len(inbox) = 1 => Tail(inbox) \o <<>> = <<>>
  BY <1>1
<1> QED BY <1>2, <1>3, <1>4 DEF Pipe

\* There is no patch and no wrapper at first.
LEMMA ListInit == PatchInit => ListInv
<1> SUFFICES ASSUME PatchInit PROVE Agrees
  BY FilesInit DEF ListInv
<1>1. Pipe = <<>> /\ Len(Pipe) = 0
  <2>1. <<>> \o <<>> = <<>>
    OBVIOUS
  <2> QED BY <2>1 DEF PatchInit, Pipe
<1>2. wrapper = active /\ mounted = active \cap (files \cup Fileless)
  BY DEF PatchInit
<1> HIDE DEF Pipe
<1> QED BY <1>1, <1>2 DEF Agrees, Names, Boots

\* No operation is under way but the one that moves.
LEMMA OneUnderWay ==
  ASSUME OneHolds, NEW o \in Ops, op[o].step \in Holding, \A q \in Ops \ {o} : op'[q] = op[q]
  PROVE  /\ UnderWay <=> op[o].step \in Past
         /\ UnderWay' <=> op'[o].step \in Past
<1>1. \A q \in Ops \ {o} : op[q].step \notin Past /\ op'[q].step \notin Past
  BY DEF OneHolds, Holding
<1> QED BY <1>1 DEF UnderWay

\* An operation moves on and sends nothing.
LEMMA MoveAgrees ==
  ASSUME FilesInv, Agrees, UNCHANGED <<inbox, queue, active, files, wrapper, mounted>>,
         staged'.wrapper = staged.wrapper \/ Pipe = <<>>, UnderWay => UnderWay'
  PROVE  Agrees'
<1>1. Pipe' = Pipe /\ (Fileless' = Fileless)
  BY DEF Pipe, Fileless
<1>2. Names(Pipe, wrapper, staged.wrapper, active)'
  <2>1. CASE Pipe = <<>>
    BY <1>1, <2>1 DEF Agrees, Names
  <2>2. CASE staged'.wrapper = staged.wrapper
    BY <1>1, <2>2 DEF Agrees, Names, Newest, Rewires, Wraps
  <2> QED BY <2>1, <2>2
<1>3. (UnderWay \/ Boots(Pipe, mounted, active \cap (files \cup Fileless)))'
  <2>1. Boots(Pipe, mounted, active \cap (files \cup Fileless))
          => Boots(Pipe, mounted, active \cap (files \cup Fileless))'
    BY <1>1 DEF Boots
  <2> QED BY <2>1 DEF Agrees
<1> QED BY <1>2, <1>3 DEF Agrees

\* No script is sent, and an operation that has sent one still has the wrapper or a reboot to send.
LEMMA StepsList ==
  ASSUME ListInv, NEW o \in Ops, NEW p \in Patches, NEW remove \in BOOLEAN,
         \/ Start(o, p, remove) \/ TakeLock(o) \/ Detected(o) \/ FileFetched(o) \/ GivesUp(o)
         \/ Fits(o) \/ Uploaded(o) \/ Wrapped(o)
  PROVE  adrift' = adrift /\ (~adrift' => Agrees')
<1>1. /\ UNCHANGED <<inbox, queue, active, files, wrapper, mounted, adrift>>
      /\ FilesInv /\ PatchTypes /\ OneHolds
      /\ staged \in [files : SUBSET Patches, wrapper : SUBSET SUBSET Patches]
  BY DEF Start, TakeLock, Detected, FileFetched, GivesUp, Fits, Uploaded, Wrapped, NoCommand,
         deviceVars, ListInv, FilesInv, PatchTypes
<1>2. staged'.wrapper = staged.wrapper \/ Pipe = <<>>
  <2>1. CASE Wrapped(o) /\ queue = <<>> /\ inbox = <<>>
    <3>1. <<>> \o <<>> = <<>>
      OBVIOUS
    <3> QED BY <2>1, <3>1 DEF Pipe
  <2>2. CASE ~(Wrapped(o) /\ queue = <<>> /\ inbox = <<>>)
    <3>1. staged' = staged \/ \E q : staged' = [staged EXCEPT !.files = @ \ {q}]
      BY <2>2 DEF Start, TakeLock, Detected, FileFetched, GivesUp, Fits, Uploaded, Wrapped
    <3> QED BY <1>1, <3>1
  <2> QED BY <2>1, <2>2
<1>3. UnderWay => UnderWay'
  <2>1. CASE Start(o, p, remove) \/ TakeLock(o)
    <3>1. op[o].step \in {"none", "waiting"}
      BY <2>1 DEF Start, TakeLock
    <3>2. \A q \in Ops \ {o} : op'[q] = op[q]
      <4>1. \E new : op' = [op EXCEPT ![o] = new]
        BY <2>1 DEF Start, TakeLock, Goto
      <4> QED BY <1>1, <4>1 DEF PatchTypes
    <3> QED BY <3>1, <3>2 DEF UnderWay, Past
  <2>2. CASE Detected(o) \/ FileFetched(o) \/ GivesUp(o) \/ Fits(o)
    <3>1. op[o].step \in {"detect", "fetch", "space", "upload"}
      BY <2>2 DEF Detected, FileFetched, GivesUp, Fits
    <3>2. op[o].step \in Holding /\ op[o].step \notin Past
      BY <3>1 DEF Holding, Past
    <3>3. ~UnderWay
      BY <1>1, <3>2 DEF UnderWay, OneHolds, Holding
    <3> QED BY <3>3
  <2>3. CASE Uploaded(o) \/ Wrapped(o)
    <3>1. PICK step \in {"activate", "reboot"} : Goto(o, step)
      BY <2>3 DEF Uploaded, Wrapped
    <3>2. op'[o].step = step
      BY <1>1, <3>1, GotoIs DEF Steps
    <3> QED BY <3>1, <3>2 DEF UnderWay, Past
  <2> QED BY <2>1, <2>2, <2>3
<1> QED BY <1>1, <1>2, <1>3, MoveAgrees DEF ListInv

\* An operation sends a script that says nothing about the wrapper.
LEMMA SendsList ==
  ASSUME ListInv, NEW o \in Ops, Upload(o) \/ Reboots(o)
  PROVE  ~adrift' => Agrees'
<1> SUFFICES ASSUME ~adrift' PROVE Agrees'
  OBVIOUS
<1>1. /\ UNCHANGED <<active, files, wrapper, mounted>> /\ PatchTypes
      /\ staged \in [files : SUBSET Patches, wrapper : SUBSET SUBSET Patches]
  BY DEF Upload, Reboots, deviceVars, ListInv, FilesInv, PatchTypes
<1>2. PICK c \in Scripts : /\ SendRunCmd(c) /\ ~Rewires(c)
                           /\ c.run = "reboot" \/ op'[o].step \in Past
  <2>1. CASE Upload(o)
    <3> DEFINE c == PutFile(o, op[o].patch)
    <3>1. op[o].patch \in Patches \ Fileless
      BY <2>1 DEF Upload, ListInv, FilesInv, AllReady, Ready, PatchTypes
    <3>2. c \in Scripts /\ ~Rewires(c)
      BY <3>1 DEF Scripts, PutFile, Rewires
    <3>3. SendRunCmd(c) /\ Goto(o, "sent")
      BY <2>1 DEF Upload
    <3>4. op'[o].step = "sent"
      BY <1>1, <3>3, GotoIs DEF Steps
    <3> HIDE DEF c
    <3> QED BY <3>2, <3>3, <3>4 DEF Past
  <2>2. CASE Reboots(o)
    <3> DEFINE c == Reboot(o)
    <3>1. c \in Scripts /\ ~Rewires(c) /\ c.run = "reboot" /\ SendRunCmd(c)
      BY <2>2 DEF Scripts, Reboot, Rewires, Reboots
    <3> HIDE DEF c
    <3> QED BY <3>1
  <2> QED BY <2>1, <2>2
<1>3. ~adrift /\ Pipe' = Append(Pipe, c) /\ Pipe \in Seq(Scripts)
  BY <1>1, <1>2, PipeGrows
<1>4. staged'.wrapper = staged.wrapper
  <2>1. staged' = staged \/ staged' = [staged EXCEPT !.files = @ \cup {op[o].patch}]
    BY DEF Upload, Reboots
  <2> QED BY <1>1, <2>1
<1>5. Names(Pipe, wrapper, staged.wrapper, active)
  BY <1>3 DEF ListInv, Agrees
<1>6. Names(Append(Pipe, c), wrapper, staged.wrapper, active)
  BY <1>2, <1>3, <1>5, NamesAdded
<1>7. c.run = "reboot" => \A up, meant : Boots(Append(Pipe, c), up, meant)
  BY <1>2, <1>3, NamesAdded
<1>8. op'[o].step \in Past => UnderWay'
  BY DEF UnderWay
<1> DEFINE longer == Append(Pipe, c)
<1>9. Pipe' = longer /\ Names(longer, wrapper, staged.wrapper, active)
      /\ (c.run = "reboot" => \A up, meant : Boots(longer, up, meant))
  BY <1>3, <1>6, <1>7
<1> HIDE DEF longer
<1>10. Names(Pipe, wrapper, staged.wrapper, active)'
  BY <1>1, <1>4, <1>9 DEF Names, Newest, Rewires, Wraps
<1>11. c.run = "reboot" => Boots(Pipe, mounted, active \cap (files \cup Fileless))'
  BY <1>9 DEF Boots
<1> QED BY <1>2, <1>8, <1>10, <1>11 DEF Agrees

\* The wrapper that is sent, or its removal, has the last word and says what is active.
LEMMA ActivateList ==
  ASSUME ListInv, NEW o \in Ops, NEW stages \in BOOLEAN, Activate(o, stages)
  PROVE  ~adrift' => Agrees'
<1> SUFFICES ASSUME ~adrift' PROVE Agrees'
  OBVIOUS
<1>0. PICK p \in Patches : p = op[o].patch
  BY DEF ListInv, FilesInv, PatchTypes
<1> DEFINE chosen == IF op[o].remove THEN active \ {p} ELSE active \cup {p}
           gone == {p} \ Fileless
<1>1. /\ PatchTypes /\ active' = chosen /\ UNCHANGED <<files, wrapper, mounted>>
      /\ staged \in [files : SUBSET Patches, wrapper : SUBSET SUBSET Patches]
      /\ active' \subseteq Patches
  BY <1>0 DEF Activate, ListInv, FilesInv, PatchTypes, deviceVars
<1>2. PICK c \in Scripts :
        /\ SendRunCmd(c) /\ Rewires(c)
        /\ IF Wraps(c) THEN staged'.wrapper = {active'} ELSE active' = {}
        /\ c.run = "unwrap" \/ op'[o].step \in Past
  <2>1. CASE /\ op[o].remove /\ chosen = {} /\ SendRunCmd(Unwrap(o, gone))
    <3> DEFINE c == Unwrap(o, gone)
    <3>1. c \in Scripts /\ Rewires(c) /\ ~Wraps(c) /\ c.run = "unwrap" /\ SendRunCmd(c)
      BY <2>1 DEF Scripts, Unwrap, Rewires, Wraps
    <3> HIDE DEF c
    <3> QED BY <1>1, <2>1, <3>1
  <2>2. CASE /\ Goto(o, "wrapped") /\ staged' = [staged EXCEPT !.wrapper = {AppInitWrapper(chosen)}]
             /\ SendRunCmd(Wrap(o, IF op[o].remove THEN gone ELSE {}))
    <3>0. PICK lost \in SUBSET (Patches \ Fileless) : lost = IF op[o].remove THEN gone ELSE {}
      OBVIOUS
    <3> DEFINE c == Wrap(o, lost)
    <3>1. c \in Scripts /\ Rewires(c) /\ Wraps(c) /\ SendRunCmd(c)
      BY <2>2, <3>0 DEF Scripts, Wrap, Rewires, Wraps
    <3> HIDE DEF c
    <3>2. AppInitWrapper(chosen) = chosen
      BY <1>1, WrapperIsAll
    <3>3. staged'.wrapper = {active'}
      BY <1>1, <2>2, <3>2
    <3>4. op'[o].step = "wrapped"
      BY <1>1, <2>2, GotoIs DEF Steps
    <3> QED BY <3>1, <3>3, <3>4 DEF Past
  <2> QED BY <1>0, <2>1, <2>2 DEF Activate
<1>3. Pipe' = Append(Pipe, c) /\ Pipe \in Seq(Scripts)
  BY <1>1, <1>2, PipeGrows
<1> DEFINE longer == Append(Pipe, c)
           now2 == active'
           fetched == staged'.wrapper
<1>4. Rewires(c) /\ (IF Wraps(c) THEN fetched = {now2} ELSE now2 = {})
  BY <1>2
<1> HIDE DEF now2, fetched
<1>5. Names(longer, wrapper, fetched, now2)
  BY <1>3, <1>4, NamesAdded
<1>6. c.run = "unwrap" => \A up, meant : Boots(longer, up, meant)
  BY <1>3, NamesAdded
<1>7. Pipe' = longer
  BY <1>3
<1> HIDE DEF longer
<1>8. Names(Pipe, wrapper, staged.wrapper, active)'
  BY <1>1, <1>5, <1>7 DEF Names, Newest, Rewires, Wraps, now2, fetched
<1>9. c.run = "unwrap" => Boots(Pipe, mounted, active \cap (files \cup Fileless))'
  BY <1>6, <1>7 DEF Boots
<1>10. op'[o].step \in Past => UnderWay'
  BY DEF UnderWay
<1> QED BY <1>2, <1>8, <1>9, <1>10 DEF Agrees

\* The device has run or lost a script: what is left has the list's last word.
LEMMA TakenAgrees ==
  ASSUME PatchTypes, Agrees, inbox # <<>>, inbox' = Tail(inbox),
         UNCHANGED <<op, active, staged, queue>>,
         Rewires(inbox[1]) =>
           wrapper' = (IF Wraps(inbox[1]) THEN UNION staged.wrapper ELSE {}),
         ~Rewires(inbox[1]) => wrapper' = wrapper,
         inbox[1].run \in {"reboot", "unwrap"} =>
           mounted' = wrapper' \cap (files' \cup Fileless)
  PROVE  Agrees'
<1> DEFINE rest == Tail(Pipe)
           first == inbox[1]
<1>1. Pipe' = rest /\ Pipe \in Seq(Scripts) /\ Pipe # <<>> /\ Pipe[1] = first
  BY PipeShrinks
<1> HIDE DEF first
<1>2. /\ Names(Pipe, wrapper, staged.wrapper, active)
      /\ UnderWay \/ Boots(Pipe, mounted, active \cap (files \cup Fileless))
      /\ UnderWay' <=> UnderWay
  BY DEF Agrees, UnderWay
<1>3. /\ Names(rest, wrapper', staged.wrapper, active)
      /\ rest = <<>> => wrapper' = active
  BY <1>1, <1>2, NamesTaken, SMTT(60) DEF first
<1>4. \A up, meant, then, aim : Boots(Pipe, up, meant) =>
        IF rest = <<>> THEN first.run \in {"reboot", "unwrap"} ELSE Boots(rest, then, aim)
  BY <1>1, <1>2, NamesTaken DEF first
<1> HIDE DEF rest
<1>5. Boots(Pipe, mounted, active \cap (files \cup Fileless)) =>
        Boots(rest, mounted', active' \cap (files' \cup Fileless))
  <2>1. CASE rest = <<>> /\ first.run \in {"reboot", "unwrap"}
    <3>1. mounted' = active' \cap (files' \cup Fileless)
      BY <1>3, <2>1 DEF first
    <3> QED BY <2>1, <3>1 DEF Boots
  <2> QED BY <1>4, <2>1
<1>6. (Fileless' = Fileless)
  BY DEF Fileless
<1>7. Boots(rest, mounted', active' \cap (files' \cup Fileless))
        => Boots(Pipe, mounted, active \cap (files \cup Fileless))'
  BY <1>1, <1>6 DEF Boots
<1>8. Names(Pipe, wrapper, staged.wrapper, active)'
  BY <1>1, <1>3 DEF Names, Newest, Rewires, Wraps
<1> QED BY <1>2, <1>5, <1>7, <1>8 DEF Agrees

\* What the device ran, or never got, but for a wrapper or a reboot, it agrees with.
LEMMA DeviceList ==
  ASSUME ListInv, Run \/ Lose
  PROVE  ~adrift' => Agrees'
<1> SUFFICES ASSUME ~adrift' PROVE Agrees'
  OBVIOUS
<1> DEFINE c == inbox[1]
<1>1. /\ inbox # <<>> /\ inbox' = Tail(inbox) /\ Head(inbox) = c /\ c \in Scripts
      /\ UNCHANGED <<op, active, staged, queue>> /\ Len(inbox) \in Nat /\ 1 \in 1..Len(inbox)
      /\ PatchTypes /\ WrapperStaged /\ adrift \in BOOLEAN
  <2>1. inbox \in Seq(Scripts) /\ inbox # <<>>
    BY DEF ListInv, FilesInv, PatchTypes, Run, Lose
  <2> QED BY <2>1 DEF Run, Lose, ListInv, FilesInv, PatchTypes
<1>2. CASE Lose
  <2>1. adrift' = (adrift \/ \E d \in {c} : d.run # "put") /\ wrapper' = wrapper
    BY <1>1, <1>2 DEF Lose, Forfeit, deviceVars
  <2>2. ~adrift /\ ~Rewires(c) /\ c.run = "put"
    BY <2>1 DEF Rewires
  <2> HIDE DEF c
  <2> QED BY <1>1, <2>1, <2>2, TakenAgrees DEF ListInv, c
<1>3. CASE Run
  <2>1. RunPut(c) \/ RunWrap(c) \/ RunUnwrap(c) \/ RunReboot(c)
    BY <1>1, <1>3 DEF Run
  <2>2. CASE RunPut(c)
    <3>1. ~Rewires(c) /\ c.run = "put" /\ wrapper' = wrapper /\ adrift' = adrift
      BY <2>2 DEF RunPut, Rewires
    <3> HIDE DEF c
    <3> QED BY <1>1, <3>1, TakenAgrees DEF ListInv, c
  <2>3. CASE RunWrap(c)
    <3>1. Rewires(c) /\ Wraps(c) /\ c.run = "wrap" /\ adrift' = adrift
      BY <2>3 DEF RunWrap, Rewires, Wraps
    <3>2. WrapIn(inbox)
      BY <1>1, <3>1 DEF WrapIn
    <3>3. wrapper' = UNION staged.wrapper
      BY <1>1, <2>3, <3>2 DEF RunWrap, WrapperStaged
    <3> HIDE DEF c
    <3> QED BY <1>1, <3>1, <3>3, TakenAgrees DEF ListInv, c
  <2>4. CASE RunUnwrap(c)
    <3>1. /\ Rewires(c) /\ ~Wraps(c) /\ c.run = "unwrap" /\ wrapper' = {} /\ mounted' = {}
          /\ adrift' = (adrift /\ ~(active = {} /\ queue = <<>> /\ Len(inbox) = 1))
      BY <2>4 DEF RunUnwrap, Rewires, Wraps, BootWith
    <3> HIDE DEF c
    <3>2. CASE ~adrift
      BY <1>1, <3>1, <3>2, TakenAgrees DEF ListInv, c
    <3>3. CASE active = {} /\ queue = <<>> /\ Len(inbox) = 1
      <4>1. Pipe' = <<>>
        BY <1>1, <3>3, PipeShrinks
      <4>2. wrapper' = active' /\ mounted' = active' \cap (files' \cup Fileless')
        BY <1>1, <3>1, <3>3
      <4> QED BY <4>1, <4>2 DEF Agrees, Names, Boots
    <3> QED BY <3>1, <3>2, <3>3
  <2>5. CASE RunReboot(c)
    <3>1. /\ ~Rewires(c) /\ c.run = "reboot" /\ UNCHANGED <<wrapper, files>>
          /\ mounted' = wrapper \cap (files \cup Fileless)
          /\ adrift' = (adrift /\ ~(wrapper = active /\ queue = <<>> /\ Len(inbox) = 1))
      BY <2>5 DEF RunReboot, Rewires, BootWith
    <3> HIDE DEF c
    <3>2. CASE ~adrift
      BY <1>1, <3>1, <3>2, TakenAgrees DEF ListInv, c
    <3>3. CASE wrapper = active /\ queue = <<>> /\ Len(inbox) = 1
      <4>1. Pipe' = <<>>
        BY <1>1, <3>3, PipeShrinks
      <4>2. wrapper' = active' /\ mounted' = active' \cap (files' \cup Fileless')
        BY <1>1, <3>1, <3>3 DEF Fileless
      <4> QED BY <4>1, <4>2 DEF Agrees, Names, Boots
    <3> QED BY <3>1, <3>2, <3>3
  <2> QED BY <2>1, <2>2, <2>3, <2>4, <2>5
<1> QED BY <1>2, <1>3

\* A heartbeat changes no order.
LEMMA HeartbeatList ==
  ASSUME ListInv, Heartbeat
  PROVE  ~adrift' => Agrees'
<1>1. inbox \in Seq(Scripts) /\ queue \in Seq(Scripts) /\ queue' = <<>> /\ inbox' = inbox \o queue
      /\ UNCHANGED <<op, active, staged, files, wrapper, mounted, adrift>>
  BY DEF Heartbeat, deviceVars, ListInv, FilesInv, PatchTypes
<1>2. Pipe' = Pipe
  <2>1. (inbox \o queue) \o <<>> = inbox \o queue
    BY <1>1
  <2> QED BY <1>1, <2>1 DEF Pipe
<1>3. Fileless' = Fileless
  BY DEF Fileless
<1> QED BY <1>1, <1>2, <1>3 DEF ListInv, Agrees, Names, Newest, Rewires, Wraps, Boots, UnderWay

\* What is queued, or half done, is the end of a list the device will not see: it is adrift.
LEMMA RestartList ==
  ASSUME ListInv, Restart
  PROVE  ~adrift' => Agrees'
<1> SUFFICES ASSUME ~adrift' PROVE Agrees'
  OBVIOUS
<1>1. /\ queue' = <<>> /\ UNCHANGED <<active, staged, inbox, files, wrapper, mounted>>
      /\ adrift' = (adrift \/ (\E c \in Among(queue) : c.run # "put")
                       \/ \E o \in Running : op[o].step \in {"sent", "activate", "wrapped", "reboot"})
      /\ inbox \in Seq(Scripts) /\ queue \in Seq(Scripts)
  BY DEF Restart, deviceVars, ListInv, FilesInv, PatchTypes
<1>2. ~adrift /\ ~UnderWay /\ \A c \in Among(queue) : c.run = "put"
  BY <1>1 DEF UnderWay, Past, Running
<1>3. /\ Names(Pipe, wrapper, staged.wrapper, active)
      /\ Boots(Pipe, mounted, active \cap (files \cup Fileless))
  BY <1>2 DEF ListInv, Agrees
<1>4. queue = <<>>
  <2>1. SUFFICES ASSUME queue # <<>> PROVE FALSE
    OBVIOUS
  <2>2. /\ Len(Pipe) = Len(inbox) + Len(queue) /\ Len(inbox) \in Nat /\ Len(queue) \in Nat \ {0}
        /\ Pipe[Len(inbox) + Len(queue)] = queue[Len(queue)] /\ Pipe # <<>>
    BY <1>1, <2>1 DEF Pipe
  <2>3. queue[Len(queue)] \in Among(queue)
    BY <1>1, <2>2 DEF Among
  <2>4. queue[Len(queue)].run \in {"reboot", "unwrap"}
    BY <1>3, <2>2 DEF Boots
  <2> QED BY <1>2, <2>3, <2>4
<1>5. Pipe' = Pipe /\ Fileless' = Fileless
  BY <1>1, <1>4 DEF Pipe, Fileless
<1>6. Names(Pipe, wrapper, staged.wrapper, active)'
  BY <1>1, <1>3, <1>5 DEF Names, Newest, Rewires, Wraps
<1>7. Boots(Pipe, mounted, active \cap (files \cup Fileless))'
  BY <1>1, <1>3, <1>5 DEF Boots
<1> QED BY <1>6, <1>7 DEF Agrees

\* Every step keeps the list, the wrapper and the device in agreement.
LEMMA ListNext == ListInv /\ [PatchNext]_patchVars => ListInv'
<1> SUFFICES ASSUME ListInv, [PatchNext]_patchVars PROVE ~adrift' => Agrees'
  BY FilesNext DEF ListInv
<1>1. CASE UNCHANGED patchVars
  BY <1>1 DEF patchVars, ListInv, Agrees, Names, Newest, Rewires, Wraps, Boots, UnderWay, Pipe,
              Fileless
<1>2. PICK p \in Patches : TRUE
  BY PatcherAssumption
<1>3. ASSUME NEW o \in Ops, NEW q \in Patches, NEW remove \in BOOLEAN, Start(o, q, remove)
      PROVE  ~adrift' => Agrees'
  BY <1>3, StepsList
<1>4. ASSUME NEW o \in Ops,
             \/ TakeLock(o) \/ Detected(o) \/ FileFetched(o) \/ GivesUp(o) \/ Fits(o)
             \/ Upload(o) \/ Uploaded(o) \/ Wrapped(o) \/ Reboots(o)
      PROVE  ~adrift' => Agrees'
  BY <1>2, <1>4, StepsList, SendsList
<1>5. ASSUME NEW o \in Ops, NEW stages \in BOOLEAN, Activate(o, stages)
      PROVE  ~adrift' => Agrees'
  BY <1>5, ActivateList
<1> QED BY <1>1, <1>3, <1>4, <1>5, HeartbeatList, DeviceList, RestartList DEF PatchNext

(* When no operation runs and nothing is on its way, the patches the panel *)
(* calls active are what the wrapper names and what the device booted      *)
(* with, unless its last wrapper or reboot was lost, overtaken or never    *)
(* sent.                                                                   *)
THEOREM ListIsTrue == PatchSpec => []ActiveMatchesDevice
<1>1. ListInv => ActiveMatchesDevice
  <2> SUFFICES ASSUME ListInv, Quiet, Running = {}, ~adrift
               PROVE  wrapper = active /\ mounted = active \cap (files \cup Fileless)
    BY DEF ActiveMatchesDevice
  <2>1. Pipe = <<>> /\ Len(Pipe) = 0
    <3>1. <<>> \o <<>> = <<>>
      OBVIOUS
    <3> QED BY <3>1 DEF Quiet, Pipe
  <2>2. ~UnderWay
    BY DEF UnderWay, Past, Running
  <2> HIDE DEF Pipe
  <2> QED BY <2>1, <2>2 DEF ListInv, Agrees, Names, Boots
<1> QED BY <1>1, ListInit, ListNext, PTL DEF PatchSpec

-----------------------------------------------------------------------------
(* Reports: what a body says, and what a parser makes of it (devices/state_parsers.py,       *)
(* events/normalize.py)                                                                     *)

\* A body as the device of a model sends it.
IsBody(body) ==
  /\ body = [f \in DOMAIN body |-> IF f = "sprayResetTime" THEN stamp ELSE now]
  /\ DOMAIN body \subseteq Fields(model) \cup OfWork(model, "http") \cup OfWork(model, "property")
  /\ {"workState", "work_state", "lightState"} \cap DOMAIN body # {} => AtWork
  /\ "litter" \in DOMAIN body /\ AtWork =>
       "lightState" \in DOMAIN body /\ {"workState", "work_state"} \cap DOMAIN body # {}

\* What a parser made of a body is what the body says.
Truly(f, body) ==
  \A k \in DOMAIN f :
    \/ k \in Keys /\ Speaks(body, k) /\ f[k] = Meaning(k, now)
    \/ k = "sprayResetTime" /\ k \in DOMAIN body /\ f[k] = stamp

LEMMA Nothing == DOMAIN <<>> = {}
OBVIOUS

LEMMA Taken ==
  ASSUME NEW body, NEW field, NEW k
  PROVE  /\ DOMAIN Take(body, field, k) = IF field \in DOMAIN body THEN {k} ELSE {}
         /\ field \in DOMAIN body => Take(body, field, k)[k] = body[field]
BY DEF Take, Has, :>

-----------------------------------------------------------------------------
(* The parsers, part by part                                               *)

LEMMA MergeIsTrue ==
  ASSUME NEW f, NEW g, NEW body, Truly(f, body), Truly(g, body) PROVE Truly(f @@ g, body)
<1> DEFINE both == f @@ g
<1>1. /\ DOMAIN both = DOMAIN f \cup DOMAIN g
      /\ \A k \in DOMAIN f : both[k] = f[k]
      /\ \A k \in DOMAIN g \ DOMAIN f : both[k] = g[k]
  BY Merge
<1> HIDE DEF both
<1>2. Truly(both, body)
  BY <1>1 DEF Truly
<1> QED BY <1>2 DEF both

\* What is overruled need not be true.
LEMMA CoveredIsTrue ==
  ASSUME NEW f, NEW g, NEW body, Truly(f, body), DOMAIN g \subseteq DOMAIN f
  PROVE  Truly(f @@ g, body)
<1>1. DOMAIN (f @@ g) = DOMAIN f
  BY Merge
<1>2. \A k \in DOMAIN f : (f @@ g)[k] = f[k]
  BY Merge
<1> QED BY <1>1, <1>2 DEF Truly

LEMMA OneIsTrue ==
  ASSUME NEW f, NEW k, NEW body, DOMAIN f = {k},
         \/ k \in Keys /\ Speaks(body, k) /\ f[k] = Meaning(k, now)
         \/ k = "sprayResetTime" /\ k \in DOMAIN body /\ f[k] = stamp
  PROVE  Truly(f, body)
BY DEF Truly

LEMMA NothingIsTrue == ASSUME NEW body PROVE Truly(<<>>, body)
BY DEF Truly

LEMMA TakeIsTrue ==
  ASSUME NEW body, IsBody(body), NEW field, NEW k \in Keys,
         field \in Source[k], field # "sprayResetTime", k # "lastDrink",
         k \notin {"errorMsg", "lightOn", "workingState"}
  PROVE  Truly(Take(body, field, k), body)
<1>1. CASE field \in DOMAIN body
  <2>1. Take(body, field, k) = [x \in {k} |-> now]
    BY <1>1 DEF Take, Has, IsBody, :>
  <2>2. Speaks(body, k)
    BY <1>1 DEF Speaks
  <2>3. Meaning(k, now) = now
    BY DEF Meaning
  <2> QED BY <2>1, <2>2, <2>3 DEF Truly
<1>2. CASE field \notin DOMAIN body
  BY <1>2, NothingIsTrue DEF Take, Has
<1> QED BY <1>1, <1>2

LEMMA WorkIsTrue ==
  ASSUME NEW body, IsBody(body), NEW field \in {"workState", "work_state"}, now \in Nat
  PROVE  Truly(Take(body, field, "workingState"), body)
<1>1. CASE field \in DOMAIN body
  <2>1. Take(body, field, "workingState") = [x \in {"workingState"} |-> now]
    BY <1>1 DEF Take, Has, IsBody, :>
  <2>2. Speaks(body, "workingState")
    BY <1>1 DEF Speaks, Source
  <2>3. Meaning("workingState", now) = now
    BY <1>1 DEF Meaning, IsBody, AtWork
  <2> QED BY <2>1, <2>2, <2>3 DEF Truly, Keys
<1>2. CASE field \notin DOMAIN body
  BY <1>2, NothingIsTrue DEF Take, Has
<1> QED BY <1>1, <1>2

\* A box at work says so, and one that says nothing of it in a snapshot is idle.
LEMMA IdleIsTrue ==
  ASSUME NEW body, IsBody(body), now \in Nat, NEW work, Truly(work, body),
         {"workState", "work_state"} \cap DOMAIN body # {} => "workingState" \in DOMAIN work
  PROVE  Truly(work @@ (IF IsSnapshot(body) THEN "workingState" :> WORK_MODE_IDLE ELSE <<>>), body)
<1> DEFINE idle == IF IsSnapshot(body) THEN "workingState" :> WORK_MODE_IDLE ELSE <<>>
<1>1. DOMAIN idle = IF "litter" \in DOMAIN body THEN {"workingState"} ELSE {}
  BY Single, Nothing DEF IsSnapshot, Has
<1>2. "litter" \in DOMAIN body => idle["workingState"] = WORK_MODE_IDLE
  BY Single DEF IsSnapshot, Has
<1>3. ASSUME "litter" \in DOMAIN body, {"workState", "work_state"} \cap DOMAIN body = {}
      PROVE  Truly(idle, body)
  <2>1. Speaks(body, "workingState")
    BY <1>3 DEF Speaks, Source
  <2>2. Meaning("workingState", now) = WORK_MODE_IDLE
    BY <1>3 DEF Meaning, IsBody, AtWork
  <2> QED BY <1>1, <1>2, <1>3, <2>1, <2>2 DEF Truly, Keys
<1>4. CASE Truly(idle, body)
  <2>1. Truly(work @@ idle, body)
    BY <1>4, MergeIsTrue
  <2> QED BY <2>1 DEF idle
<1>5. CASE {"workState", "work_state"} \cap DOMAIN body # {}
  <2>1. DOMAIN idle \subseteq DOMAIN work
    BY <1>1, <1>5
  <2> HIDE DEF idle
  <2>2. Truly(work @@ idle, body)
    BY <2>1, CoveredIsTrue
  <2> QED BY <2>2 DEF idle
<1>6. CASE "litter" \notin DOMAIN body
  <2>1. Truly(idle, body)
    BY <1>1, <1>6 DEF Truly
  <2> QED BY <1>4, <2>1
<1> QED BY <1>3, <1>4, <1>5, <1>6

LEMMA WorkModeIsTrue ==
  ASSUME NEW body, IsBody(body), now \in Nat
  PROVE  Truly(ExtractWorkMode(body), body) /\ Truly(PostedWorkMode(body), body)
<1> DEFINE camel == Take(body, "workState", "workingState")
           snake == Take(body, "work_state", "workingState")
<1>1. Truly(camel @@ snake, body) /\ Truly(snake @@ camel, body)
  BY WorkIsTrue, MergeIsTrue
<1>2. /\ "workState" \in DOMAIN body => DOMAIN camel = {"workingState"}
      /\ "work_state" \in DOMAIN body => DOMAIN snake = {"workingState"}
  BY Taken
<1>3. {"workState", "work_state"} \cap DOMAIN body # {}
        => "workingState" \in DOMAIN (camel @@ snake) /\ "workingState" \in DOMAIN (snake @@ camel)
  <2>1. /\ DOMAIN (camel @@ snake) = DOMAIN camel \cup DOMAIN snake
        /\ DOMAIN (snake @@ camel) = DOMAIN camel \cup DOMAIN snake
    BY Merge
  <2> QED BY <1>2, <2>1
<1> HIDE DEF camel, snake
<1>4. /\ Truly((camel @@ snake) @@ (IF IsSnapshot(body) THEN "workingState" :> WORK_MODE_IDLE
                                    ELSE <<>>), body)
      /\ Truly((snake @@ camel) @@ (IF IsSnapshot(body) THEN "workingState" :> WORK_MODE_IDLE
                                    ELSE <<>>), body)
  BY <1>1, <1>3, IdleIsTrue
<1> QED BY <1>4 DEF ExtractWorkMode, PostedWorkMode, camel, snake

LEMMA ErrorIsTrue ==
  ASSUME NEW body, IsBody(body) PROVE Truly(ExtractErrorFlags(body), body)
<1>1. CASE "err" \in DOMAIN body
  <2> DEFINE e == ExtractErrorFlags(body)
  <2>1. DOMAIN e = {"errorMsg", "boxFull"} /\ e["errorMsg"] = now % 2 /\ e["boxFull"] = now
    <3> DEFINE text == "errorMsg" :> body["err"] % 2
               full == "boxFull" :> body["err"]
    <3>1. e = text @@ full
      BY <1>1 DEF ExtractErrorFlags, Has
    <3>2. body["err"] = now
      BY <1>1 DEF IsBody
    <3>3. DOMAIN text = {"errorMsg"} /\ text["errorMsg"] = body["err"] % 2
      BY Single
    <3>4. DOMAIN full = {"boxFull"} /\ full["boxFull"] = body["err"]
      BY Single
    <3> HIDE DEF text, full, e
    <3>5. /\ DOMAIN (text @@ full) = DOMAIN text \cup DOMAIN full
          /\ \A k \in DOMAIN text : (text @@ full)[k] = text[k]
          /\ \A k \in DOMAIN full \ DOMAIN text : (text @@ full)[k] = full[k]
      BY Merge
    <3>6. DOMAIN e = {"errorMsg", "boxFull"}
      BY <3>1, <3>3, <3>4, <3>5
    <3>7. e["errorMsg"] = now % 2 /\ e["boxFull"] = now
      BY <3>1, <3>2, <3>3, <3>4, <3>5
    <3> QED BY <3>6, <3>7
  <2>2. Speaks(body, "errorMsg") /\ Speaks(body, "boxFull")
    BY <1>1 DEF Speaks, Source
  <2>3. Meaning("errorMsg", now) = now % 2 /\ Meaning("boxFull", now) = now
    BY DEF Meaning
  <2> QED BY <2>1, <2>2, <2>3 DEF Truly, Keys
<1>2. CASE "err" \notin DOMAIN body
  BY <1>2, NothingIsTrue DEF ExtractErrorFlags, Has
<1> QED BY <1>1, <1>2

LEMMA PresenceIsTrue ==
  ASSUME NEW body, IsBody(body), now \in Nat PROVE Truly(ExtractPresenceFlags(body), body)
<1>1. CASE "litter" \in DOMAIN body
  <2> DEFINE e == ExtractPresenceFlags(body)
  <2>1. DOMAIN e = {"lightOn"} /\ e["lightOn"] = IF "lightState" \in DOMAIN body THEN 1 ELSE 0
    BY <1>1 DEF ExtractPresenceFlags, IsSnapshot, Has, :>
  <2>2. Speaks(body, "lightOn")
    BY <1>1 DEF Speaks, Source
  <2>3. Meaning("lightOn", now) = e["lightOn"]
    BY <1>1, <2>1 DEF Meaning, IsBody, AtWork
  <2> QED BY <2>1, <2>2, <2>3 DEF Truly, Keys
<1>2. CASE "litter" \notin DOMAIN body
  BY <1>2, NothingIsTrue DEF ExtractPresenceFlags, IsSnapshot, Has
<1> QED BY <1>1, <1>2

LEMMA SprayIsTrue ==
  ASSUME NEW body, IsBody(body) PROVE Truly(Take(body, "sprayResetTime", "sprayResetTime"), body)
<1>1. CASE "sprayResetTime" \in DOMAIN body
  <2>1. body["sprayResetTime"] = stamp
    BY <1>1 DEF IsBody
  <2> DEFINE e == Take(body, "sprayResetTime", "sprayResetTime")
  <2>2. DOMAIN e = {"sprayResetTime"} /\ e["sprayResetTime"] = stamp
    BY <1>1, <2>1, Taken
  <2> QED BY <1>1, <2>2, OneIsTrue
<1>2. CASE "sprayResetTime" \notin DOMAIN body
  BY <1>2, Taken DEF Truly
<1> QED BY <1>1, <1>2

\* Fields that hold a reading as it is.
LEMMA PlainAreTrue ==
  ASSUME NEW body, IsBody(body)
  PROVE  /\ Truly(ExtractCamel(body), body) /\ Truly(ExtractSensorBlock(body), body)
         /\ Truly(ExtractIp(body), body) /\ Truly(Raw(body), body)
         /\ Truly(Take(body, "flatField", "flat"), body)
         /\ Truly(Take(body, "feedState", "feedState"), body)
         /\ Truly(Take(body, "petIn", "petInTime"), body)
         /\ Truly(Take(body, "litter", "sandPercent"), body)
         /\ Truly(Take(body, "wifi", "rssi"), body)
         /\ Truly(Take(body, "runtime", "totalTime"), body)
<1>1. /\ Truly(Take(body, "flatField", "flat"), body)
      /\ Truly(Take(body, "flat_field", "flat"), body)
  BY TakeIsTrue DEF Keys, Source
<1>2. /\ Truly(Take(body, "feedState", "feedState"), body)
      /\ Truly(Take(body, "petIn", "petInTime"), body)
  BY TakeIsTrue DEF Keys, Source
<1>3. /\ Truly(Take(body, "litter", "sandPercent"), body)
      /\ Truly(Take(body, "wifi", "rssi"), body)
  BY TakeIsTrue DEF Keys, Source
<1>4. /\ Truly(Take(body, "runtime", "totalTime"), body)
      /\ Truly(ExtractIp(body), body)
  BY TakeIsTrue DEF Keys, Source, ExtractIp
<1>5. Truly(ExtractSensorBlock(body), body)
  BY TakeIsTrue DEF Keys, Source, ExtractSensorBlock
<1>6. Truly(ExtractCamel(body), body)
  BY <1>1, MergeIsTrue DEF ExtractCamel
<1>7. Truly(Raw(body), body)
  BY <1>1, <1>2, SprayIsTrue, MergeIsTrue DEF Raw
<1> QED BY <1>1, <1>2, <1>3, <1>4, <1>5, <1>6, <1>7

LEMMA DrinkIsTrue ==
  ASSUME NEW body, IsBody(body)
  PROVE  Truly(IF Has(body, "drink") /\ body["drink"] > 0 THEN "lastDrink" :> body["drink"] ELSE <<>>,
               body)
<1>1. CASE Has(body, "drink") /\ body["drink"] > 0
  <2>1. body["drink"] = now
    BY <1>1 DEF IsBody, Has
  <2>2. Speaks(body, "lastDrink")
    BY <1>1, <2>1 DEF Speaks, Source, Has
  <2>3. Meaning("lastDrink", now) = now
    BY DEF Meaning
  <2>4. Truly("lastDrink" :> body["drink"], body)
    <3> DEFINE e == "lastDrink" :> body["drink"]
    <3>1. DOMAIN e = {"lastDrink"} /\ e["lastDrink"] = now
      BY <2>1, Single
    <3>2. "lastDrink" \in Keys
      BY DEF Keys
    <3> QED BY <2>2, <2>3, <3>1, <3>2, OneIsTrue
  <2> QED BY <1>1, <2>4
<1>2. CASE ~(Has(body, "drink") /\ body["drink"] > 0)
  BY <1>2, NothingIsTrue
<1> QED BY <1>1, <1>2

LEMMA PartsAreTrue ==
  ASSUME NEW body, IsBody(body), now \in Nat, NEW m
  PROVE  /\ Truly(ExtractFountainW7h(m, body), body) /\ Truly(ExtractFeederNextGen(m, body), body)
         /\ Truly(ExtractShared(body), body) /\ Truly(ExtractLitterNested(body), body)
         /\ "wifi" \in DOMAIN body => Truly(ExtractWifiRssi(body), body)
<1>1. Truly(ExtractFountainW7h(m, body), body)
  BY PlainAreTrue, DrinkIsTrue, NothingIsTrue, MergeIsTrue DEF ExtractFountainW7h
<1>2. Truly(ExtractFeederNextGen(m, body), body)
  BY PlainAreTrue, NothingIsTrue, MergeIsTrue DEF ExtractFeederNextGen
<1>3. Truly(ExtractShared(body), body)
  BY PlainAreTrue, PresenceIsTrue, MergeIsTrue DEF ExtractShared
<1>4. Truly(ExtractLitterNested(body), body)
  BY <1>3, PlainAreTrue, ErrorIsTrue, MergeIsTrue DEF ExtractLitterNested
<1>5. "wifi" \in DOMAIN body => Truly(ExtractWifiRssi(body), body)
  <2>1. "wifi" \in DOMAIN body => ExtractWifiRssi(body) = Take(body, "wifi", "rssi")
    BY DEF ExtractWifiRssi, Take, Has
  <2> QED BY <2>1, PlainAreTrue
<1> QED BY <1>1, <1>2, <1>3, <1>4, <1>5

-----------------------------------------------------------------------------
(* The parsers                                                             *)

\* Neither parser invents a value or lets an older one through.
LEMMA NormalizedIsTrue ==
  ASSUME NEW body, IsBody(body), now \in Nat
  PROVE  Truly(NormalizePropertyParams(model, body), body)
<1>1. Truly(IF model = "t5" THEN ExtractSensorBlock(body) ELSE <<>>, body)
  BY PlainAreTrue, NothingIsTrue
<1> QED BY <1>1, PlainAreTrue, PartsAreTrue, WorkModeIsTrue, ErrorIsTrue, SprayIsTrue, MergeIsTrue
        DEF NormalizePropertyParams

LEMMA ParsedIsTrue ==
  ASSUME NEW body, IsBody(body), now \in Nat, "wifi" \in DOMAIN body,
         model \in {"t4", "t5", "d4sh", "w7h"}
  PROVE  Truly(ParseStateReport(model, body), body)
<1>1. Truly(ExtractWifiRssi(body), body) /\ Truly(Take(body, "workState", "workingState"), body)
  BY PartsAreTrue, WorkIsTrue
<1>2. Truly(ParseLitterCamera(body), body)
  BY <1>1, PlainAreTrue, PartsAreTrue, WorkModeIsTrue, SprayIsTrue, MergeIsTrue
  DEF ParseLitterCamera
<1>3. Truly(ParseLitterEsp32(body), body)
  BY <1>1, PlainAreTrue, PartsAreTrue, WorkModeIsTrue, MergeIsTrue DEF ParseLitterEsp32
<1>4. Truly(ParseFeeder(model, body), body)
  BY <1>1, PlainAreTrue, PartsAreTrue, ErrorIsTrue, MergeIsTrue DEF ParseFeeder
<1>5. Truly(ParseWaterFountain(model, body), body)
  BY <1>1, PlainAreTrue, PartsAreTrue, ErrorIsTrue, MergeIsTrue DEF ParseWaterFountain
<1> QED BY <1>2, <1>3, <1>4, <1>5 DEF ParseStateReport

\* And no field is known to one of them alone, but for what a feeder says of its state.
LEMMA Within ==
  ASSUME NEW f, NEW g, NEW k, k \in DOMAIN f \/ k \in DOMAIN g PROVE k \in DOMAIN (f @@ g)
BY Merge

LEMMA TakenIn ==
  ASSUME NEW body, NEW field \in DOMAIN body, NEW k PROVE k \in DOMAIN Take(body, field, k)
BY DEF Take, Has, :>

LEMMA NormalizedIsAll ==
  ASSUME NEW body, IsBody(body), now \in Nat, model \in {"t4", "t5", "d4sh", "w7h"},
         NEW k \in Keys \ {"feedState"}, Speaks(body, k)
  PROVE  k \in DOMAIN NormalizePropertyParams(model, body)
<1> DEFINE all == NormalizePropertyParams(model, body)
<1>0. PICK field \in Source[k] \cap DOMAIN body : ~(k = "lastDrink" /\ now = 0)
  BY DEF Speaks
<1>1. field \in Fields(model) \cup OfWork(model, "http") \cup OfWork(model, "property")
  BY DEF IsBody
<1>2. /\ k \in DOMAIN ExtractIp(body) => k \in DOMAIN all
      /\ k \in DOMAIN PostedWorkMode(body) => k \in DOMAIN all
      /\ k \in DOMAIN ExtractErrorFlags(body) => k \in DOMAIN all
      /\ k \in DOMAIN ExtractShared(body) => k \in DOMAIN all
      /\ k \in DOMAIN Take(body, "flatField", "flat") => k \in DOMAIN all
      /\ k \in DOMAIN (IF model = "t5" THEN ExtractSensorBlock(body) ELSE <<>>) => k \in DOMAIN all
      /\ k \in DOMAIN ExtractFeederNextGen(model, body) => k \in DOMAIN all
      /\ k \in DOMAIN ExtractFountainW7h(model, body) => k \in DOMAIN all
      /\ k \in DOMAIN Take(body, "petIn", "petInTime") => k \in DOMAIN all
      /\ k \in DOMAIN Take(body, "wifi", "rssi") => k \in DOMAIN all
      /\ k \in DOMAIN Take(body, "litter", "sandPercent") => k \in DOMAIN all
  BY Within DEF NormalizePropertyParams
<1>3. CASE k \in {"sandPercent", "petInTime", "rssi", "ip"}
  BY <1>0, <1>2, <1>3, TakenIn DEF Source, ExtractIp
<1>4. CASE k \in {"errorMsg", "boxFull"}
  <2>1. "err" \in DOMAIN body
    BY <1>0, <1>4 DEF Source
  <2>2. ExtractErrorFlags(body) = ("errorMsg" :> body["err"] % 2) @@ ("boxFull" :> body["err"])
    BY <2>1 DEF ExtractErrorFlags, Has
  <2>3. k \in DOMAIN ("errorMsg" :> body["err"] % 2) \/ k \in DOMAIN ("boxFull" :> body["err"])
    BY <1>4 DEF :>
  <2>4. k \in DOMAIN ExtractErrorFlags(body)
    BY <2>2, <2>3, Within
  <2> QED BY <1>2, <2>4
<1>5. CASE k \in {"totalTime", "lightOn"}
  <2>1. k = "totalTime" => k \in DOMAIN Take(body, "runtime", "totalTime")
    BY <1>0, TakenIn DEF Source
  <2>2. k = "lightOn" => k \in DOMAIN ExtractPresenceFlags(body)
    BY <1>0 DEF Source, ExtractPresenceFlags, IsSnapshot, Has, :>
  <2>3. k \in DOMAIN ExtractShared(body)
    BY <1>5, <2>1, <2>2, Within DEF ExtractShared
  <2> QED BY <1>2, <2>3
<1>6. CASE k = "workingState"
  <2>1. \/ k \in DOMAIN Take(body, "workState", "workingState")
        \/ k \in DOMAIN Take(body, "work_state", "workingState")
        \/ k \in DOMAIN (IF IsSnapshot(body) THEN "workingState" :> WORK_MODE_IDLE ELSE <<>>)
    BY <1>0, <1>6, TakenIn, Single, ZenonT(60) DEF Source, IsSnapshot, Has
  <2>2. k \in DOMAIN PostedWorkMode(body)
    BY <2>1, Within DEF PostedWorkMode
  <2> QED BY <1>2, <2>2
\* The sensor block is read for each model that has one, and the fields of a feeder or a
\* fountain in either spelling.
<1>7. CASE k = "hall"
  <2>1. k \in DOMAIN ExtractSensorBlock(body) /\ model # "t4"
    BY <1>0, <1>1, <1>7, TakenIn DEF Source, ExtractSensorBlock, Fields, OfWork, Litter
  <2>2. model = "d4sh" => k \in DOMAIN ExtractFeederNextGen(model, body)
    BY <2>1, Within DEF ExtractFeederNextGen
  <2>3. model = "w7h" => k \in DOMAIN ExtractFountainW7h(model, body)
    BY <2>1, Within DEF ExtractFountainW7h
  <2> QED BY <1>2, <2>1, <2>2, <2>3
<1>8. CASE k = "flat"
  <2>1. field = "flatField" => k \in DOMAIN Take(body, "flatField", "flat")
    BY <1>8, TakenIn
  <2>2. field = "flat_field" => k \in DOMAIN ExtractCamel(body) /\ model \in {"d4sh", "w7h"}
    BY <1>0, <1>1, <1>8, TakenIn, Within DEF ExtractCamel, Fields, OfWork, Litter
  <2>3. k \in DOMAIN ExtractCamel(body) /\ model = "d4sh"
        => k \in DOMAIN ExtractFeederNextGen(model, body)
    BY Within DEF ExtractFeederNextGen
  <2>4. k \in DOMAIN ExtractCamel(body) /\ model = "w7h"
        => k \in DOMAIN ExtractFountainW7h(model, body)
    BY Within DEF ExtractFountainW7h
  <2>5. field \in {"flatField", "flat_field"}
    BY <1>0, <1>8 DEF Source
  <2> QED BY <1>2, <2>1, <2>2, <2>3, <2>4, <2>5
<1>9. CASE k = "lastDrink"
  <2>1. field = "drink" /\ now > 0
    BY <1>0, <1>9 DEF Source
  <2>2. body["drink"] = now /\ model = "w7h"
    BY <1>0, <1>1, <2>1 DEF IsBody, Fields, OfWork, Litter
  <2> DEFINE drunk == IF Has(body, "drink") /\ body["drink"] > 0 THEN "lastDrink" :> body["drink"]
                      ELSE <<>>
  <2>3. k \in DOMAIN drunk
    BY <1>0, <1>9, <2>1, <2>2, Single DEF Has
  <2>4. ExtractFountainW7h(model, body) = (ExtractCamel(body) @@ ExtractSensorBlock(body)) @@ drunk
    BY <2>2 DEF ExtractFountainW7h
  <2> HIDE DEF drunk
  <2>5. k \in DOMAIN ExtractFountainW7h(model, body)
    BY <2>3, <2>4, Within
  <2> QED BY <1>2, <2>5
<1> QED BY <1>3, <1>4, <1>5, <1>6, <1>7, <1>8, <1>9 DEF Keys

-----------------------------------------------------------------------------
(* What is held                                                            *)

Spoken(body) == {k \in Keys : Speaks(body, k)} \cup ({"sprayResetTime"} \cap DOMAIN body)
Value(k) == IF k = "sprayResetTime" THEN stamp ELSE Meaning(k, now)

LEMMA TrulyIsValue ==
  ASSUME NEW f, NEW body, Truly(f, body)
  PROVE  DOMAIN f \subseteq Spoken(body) /\ \A k \in DOMAIN f : f[k] = Value(k)
BY DEF Truly, Spoken, Value, Keys

\* A state in which the keys of a set hold what the device says now, and the others what they held.
Updates(state, keys) ==
  /\ DOMAIN state = keys \cup DOMAIN held
  /\ \A k \in keys : state[k] = Value(k)
  /\ \A k \in DOMAIN held \ keys : state[k] = held[k]

LEMMA HeldUpdates == Updates(held, {})
BY DEF Updates

LEMMA MoreUpdates ==
  ASSUME NEW state, NEW keys, Updates(state, keys), NEW f, \A k \in DOMAIN f : f[k] = Value(k)
  PROVE  Updates(f @@ state, keys \cup DOMAIN f)
<1>1. /\ DOMAIN (f @@ state) = DOMAIN f \cup DOMAIN state
      /\ \A k \in DOMAIN f : (f @@ state)[k] = f[k]
      /\ \A k \in DOMAIN state \ DOMAIN f : (f @@ state)[k] = state[k]
  BY Merge
<1> DEFINE longer == f @@ state
<1>2. /\ DOMAIN longer = DOMAIN f \cup DOMAIN state
      /\ \A k \in DOMAIN f : longer[k] = f[k]
      /\ \A k \in DOMAIN state \ DOMAIN f : longer[k] = state[k]
  BY <1>1
<1> HIDE DEF longer
<1>3. Updates(longer, keys \cup DOMAIN f)
  BY <1>2 DEF Updates
<1> QED BY <1>3 DEF longer

\* What the device said and what is held agree.
Mirror ==
  \A k \in Keys : IF said[k] = None THEN k \notin DOMAIN held \/ held[k] = None
                  ELSE k \in DOMAIN held /\ held[k] = Meaning(k, said[k])

StampInv ==
  /\ stamp \in 0..now /\ stamped \in 0..stamp
  /\ "sprayResetTime" \in DOMAIN held => held["sprayResetTime"] \in 0..(MaxNow + 1)
  /\ stamped # 0 => recorded >= stamped /\ (Reported(held) # 0 => Reported(held) >= stamped)

ReportInv == ReportTypeOK /\ Mirror /\ StampInv

LEMMA MirrorKept ==
  ASSUME Mirror, now \in Nat, NEW state, NEW keys, Updates(state, keys),
         said' = [k \in Keys |-> IF k \in keys THEN now ELSE said[k]],
         \A k \in Keys : /\ k \in DOMAIN held' <=> k \in DOMAIN state
                         /\ k \in DOMAIN state => held'[k] = state[k]
  PROVE  Mirror'
<1> SUFFICES ASSUME NEW k \in Keys
             PROVE  IF said'[k] = None THEN k \notin DOMAIN held' \/ held'[k] = None
                    ELSE k \in DOMAIN held' /\ held'[k] = Meaning(k, said'[k])
  BY DEF Mirror, Meaning
<1>1. CASE k \in keys
  <2>1. said'[k] = now /\ now # None
    BY <1>1 DEF None
  <2>2. k \in DOMAIN held' /\ held'[k] = Value(k)
    BY <1>1 DEF Updates
  <2>3. Value(k) = Meaning(k, now)
    BY DEF Value, Keys
  <2> QED BY <2>1, <2>2, <2>3
<1>2. CASE k \notin keys
  <2>1. said'[k] = said[k]
    BY <1>2
  <2>2. k \in DOMAIN held' <=> k \in DOMAIN held
    BY <1>2 DEF Updates
  <2>3. k \in DOMAIN held => held'[k] = held[k]
    BY <1>2 DEF Updates
  <2> QED BY <2>1, <2>2, <2>3 DEF Mirror
<1> QED BY <1>1, <1>2

LEMMA MeaningType ==
  ASSUME NEW k \in Keys, NEW v \in 0..MaxNow, MaxNow \in Nat PROVE Meaning(k, v) \in -1..MaxNow
<1>1. v % 2 \in {0, 1} /\ (v % 2 = 1 => v >= 1)
  OBVIOUS
<1> QED BY <1>1 DEF Meaning, WORK_MODE_IDLE

\* The device's own time of replacement wins, one recorded here stands in.
LEMMA Consumed ==
  ASSUME ReportInv, MaxNow \in Nat, NEW state, NEW keys, keys \subseteq Keys \cup {"sprayResetTime"},
         Updates(state, keys), NEW rec \in 0..(MaxNow + 1), stamped # 0 => rec >= stamped,
         ApplyConsumableState(state, rec), UNCHANGED <<model, now, stamp, drops, starts>>,
         said' = [k \in Keys |-> IF k \in keys THEN now ELSE said[k]],
         stamped' = IF "sprayResetTime" \in keys /\ stamp # 0 THEN stamp ELSE stamped,
         connected' \in BOOLEAN /\ link' \in BOOLEAN /\ shown' \in BOOLEAN
  PROVE  ReportInv'
<1> DEFINE N60 == "sprayResetTime"
           more == IF Reported(state) = 0 /\ rec # 0 THEN N60 :> rec ELSE <<>>
<1>0. /\ N60 \notin Keys /\ now \in 0..MaxNow /\ now \in Nat /\ stamp \in 0..now /\ stamped \in 0..stamp
      /\ recorded \in 0..(MaxNow + 1) /\ said \in [Keys -> {None} \cup 0..MaxNow]
      /\ DOMAIN held \subseteq Keys \cup {N60}
      /\ \A k \in DOMAIN held : held[k] \in -1..(MaxNow + 1)
      /\ N60 \in DOMAIN held => held[N60] \in 0..(MaxNow + 1)
      /\ stamped # 0 => recorded >= stamped /\ (Reported(held) # 0 => Reported(held) >= stamped)
  BY DEF ReportInv, ReportTypeOK, StampInv, Keys, WORK_MODE_IDLE
<1>1. held' = more @@ state /\ recorded' = IF Reported(state) # 0 THEN Reported(state) ELSE rec
  BY DEF ApplyConsumableState, RecordAfter
<1>2. DOMAIN more \subseteq {N60} /\ \A k \in DOMAIN more : more[k] = rec
  BY DEF :>
<1>3. more # <<>> \/ DOMAIN more = {}
  BY Nothing
<1>4. DOMAIN more = IF Reported(state) = 0 /\ rec # 0 THEN {N60} ELSE {}
  BY Nothing DEF :>
<1> HIDE DEF more
<1>5. /\ DOMAIN held' = DOMAIN more \cup DOMAIN state
      /\ \A k \in DOMAIN more : held'[k] = more[k]
      /\ \A k \in DOMAIN state \ DOMAIN more : held'[k] = state[k]
  <2>1. /\ DOMAIN (more @@ state) = DOMAIN more \cup DOMAIN state
        /\ \A k \in DOMAIN more : (more @@ state)[k] = more[k]
        /\ \A k \in DOMAIN state \ DOMAIN more : (more @@ state)[k] = state[k]
    BY Merge
  <2> QED BY <1>1, <2>1
<1>6. Mirror'
  <2>1. \A k \in Keys : /\ k \in DOMAIN held' <=> k \in DOMAIN state
                        /\ k \in DOMAIN state => held'[k] = state[k]
    BY <1>0, <1>2, <1>5
  <2> QED BY <1>0, <2>1, MirrorKept DEF ReportInv
<1>7. Reported(state) = IF N60 \in keys THEN stamp ELSE Reported(held)
  BY <1>0 DEF Reported, Updates, Value
<1>8. Reported(held) \in 0..(MaxNow + 1) /\ Reported(state) \in 0..(MaxNow + 1)
  BY <1>0, <1>7 DEF Reported
<1>9. Reported(held)' = IF Reported(state) = 0 THEN rec ELSE Reported(state)
  <2>1. CASE Reported(state) = 0 /\ rec # 0
    BY <2>1, <1>2, <1>4, <1>5 DEF Reported
  <2>2. CASE Reported(state) = 0 /\ rec = 0
    BY <2>2, <1>4, <1>5 DEF Reported
  <2>3. CASE Reported(state) # 0
    BY <2>3, <1>4, <1>5 DEF Reported
  <2> QED BY <2>1, <2>2, <2>3
<1>10. N60 \in DOMAIN held' => held'[N60] = Reported(held)'
  BY DEF Reported
<1>11. StampInv'
  <2>1. stamp' \in 0..now' /\ stamped' \in 0..stamp'
    BY <1>0
  <2>2. N60 \in DOMAIN held' => held'[N60] \in 0..(MaxNow + 1)
    BY <1>8, <1>9, <1>10
  <2>3. CASE N60 \in keys /\ stamp # 0
    <3>1. recorded' = stamp /\ Reported(held)' = stamp /\ stamped' = stamp
      BY <2>3, <1>0, <1>1, <1>7, <1>9
    <3> QED BY <1>0, <2>1, <2>2, <3>1 DEF StampInv
  <2>4. CASE N60 \in keys /\ stamp = 0
    <3>1. stamped' = 0
      BY <2>4, <1>0
    <3> QED BY <2>1, <2>2, <3>1 DEF StampInv
  <2>5. CASE N60 \notin keys
    <3>1. stamped' = stamped /\ Reported(state) = Reported(held)
      BY <2>5, <1>7
    <3>2. stamped' # 0 => recorded' >= stamped' /\ Reported(held)' >= stamped'
      BY <1>0, <1>1, <1>8, <1>9, <3>1
    <3> QED BY <2>1, <2>2, <3>2 DEF StampInv
  <2> QED BY <2>3, <2>4, <2>5
<1>12. ReportTypeOK'
  <2>1. DOMAIN held' \subseteq Keys \cup {N60}
    BY <1>0, <1>2, <1>5 DEF Updates
  <2>2. ASSUME NEW k \in DOMAIN held' PROVE held'[k] \in -1..(MaxNow + 1)
    <3>1. CASE k = N60
      BY <3>1, <1>11 DEF StampInv
    <3>2. CASE k # N60 /\ k \in keys
      <4>1. held'[k] = Meaning(k, now) /\ k \in Keys
        BY <3>2, <1>2, <1>5 DEF Updates, Value
      <4> QED BY <4>1, <1>0, MeaningType
    <3>3. CASE k # N60 /\ k \notin keys
      <4>1. k \in DOMAIN held /\ held'[k] = held[k]
        BY <3>3, <1>2, <1>5 DEF Updates
      <4> QED BY <4>1, <1>0
    <3> QED BY <3>1, <3>2, <3>3
  <2>3. recorded' \in 0..(MaxNow + 1) /\ stamped' \in 0..(MaxNow + 1)
    BY <1>0, <1>1, <1>8
  <2>4. said' \in [Keys -> {None} \cup 0..MaxNow]
    BY <1>0
  <2> QED BY <2>1, <2>2, <2>3, <2>4 DEF ReportTypeOK, WORK_MODE_IDLE, ReportInv
<1> QED BY <1>6, <1>11, <1>12 DEF ReportInv

-----------------------------------------------------------------------------
(* The bodies a device sends, and the handlers                              *)

LEMMA BodyIsBody ==
  ASSUME NEW fields, fields \subseteq Fields(model) \cup OfWork(model, "http") \cup OfWork(model, "property"),
         "litter" \in fields => "lightState" \in fields /\ {"workState", "work_state"} \cap fields # {}
  PROVE  IsBody(Body(fields))
<1> DEFINE kept == {x \in fields : x \in {"workState", "work_state", "lightState"} => AtWork}
           body == Body(fields)
<1>1. body = [f \in kept |-> IF f = "sprayResetTime" THEN stamp ELSE now]
  BY DEF Body
<1>2. DOMAIN body = kept
  BY <1>1
<1>3. body = [f \in DOMAIN body |-> IF f = "sprayResetTime" THEN stamp ELSE now]
  BY <1>1, <1>2
<1>4. DOMAIN body \subseteq Fields(model) \cup OfWork(model, "http") \cup OfWork(model, "property")
  BY <1>2
<1>5. {"workState", "work_state", "lightState"} \cap DOMAIN body # {} => AtWork
  BY <1>2
<1>6. "litter" \in DOMAIN body /\ AtWork =>
        "lightState" \in DOMAIN body /\ {"workState", "work_state"} \cap DOMAIN body # {}
  BY <1>2
<1> HIDE DEF body
<1>7. IsBody(body)
  BY <1>3, <1>4, <1>5, <1>6 DEF IsBody
<1> QED BY <1>7 DEF body

LEMMA BodiesAre ==
  ASSUME NEW transport \in {"http", "event", "property"}, NEW body \in Bodies(transport),
         model \in {"t4", "t5", "d4sh", "w7h"}
  PROVE  IsBody(body) /\ (transport # "property" => "wifi" \in DOMAIN body)
<1> DEFINE all == Fields(model) \cup OfWork(model, transport)
<1>1. OfWork(model, transport) \subseteq OfWork(model, "http") \cup OfWork(model, "property")
  BY DEF OfWork
<1>2. "litter" \in all =>
        "lightState" \in all /\ {"workState", "work_state"} \cap all # {}
  BY DEF Fields, OfWork, Litter
<1>3. "wifi" \in all
  BY DEF Fields
<1>4. \A fields : DOMAIN Body(fields)
                    = {x \in fields : x \in {"workState", "work_state", "lightState"} => AtWork}
  BY DEF Body
<1>5. \/ body = Body(all)
      \/ transport = "http" /\ body = Body(all \ {"other"})
      \/ transport = "property" /\ \E f \in {"err", "wifi", "work_state"} \cap all : body = Body({f})
  BY DEF Bodies
<1> HIDE DEF all
<1>6. all \subseteq Fields(model) \cup OfWork(model, "http") \cup OfWork(model, "property")
  BY <1>1 DEF all
<1>7. CASE body = Body(all)
  BY <1>2, <1>3, <1>4, <1>6, <1>7, BodyIsBody
<1>8. CASE transport = "http" /\ body = Body(all \ {"other"})
  <2>1. IsBody(Body(all \ {"other"}))
    BY <1>2, <1>6, BodyIsBody
  <2> QED BY <1>3, <1>4, <1>8, <2>1
<1>9. ASSUME transport = "property", NEW f \in {"err", "wifi", "work_state"} \cap all, body = Body({f})
      PROVE  IsBody(body)
  <2>1. IsBody(Body({f}))
    BY <1>6, BodyIsBody
  <2> QED BY <1>9, <2>1
<1> QED BY <1>5, <1>7, <1>8, <1>9

\* What both parsers make of a body is what the body says, and all of it.
LEMMA SnapshotParsed ==
  ASSUME NEW body, IsBody(body), now \in Nat, "wifi" \in DOMAIN body,
         model \in {"t4", "t5", "d4sh", "w7h"}
  PROVE  LET parsed == NormalizePropertyParams(model, body) @@ ParseStateReport(model, body) IN
         DOMAIN parsed = Spoken(body) /\ \A k \in DOMAIN parsed : parsed[k] = Value(k)
<1> DEFINE norm == NormalizePropertyParams(model, body)
           parse == ParseStateReport(model, body)
           parsed == norm @@ parse
<1>1. Truly(parsed, body)
  BY NormalizedIsTrue, ParsedIsTrue, MergeIsTrue
<1>2. DOMAIN parsed \subseteq Spoken(body) /\ \A k \in DOMAIN parsed : parsed[k] = Value(k)
  BY <1>1, TrulyIsValue
<1>3. ASSUME NEW k \in Keys, Speaks(body, k) PROVE k \in DOMAIN parsed
  <2>1. CASE k # "feedState"
    BY <1>3, <2>1, NormalizedIsAll, Within
  <2>2. CASE k = "feedState"
    <3>1. "feedState" \in DOMAIN body
      BY <1>3, <2>2 DEF Speaks, Source
    <3>2. model = "d4sh"
      BY <3>1 DEF IsBody, Fields, OfWork, Litter
    <3>3. k \in DOMAIN Take(body, "feedState", "feedState")
      BY <2>2, <3>1, TakenIn
    <3>4. k \in DOMAIN ParseFeeder(model, body)
      BY <3>3, Within DEF ParseFeeder
    <3> QED BY <3>2, <3>4, Within DEF ParseStateReport
  <2> QED BY <2>1, <2>2
<1>4. "sprayResetTime" \in DOMAIN body => "sprayResetTime" \in DOMAIN parsed
  <2>1. "sprayResetTime" \in DOMAIN body
        => "sprayResetTime" \in DOMAIN Take(body, "sprayResetTime", "sprayResetTime")
    BY TakenIn
  <2>2. "sprayResetTime" \in DOMAIN body => "sprayResetTime" \in DOMAIN norm
    BY <2>1, Within DEF NormalizePropertyParams
  <2> QED BY <2>2, Within
<1> QED BY <1>2, <1>3, <1>4 DEF Spoken

\* So does the one parser of a property post, with the fields that are read as they came.
LEMMA PropertyParsed ==
  ASSUME NEW body, IsBody(body), now \in Nat, model \in {"t4", "t5", "d4sh", "w7h"}
  PROVE  LET parsed == NormalizePropertyParams(model, body) @@ Raw(body) IN
         DOMAIN parsed = Spoken(body) /\ \A k \in DOMAIN parsed : parsed[k] = Value(k)
<1> DEFINE norm == NormalizePropertyParams(model, body)
           parsed == norm @@ Raw(body)
<1>1. Truly(parsed, body)
  BY NormalizedIsTrue, PlainAreTrue, MergeIsTrue
<1>2. DOMAIN parsed \subseteq Spoken(body) /\ \A k \in DOMAIN parsed : parsed[k] = Value(k)
  BY <1>1, TrulyIsValue
<1>3. ASSUME NEW k \in Keys, Speaks(body, k) PROVE k \in DOMAIN parsed
  <2>1. CASE k # "feedState"
    BY <1>3, <2>1, NormalizedIsAll, Within
  <2>2. CASE k = "feedState"
    <3>1. k \in DOMAIN Take(body, "feedState", "feedState")
      BY <1>3, <2>2, TakenIn DEF Speaks, Source
    <3>2. k \in DOMAIN Raw(body)
      BY <3>1, Within DEF Raw
    <3> QED BY <3>2, Within
  <2> QED BY <2>1, <2>2
<1>4. "sprayResetTime" \in DOMAIN body => "sprayResetTime" \in DOMAIN parsed
  <2>1. "sprayResetTime" \in DOMAIN body
        => "sprayResetTime" \in DOMAIN Take(body, "sprayResetTime", "sprayResetTime")
    BY TakenIn
  <2>2. "sprayResetTime" \in DOMAIN body => "sprayResetTime" \in DOMAIN Raw(body)
    BY <2>1, Within DEF Raw
  <2> QED BY <2>2, Within
<1> QED BY <1>2, <1>3, <1>4 DEF Spoken

LEMMA Published == ASSUME ReportTypeOK, PublishState
                   PROVE  connected' \in BOOLEAN /\ link' \in BOOLEAN /\ shown' \in BOOLEAN
BY DEF ReportTypeOK, PublishState

\* A report ends in the state it built, published.
LEMMA ReportTaken ==
  ASSUME ReportInv, MaxNow \in Nat, NEW state, NEW body, NEW more, more \subseteq Keys,
         Updates(state, Spoken(body) \cup more), Heard(body, more),
         ApplyConsumableState(state, recorded), PublishState
  PROVE  ReportInv'
<1> DEFINE keys == Spoken(body) \cup more
<1>1. keys \subseteq Keys \cup {"sprayResetTime"} /\ "sprayResetTime" \notin Keys
  BY DEF Spoken, Keys
<1>2. said' = [k \in Keys |-> IF k \in keys THEN now ELSE said[k]]
  BY <1>1 DEF Heard, Spoken
<1>3. stamped' = IF "sprayResetTime" \in keys /\ stamp # 0 THEN stamp ELSE stamped
  <2>1. "sprayResetTime" \in keys <=> "sprayResetTime" \in DOMAIN body
    BY <1>1 DEF Spoken
  <2> QED BY <2>1 DEF Heard, Has
<1>4. UNCHANGED <<model, now, stamp, drops, starts>>
  BY DEF Heard
<1>5. connected' \in BOOLEAN /\ link' \in BOOLEAN /\ shown' \in BOOLEAN
  BY Published DEF ReportInv
<1>6. recorded \in 0..(MaxNow + 1) /\ (stamped # 0 => recorded >= stamped)
  BY DEF ReportInv, ReportTypeOK, StampInv
<1> HIDE DEF keys
<1>7. Updates(state, keys)
  BY DEF keys
<1> QED BY <1>1, <1>2, <1>3, <1>4, <1>5, <1>6, <1>7, Consumed

LEMMA ModelIs == ASSUME ReportAssumption, ReportTypeOK
                 PROVE  model \in {"t4", "t5", "d4sh", "w7h"} /\ now \in Nat /\ MaxNow \in Nat
BY DEF ReportAssumption, ReportTypeOK

LEMMA StateReportTaken == ASSUME ReportAssumption, ReportInv, HandleStateReport PROVE ReportInv'
<1>1. model \in {"t4", "t5", "d4sh", "w7h"} /\ now \in Nat /\ MaxNow \in Nat
  BY ModelIs DEF ReportInv
<1>2. PICK body \in Bodies("http") :
        LET state == NormalizePropertyParams(model, body) @@ ParseStateReport(model, body) @@ held
            missing == "ip" \notin DOMAIN state IN
        /\ ApplyConsumableState((IF missing THEN "ip" :> now ELSE <<>>) @@ state, recorded)
        /\ Heard(body, IF missing THEN {"ip"} ELSE {})
        /\ PublishState
  BY DEF HandleStateReport
<1> DEFINE parsed == NormalizePropertyParams(model, body) @@ ParseStateReport(model, body)
           state == parsed @@ held
           missing == "ip" \notin DOMAIN state
           address == IF missing THEN "ip" :> now ELSE <<>>
           more == IF missing THEN {"ip"} ELSE {}
<1>3. IsBody(body) /\ "wifi" \in DOMAIN body
  BY <1>1, BodiesAre
<1>4. DOMAIN parsed = Spoken(body) /\ \A k \in DOMAIN parsed : parsed[k] = Value(k)
  BY <1>1, <1>3, SnapshotParsed
<1>5. DOMAIN address = more /\ \A k \in DOMAIN address : address[k] = Value(k)
  <2>1. DOMAIN ("ip" :> now) = {"ip"} /\ ("ip" :> now)["ip"] = now
    BY Single
  <2>2. Value("ip") = now
    BY DEF Value, Meaning
  <2> QED BY <2>1, <2>2, Nothing
<1>6. ApplyConsumableState(address @@ state, recorded) /\ Heard(body, more) /\ PublishState
  BY <1>2
<1>7. more \subseteq Keys
  BY DEF Keys
<1> HIDE DEF parsed, address, more, missing
<1>8. Updates(parsed @@ held, {} \cup DOMAIN parsed)
  BY <1>4, HeldUpdates, MoreUpdates
<1>9. Updates(state, Spoken(body))
  BY <1>4, <1>8
<1> HIDE DEF state
<1>10. Updates(address @@ state, Spoken(body) \cup more)
  BY <1>5, <1>9, MoreUpdates
<1> QED BY <1>1, <1>6, <1>7, <1>10, ReportTaken

LEMMA FaultSays ==
  ASSUME NEW opens \in BOOLEAN
  PROVE  DOMAIN Fault(opens) = (IF opens THEN {"errorMsg"} ELSE {})
         /\ \A k \in DOMAIN Fault(opens) : Fault(opens)[k] = Value(k)
<1>1. DOMAIN ("errorMsg" :> now % 2) = {"errorMsg"} /\ ("errorMsg" :> now % 2)["errorMsg"] = now % 2
  BY Single
<1>2. Value("errorMsg") = now % 2
  BY DEF Value, Meaning
<1> QED BY <1>1, <1>2, Nothing DEF Fault

LEMMA SnapshotTaken == ASSUME ReportAssumption, ReportInv, HandleSnapshot PROVE ReportInv'
<1>1. model \in {"t4", "t5", "d4sh", "w7h"} /\ now \in Nat /\ MaxNow \in Nat
  BY ModelIs DEF ReportInv
<1>2. PICK body \in Bodies("event"), fault \in BOOLEAN :
        LET state == NormalizePropertyParams(model, body) @@ ParseStateReport(model, body)
                       @@ Raw(body) @@ held IN
        /\ ApplyConsumableState(Fault(fault) @@ state, recorded)
        /\ Heard(body, IF fault THEN {"errorMsg"} ELSE {})
        /\ PublishState
  BY DEF HandleSnapshot
<1> DEFINE both == NormalizePropertyParams(model, body) @@ ParseStateReport(model, body)
           raw == Raw(body)
           parsed == both @@ raw
           state == parsed @@ held
           more == IF fault THEN {"errorMsg"} ELSE {}
<1>3. IsBody(body) /\ "wifi" \in DOMAIN body
  BY <1>1, BodiesAre
<1>4. DOMAIN both = Spoken(body) /\ \A k \in DOMAIN both : both[k] = Value(k)
  BY <1>1, <1>3, SnapshotParsed
<1>5. DOMAIN raw \subseteq Spoken(body) /\ \A k \in DOMAIN raw : raw[k] = Value(k)
  BY <1>3, PlainAreTrue, TrulyIsValue
<1>6. ApplyConsumableState(Fault(fault) @@ state, recorded) /\ Heard(body, more) /\ PublishState
  BY <1>2
<1>7. more \subseteq Keys
  BY DEF Keys
<1>8. DOMAIN Fault(fault) = more /\ \A k \in DOMAIN Fault(fault) : Fault(fault)[k] = Value(k)
  BY FaultSays
<1> HIDE DEF both, raw, more
<1>9. /\ DOMAIN (both @@ raw) = DOMAIN both \cup DOMAIN raw
      /\ \A k \in DOMAIN both : (both @@ raw)[k] = both[k]
      /\ \A k \in DOMAIN raw \ DOMAIN both : (both @@ raw)[k] = raw[k]
  BY Merge
<1>10. DOMAIN parsed = Spoken(body) /\ \A k \in DOMAIN parsed : parsed[k] = Value(k)
  BY <1>4, <1>5, <1>9
<1> HIDE DEF parsed
<1>11. Updates(parsed @@ held, {} \cup DOMAIN parsed)
  BY <1>10, HeldUpdates, MoreUpdates
<1>12. Updates(state, Spoken(body))
  BY <1>10, <1>11
<1> HIDE DEF state
<1>13. Updates(Fault(fault) @@ state, Spoken(body) \cup more)
  BY <1>8, <1>12, MoreUpdates
<1> QED BY <1>1, <1>6, <1>7, <1>13, ReportTaken

LEMMA PropertyTaken == ASSUME ReportAssumption, ReportInv, HandleProperty PROVE ReportInv'
<1>1. model \in {"t4", "t5", "d4sh", "w7h"} /\ now \in Nat /\ MaxNow \in Nat
  BY ModelIs DEF ReportInv
<1>2. PICK body \in Bodies("property") :
        /\ ApplyConsumableState(NormalizePropertyParams(model, body) @@ Raw(body) @@ held, recorded)
        /\ Heard(body, {}) /\ PublishState
  BY DEF HandleProperty
<1> DEFINE parsed == NormalizePropertyParams(model, body) @@ Raw(body)
           state == parsed @@ held
<1>3. IsBody(body)
  BY <1>1, BodiesAre
<1>4. DOMAIN parsed = Spoken(body) /\ \A k \in DOMAIN parsed : parsed[k] = Value(k)
  BY <1>1, <1>3, PropertyParsed
<1>5. ApplyConsumableState(state, recorded) /\ Heard(body, {}) /\ PublishState
  BY <1>2
<1> HIDE DEF parsed
<1>6. Updates(parsed @@ held, {} \cup DOMAIN parsed)
  BY <1>4, HeldUpdates, MoreUpdates
<1>7. Updates(state, Spoken(body) \cup {})
  BY <1>4, <1>6
<1> HIDE DEF state
<1> QED BY <1>1, <1>5, <1>7, ReportTaken

\* A fault says one thing and no more.
LEMMA FaultTaken == ASSUME ReportAssumption, ReportInv, HandleFault PROVE ReportInv'
<1> DEFINE keys == {"errorMsg"}
           N60 == "sprayResetTime"
<1>1. now \in Nat /\ MaxNow \in Nat /\ now \in 0..MaxNow
  BY ModelIs DEF ReportInv, ReportTypeOK
<1>2. held' = Fault(TRUE) @@ held /\ recorded' = recorded /\ Heard(<<>>, keys) /\ PublishState
  BY DEF HandleFault
<1>3. \A k \in Keys : ~Speaks(<<>>, k)
  BY Nothing DEF Speaks
<1>4. said' = [k \in Keys |-> IF k \in keys THEN now ELSE said[k]]
  BY <1>2, <1>3 DEF Heard
<1>5. stamped' = stamped /\ UNCHANGED <<model, now, stamp, drops, starts>>
  BY <1>2, Nothing DEF Heard, Has
<1>6. DOMAIN Fault(TRUE) = keys /\ \A k \in DOMAIN Fault(TRUE) : Fault(TRUE)[k] = Value(k)
  BY FaultSays
<1>7. Updates(Fault(TRUE) @@ held, {} \cup DOMAIN Fault(TRUE))
  BY <1>6, HeldUpdates, MoreUpdates
<1>8. Updates(held', keys)
  BY <1>2, <1>6, <1>7
<1>9. Mirror'
  BY <1>1, <1>4, <1>8, MirrorKept DEF ReportInv
<1>10. /\ DOMAIN held' = keys \cup DOMAIN held
       /\ held'["errorMsg"] = Value("errorMsg")
       /\ \A k \in DOMAIN held \ keys : held'[k] = held[k]
  BY <1>8 DEF Updates
<1>11. Reported(held)' = Reported(held) /\ (N60 \in DOMAIN held' => N60 \in DOMAIN held /\ held'[N60] = held[N60])
  BY <1>10 DEF Reported
<1>12. StampInv'
  BY <1>2, <1>5, <1>11 DEF StampInv, ReportInv
<1>13. Value("errorMsg") \in 0..1
  BY <1>1 DEF Value, Meaning
<1>14. \A k \in DOMAIN held' : held'[k] \in -1..(MaxNow + 1)
  BY <1>1, <1>10, <1>13 DEF ReportInv, ReportTypeOK, WORK_MODE_IDLE
<1>15. connected' \in BOOLEAN /\ link' \in BOOLEAN /\ shown' \in BOOLEAN
  BY <1>2, Published DEF ReportInv
<1>16. said' \in [Keys -> {None} \cup 0..MaxNow] /\ DOMAIN held' \subseteq Keys \cup {N60}
  BY <1>1, <1>4, <1>10 DEF ReportInv, ReportTypeOK, Keys
<1> QED BY <1>2, <1>5, <1>9, <1>12, <1>14, <1>15, <1>16 DEF ReportInv, ReportTypeOK, WORK_MODE_IDLE

LEMMA ResetTaken == ASSUME ReportAssumption, ReportInv, RecordConsumableReset PROVE ReportInv'
<1>1. now \in Nat /\ MaxNow \in Nat /\ now \in 0..MaxNow
  BY ModelIs DEF ReportInv, ReportTypeOK
<1>2. /\ ApplyConsumableState(held, now + 1) /\ PublishState
      /\ UNCHANGED <<model, now, stamp, said, stamped, drops, starts>>
  BY DEF RecordConsumableReset
<1>3. now + 1 \in 0..(MaxNow + 1) /\ (stamped # 0 => now + 1 >= stamped)
  BY <1>1 DEF ReportInv, StampInv
<1>4. said' = [k \in Keys |-> IF k \in {} THEN now ELSE said[k]]
  BY <1>2 DEF ReportInv, ReportTypeOK
<1>5. connected' \in BOOLEAN /\ link' \in BOOLEAN /\ shown' \in BOOLEAN
  BY <1>2, Published DEF ReportInv
<1>6. stamped' = IF "sprayResetTime" \in {} /\ stamp # 0 THEN stamp ELSE stamped
  BY <1>2
<1>7. {} \subseteq Keys \cup {"sprayResetTime"}
  OBVIOUS
<1>8. UNCHANGED <<model, now, stamp, drops, starts>>
  BY <1>2
<1> QED BY <1>1, <1>2, <1>3, <1>4, <1>5, <1>6, <1>7, <1>8, HeldUpdates, Consumed

\* The rest leaves what is held alone, or forgets it with what was said.
LEMMA OthersTaken ==
  ASSUME ReportAssumption, ReportInv,
         \/ HandleEvent \/ DeviceChanges \/ StartAgain \/ Break \/ NoticeBreak \/ StartPublisher
         \/ UNCHANGED reportVars
  PROVE  ReportInv'
<1>1. {MaxNow, MaxDrops, MaxStarts} \subseteq Nat
  BY DEF ReportAssumption
<1>2. CASE HandleEvent
  <2>1. connected' \in BOOLEAN /\ link' \in BOOLEAN /\ shown' \in BOOLEAN
    BY <1>2, Published DEF HandleEvent, ReportInv
  <2> QED BY <1>2, <2>1 DEF HandleEvent, ReportInv, ReportTypeOK, Mirror, StampInv, Reported
<1>3. CASE DeviceChanges
  <2>1. now' \in 0..MaxNow /\ now' = now + 1 /\ stamp' \in 0..now' /\ stamp' >= stamp
    BY <1>1, <1>3 DEF DeviceChanges, ReportInv, ReportTypeOK, StampInv
  <2>2. stamp' \in 0..(MaxNow + 1) /\ stamped' \in 0..stamp'
    BY <1>1, <1>3, <2>1 DEF DeviceChanges, ReportInv, ReportTypeOK, StampInv
  <2>3. UNCHANGED <<model, held, recorded, said, stamped, connected, link, shown, drops, starts>>
    BY <1>3 DEF DeviceChanges
  <2>4. ReportTypeOK'
    BY <2>1, <2>2, <2>3 DEF ReportInv, ReportTypeOK
  <2>5. Mirror'
    BY <2>3 DEF ReportInv, Mirror
  <2>6. StampInv'
    BY <2>1, <2>2, <2>3 DEF ReportInv, StampInv, Reported
  <2> QED BY <2>4, <2>5, <2>6 DEF ReportInv
<1>4. CASE StartAgain
  <2>1. held' = <<>> /\ said' = [k \in Keys |-> None] /\ starts' \in 0..MaxStarts
        /\ connected' = FALSE /\ link' = FALSE /\ shown' = FALSE
        /\ UNCHANGED <<model, now, stamp, recorded, stamped, drops>>
    BY <1>1, <1>4 DEF StartAgain, ReportInv, ReportTypeOK
  <2>2. DOMAIN held' = {}
    BY <2>1, Nothing
  <2>3. ReportTypeOK'
    BY <2>1, <2>2 DEF ReportInv, ReportTypeOK
  <2>4. Mirror'
    BY <2>1, <2>2 DEF Mirror
  <2>5. StampInv'
    BY <2>1, <2>2 DEF ReportInv, StampInv, Reported
  <2> QED BY <2>3, <2>4, <2>5 DEF ReportInv
<1>5. CASE Break
  <2>1. link' = FALSE /\ drops' \in 0..MaxDrops
    BY <1>1, <1>5 DEF Break, ReportInv, ReportTypeOK
  <2>2. UNCHANGED <<model, now, stamp, held, recorded, said, stamped, connected, shown, starts>>
    BY <1>5 DEF Break
  <2> QED BY <2>1, <2>2 DEF ReportInv, ReportTypeOK, Mirror, StampInv, Reported
<1>6. CASE NoticeBreak
  BY <1>6 DEF NoticeBreak, ReportInv, ReportTypeOK, Mirror, StampInv, Reported
<1>7. CASE StartPublisher
  BY <1>7 DEF StartPublisher, Reconnect, ReportInv, ReportTypeOK, Mirror, StampInv, Reported
<1>8. CASE UNCHANGED reportVars
  BY <1>8 DEF reportVars, ReportInv, ReportTypeOK, Mirror, StampInv, Reported
<1> QED BY <1>2, <1>3, <1>4, <1>5, <1>6, <1>7, <1>8

LEMMA ReportInitInv == ASSUME ReportAssumption, ReportInit PROVE ReportInv
<1>1. DOMAIN held = {} /\ \A k \in Keys : said[k] = None
  BY Nothing DEF ReportInit
<1>2. ReportTypeOK
  <2>1. {MaxNow, MaxDrops, MaxStarts} \subseteq Nat
    BY DEF ReportAssumption
  <2>2. connected \in BOOLEAN /\ link \in BOOLEAN /\ shown \in BOOLEAN
    BY DEF ReportInit
  <2>3. said \in [Keys -> {None} \cup 0..MaxNow]
    BY DEF ReportInit
  <2>4. /\ now \in 0..MaxNow /\ stamp \in 0..(MaxNow + 1)
        /\ recorded \in 0..(MaxNow + 1) /\ stamped \in 0..(MaxNow + 1)
        /\ drops \in 0..MaxDrops /\ starts \in 0..MaxStarts
    BY <2>1 DEF ReportInit
  <2> QED BY <1>1, <2>2, <2>3, <2>4 DEF ReportInit, ReportTypeOK
<1> QED BY <1>1, <1>2 DEF ReportInit, ReportInv, Mirror, StampInv, Reported, ReportAssumption

\* The variables of StateReport have their types, for every model and any length of run: every
\* value held is a reading, idle, unknown or a time (devices/state_parsers.py).
THEOREM ReportTypeCorrect == ASSUME ReportAssumption PROVE ReportSpec => []ReportTypeOK
<1>1. ReportInit => ReportInv
  BY ReportInitInv
<1>2. ReportInv /\ [ReportNext]_reportVars => ReportInv'
  BY StateReportTaken, SnapshotTaken, PropertyTaken, FaultTaken, ResetTaken, OthersTaken
  DEF ReportNext
<1>3. ReportInv => ReportTypeOK
  BY DEF ReportInv
<1> QED BY <1>1, <1>2, <1>3, PTL DEF ReportSpec

\* Every key holds what the device last said of it over whichever transport, and a box is never
\* told an older time of replacement than it reported (devices/state_parsers.py,
\* events/normalize.py, devices/consumables.py, devices/payloads.py).
THEOREM HeldAsReported == ASSUME ReportAssumption PROVE ReportSpec => []HeldIsReported
<1>1. ReportInit => ReportInv
  BY ReportInitInv
<1>2. ReportInv /\ [ReportNext]_reportVars => ReportInv'
  BY StateReportTaken, SnapshotTaken, PropertyTaken, FaultTaken, ResetTaken, OthersTaken
  DEF ReportNext
<1>3. ReportInv => HeldIsReported
  BY DEF ReportInv, Mirror, StampInv, HeldIsReported, DeviceInfoStamp
<1> QED BY <1>1, <1>2, <1>3, PTL DEF ReportSpec
=============================================================================
