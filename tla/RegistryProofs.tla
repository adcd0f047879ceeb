--------------------------- MODULE RegistryProofs ---------------------------
(***************************************************************************)
(* What TLC checks of the registry on two devices holds for any set of ids *)
(* and any bounds.  The three safety properties follow from one inductive  *)
(* invariant: it says where a writer thread can be in each phase of the    *)
(* process, that without a race every thread carries the credentials of    *)
(* the registry, and what each state of the flusher says about the file    *)
(* when nothing is marked dirty.                                           *)
(***************************************************************************)
EXTENDS Registry, TLAPS

\* Threads run only while the process does, and in "up" only the flusher's.
PhaseInv ==
  /\ phase \in {"down", "up", "exited"} => orphans = {}
  /\ phase \in {"down", "joining", "exited"} => flusher = "none"
  /\ phase = "up" => flusher # "none"

\* Whatever a thread still writes has the credentials of the registry.
CredInv ==
  /\ IdentityDurable
  /\ ~raced /\ flusher = "writing" => Creds(text) = Creds(mem)
  /\ ~raced => \A o \in orphans : Creds(o.text) = Creds(mem)

\* When nothing is dirty, what is written or being written is the registry.
CleanInv ==
  phase = "up" /\ ~raced /\ ~dirty =>
    /\ flusher \in {"idle", "wrote"} => disk = mem
    /\ flusher = "writing" => text = mem

IInv == TypeOK /\ PhaseInv /\ CredInv /\ CleanInv

-----------------------------------------------------------------------------
(* Lemmas about snapshots                                                  *)

\* A change that leaves the credentials of device i alone leaves those of
\* the whole registry alone.
LEMMA SameCreds ==
  ASSUME NEW s \in Snapshot, NEW i \in Ids, NEW d \in Device, d.cred = s[i].cred
  PROVE  Creds([s EXCEPT ![i] = d]) = Creds(s)
BY DEF Creds, Snapshot, Device

LEMMA UpdateIsSnapshot ==
  ASSUME NEW s \in Snapshot, NEW i \in Ids, NEW d \in Device
  PROVE  [s EXCEPT ![i] = d] \in Snapshot
BY DEF Snapshot

LEMMA EmptyIsSnapshot == Empty \in Snapshot
BY DEF Empty, Snapshot, NoDevice, Device

\* save() of the registry m, called when mem becomes m.
LEMMA SaveKeeps ==
  ASSUME NEW m \in Snapshot, IInv, phase = "up", Save(m), mem' = m,
         UNCHANGED <<phase, flusher, text, orphans>>
  PROVE  /\ disk' \in Snapshot /\ dirty' \in BOOLEAN /\ fails' \in Nat
         /\ raced' \in BOOLEAN /\ saveFailed' \in BOOLEAN
         /\ PhaseInv' /\ CredInv' /\ CleanInv'
<1> USE DEF IInv, TypeOK
<1>1. CASE disk' = m /\ dirty' = FALSE /\ raced' = ThreadRunning
           /\ saveFailed' = FALSE /\ UNCHANGED fails
  BY <1>1 DEF PhaseInv, CredInv, CleanInv, IdentityDurable, ThreadRunning
<1>2. CASE fails' = fails + 1 /\ dirty' = TRUE /\ raced' = (raced \/ ThreadRunning)
           /\ saveFailed' = TRUE /\ UNCHANGED disk
  <2>1. disk' \in Snapshot /\ dirty' \in BOOLEAN /\ fails' \in Nat
        /\ saveFailed' \in BOOLEAN
    BY <1>2
  <2>2. raced' \in BOOLEAN
    BY <1>2 DEF ThreadRunning
  <2>3. ~raced' => flusher' # "writing" /\ orphans' = {}
    BY <1>2 DEF ThreadRunning
  <2>4. PhaseInv' /\ CleanInv'
    BY <1>2 DEF PhaseInv, CleanInv
  <2>5. CredInv'
    BY <1>2, <2>3 DEF CredInv, IdentityDurable
  <2> QED BY <2>1, <2>2, <2>4, <2>5
<1> QED BY <1>1, <1>2 DEF Save

\* Cancelling the flusher, from stop() or when the loop closes.
LEMMA CancelKeeps ==
  ASSUME IInv, NEW by \in {"stop", "close"}, CancelFlusher(by),
         phase \in {"up", "stopping"}, phase' \in {"stopping", "joining"}
  PROVE  IInv'
<1> USE DEF IInv, TypeOK
<1>1. /\ flusher' = "none" /\ UNCHANGED <<mem, text, minted>>
      /\ orphans' \subseteq orphans \cup {[by |-> by, text |-> text]}
      /\ flusher # "writing" => orphans' = orphans
  BY DEF CancelFlusher
<1>2. orphans' \subseteq [by : {"stop", "close"}, text : Snapshot]
  BY <1>1
<1>3. ~raced => \A o \in orphans' : Creds(o.text) = Creds(mem)
  BY <1>1 DEF CredInv
<1>4. /\ disk' \in Snapshot /\ dirty' \in BOOLEAN /\ fails' \in Nat
      /\ saveFailed' \in BOOLEAN /\ raced' \in BOOLEAN
      /\ IdentityDurable'
      /\ ~raced' => \A o \in orphans' : Creds(o.text) = Creds(mem)
  <2>1. CASE ~dirty
    BY <1>1, <1>3, <2>1 DEF CancelFlusher, CredInv, IdentityDurable
  <2>2. CASE dirty
    <3>1. Save(mem)
      BY <2>2 DEF CancelFlusher
    <3>2. ThreadRunning \in BOOLEAN
      BY DEF ThreadRunning
    <3>3. CASE disk' = mem /\ dirty' = FALSE /\ raced' = ThreadRunning
               /\ saveFailed' = FALSE /\ UNCHANGED fails
      <4>1. ~raced' => orphans' = {}
        BY <3>3, <1>1 DEF ThreadRunning
      <4> QED BY <1>1, <3>2, <3>3, <4>1 DEF IdentityDurable
    <3>4. CASE fails' = fails + 1 /\ dirty' = TRUE
               /\ raced' = (raced \/ ThreadRunning)
               /\ saveFailed' = TRUE /\ UNCHANGED disk
      <4>1. ~raced' => orphans' = {}
        BY <3>4, <1>1 DEF ThreadRunning
      <4>2. raced' \in BOOLEAN
        BY <3>2, <3>4
      <4> QED BY <1>1, <3>4, <4>1, <4>2 DEF IdentityDurable
    <3> QED BY <3>1, <3>3, <3>4 DEF Save
  <2> QED BY <2>1, <2>2
<1>5. TypeOK'
  BY <1>1, <1>2, <1>4
<1>6. PhaseInv' /\ CleanInv'
  BY <1>1 DEF PhaseInv, CleanInv
<1>7. CredInv'
  BY <1>1, <1>4 DEF CredInv
<1> QED BY <1>5, <1>6, <1>7

\* os.replace by a thread, whichever thread it is.
LEMMA ReplaceKeeps ==
  ASSUME IInv, NEW t \in Snapshot, NEW others \in BOOLEAN, Replace(t, others),
         UNCHANGED <<phase, mem>>, ~raced => Creds(t) = Creds(mem)
  PROVE  /\ disk' \in Snapshot /\ raced' \in BOOLEAN /\ saveFailed' \in BOOLEAN
         /\ IdentityDurable'
         /\ ~raced' /\ raced => t = mem /\ ~others
<1>1. disk' = t /\ saveFailed' = FALSE /\ raced' = (raced /\ ~(t = mem /\ ~others))
  BY DEF Replace
<1>2. raced \in BOOLEAN
  BY DEF IInv, TypeOK
<1>3. raced' \in BOOLEAN /\ (~raced' /\ raced => t = mem /\ ~others)
  BY <1>1, <1>2
<1>4. ~raced' => Creds(disk') = Creds(mem')
  BY <1>1, <1>3
<1> QED BY <1>1, <1>3, <1>4 DEF IdentityDurable

-----------------------------------------------------------------------------
(* The inductive invariant                                                 *)

LEMMA InitInv == Init => IInv
<1> SUFFICES ASSUME Init PROVE IInv
  OBVIOUS
<1>1. TypeOK
  BY EmptyIsSnapshot DEF Init, TypeOK
<1>2. PhaseInv /\ CredInv /\ CleanInv
  BY DEF Init, PhaseInv, CredInv, CleanInv, IdentityDurable
<1> QED BY <1>1, <1>2 DEF IInv

LEMMA RegisterKeeps == ASSUME IInv, NEW i \in Ids, Register(i) PROVE IInv'
<1> USE DEF IInv, TypeOK
<1>1. PICK s \in BOOLEAN :
        mem' = [mem EXCEPT ![i] = [cred |-> minted + 1, serial |-> s, ver |-> 0]]
  BY DEF Register
<1>2. mem' \in Snapshot
  <2>1. [cred |-> minted + 1, serial |-> s, ver |-> 0] \in Device
    BY DEF Device
  <2> QED BY <1>1, <2>1, UpdateIsSnapshot
<1>3. Save(mem') /\ phase = "up" /\ minted' \in Nat
      /\ UNCHANGED <<phase, flusher, text, orphans>>
  BY DEF Register
<1> QED BY <1>2, <1>3, SaveKeeps

LEMMA RefreshKeeps == ASSUME IInv, NEW i \in Ids, Refresh(i) PROVE IInv'
<1> USE DEF IInv, TypeOK
<1>1. PICK d \in Device : mem' = [mem EXCEPT ![i] = d] /\ d.cred = mem[i].cred
  <2>1. mem[i] \in Device
    BY DEF Snapshot
  <2>2. CASE mem' = [mem EXCEPT ![i].serial = TRUE]
    <3>1. [mem[i] EXCEPT !.serial = TRUE] \in Device
          /\ [mem[i] EXCEPT !.serial = TRUE].cred = mem[i].cred
      BY <2>1 DEF Device
    <3> QED BY <2>2, <3>1
  <2>3. CASE mem' = [mem EXCEPT ![i].ver = @ + 1]
    <3>1. [mem[i] EXCEPT !.ver = @ + 1] \in Device
          /\ [mem[i] EXCEPT !.ver = @ + 1].cred = mem[i].cred
      BY <2>1 DEF Device
    <3> QED BY <2>3, <3>1
  <2> QED BY <2>2, <2>3 DEF Refresh
<1>2. mem' \in Snapshot /\ Creds(mem') = Creds(mem)
  BY <1>1, UpdateIsSnapshot, SameCreds
<1>3. /\ dirty' = TRUE /\ flusher' = IF flusher = "none" THEN "idle" ELSE flusher
      /\ phase \in {"up", "stopping"}
      /\ UNCHANGED <<phase, disk, text, orphans, minted, fails, raced, saveFailed>>
  BY DEF Refresh, MarkDirty
<1>4. TypeOK' /\ PhaseInv' /\ CleanInv'
  BY <1>2, <1>3 DEF PhaseInv, CleanInv
<1>5. CredInv'
  BY <1>2, <1>3 DEF CredInv, IdentityDurable
<1> QED BY <1>4, <1>5

LEMMA ConfigureKeeps == ASSUME IInv, NEW i \in Ids, Configure(i) PROVE IInv'
<1> USE DEF IInv, TypeOK
<1>1. mem' \in Snapshot
  <2>1. mem[i] \in Device
    BY DEF Snapshot
  <2>2. [mem[i] EXCEPT !.ver = @ + 1] \in Device
    BY <2>1 DEF Device
  <2>3. mem' = [mem EXCEPT ![i] = [mem[i] EXCEPT !.ver = @ + 1]]
    BY DEF Configure
  <2> QED BY <2>2, <2>3, UpdateIsSnapshot
<1> QED BY <1>1, SaveKeeps DEF Configure

LEMMA RemoveKeeps == ASSUME IInv, NEW i \in Ids, Remove(i) PROVE IInv'
<1> USE DEF IInv, TypeOK
<1>1. mem' \in Snapshot
  BY UpdateIsSnapshot DEF Remove, NoDevice, Device
<1> QED BY <1>1, SaveKeeps DEF Remove

LEMMA ThreadReplacesKeeps == ASSUME IInv, ThreadReplaces PROVE IInv'
<1> USE DEF IInv, TypeOK
<1>1. /\ flusher = "writing" /\ flusher' = "wrote" /\ disk' = text
      /\ Replace(text, orphans # {})
      /\ UNCHANGED <<phase, mem, dirty, text, orphans, minted, fails>>
  BY DEF ThreadReplaces, Replace
<1>2. /\ disk' \in Snapshot /\ raced' \in BOOLEAN /\ saveFailed' \in BOOLEAN
      /\ IdentityDurable'
      /\ ~raced' /\ raced => text = mem /\ orphans = {}
  BY <1>1, ReplaceKeeps DEF CredInv
<1>3. TypeOK' /\ PhaseInv'
  BY <1>1, <1>2 DEF PhaseInv
<1>4. CredInv'
  BY <1>1, <1>2 DEF CredInv
<1>5. CleanInv'
  BY <1>1, <1>2 DEF CleanInv
<1> QED BY <1>3, <1>4, <1>5

LEMMA OrphanReplacesKeeps == ASSUME IInv, OrphanReplaces PROVE IInv'
<1> USE DEF IInv, TypeOK
<1>1. PICK o \in orphans :
        /\ orphans' = orphans \ {o}
        /\ Replace(o.text, flusher = "writing" \/ orphans # {o})
        /\ UNCHANGED <<phase, mem, dirty, flusher, text, minted, fails>>
  BY DEF OrphanReplaces
<1>2. /\ disk' \in Snapshot /\ raced' \in BOOLEAN /\ saveFailed' \in BOOLEAN
      /\ IdentityDurable'
      /\ ~raced' /\ raced => ~(flusher = "writing" \/ orphans # {o})
  BY <1>1, ReplaceKeeps DEF CredInv
<1>3. phase # "up"
  BY <1>1 DEF PhaseInv
<1>4. TypeOK' /\ PhaseInv' /\ CleanInv'
  BY <1>1, <1>2, <1>3 DEF PhaseInv, CleanInv
<1>5. CredInv'
  BY <1>1, <1>2 DEF CredInv
<1> QED BY <1>4, <1>5

LEMMA FlushKeeps ==
  ASSUME IInv, FlushBegin \/ ThreadFails \/ FlushEnd \/ OrphanFails
  PROVE  IInv'
<1> USE DEF IInv, TypeOK
<1>1. CASE FlushBegin
  <2>1. /\ text' = mem /\ dirty' = FALSE /\ flusher' = "writing" /\ flusher = "idle"
        /\ raced' = (raced \/ orphans # {})
        /\ UNCHANGED <<phase, mem, disk, orphans, minted, fails, saveFailed>>
    BY <1>1 DEF FlushBegin
  <2>2. raced' \in BOOLEAN /\ (~raced' => ~raced /\ orphans = {})
    BY <2>1
  <2>3. TypeOK' /\ PhaseInv'
    BY <2>1, <2>2 DEF PhaseInv
  <2> QED BY <2>1, <2>2, <2>3 DEF CredInv, CleanInv, IdentityDurable
<1>2. CASE ThreadFails
  BY <1>2 DEF ThreadFails, PhaseInv, CredInv, CleanInv, IdentityDurable
<1>3. CASE FlushEnd
  <2>1. dirty' \in BOOLEAN /\ (~dirty' => ~dirty /\ flusher = "wrote")
    BY <1>3 DEF FlushEnd
  <2> QED BY <1>3, <2>1 DEF FlushEnd, PhaseInv, CredInv, CleanInv, IdentityDurable
<1>4. CASE OrphanFails
  BY <1>4 DEF OrphanFails, PhaseInv, CredInv, CleanInv, IdentityDurable
<1> QED BY <1>1, <1>2, <1>3, <1>4

LEMMA LifecycleKeeps ==
  ASSUME IInv, Boot \/ Stop \/ LoopClose \/ Exit \/ Crash
  PROVE  IInv'
<1> USE DEF IInv, TypeOK
<1>1. CASE Boot
  BY <1>1 DEF Boot, PhaseInv, CredInv, CleanInv, IdentityDurable
<1>2. CASE Stop
  BY <1>2, CancelKeeps DEF Stop
<1>3. CASE LoopClose
  <2>1. CASE flusher # "none"
    BY <1>3, <2>1, CancelKeeps DEF LoopClose
  <2>2. CASE flusher = "none"
    BY <1>3, <2>2 DEF LoopClose, PhaseInv, CredInv, CleanInv, IdentityDurable
  <2> QED BY <2>1, <2>2
<1>4. CASE Exit
  BY <1>4 DEF Exit, PhaseInv, CredInv, CleanInv, IdentityDurable
<1>5. CASE Crash
  BY <1>5, EmptyIsSnapshot DEF Crash, PhaseInv, CredInv, CleanInv, IdentityDurable
<1> QED BY <1>1, <1>2, <1>3, <1>4, <1>5

LEMMA NextKeeps == IInv /\ [Next]_vars => IInv'
<1> SUFFICES ASSUME IInv, [Next]_vars PROVE IInv'
  OBVIOUS
<1>1. CASE UNCHANGED vars
  BY <1>1 DEF vars, IInv, TypeOK, PhaseInv, CredInv, CleanInv, IdentityDurable,
              ThreadRunning
<1>2. CASE Next
  BY <1>2, RegisterKeeps, RefreshKeeps, ConfigureKeeps, RemoveKeeps, FlushKeeps,
     ThreadReplacesKeeps, OrphanReplacesKeeps, LifecycleKeeps
     DEF Next
<1> QED BY <1>1, <1>2

-----------------------------------------------------------------------------
(* Theorems                                                                *)

LEMMA Inductive == Spec => []IInv
BY InitInv, NextKeeps, PTL DEF Spec

\* Every variable of the registry keeps its type, whatever the ids and bounds.
THEOREM TypeCorrect == Spec => []TypeOK
<1>1. IInv => TypeOK
  BY DEF IInv
<1> QED BY Inductive, <1>1, PTL

\* Without a race and without a failed save(), a kill at any moment leaves
\* every signed-up device its credentials on disk and no removed device.
THEOREM SignupIsDurable == Spec => []IdentityDurable
<1>1. IInv => IdentityDurable
  BY DEF IInv, CredInv
<1> QED BY Inductive, <1>1, PTL

\* Without a race, a clean registry with an idle flusher is the file: no
\* order of changes, flushes and failed writes loses a change silently.
THEOREM CleanIsDurable == Spec => []CleanMeansDurable
<1>1. IInv => CleanMeansDurable
  BY DEF IInv, CleanInv, CleanMeansDurable
<1> QED BY Inductive, <1>1, PTL
-----------------------------------------------------------------------------
(* The registry implements the book of credentials.                        *)

\* A snapshot's credentials after one device of it changed.
LEMMA CredsOfUpdate ==
  ASSUME NEW s \in Snapshot, NEW i \in Ids, NEW d \in Device
  PROVE  Creds([s EXCEPT ![i] = d]) = [Creds(s) EXCEPT ![i] = d.cred]
BY DEF Creds, Snapshot

LEMMA CredsAreBook == ASSUME NEW s \in Snapshot PROVE Creds(s) \in [Ids -> Nat]
BY DEF Creds, Snapshot, Device

\* Whether a restart is excused is a truth value, before and after a step.
LEMMA ExcusedIsBoolean ==
  ASSUME IInv, IInv' PROVE (raced \/ saveFailed) \in BOOLEAN /\ (raced \/ saveFailed)' \in BOOLEAN
BY DEF IInv, TypeOK

LEMMA BookBegins == Init => Book!Init
<1> SUFFICES ASSUME Init PROVE Book!Init
  OBVIOUS
<1>1. Recognised = [i \in Ids |-> 0]
  BY DEF Init, Recognised, Creds, Empty, NoDevice
<1>2. (raced \/ saveFailed) \in BOOLEAN
  BY DEF Init
<1> QED BY <1>1, <1>2 DEF Book!Init

\* A sign-up enters one new device in the book.
LEMMA RegisterSignsUp == ASSUME IInv, NEW i \in Ids, Register(i) PROVE Book!SignUp(i)
<1>1. mem \in Snapshot /\ minted \in Nat
  BY DEF IInv, TypeOK
<1>2. PICK s \in BOOLEAN :
        mem' = [mem EXCEPT ![i] = [cred |-> minted + 1, serial |-> s, ver |-> 0]]
  BY DEF Register
<1>3. [cred |-> minted + 1, serial |-> s, ver |-> 0] \in Device
  BY <1>1 DEF Device
<1>4. Creds(mem') = [Creds(mem) EXCEPT ![i] = minted + 1]
  BY <1>1, <1>2, <1>3, CredsOfUpdate, ZenonT(60)
<1>5. Recognised = Creds(mem) /\ Recognised' = Creds(mem')
  BY DEF Register, Recognised
<1>6. Creds(mem)[i] = 0
  BY DEF Register, Known, Creds
<1>7. Creds(mem) \in [Ids -> Nat]
  BY <1>1, CredsAreBook
<1> QED BY <1>1, <1>4, <1>5, <1>6, <1>7 DEF Book!SignUp

LEMMA RemoveRemoves == ASSUME IInv, NEW i \in Ids, Remove(i) PROVE Book!Remove(i)
<1>1. mem \in Snapshot
  BY DEF IInv, TypeOK
<1>2. NoDevice \in Device /\ NoDevice.cred = 0
  BY DEF NoDevice, Device
<1>3. Creds(mem') = [Creds(mem) EXCEPT ![i] = 0]
  BY <1>1, <1>2, CredsOfUpdate DEF Remove
<1>4. Recognised = Creds(mem) /\ Recognised' = Creds(mem')
  BY DEF Remove, Recognised
<1>5. Creds(mem)[i] # 0
  BY DEF Remove, Known, Creds
<1> QED BY <1>3, <1>4, <1>5 DEF Book!Remove

\* A change of a device's settings is no entry of the book.
LEMMA SettingsDoNotShow ==
  ASSUME IInv, NEW i \in Ids, Refresh(i) \/ Configure(i) PROVE Recognised' = Recognised
<1>1. mem \in Snapshot /\ mem[i] \in Device
  BY DEF IInv, TypeOK, Snapshot
<1>2. PICK d \in Device : mem' = [mem EXCEPT ![i] = d] /\ d.cred = mem[i].cred
  <2>1. CASE mem' = [mem EXCEPT ![i].serial = TRUE]
    <3>1. [mem[i] EXCEPT !.serial = TRUE] \in Device
          /\ [mem[i] EXCEPT !.serial = TRUE].cred = mem[i].cred
      BY <1>1 DEF Device
    <3> QED BY <2>1, <3>1
  <2>2. CASE mem' = [mem EXCEPT ![i].ver = @ + 1]
    <3>1. [mem[i] EXCEPT !.ver = @ + 1] \in Device
          /\ [mem[i] EXCEPT !.ver = @ + 1].cred = mem[i].cred
      BY <1>1 DEF Device
    <3> QED BY <2>2, <3>1
  <2> QED BY <2>1, <2>2 DEF Refresh, Configure
<1>3. Creds(mem') = Creds(mem)
  BY <1>1, <1>2, SameCreds
<1>4. phase # "down" /\ phase' = phase
  BY DEF Refresh, Configure
<1> QED BY <1>3, <1>4 DEF Recognised

\* Nor is a flush, whoever writes: nothing writes the file of a process that was killed.
LEMMA WritesDoNotShow ==
  ASSUME IInv, FlushBegin \/ ThreadReplaces \/ ThreadFails \/ FlushEnd
               \/ OrphanReplaces \/ OrphanFails \/ Stop \/ LoopClose \/ Exit
  PROVE  Recognised' = Recognised
<1>1. mem' = mem
  BY DEF FlushBegin, ThreadReplaces, ThreadFails, FlushEnd, OrphanReplaces, OrphanFails,
         Stop, LoopClose, Exit, CancelFlusher
<1>2. phase # "down" /\ phase' # "down"
  BY DEF FlushBegin, ThreadReplaces, ThreadFails, FlushEnd, OrphanReplaces, OrphanFails,
         Stop, LoopClose, Exit, IInv, PhaseInv
<1> QED BY <1>1, <1>2 DEF Recognised

\* A kill or a start reads the file in place of memory: without an excuse they agree.
LEMMA RestartsAreExcused ==
  ASSUME IInv, Boot \/ Crash PROVE Recognised' = Recognised \/ Book!Relapse
<1>1. mem \in Snapshot /\ disk \in Snapshot /\ disk' = disk
  BY DEF IInv, TypeOK, Boot, Crash
<1>2. Recognised' = Creds(disk)
  BY <1>1 DEF Boot, Crash, Recognised
<1>3. CASE phase = "down" \/ ~(raced \/ saveFailed)
  BY <1>2, <1>3 DEF Recognised, IInv, CredInv, IdentityDurable
<1>4. CASE raced \/ saveFailed
  BY <1>1, <1>2, <1>4, CredsAreBook DEF Book!Relapse
<1> QED BY <1>3, <1>4

LEMMA StepsKeepTheBook ==
  IInv /\ IInv' /\ [Next]_vars => [Book!Next]_<<Recognised, raced \/ saveFailed>>
<1> SUFFICES ASSUME IInv, IInv', [Next]_vars
             PROVE  [Book!Next]_<<Recognised, raced \/ saveFailed>>
  OBVIOUS
<1>1. (raced \/ saveFailed)' \in BOOLEAN
  BY ExcusedIsBoolean
<1>2. CASE Recognised' = Recognised
  BY <1>1, <1>2 DEF Book!Next
<1>3. ASSUME NEW i \in Ids, Register(i) PROVE Book!Next
  BY <1>1, <1>3, RegisterSignsUp DEF Book!Next
<1>4. ASSUME NEW i \in Ids, Remove(i) PROVE Book!Next
  BY <1>1, <1>4, RemoveRemoves DEF Book!Next
<1>5. CASE Book!Relapse
  BY <1>1, <1>5 DEF Book!Next
<1>6. CASE UNCHANGED vars
  BY <1>6, <1>2 DEF vars, Recognised, Creds
<1> QED BY <1>2, <1>3, <1>4, <1>5, <1>6, SettingsDoNotShow, WritesDoNotShow,
           RestartsAreExcused DEF Next

\* The registry implements the book: what a device is recognised by changes when it signs
\* up and when it is removed, and no restart, kill, flush or failed flush changes it,
\* unless a thread ran across a save() or a save() failed (registry.py 112-114, 341-344).
THEOREM ImplementsBook == Spec => BookSpec
BY Inductive, BookBegins, StepsKeepTheBook, PTL DEF Spec, BookSpec, Book!Spec
=============================================================================
