------------------------------ MODULE Registry ------------------------------
(***************************************************************************)
(* devices/registry.py: the JSON-backed device registry and its debounced  *)
(* writer.  Everything the registry does runs on one event loop, with one  *)
(* exception: the body of flush() that encoded text and handed it to a     *)
(* worker thread.  That thread replaces devices.json whenever it gets      *)
(* there, whatever the loop has written in the meantime.                   *)
(*                                                                         *)
(* A device is reduced to what the file must not lose: the credentials     *)
(* minted for it (cred, 0 when the id is unknown), whether its serial      *)
(* number is known (its MQTT name is derived from the serial when there is *)
(* one and from the id otherwise), and the version of everything else.     *)
(***************************************************************************)
EXTENDS Naturals

CONSTANTS
  Ids,        \* the PetKit ids that may sign up
  MaxCred,    \* how many credentials may be minted
  MaxVer,     \* how often the settings of a device may change
  MaxFail     \* how many writes of the file may fail

ASSUME BoundsAssumption ==
  MaxCred \in Nat /\ MaxVer \in Nat /\ MaxFail \in Nat

VARIABLES
  phase,      \* of the process: up, stopping, joining its threads, or gone
  mem,        \* DeviceRegistry._devices
  disk,       \* devices.json
  dirty,      \* PersistedRegistry._dirty
  flusher,    \* _flush_task, and the outcome of the write it awaits
  text,       \* what the flusher gave to its worker thread
  orphans,    \* worker threads whose flusher was cancelled
  minted,     \* how many credentials were minted
  fails,      \* how many writes failed
  raced,      \* history: a worker thread may have undone, or undo, a save()
  saveFailed  \* history: a save() failed and nothing was written since

vars == <<phase, mem, disk, dirty, flusher, text, orphans, minted, fails,
          raced, saveFailed>>

-----------------------------------------------------------------------------
Device == [cred : Nat, serial : BOOLEAN, ver : Nat]
NoDevice == [cred |-> 0, serial |-> FALSE, ver |-> 0]
Snapshot == [Ids -> Device]
Known(s, i) == s[i].cred # 0

\* The credentials of every device in a snapshot: what a device needs to
\* come back and be recognised.
Creds(s) == [i \in Ids |-> s[i].cred]

\* A thread is on its way to os.replace.
ThreadRunning == flusher = "writing" \/ orphans # {}

TypeOK ==
  /\ phase \in {"down", "up", "stopping", "joining", "exited"}
  /\ mem \in Snapshot
  /\ disk \in Snapshot
  /\ dirty \in BOOLEAN
  /\ flusher \in {"none", "idle", "writing", "wrote", "failed"}
  /\ text \in Snapshot
  /\ orphans \subseteq [by : {"stop", "close"}, text : Snapshot]
  /\ minted \in Nat
  /\ fails \in Nat
  /\ raced \in BOOLEAN
  /\ saveFailed \in BOOLEAN

Empty == [i \in Ids |-> NoDevice]

Init ==
  /\ phase = "down"
  /\ mem = Empty
  /\ disk = Empty
  /\ dirty = FALSE
  /\ flusher = "none"
  /\ text = Empty
  /\ orphans = {}
  /\ minted = 0
  /\ fails = 0
  /\ raced = FALSE
  /\ saveFailed = FALSE

-----------------------------------------------------------------------------
\* save(): the file is replaced before the call returns, or the change stays
\* dirty.  raced remembers that a thread is still carrying an older text.
Save(m) ==
  \/ /\ disk' = m
     /\ dirty' = FALSE
     /\ raced' = ThreadRunning
     /\ saveFailed' = FALSE
     /\ UNCHANGED fails
  \/ /\ fails < MaxFail
     /\ fails' = fails + 1
     /\ dirty' = TRUE
     /\ raced' = (raced \/ ThreadRunning)
     /\ saveFailed' = TRUE
     /\ UNCHANGED disk

\* mark_dirty(): a flusher that ended is started again.
MarkDirty ==
  /\ dirty' = TRUE
  /\ flusher' = IF flusher = "none" THEN "idle" ELSE flusher
  /\ UNCHANGED <<disk, raced, saveFailed, fails>>

\* The process starts: __init__ loads the file, start() starts the flusher.
Boot ==
  /\ phase \in {"down", "exited"}
  /\ phase' = "up"
  /\ mem' = disk
  /\ dirty' = FALSE
  /\ flusher' = "idle"
  /\ raced' = FALSE
  /\ saveFailed' = FALSE
  /\ UNCHANGED <<disk, text, orphans, minted, fails>>

\* Mutant of Register: the new device is left to the debounced writer.
RegisterDebounced(i) ==
  /\ phase = "up"
  /\ ~Known(mem, i)
  /\ minted < MaxCred
  /\ minted' = minted + 1
  /\ \E s \in BOOLEAN :
       mem' = [mem EXCEPT ![i] = [cred |-> minted + 1, serial |-> s, ver |-> 0]]
  /\ MarkDirty
  /\ UNCHANGED <<phase, text, orphans>>

\* get_or_create() for an unknown id mints credentials and saves.
Register(i) ==
  /\ phase = "up"
  /\ ~Known(mem, i)
  /\ minted < MaxCred
  /\ minted' = minted + 1
  /\ \E s \in BOOLEAN :
       mem' = [mem EXCEPT ![i] = [cred |-> minted + 1, serial |-> s, ver |-> 0]]
  /\ Save(mem')
  /\ UNCHANGED <<phase, flusher, text, orphans>>

\* A change of a known device that can wait for the flusher: the rest of
\* get_or_create() (a serial number where there was none, a firmware), and
\* the handlers that write into Device.config.  Background work may still do
\* this after stop().
Refresh(i) ==
  /\ phase \in {"up", "stopping"}
  /\ Known(mem, i)
  /\ \/ ~mem[i].serial /\ mem' = [mem EXCEPT ![i].serial = TRUE]
     \/ mem[i].ver < MaxVer /\ mem' = [mem EXCEPT ![i].ver = @ + 1]
  /\ MarkDirty
  /\ UNCHANGED <<phase, text, orphans, minted>>

\* A panel route changes a device and calls save() itself.
Configure(i) ==
  /\ phase = "up"
  /\ Known(mem, i)
  /\ mem[i].ver < MaxVer
  /\ mem' = [mem EXCEPT ![i].ver = @ + 1]
  /\ Save(mem')
  /\ UNCHANGED <<phase, flusher, text, orphans, minted>>

Remove(i) ==
  /\ phase = "up"
  /\ Known(mem, i)
  /\ mem' = [mem EXCEPT ![i] = NoDevice]
  /\ Save(mem')
  /\ UNCHANGED <<phase, flusher, text, orphans, minted>>

\* flush(), up to its await: encode on the loop, clear the flag, start the
\* thread.  (Left out: its guard against a registry that JSON cannot hold,
\* which is not reached: what is stored came out of JSON or is text and numbers.)
FlushBegin ==
  /\ phase \in {"up", "stopping"}
  /\ flusher = "idle"
  /\ dirty
  /\ text' = mem
  /\ dirty' = FALSE
  /\ flusher' = "writing"
  /\ raced' = (raced \/ orphans # {})
  /\ UNCHANGED <<phase, mem, disk, orphans, minted, fails, saveFailed>>

\* os.replace of a text: nothing a thread does later can undo it when there
\* is no other thread and the registry has not changed since.
Replace(t, others) ==
  /\ disk' = t
  /\ raced' = (raced /\ ~(t = mem /\ ~others))
  /\ saveFailed' = FALSE

\* The flusher's thread replaces the file, or fails and leaves it alone.
ThreadReplaces ==
  /\ flusher = "writing"
  /\ flusher' = "wrote"
  /\ Replace(text, orphans # {})
  /\ UNCHANGED <<phase, mem, dirty, text, orphans, minted, fails>>

ThreadFails ==
  /\ flusher = "writing"
  /\ fails < MaxFail
  /\ fails' = fails + 1
  /\ flusher' = "failed"
  /\ UNCHANGED <<phase, mem, disk, dirty, text, orphans, minted, raced, saveFailed>>

\* Mutant of FlushEnd: the flag is cleared after the write, not before it.
FlushEndClears ==
  /\ flusher \in {"wrote", "failed"}
  /\ flusher' = "idle"
  /\ dirty' = (flusher = "failed")
  /\ UNCHANGED <<phase, mem, disk, text, orphans, minted, fails, raced, saveFailed>>

\* Mutant of FlushEnd: a failed write is not queued again.
FlushEndGivesUp ==
  /\ flusher \in {"wrote", "failed"}
  /\ flusher' = "idle"
  /\ UNCHANGED <<phase, mem, disk, dirty, text, orphans, minted, fails, raced,
                 saveFailed>>

\* Mutant of FlushEnd: the error of a failed write ends the flusher's task.
FlushEndDies ==
  /\ flusher \in {"wrote", "failed"}
  /\ flusher' = IF flusher = "failed" THEN "dead" ELSE "idle"
  /\ dirty' = (dirty \/ flusher = "failed")
  /\ UNCHANGED <<phase, mem, disk, text, orphans, minted, fails, raced, saveFailed>>

\* flush(), after its await.
FlushEnd ==
  /\ flusher \in {"wrote", "failed"}
  /\ flusher' = "idle"
  /\ dirty' = (dirty \/ flusher = "failed")
  /\ UNCHANGED <<phase, mem, disk, text, orphans, minted, fails, raced, saveFailed>>

\* A thread nobody awaits any more: its failure is not noticed by anyone.
OrphanReplaces ==
  \E o \in orphans :
    /\ orphans' = orphans \ {o}
    /\ Replace(o.text, flusher = "writing" \/ orphans # {o})
    /\ UNCHANGED <<phase, mem, dirty, flusher, text, minted, fails>>

OrphanFails ==
  /\ fails < MaxFail
  /\ fails' = fails + 1
  /\ \E o \in orphans : orphans' = orphans \ {o}
  /\ UNCHANGED <<phase, mem, disk, dirty, flusher, text, minted, raced, saveFailed>>

\* The flusher task is cancelled.  The thread it awaited runs on; what the
\* thread has achieved is lost with the task.  The done callback, and stop()
\* after it, save what is dirty; a retry of a failed save is one save.
CancelFlusher(by) ==
  /\ flusher' = "none"
  /\ orphans' = IF flusher = "writing"
                THEN orphans \cup {[by |-> by, text |-> text]}
                ELSE orphans
  /\ IF dirty THEN Save(mem) ELSE UNCHANGED <<disk, dirty, raced, saveFailed, fails>>
  /\ UNCHANGED <<mem, text, minted>>

Stop ==
  /\ phase = "up"
  /\ phase' = "stopping"
  /\ CancelFlusher("stop")

\* run_app() cancels the tasks that are left, a flusher started after stop()
\* among them, and closes the loop.
LoopClose ==
  /\ phase = "stopping"
  /\ phase' = "joining"
  /\ IF flusher # "none"
     THEN CancelFlusher("close")
     ELSE UNCHANGED <<mem, disk, dirty, flusher, text, orphans, minted, fails,
                      raced, saveFailed>>

\* The interpreter joins the executor's threads before it exits.
Exit ==
  /\ phase = "joining"
  /\ orphans = {}
  /\ phase' = "exited"
  /\ UNCHANGED <<mem, disk, dirty, flusher, text, orphans, minted, fails,
                 raced, saveFailed>>

\* The container is killed: only the file is left.
Crash ==
  /\ phase \in {"up", "stopping", "joining"}
  /\ phase' = "down"
  /\ mem' = Empty
  /\ dirty' = FALSE
  /\ flusher' = "none"
  /\ orphans' = {}
  /\ UNCHANGED <<disk, text, minted, fails, raced, saveFailed>>

Next ==
  \/ \E i \in Ids : Register(i) \/ Refresh(i) \/ Configure(i) \/ Remove(i)
  \/ FlushBegin \/ ThreadReplaces \/ ThreadFails \/ FlushEnd
  \/ OrphanReplaces \/ OrphanFails
  \/ Boot \/ Stop \/ LoopClose \/ Exit \/ Crash

\* The loop keeps scheduling the flusher and the operating system its thread;
\* nothing obliges a device or a user to do anything.
Fairness ==
  /\ WF_vars(FlushBegin)
  /\ WF_vars(ThreadReplaces)
  /\ WF_vars(FlushEnd)

Spec == Init /\ [][Next]_vars
FairSpec == Spec /\ Fairness

-----------------------------------------------------------------------------
(* Properties                                                              *)

\* Whoever signed up is on disk with the credentials it was given, and
\* whoever was removed is not, whenever the process could die: unless a
\* worker thread ran across a save(), or the save() itself failed (registry.py
\* 341-344 saves at once so that a kill cannot lose credentials).
IdentityDurable ==
  phase # "down" /\ ~raced /\ ~saveFailed => Creds(disk) = Creds(mem)

\* With nothing marked dirty and no write in flight the file is the registry:
\* every path that clears the flag (save, flush, a failed write) leaves the
\* change written or marks it again.
CleanMeansDurable ==
  phase = "up" /\ ~raced /\ ~dirty /\ flusher = "idle" => disk = mem

\* The credentials devices are recognised by: memory's while the process lives, and the
\* file's when it was killed.
Recognised == IF phase = "down" THEN Creds(disk) ELSE Creds(mem)

Book == INSTANCE DeviceBook WITH book <- Recognised, excused <- raced \/ saveFailed

\* The registry is a book of credentials that neither restarts nor kills change, unless a
\* worker thread ran across a save() or a save() failed (registry.py 112-114, 341-344).
BookSpec == Book!Spec

\* A change waits for the debounced writer, not for ever: whatever changes,
\* save() calls and failed writes come in between, a registry marked dirty
\* comes to agree with the file, or the process stops.
EventuallyWritten ==
  (phase = "up" /\ dirty) ~> (phase # "up" \/ disk = mem)

\* Credentials that were handed out are on disk, unless a save() failed: a
\* kill a moment later cannot lose them.
\* (Docstring of save(), registry.py 112-114.)
SignupSurvives ==
  phase # "down" /\ ~saveFailed => Creds(disk) = Creds(mem)

\* After a graceful stop with no failed write, the file is the registry.
\* (Docstring of stop(), registry.py 188-191.)
StopLosesNothing == phase = "exited" /\ fails = 0 => disk = mem
=============================================================================
