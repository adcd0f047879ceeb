------------------------------ MODULE Patchers ------------------------------
(***************************************************************************)
(* The patches of one device: files uploaded through shell commands the    *)
(* device is handed by MQTT or by its next heartbeat, a boot wrapper that  *)
(* mounts them, and the list of active patches the wrapper is made from.   *)
(* Operations run one at a time under the device's lock.  What a device    *)
(* was handed it runs in order, within the seconds an operation waits      *)
(* before it takes the staged file away.                                   *)
(***************************************************************************)
EXTENDS Naturals, Sequences

CONSTANTS Patches,
          Kind,        \* patch -> "binary", "bundle", "tool", "sink" or "mount"
          Ops,         \* operations the panel starts, each once
          QueueBound   \* commands waiting for a heartbeat

ASSUME PatcherAssumption ==
  /\ Patches # {} /\ QueueBound \in Nat
  /\ Kind \in [Patches -> {"binary", "bundle", "tool", "sink", "mount"}]

VARIABLES
  op,        \* each operation: [step, patch, remove]
  active,    \* config["active_patchers"], on disk before anything is sent
  staged,    \* patches whose file is staged, and {the staged wrapper} or {}
  queue,     \* command_queue: what the next heartbeat takes
  inbox,     \* what the device was handed and has not run
  files,     \* patches whose file is on the device
  wrapper,   \* patches the wrapper on the device names
  mounted,   \* patches in effect since the last boot
  unsure,    \* patches whose upload was lost, late or overtaken
  adrift     \* a wrapper or reboot was lost or overtaken since the last good one

patchVars == <<op, active, staged, queue, inbox, files, wrapper, mounted, unsure, adrift>>
deviceVars == <<files, wrapper, mounted>>

Steps == {"none", "waiting", "detect", "fetch", "space", "upload", "sent", "activate",
          "wrapped", "reboot", "done"}
Fileless == {p \in Patches : Kind[p] = "mount"}
Running == {o \in Ops : op[o].step \notin {"none", "done"}}
Holder == {o \in Running : op[o].step # "waiting"}

PatchInit ==
  /\ op = [o \in Ops |-> [step |-> "none", patch |-> CHOOSE p \in Patches : TRUE, remove |-> FALSE]]
  /\ active = {} /\ staged = [files |-> {}, wrapper |-> {}]
  /\ queue = <<>> /\ inbox = <<>>
  /\ files = {} /\ wrapper = {} /\ mounted = {}
  /\ unsure = {} /\ adrift = FALSE

-----------------------------------------------------------------------------
(* Commands.                                                                *)

Among(list) == {list[i] : i \in DOMAIN list}

PutFile(o, p) == [run |-> "put", by |-> o, patch |-> p]
Wrap(o, gone) == [run |-> "wrap", by |-> o, gone |-> gone]
Unwrap(o, gone) == [run |-> "unwrap", by |-> o, gone |-> gone]
Reboot(o) == [run |-> "reboot", by |-> o]

Touched(c) == CASE c.run = "put" -> {c.patch}
                [] c.run \in {"wrap", "unwrap"} -> c.gone
                [] OTHER -> {}

\* send_run_cmd(): by MQTT when the device is connected and the publish takes,
\* which overtakes what is queued, and else by the heartbeat.
SendRunCmd(c) ==
  \/ /\ inbox' = Append(inbox, c) /\ queue' = queue
     /\ IF queue = <<>> THEN UNCHANGED <<unsure, adrift>>
        ELSE /\ unsure' = unsure \cup UNION {Touched(d) : d \in Among(Append(queue, c))}
             /\ adrift' = TRUE
  \/ /\ Len(queue) < QueueBound /\ queue' = Append(queue, c)
     /\ UNCHANGED <<inbox, unsure, adrift>>

NoCommand == UNCHANGED <<queue, inbox, unsure, adrift>>

-----------------------------------------------------------------------------
(* An operation.                                                            *)

Goto(o, step) == op' = [op EXCEPT ![o].step = step]

\* The panel asks; the operation waits for the lock in the background.
Start(o, p, remove) ==
  /\ op[o].step = "none"
  /\ op' = [op EXCEPT ![o] = [step |-> "waiting", patch |-> p, remove |-> remove]]
  /\ NoCommand /\ UNCHANGED <<active, staged, deviceVars>>

AnyTurn == TRUE
MyTurn == Holder = {}

TakeLock(o) ==
  /\ op[o].step = "waiting" /\ MyTurn /\ Goto(o, "detect")
  /\ NoCommand /\ UNCHANGED <<active, staged, deviceVars>>

\* detect_patch_storage_dir(): the device answers, which it does once it has
\* run what it was handed before, and an apply goes on to fetch, if it must.
Detected(o) ==
  /\ op[o].step = "detect" /\ inbox = <<>>
  /\ Goto(o, IF op[o].remove THEN "activate"
             ELSE IF Kind[op[o].patch] \in {"binary", "bundle", "tool"} THEN "fetch" ELSE "space")
  /\ NoCommand /\ UNCHANGED <<active, staged, deviceVars>>

\* The file the device runs is fetched and patched; a binary that is patched
\* already is refused.
FileFetched(o) ==
  /\ op[o].step = "fetch" /\ ~(Kind[op[o].patch] = "binary" /\ op[o].patch \in mounted)
  /\ Goto(o, "space") /\ NoCommand /\ UNCHANGED <<active, staged, deviceVars>>

\* No answer, an implausible file, no room, a file that cannot be staged: nothing was changed
\* on the device yet.
GivesUp(o) ==
  /\ op[o].step \in {"detect", "fetch", "space", "upload"} /\ Goto(o, "done")
  /\ NoCommand /\ UNCHANGED <<active, staged, deviceVars>>

\* There is room, or the device did not say.
Fits(o) ==
  /\ op[o].step = "space"
  /\ Goto(o, IF op[o].patch \in Fileless THEN "activate" ELSE "upload")
  /\ NoCommand /\ UNCHANGED <<active, staged, deviceVars>>

Upload(o) ==
  /\ op[o].step = "upload" /\ Goto(o, "sent")
  /\ staged' = [staged EXCEPT !.files = @ \cup {op[o].patch}]
  /\ SendRunCmd(PutFile(o, op[o].patch)) /\ UNCHANGED <<active, deviceVars>>

\* The wait ends and the staged file is taken away; the sink's operation
\* waits for the heartbeat first and keeps the file when none comes.
Uploaded(o) ==
  /\ op[o].step = "sent" /\ inbox = <<>> /\ Goto(o, "activate")
  /\ staged' = IF Kind[op[o].patch] = "sink" /\ queue # <<>> THEN staged
               ELSE [staged EXCEPT !.files = @ \ {op[o].patch}]
  /\ NoCommand /\ UNCHANGED <<active, deviceVars>>

\* generate_app_init_wrapper(): blocks before the stock init, then mounts.
BindMounts(patches) == {p \in patches : Kind[p] \in {"binary", "bundle", "mount"}}
PreInitBlocks(patches) == {p \in patches : Kind[p] \in {"tool", "sink"}}
AppInitWrapper(patches) == PreInitBlocks(patches) \cup BindMounts(patches)

\* The list is saved, then a wrapper made from it staged (which may fail) and
\* sent.  A removal sends it with the command that deletes the files, and the
\* last removal deletes the wrapper and reboots at once.
Activate(o, stages) ==
  LET p == op[o].patch
      now == IF op[o].remove THEN active \ {p} ELSE active \cup {p}
  IN /\ op[o].step = "activate" /\ active' = now
     /\ IF op[o].remove /\ now = {}
        THEN /\ stages /\ Goto(o, "done") /\ staged' = staged
             /\ SendRunCmd(Unwrap(o, {p} \ Fileless))
        ELSE IF stages
        THEN /\ Goto(o, "wrapped") /\ staged' = [staged EXCEPT !.wrapper = {AppInitWrapper(now)}]
             /\ SendRunCmd(Wrap(o, IF op[o].remove THEN {p} \ Fileless ELSE {}))
        ELSE /\ Goto(o, "done") /\ staged' = staged
             /\ adrift' = TRUE /\ UNCHANGED <<queue, inbox, unsure>>
     /\ UNCHANGED deviceVars

\* A heartbeat emptied the queue: the staged wrapper is taken away a little
\* later.  None came in time: it is kept.
Wrapped(o) ==
  /\ op[o].step = "wrapped" /\ Goto(o, "reboot")
  /\ \/ queue = <<>> /\ inbox = <<>> /\ staged' = [staged EXCEPT !.wrapper = {}]
     \/ queue # <<>> /\ staged' = staged
  /\ NoCommand /\ UNCHANGED <<active, deviceVars>>

Reboots(o) ==
  /\ op[o].step = "reboot" /\ Goto(o, "done") /\ SendRunCmd(Reboot(o))
  /\ UNCHANGED <<active, staged, deviceVars>>

-----------------------------------------------------------------------------
(* The device, and what becomes of messages.                                *)

\* pop_commands(): a heartbeat takes everything.
Heartbeat ==
  /\ queue # <<>> /\ queue' = <<>> /\ inbox' = inbox \o queue
  /\ UNCHANGED <<op, active, staged, deviceVars, unsure, adrift>>

\* wget and chmod: nothing happens when the file is not staged any more.
RunPut(c) ==
  /\ c.run = "put"
  /\ files' = IF c.patch \in staged.files THEN files \cup {c.patch} ELSE files
  /\ unsure' = IF c.patch \in staged.files
               THEN IF \E d \in Among(queue \o inbox) : d # c /\ c.patch \in Touched(d)
                    THEN unsure ELSE unsure \ {c.patch}
               ELSE IF op[c.by].step # "sent" THEN unsure \cup {c.patch} ELSE unsure
  /\ UNCHANGED <<wrapper, mounted, adrift>>

RunWrap(c) ==
  /\ c.run = "wrap"
  /\ files' = files \ c.gone
  /\ wrapper' = IF staged.wrapper = {} THEN wrapper ELSE UNION staged.wrapper
  /\ UNCHANGED <<mounted, unsure, adrift>>

BootWith(named, present) == mounted' = named \cap (present \cup Fileless)

RunUnwrap(c) ==
  /\ c.run = "unwrap" /\ files' = files \ c.gone /\ wrapper' = {} /\ BootWith({}, files)
  /\ adrift' = (adrift /\ ~(active = {} /\ queue = <<>> /\ Len(inbox) = 1))
  /\ UNCHANGED unsure

RunReboot(c) ==
  /\ c.run = "reboot" /\ BootWith(wrapper, files)
  /\ adrift' = (adrift /\ ~(wrapper = active /\ queue = <<>> /\ Len(inbox) = 1))
  /\ UNCHANGED <<files, wrapper, unsure>>

Run ==
  /\ inbox # <<>> /\ inbox' = Tail(inbox)
  /\ LET c == Head(inbox) IN RunPut(c) \/ RunWrap(c) \/ RunUnwrap(c) \/ RunReboot(c)
  /\ UNCHANGED <<op, active, staged, queue>>

\* Commands that never reach the device.
Forfeit(cmds) ==
  /\ unsure' = unsure \cup UNION {{c.patch} \ files : c \in {d \in cmds : d.run = "put"}}
  /\ adrift' = (adrift \/ \E c \in cmds : c.run # "put")

Lose ==
  /\ inbox # <<>> /\ inbox' = Tail(inbox) /\ Forfeit({Head(inbox)})
  /\ UNCHANGED <<op, active, staged, queue, deviceVars>>

\* Shutdown cancels operations wherever they are, and a restart has no queue.
Restart ==
  /\ op' = [o \in Ops |-> IF o \in Running THEN [op[o] EXCEPT !.step = "done"] ELSE op[o]]
  /\ queue # <<>> \/ Running # {}
  /\ queue' = <<>>
  /\ unsure' = unsure \cup UNION {{c.patch} \ files : c \in {d \in Among(queue) : d.run = "put"}}
  /\ adrift' = (adrift \/ (\E c \in Among(queue) : c.run # "put")
                       \/ \E o \in Running : op[o].step \in {"sent", "activate", "wrapped", "reboot"})
  /\ UNCHANGED <<active, staged, inbox, deviceVars>>

PatchNext ==
  \/ \E o \in Ops, p \in Patches, remove \in BOOLEAN : Start(o, p, remove)
  \/ \E o \in Ops : \/ TakeLock(o) \/ Detected(o) \/ FileFetched(o) \/ GivesUp(o) \/ Fits(o)
                    \/ Upload(o) \/ Uploaded(o) \/ Wrapped(o) \/ Reboots(o)
  \/ \E o \in Ops, stages \in BOOLEAN : Activate(o, stages)
  \/ Heartbeat \/ Run \/ Lose \/ Restart

PatchSpec == PatchInit /\ [][PatchNext]_patchVars

-----------------------------------------------------------------------------

Quiet == queue = <<>> /\ inbox = <<>>

PatchTypeOK ==
  /\ \A o \in Ops : op[o].step \in Steps /\ op[o].patch \in Patches
  /\ active \subseteq Patches /\ staged.files \subseteq Patches
  /\ files \subseteq Patches /\ wrapper \subseteq Patches /\ mounted \subseteq Patches
  /\ unsure \subseteq Patches /\ adrift \in BOOLEAN /\ Len(queue) <= QueueBound

(* Once the device has run what it was sent, the wrapper it boots from names *)
(* no file that is not there, except those whose upload was lost, came after *)
(* the staged file was taken away, or was overtaken on the other transport.  *)
WrapperFilesPresent == Quiet => wrapper \subseteq files \cup Fileless \cup unsure

(* When no operation runs and nothing is on its way, the list the panel shows*)
(* is what the wrapper names and what the device booted with.  Excused is a  *)
(* device whose last wrapper or reboot was lost, overtaken or never sent.    *)
ActiveMatchesDevice ==
  Quiet /\ Running = {} /\ ~adrift =>
    /\ wrapper = active
    /\ mounted = active \cap (files \cup Fileless)
=============================================================================
