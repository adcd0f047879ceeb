------------------------------- MODULE Sidecar -------------------------------
(***************************************************************************)
(* The camera sidecar: cameras are probed for a stream of their own, the   *)
(* ones that answer are written to a configuration, and one go2rtc process *)
(* serves it, restarted when the configuration changes or the process      *)
(* dies, and stopped with the server.                                      *)
(***************************************************************************)
EXTENDS Naturals, FiniteSets

CONSTANTS Cameras, Ips,
          MaxChanges   \* things that happen to cameras, viewers, process and file

\* What the module assumes of its constants.
SidecarAssumption == IsFiniteSet(Cameras) /\ IsFiniteSet(Ips) /\ MaxChanges \in Nat

VARIABLES
  ip,         \* each camera's reported address, or NoIp
  streams,    \* cameras that serve a stream at their address
  available,  \* cameras whose state says streamAvailable
  fresh,      \* cameras whose last probe is younger than its time to live
  step,       \* where the supervisor is
  todo,       \* cameras the loop has not come to
  probing,    \* the camera being probed and the address asked
  config,     \* the configuration reconcile() rendered
  rendered,   \* the configuration of the process started last
  process,    \* "none", "running" or "dead"
  serving,    \* what the running process was configured with
  viewers,    \* cameras somebody watches through the sidecar
  changes

vars == <<ip, streams, available, fresh, step, todo, probing, config, rendered, process,
          serving, viewers, changes>>
cameraVars == <<ip, streams>>
processVars == <<config, rendered, process, serving, viewers>>

NoIp == "none"
NoConfig == {}
Running == process = "running"

\* desired_streams(): a stream per camera with an address that has one.
DesiredStreams == {<<c, ip[c]>> : c \in {d \in available : ip[d] # NoIp}}
Wanted == DesiredStreams # {}
Named(stream) == stream[1]

\* The supervisor is about to begin, or was cancelled before it did.
Init ==
  /\ ip = [c \in Cameras |-> NoIp] /\ streams = {} /\ available = {} /\ fresh = {}
  /\ step \in {"asleep", "stopped"} /\ todo = {} /\ probing = {}
  /\ config = NoConfig /\ rendered = NoConfig /\ process = "none" /\ serving = NoConfig
  /\ viewers = {} /\ changes = 0

-----------------------------------------------------------------------------
(* refresh_probes().                                                        *)

\* A round begins with what the process says is watched, and everything it
\* should serve when it does not answer.
Round(answers) ==
  /\ step = "asleep" /\ step' = "probing"
  /\ \/ answers /\ changes' = changes
     \/ ~answers /\ Running /\ changes < MaxChanges /\ changes' = changes + 1
  /\ todo' = Cameras \ (IF ~Running THEN {}
                        ELSE IF answers THEN viewers
                        ELSE {Named(s) : s \in DesiredStreams})
  /\ UNCHANGED <<cameraVars, available, fresh, probing, processVars>>

\* A camera without an address has no stream; one probed lately is left.
PassOver(c) ==
  /\ step = "probing" /\ c \in todo /\ probing = {}
  /\ todo' = todo \ {c}
  /\ \/ ip[c] = NoIp /\ available' = available \ {c} /\ fresh' = fresh \ {c}
     \/ ip[c] # NoIp /\ c \in fresh /\ UNCHANGED <<available, fresh>>
  /\ UNCHANGED <<cameraVars, step, probing, processVars, changes>>

Probe(c) ==
  /\ step = "probing" /\ c \in todo /\ probing = {} /\ ip[c] # NoIp /\ c \notin fresh
  /\ probing' = {<<c, ip[c]>>}
  /\ UNCHANGED <<cameraVars, available, fresh, step, todo, processVars, changes>>

\* The answer is of the address that was asked and written for the camera.
Probed ==
  \E p \in probing :
    LET c == p[1] IN
    /\ probing' = {} /\ todo' = todo \ {c}
    /\ fresh' = fresh \cup {c}
    /\ available' = IF c \in streams /\ ip[c] = p[2] THEN available \cup {c} ELSE available \ {c}
    /\ UNCHANGED <<cameraVars, step, processVars, changes>>

\* The time to live of a probe passes.
Expires(c) ==
  /\ c \in fresh /\ fresh' = fresh \ {c}
  /\ UNCHANGED <<cameraVars, available, step, todo, probing, processVars, changes>>

-----------------------------------------------------------------------------
(* reconcile().                                                             *)

UpToDateEvenDead == rendered = DesiredStreams
UpToDate == Running /\ rendered = DesiredStreams

\* stop(): the process is forgotten, then killed.
StopProcess ==
  /\ process' = "none" /\ serving' = NoConfig /\ viewers' = {} /\ rendered' = NoConfig

\* The round is over: nothing to serve stops the process; a configuration
\* that changed, or a dead process, leads to a new one.
ReconcileStreams ==
  /\ step = "probing" /\ todo = {} /\ probing = {}
  /\ \/ ~Wanted /\ StopProcess /\ config' = NoConfig /\ step' = "asleep"
     \/ /\ Wanted /\ UpToDate /\ step' = "asleep" /\ UNCHANGED processVars
     \/ /\ Wanted /\ ~UpToDate /\ config' = DesiredStreams /\ step' = "writing"
        /\ IF Running THEN StopProcess ELSE UNCHANGED <<rendered, process, serving, viewers>>
  /\ UNCHANGED <<cameraVars, available, fresh, todo, probing, changes>>

\* _write_config(), on a thread.
Write ==
  /\ step = "writing" /\ step' = "starting" /\ rendered' = config
  /\ UNCHANGED <<cameraVars, available, fresh, todo, probing, config, process, serving,
                 viewers, changes>>

\* It raises: the round ends, and what was written last stays what is compared with.
WriteFails ==
  /\ step = "writing" /\ step' = "asleep" /\ config' = NoConfig
  /\ changes < MaxChanges /\ changes' = changes + 1
  /\ UNCHANGED <<cameraVars, available, fresh, todo, probing, rendered, process, serving, viewers>>

\* _start(): it may not start at all.
StartProcess(starts) ==
  /\ step = "starting" /\ step' = "asleep" /\ config' = NoConfig
  /\ IF starts THEN process' = "running" /\ serving' = rendered
     ELSE process' = "none" /\ serving' = NoConfig
  /\ starts \/ changes < MaxChanges
  /\ changes' = IF starts THEN changes ELSE changes + 1
  /\ UNCHANGED <<cameraVars, available, fresh, todo, probing, rendered, viewers>>

\* supervise() is cancelled wherever it waits; a process that was being
\* started goes with it.
Cancelled ==
  /\ step # "stopped" /\ step' = "stopped" /\ StopProcess /\ config' = NoConfig
  /\ todo' = {} /\ probing' = {}
  /\ UNCHANGED <<cameraVars, available, fresh, changes>>

-----------------------------------------------------------------------------
(* Cameras, viewers and the process.                                        *)

\* A camera reports another address, or starts or stops serving a stream.
Reports(c, address) ==
  /\ ip[c] # address /\ ip' = [ip EXCEPT ![c] = address]
  /\ UNCHANGED <<streams, process, serving, viewers>>

Patched(c) ==
  /\ streams' = IF c \in streams THEN streams \ {c} ELSE streams \cup {c}
  /\ UNCHANGED <<ip, process, serving, viewers>>

Dies ==
  /\ Running /\ process' = "dead" /\ serving' = NoConfig /\ viewers' = {}
  /\ UNCHANGED cameraVars

Watch(c) ==
  /\ Running /\ c \in {Named(s) : s \in serving} /\ viewers' = viewers \cup {c}
  /\ UNCHANGED <<cameraVars, process, serving>>

Change ==
  /\ changes < MaxChanges /\ changes' = changes + 1
  /\ \/ \E c \in Cameras, a \in Ips \cup {NoIp} : Reports(c, a)
     \/ \E c \in Cameras : Patched(c) \/ Watch(c)
     \/ Dies
  /\ UNCHANGED <<available, fresh, step, todo, probing, config, rendered>>

Leave(c) ==
  /\ c \in viewers /\ viewers' = viewers \ {c}
  /\ UNCHANGED <<cameraVars, available, fresh, step, todo, probing, config, rendered,
                 process, serving, changes>>

Next ==
  \/ \E answers \in BOOLEAN : Round(answers)
  \/ \E c \in Cameras : PassOver(c) \/ Probe(c) \/ Expires(c) \/ Leave(c)
  \/ Probed \/ ReconcileStreams \/ Write \/ WriteFails
  \/ \E starts \in BOOLEAN : StartProcess(starts)
  \/ Cancelled \/ Change

SidecarSpec == Init /\ [][Next]_vars

\* The supervisor's loop goes on, time passes and viewers leave.
Fairness ==
  /\ WF_vars(Round(TRUE)) /\ WF_vars(\E c \in Cameras : PassOver(c) \/ Probe(c))
  /\ WF_vars(Probed) /\ WF_vars(ReconcileStreams) /\ WF_vars(Write)
  /\ WF_vars(StartProcess(TRUE))
  /\ \A c \in Cameras : WF_vars(Expires(c)) /\ WF_vars(Leave(c))

-----------------------------------------------------------------------------

Served == {<<c, ip[c]>> : c \in {d \in streams : ip[d] # NoIp}}

SidecarTypeOK ==
  /\ ip \in [Cameras -> Ips \cup {NoIp}] /\ streams \subseteq Cameras
  /\ available \subseteq Cameras /\ fresh \subseteq Cameras /\ todo \subseteq Cameras
  /\ step \in {"asleep", "probing", "writing", "starting", "stopped"}
  /\ probing \subseteq Cameras \X (Ips \cup {NoIp})
  /\ process \in {"none", "running", "dead"} /\ viewers \subseteq Cameras
  /\ changes \in 0..MaxChanges

(* What the supervisor compares with is what the process serves: it is never  *)
(* taken for up to date, or for stale, on the word of a configuration that    *)
(* was not written, did not start or belonged to a process that is gone.  No  *)
(* process runs while another is being made ready or after shutdown, and      *)
(* nobody watches a camera that is not served.                                *)
RenderedIsServed ==
  /\ Running => serving = rendered /\ serving # {} /\ step \in {"asleep", "probing"}
  /\ ~Running => serving = {}
  /\ viewers \subseteq {Named(s) : s \in serving}

(* Whoever watches is cut off by the supervisor only for a change of what is  *)
(* to be served, or at shutdown.                                             *)
CutOffForAReason ==
  [][Running /\ process' = "none" => step' = "stopped" \/ serving # DesiredStreams]_vars

(* When nothing changes any more the one process serves exactly the cameras  *)
(* that stream, at the addresses they have; and none runs after shutdown.    *)
SidecarSettles ==
  <>[](IF step = "stopped" THEN process = "none"
       ELSE serving = Served /\ (Running \/ Served = {}))
=============================================================================
