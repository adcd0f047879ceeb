----------------------------- MODULE MCServices -----------------------------
(* The services beside the registry that share no variable with it or with *)
(* one another: each is explored with the others at rest, and `focus' says *)
(* which.  The accessories are explored three times: pairing with no       *)
(* command under way, and with one fountain paired commands that write its *)
(* block and commands that write its mode.                                 *)
EXTENDS MCRegistry, BleAccessories, CloudProxy, Hub, Patchers, UpstreamLink, StateReport

VARIABLES
  ip, streams, available, fresh, step, todo, probing, config, rendered, process, serving,
  viewers, changes,   \* the camera sidecar's
  focus

sidecar == <<ip, streams, available, fresh, step, todo, probing, config, rendered, process,
             serving, viewers, changes>>
all == <<vars, proxyVars, linkVars, bleVars, patchVars, sidecar, hubVars, reportVars, focus>>

-----------------------------------------------------------------------------
(* The instances.  A reply of the cloud carries a command in a string of    *)
(* JSON in a list, is a refusal, or names the cloud's servers and a secret. *)
R == INSTANCE Redact
Strict == [blockRce |-> TRUE, blockOta |-> TRUE, blockLogUpload |-> TRUE,
           mediaToRealOss |-> FALSE, localCvrWindow |-> FALSE]
RunCmd == R!Node("json", {}, <<R!Node("dict", {"run_cmd"}, <<>>)>>)
CloudReplies ==
  {[ok |-> TRUE, tree |-> t] : t \in
     {R!Node("dict", {"result"},
             <<R!Node("list", {}, <<R!Node("leaf", {}, <<>>), R!Node("dict", {}, <<RunCmd>>)>>)>>),
      R!Node("dict", {"error"}, <<>>),
      R!Node("dict", {"result", "aboutUs", "secret"},
             <<R!Node("dict", {"mqttHost", "iotInstanceId"} \cup R!CredKeys,
                      <<R!Node("dict", {"apiServers"}, <<>>)>>)>>)}}
ProxyTo(dns) == [mode |-> TRUE, dns |-> dns, guard |-> TRUE, only |-> {}, policy |-> Strict]

MCReplies == CloudReplies
MCSettings == {ProxyTo(""), ProxyTo("a"), ProxyTo("b")}
MCRedaction(tree, path, policy) == R!RedactBody(tree, path, policy)
MCForeign(tree, policy) == ~R!NothingForeign(tree, policy)
MCRefusal(tree) == R!CloudError(tree)
MCOwnBody == R!OurBody
MCIdentity == R!CredKeys

MCCloudBodies == {R!EmptyObject, R!Node("dict", {"mqttHost"}, <<RunCmd>>)}
MCDeviceBody == R!EmptyObject
MCCleanBody(body, policy) == R!RedactMqtt(body, policy)

MCKind == [mqtt |-> "binary", talk |-> "sink", camera |-> "mount"]

Camera == INSTANCE Sidecar WITH
  Cameras <- {"t5", "t6"}, Ips <- {"a", "b"}, MaxChanges <- 4

ASSUME LinkAssumption /\ ReportAssumption /\ Camera!SidecarAssumption

-----------------------------------------------------------------------------

OneFountain ==
  /\ accs = [i \in {1, 2} |-> IF i = 1 THEN [kind |-> "fountain", mac |-> "m1", link |-> 11]
                              ELSE Absent]
  /\ states = [i \in {1, 2} |-> Blank]
  /\ actual = [m \in {"m1", "m2"} |-> [f \in AllFields |-> 1]] /\ session = {}
  /\ cmd = [c \in {"c1", "c2"} |-> NoCmd] /\ reading = {}
  /\ import = NoImport /\ pending = <<>> /\ told = [p \in {11, 12} |-> 0]
  /\ stray = {} /\ mixed = {} /\ damaged = {} /\ ops = 0

\* The publisher of a device that reports nothing has nothing to do.
Shown ==
  /\ model = "t5" /\ now = 0 /\ stamp = 0 /\ held = <<>> /\ recorded = 0
  /\ said = [k \in Keys |-> None] /\ stamped = 0
  /\ connected = TRUE /\ link = TRUE /\ shown = TRUE /\ drops = 0 /\ starts = 0

ServicesInit ==
  /\ Init /\ ProxyInit /\ LinkInit /\ PatchInit /\ Camera!Init /\ HubInit
  /\ ReportInit \/ Shown
  /\ \/ /\ BleInit
        /\ focus \in {"registry", "proxy", "link", "pairing", "patch", "sidecar", "hub",
                     "reports"}
     \/ /\ OneFountain
        /\ focus \in {"commands", "modes"}
  /\ conf = ProxyTo("a")
  /\ focus # "link" => ~on /\ version = 0
  /\ focus # "sidecar" => step = "stopped"
  /\ focus = "reports" <=> ~shown

\* Ids, MACs and parents are alike: those of the first accessory are 1, m1 and 11.
Untouched == accs = [i \in {1, 2} |-> Absent] /\ pending = <<>> /\ told = [p \in {11, 12} |-> 0]
FirstPaired ==
  {[accs EXCEPT ![1] = [kind |-> k, mac |-> "m1", link |-> 11]] : k \in {"fountain", "k3"}}

\* The one fountain is commanded and read, and may be removed; its MAC may then be paired
\* under the other id.
Commanded ==
  /\ import' = import /\ told' = told /\ ops' < MaxOps
  /\ accs' \in {accs, [accs EXCEPT ![1] = Absent],
                [accs EXCEPT ![2] = [kind |-> "fountain", mac |-> "m1", link |-> 11]]}
  /\ \A c \in {"c1", "c2"} : cmd'[c].step # "none" => cmd'[c].field \in BlockFields
  /\ \A report \in reading' : DOMAIN report.block = AllFields

\* It stays paired, and the panel writes the settings of its mode one after the other.
ModesCommanded ==
  /\ accs' = accs /\ import' = import /\ ops' < MaxOps - 1
  /\ cmd'["c2"] = NoCmd
  /\ cmd'["c1"].step # "none" => cmd'["c1"].field \in ModeFields
  /\ \A report \in reading' : DOMAIN report.block # BlockFields

ServicesNext ==
  /\ UNCHANGED focus
  /\ \/ /\ focus = "registry" /\ Next
        /\ mem'[b].cred # 1    \* the ids are alike: the first to sign up is a
        /\ UNCHANGED <<proxyVars, linkVars, bleVars, patchVars, sidecar, hubVars, reportVars>>
     \/ /\ focus = "proxy" /\ ProxyNext
        /\ UNCHANGED <<vars, linkVars, bleVars, patchVars, sidecar, hubVars, reportVars>>
     \/ /\ focus = "link" /\ LinkNext
        /\ UNCHANGED <<vars, proxyVars, bleVars, patchVars, sidecar, hubVars, reportVars>>
     \/ /\ focus = "pairing" /\ BleNext /\ ops' < MaxOps
        /\ Untouched => accs' \in {accs} \cup FirstPaired /\ import'.link # 12
        /\ session' = session /\ cmd' = cmd /\ reading' = reading
        /\ UNCHANGED <<vars, proxyVars, linkVars, patchVars, sidecar, hubVars, reportVars>>
     \/ /\ focus = "commands" /\ BleNext /\ Commanded
        /\ UNCHANGED <<vars, proxyVars, linkVars, patchVars, sidecar, hubVars, reportVars>>
     \/ /\ focus = "modes" /\ BleNext /\ ModesCommanded
        /\ UNCHANGED <<vars, proxyVars, linkVars, patchVars, sidecar, hubVars, reportVars>>
     \/ /\ focus = "patch" /\ PatchNext
        /\ UNCHANGED <<vars, proxyVars, linkVars, bleVars, sidecar, hubVars, reportVars>>
     \/ /\ focus = "sidecar" /\ Camera!Next
        /\ UNCHANGED <<vars, proxyVars, linkVars, bleVars, patchVars, hubVars, reportVars>>
     \/ /\ focus = "hub" /\ HubNext
        /\ UNCHANGED <<vars, proxyVars, linkVars, bleVars, patchVars, sidecar, reportVars>>
     \/ /\ focus = "reports" /\ ReportNext
        /\ drops' * starts' = 0 \/ now' = 0    \* a break and a start: before readings change
        /\ UNCHANGED <<vars, proxyVars, linkVars, bleVars, patchVars, sidecar, hubVars>>

ServicesFairness ==
  /\ Fairness /\ ProxyFairness /\ LinkFairness /\ Camera!Fairness
  /\ ReportFairness

ServicesSpec == ServicesInit /\ [][ServicesNext]_all /\ ServicesFairness

-----------------------------------------------------------------------------

TypesOK ==
  /\ TypeOK /\ ProxyTypeOK /\ LinkTypeOK /\ BleTypeOK /\ PatchTypeOK /\ Camera!SidecarTypeOK
  /\ HubTypeOK /\ ReportTypeOK

SidecarSettles == Camera!SidecarSettles
=============================================================================
