------------------------------- MODULE Redact -------------------------------
(***************************************************************************)
(* What redaction makes of one reply or message of the real cloud.  A JSON *)
(* value is a tree of nodes [kind, has, kids]: an object ("dict"), a list, *)
(* a string that holds JSON ("json", one kid) or anything else ("leaf").   *)
(* "has" names the keys of an object that a rule looks at and whose value  *)
(* is the cloud's.  The first kid of an object that has "result" is the    *)
(* value of that key.                                                      *)
(***************************************************************************)
EXTENDS Naturals, Sequences, FiniteSets

Node(kind, has, kids) == [kind |-> kind, has |-> has, kids |-> kids]
EmptyObject == Node("dict", {}, <<>>)
Dropped == Node("dropped", {}, <<>>)

\* Keys whose value redaction replaces by ours, by the rule that does it.
ServerKeys == {"apiServers", "ipServers", "dns"}
MqttKeys == {"mqttHost", "productKey", "deviceName", "deviceSecret", "iotInstanceId"}
CredKeys == {"productKey", "deviceName", "deviceSecret"}
TimeKeys == {"timezone", "locale"}
CvrKeys == {"capacity", "cloudProduct"}
FirmwareKeys == {"otaUrl", "firmwareUrl", "upgradeUrl"}

MatchRce(n, policy) == policy.blockRce /\ "run_cmd" \in n.has

\* Firmware: a key that can mean nothing else, or a download of a firmware
\* file beside one of its attributes.
MatchOtaShape(n, policy) ==
  /\ policy.blockOta
  /\ n.has \cap FirmwareKeys # {} \/ {"firmwareFile", "attribute"} \subseteq n.has

PointsAtBroker(n) == "mqttHost" \in n.has \/ CredKeys \subseteq n.has
AboutUs(n) == "aboutUs" \in n.has

\* The keys of one object that are overwritten with our values.
MatchServer(n, policy) == n.has \cap ServerKeys
MatchMqtt(n, policy) == IF PointsAtBroker(n) THEN n.has \cap MqttKeys ELSE {}
MatchOssSts(n, policy) ==
  IF policy.mediaToRealOss THEN {} ELSE n.has \cap {"capability"}
MatchCvrCapacity(n, policy) ==
  IF policy.localCvrWindow THEN n.has \cap CvrKeys ELSE {}
MatchSecret(n, policy) ==
  IF AboutUs(n) /\ "secret" \in n.has THEN n.has \cap {"otherId"} ELSE {}
MatchLocale(n, policy) == IF AboutUs(n) THEN n.has \cap TimeKeys ELSE {}

Patched(n, policy) ==
  MatchServer(n, policy) \cup MatchMqtt(n, policy) \cup MatchOssSts(n, policy)
    \cup MatchCvrCapacity(n, policy) \cup MatchSecret(n, policy) \cup MatchLocale(n, policy)

\* What one object tells us on the way: PetKit's secret and broker identity.
CapturedFrom(n) ==
  (IF AboutUs(n) THEN n.has \cap {"secret"} ELSE {})
    \cup (IF PointsAtBroker(n) THEN n.has \cap MqttKeys ELSE {})

Unite(results) ==
  [rules |-> UNION {results[i].rules : i \in DOMAIN results},
   captured |-> UNION {results[i].captured : i \in DOMAIN results}]

RECURSIVE Walk(_, _, _)

WalkDict(n, policy, inList) ==
  IF MatchRce(n, policy) THEN [out |-> Dropped, rules |-> {"rce"}, captured |-> {}]
  ELSE IF MatchOtaShape(n, policy) THEN [out |-> Dropped, rules |-> {"ota"}, captured |-> {}]
  ELSE LET got == [i \in DOMAIN n.kids |-> Walk(n.kids[i], policy, FALSE)]
           outs == [i \in DOMAIN n.kids |-> got[i].out]
           tainted == \E i \in DOMAIN n.kids : outs[i] = Dropped
           kept == SelectSeq(outs, LAMBDA k : k # Dropped)
           lost == IF n.kids # <<>> /\ outs[1] = Dropped THEN {"result"} ELSE {}
           found == Unite(got)
       IN [out |-> IF tainted /\ inList THEN Dropped
                   ELSE Node("dict", (n.has \ Patched(n, policy)) \ lost, kept),
           rules |-> found.rules \cup Patched(n, policy),
           captured |-> found.captured \cup CapturedFrom(n)]

WalkList(n, policy) ==
  LET got == [i \in DOMAIN n.kids |-> Walk(n.kids[i], policy, TRUE)]
      outs == [i \in DOMAIN n.kids |-> got[i].out]
      found == Unite(got)
  IN [out |-> Node("list", {}, SelectSeq(outs, LAMBDA k : k # Dropped)),
      rules |-> found.rules, captured |-> found.captured]

\* A command travels as JSON text inside a string, so strings are opened too.
WalkJsonString(n, policy) ==
  LET got == Walk(n.kids[1], policy, FALSE)
  IN [got EXCEPT !.out = IF got.out = Dropped THEN Dropped ELSE Node("json", {}, <<got.out>>)]

Walk(n, policy, inList) ==
  CASE n.kind = "dict" -> WalkDict(n, policy, inList)
    [] n.kind = "list" -> WalkList(n, policy)
    [] n.kind = "json" -> WalkJsonString(n, policy)
    [] OTHER -> [out |-> n, rules |-> {}, captured |-> {}]

\* Endpoints that are answered with a body of our own whatever the cloud says.
OtaEndpoints == {"dev_ota_check", "dev_ota_heartbeat"}
LogUploadEndpoints == {"dev_upload_log_token", "dev_upload_log"}
OursInFull(endpoint, policy) ==
  \/ policy.blockOta /\ endpoint \in OtaEndpoints
  \/ policy.blockLogUpload /\ endpoint \in LogUploadEndpoints
  \/ endpoint = "dev_serverinfo"

OurBody == Node("dict", {"result"}, <<EmptyObject>>)

\* A reply that is not a JSON object or list passes as it is.
RedactBody(n, endpoint, policy) ==
  IF n.kind \notin {"dict", "list"} THEN [out |-> n, rules |-> {}, captured |-> {}]
  ELSE IF OursInFull(endpoint, policy)
       THEN [out |-> OurBody, captured |-> {},
             rules |-> IF endpoint \in OtaEndpoints /\ "result" \notin n.has THEN {} ELSE {endpoint}]
  ELSE LET got == Walk(n, policy, FALSE)
       IN IF got.out = Dropped THEN [got EXCEPT !.out = OurBody]
          ELSE IF "result" \in n.has /\ "result" \notin got.out.has
               THEN [got EXCEPT !.out = Node("dict", @.has \cup {"result"}, <<EmptyObject>> \o @.kids)]
          ELSE got

\* A message of the cloud's MQTT: no endpoint, and nothing to restore.
RedactMqtt(n, policy) ==
  LET got == Walk(n, policy, FALSE)
  IN IF n.kind \notin {"dict", "list"} THEN n
     ELSE IF got.out = Dropped THEN EmptyObject ELSE got.out

\* The cloud refused in a 200: an error envelope with a code.
CloudError(n) == n.kind = "dict" /\ "error" \in n.has

\* No command, no firmware and no address or identity of the cloud's is left
\* anywhere in the tree.
RECURSIVE NothingForeign(_, _)
NothingForeign(n, policy) ==
  /\ n.kind = "dict" => /\ ~MatchRce(n, policy) /\ ~MatchOtaShape(n, policy)
                        /\ Patched(n, policy) = {}
  /\ \A i \in DOMAIN n.kids : NothingForeign(n.kids[i], policy)
=============================================================================
