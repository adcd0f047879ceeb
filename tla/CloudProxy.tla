----------------------------- MODULE CloudProxy -----------------------------
(***************************************************************************)
(* Proxy mode: a device's request is answered by the add-on's own handler  *)
(* first and then, unless something keeps it at home, put to the real      *)
(* cloud, whose redacted reply replaces the local answer.  Every step is   *)
(* the code between two awaits of proxy_middleware(); the settings, the    *)
(* shared client session and the breaker may change in each of them.       *)
(***************************************************************************)
EXTENDS Naturals, FiniteSets

CONSTANTS Requests,      \* requests under way at a time
          Paths,         \* what they ask for
          Replies,       \* what the cloud may send: [ok, tree], ok a status of 2xx
          Settings,      \* the panel's settings: [mode, dns, guard, only, policy]
          Looping,       \* the DNS servers that name us as the cloud's address
          Slots,         \* client sessions that may exist at a time
          MaxEdits,      \* changes of the settings
          Redaction(_, _, _),   \* http/redact/: [out, captured] of a reply's tree, for an
                                \* endpoint under a policy
          Foreign(_, _),        \* a tree holds what that policy keeps out
          Refusal(_),           \* a tree is the cloud's error envelope
          OwnBody,              \* a local answer
          Identity              \* the keys of the identity the cloud gives a device

ASSUME ProxyAssumption ==
  /\ IsFiniteSet(Requests)
  /\ Slots \subseteq Nat
  /\ MaxEdits \in Nat

BREAKER_THRESHOLD == 3
LOCAL_ONLY_ENDPOINTS == {"dev_ble_device"}
GUARDED_LOCAL_ENDPOINTS == {"dev_upload_file_info_v2"}

VARIABLES
  conf, edits,   \* the live settings and how often they were changed
  up,            \* the server takes requests
  breaker,       \* [fails, open]: failures in a row (capped) and whether it is open
  paid,          \* failures since the last success or the last cooldown
  sess, cur,     \* client sessions, and the one in use (0: none)
  waiting,       \* a command waits in the device's heartbeat queue
  learned,       \* what the cloud's replies told us of the device
  req

proxyVars == <<conf, edits, up, breaker, paid, sess, cur, waiting, learned, req>>

Idle == [step |-> "idle"]

\* DNS servers the settings may name; "" is the system's own.
Servers == {s.dns : s \in Settings}
Policies == {s.policy : s \in Settings}

ProxyInit ==
  /\ conf \in Settings /\ edits = 0 /\ up = TRUE
  /\ breaker = [fails |-> 0, open |-> FALSE] /\ paid = 0
  /\ sess = [s \in Slots |-> [dns |-> "", state |-> "closed"]] /\ cur = 0
  /\ waiting = FALSE /\ learned = {}
  /\ req = [r \in Requests |-> Idle]

-----------------------------------------------------------------------------

\* A device sends a request; whether proxy mode is on is read now.
Ask(r) ==
  /\ up /\ req[r] = Idle
  /\ \E e \in Paths, known \in BOOLEAN :
     \E ours \in (IF e = "dev_upload_log" THEN BOOLEAN ELSE {FALSE}) :
       req' = [req EXCEPT ![r] = [step |-> "handling", endpoint |-> e, known |-> known,
                                  ours |-> ours, proxied |-> conf.mode]]
  /\ UNCHANGED <<conf, edits, up, breaker, paid, sess, cur, waiting, learned>>

Answer(q, from, tree, policy, carries) ==
  [step |-> "answered", endpoint |-> q.endpoint, from |-> from, tree |-> tree,
   policy |-> policy, carries |-> carries]
Local(q, carries) == Answer(q, "local", OwnBody, conf.policy, carries)

CarriesCommands(q) == q.endpoint = "heartbeat" /\ q.known /\ waiting

\* What keeps a request at home once the local handler has answered it.
KeptAtHome(q) ==
  \/ ~q.proxied
  \/ q.endpoint = "dev_upload_log" /\ q.ours
  \/ conf.guard /\ q.endpoint \in GUARDED_LOCAL_ENDPOINTS
  \/ ~q.known
  \/ conf.only # {} /\ q.endpoint \notin conf.only
StaysLocal(q) == CarriesCommands(q) \/ KeptAtHome(q)

\* The local handler ran: it popped the commands it carries.
Handled(r) ==
  /\ req[r].step = "handling"
  /\ waiting' = (waiting /\ ~CarriesCommands(req[r]))
  /\ req' = [req EXCEPT ![r] =
       IF StaysLocal(@) THEN Local(@, CarriesCommands(@))
       ELSE [step |-> "looking", endpoint |-> @.endpoint, dns |-> conf.dns,
             carries |-> CarriesCommands(@)]]
  /\ UNCHANGED <<conf, edits, up, breaker, paid, sess, cur, learned>>

\* The local handler raised: never_fail answers, and the cloud is not asked.
HandlerRaises(r) ==
  /\ req[r].step = "handling"
  /\ req' = [req EXCEPT ![r] = Local(@, FALSE)]
  /\ UNCHANGED <<conf, edits, up, breaker, paid, sess, cur, waiting, learned>>

-----------------------------------------------------------------------------

\* The session for a DNS server: the one in use if it resolves through that
\* server, else a new one while the old closes in the background.
ReusableWhatever(dns) == cur # 0 /\ sess[cur].state = "open"
Reusable(dns) == ReusableWhatever(dns) /\ sess[cur].dns = dns
FreeSlots == {s \in Slots : /\ sess[s].state = "closed"
                            /\ \A q \in Requests : req[q].step = "sent" => req[q].sess # s}
NewSession(dns, s) ==
  /\ s \in FreeSlots /\ \A f \in FreeSlots : s <= f
  /\ cur' = s
  /\ sess' = [t \in Slots |-> IF t = s THEN [dns |-> dns, state |-> "open"]
                              ELSE IF t = cur /\ sess[t].state = "open"
                                   THEN [sess[t] EXCEPT !.state = "closing"]
                              ELSE sess[t]]
GetProxySession(dns, s) ==
  \/ Reusable(dns) /\ s = cur /\ UNCHANGED <<cur, sess>>
  \/ ~Reusable(dns) /\ NewSession(dns, s)

BreakerIsOpen == breaker.open

\* The cloud's address was looked up: the request goes out unless that address
\* is ours or the breaker is open.
Looked(r) ==
  /\ req[r].step = "looking"
  /\ IF req[r].dns \in Looping \/ BreakerIsOpen
     THEN /\ req' = [req EXCEPT ![r] = Local(@, @.carries)]
          /\ UNCHANGED <<sess, cur>>
     ELSE \E s \in Slots :
            /\ GetProxySession(req[r].dns, s)
            /\ req' = [req EXCEPT ![r] =
                 [step |-> "sent", endpoint |-> @.endpoint, dns |-> @.dns, sess |-> s,
                  carries |-> @.carries, policy |-> conf.policy]]
  /\ UNCHANGED <<conf, edits, up, breaker, paid, waiting, learned>>

\* A breaker that counts afresh every time it is asked to open.
RecordOutcomeForgetful(ok) ==
  /\ breaker' = IF ok THEN [fails |-> 0, open |-> FALSE]
                ELSE LET n == breaker.fails + 1
                     IN [fails |-> n % BREAKER_THRESHOLD, open |-> n = BREAKER_THRESHOLD]
  /\ paid' = IF ok THEN 0 ELSE paid + 1

\* Three failures in a row open the breaker, one success closes it.
RecordOutcome(ok) ==
  /\ breaker' = IF ok THEN [fails |-> 0, open |-> FALSE]
                ELSE LET n == IF breaker.fails < BREAKER_THRESHOLD
                              THEN breaker.fails + 1 ELSE breaker.fails
                     IN [fails |-> n, open |-> breaker.open \/ n = BREAKER_THRESHOLD]
  /\ paid' = IF ok THEN 0 ELSE paid + 1

RememberUpstreamCredentials(captured) ==
  learned' = learned \cup (captured \cap {"secret"})
               \cup IF ({"mqttHost"} \cup Identity) \subseteq captured THEN {"mqtt"} ELSE {}

\* A reply with an error status or an error envelope is not used.
Usable(reply) == reply.ok /\ ~Refusal(reply.tree)

\* What redaction is relied on for: its result is clean, and no refusal if the reply was none.
ASSUME RedactionAssumption ==
  \A reply \in Replies, e \in Paths, policy \in Policies :
    LET out == Redaction(reply.tree, e, policy).out IN
    ~Foreign(out, policy) /\ (Usable(reply) => ~Refusal(out))

\* What redaction makes of every reply, for every request it may answer.
Redacted == [asked \in Replies \X Paths \X Policies |->
               Redaction(asked[1].tree, asked[2], asked[3])]

Replied(r) ==
  /\ req[r].step = "sent" /\ sess[req[r].sess].state # "closed"
  /\ \E reply \in Replies :
       LET q == req[r]
           got == Redacted[<<reply, q.endpoint, q.policy>>]
       IN /\ RememberUpstreamCredentials(got.captured)
          /\ req' = [req EXCEPT ![r] =
               IF q.endpoint \in LOCAL_ONLY_ENDPOINTS \/ ~Usable(reply)
               THEN Local(q, q.carries)
               ELSE Answer(q, "cloud", got.out, q.policy, FALSE)]
  /\ RecordOutcome(TRUE)
  /\ UNCHANGED <<conf, edits, up, sess, cur, waiting>>

\* A client without a timeout: only a closed session ends the wait.
FailedWaits(r) ==
  /\ req[r].step = "sent" /\ sess[req[r].sess].state = "closed"
  /\ RecordOutcome(FALSE)
  /\ req' = [req EXCEPT ![r] = Local(@, @.carries)]
  /\ UNCHANGED <<conf, edits, up, sess, cur, waiting, learned>>

\* Eight seconds without an answer, an error of the network, or the session
\* was closed under the request.
Failed(r) ==
  /\ req[r].step = "sent"
  /\ RecordOutcome(FALSE)
  /\ req' = [req EXCEPT ![r] = Local(@, @.carries)]
  /\ UNCHANGED <<conf, edits, up, sess, cur, waiting, learned>>

\* The answer is on the wire.
Done(r) ==
  /\ req[r].step = "answered"
  /\ req' = [req EXCEPT ![r] = Idle]
  /\ UNCHANGED <<conf, edits, up, breaker, paid, sess, cur, waiting, learned>>

-----------------------------------------------------------------------------

\* The cooldown of a minute outlasts every request sent before it began.
CooldownOver ==
  /\ breaker.open /\ \A r \in Requests : req[r].step # "sent"
  /\ breaker' = [breaker EXCEPT !.open = FALSE] /\ paid' = 0
  /\ UNCHANGED <<conf, edits, up, sess, cur, waiting, learned, req>>

\* The background close of a session took effect.
SessionClosed(s) ==
  /\ sess[s].state = "closing"
  /\ sess' = [sess EXCEPT ![s] = [dns |-> "", state |-> "closed"]]
  /\ UNCHANGED <<conf, edits, up, breaker, paid, cur, waiting, learned, req>>

\* The panel changes the settings in place.
ChangeSettings ==
  /\ edits < MaxEdits /\ edits' = edits + 1
  /\ \E c \in Settings \ {conf} : conf' = c
  /\ UNCHANGED <<up, breaker, paid, sess, cur, waiting, learned, req>>

\* A command is queued for the device.
Enqueue ==
  /\ up /\ ~waiting /\ waiting' = TRUE
  /\ UNCHANGED <<conf, edits, up, breaker, paid, sess, cur, learned, req>>

\* close_proxy_session(), after the last request.
Shutdown ==
  /\ up /\ \A r \in Requests : req[r] = Idle
  /\ up' = FALSE /\ cur' = 0 /\ breaker' = [fails |-> 0, open |-> FALSE]
  /\ sess' = [s \in Slots |-> IF s = cur THEN [dns |-> "", state |-> "closed"] ELSE sess[s]]
  /\ UNCHANGED <<conf, edits, paid, waiting, learned, req>>

ProxyNext ==
  \/ \E r \in Requests : \/ Ask(r) \/ Handled(r) \/ HandlerRaises(r) \/ Looked(r)
                         \/ Replied(r) \/ Failed(r) \/ Done(r)
  \/ \E s \in Slots : SessionClosed(s)
  \/ CooldownOver \/ ChangeSettings \/ Enqueue \/ Shutdown

ProxySpec == ProxyInit /\ [][ProxyNext]_proxyVars

\* Handlers return, lookups and calls end, and a session that is closing
\* closes.
ProxyFairness ==
  /\ \A r \in Requests : /\ WF_proxyVars(Handled(r)) /\ WF_proxyVars(Looked(r))
                        /\ WF_proxyVars(Failed(r))
  /\ \A s \in Slots : WF_proxyVars(SessionClosed(s))

-----------------------------------------------------------------------------

ProxyTypeOK ==
  /\ conf \in Settings /\ edits \in 0..MaxEdits /\ up \in BOOLEAN
  /\ breaker.fails \in 0..BREAKER_THRESHOLD /\ breaker.open \in BOOLEAN
  /\ sess \in [Slots -> [dns : Servers \cup {""}, state : {"open", "closing", "closed"}]]
  /\ cur \in Slots \cup {0} /\ waiting \in BOOLEAN /\ learned \subseteq {"secret", "mqtt"}
  /\ \A r \in Requests :
       req[r].step \in {"idle", "handling", "looking", "sent", "answered"}

(* Whatever the cloud says: the device is never handed a shell command,      *)
(* firmware, or an address or identity of the cloud's, nor a refusal in      *)
(* place of the local answer; commands popped from our own queue are in the  *)
(* answer the device gets; and what only we can know is answered by us.      *)
AnswersAreOurs ==
  \A r \in Requests : req[r].step \in {"looking", "sent", "answered"} =>
    /\ req[r].carries => req[r].step = "answered" /\ req[r].from = "local"
    /\ req[r].step = "answered" /\ req[r].from = "cloud" =>
         /\ ~Foreign(req[r].tree, req[r].policy)
         /\ ~Refusal(req[r].tree)
         /\ req[r].endpoint \notin LOCAL_ONLY_ENDPOINTS

(* A request is sent through a session that resolves by the very server it  *)
(* was checked against, which does not send it back to us, although the     *)
(* setting may change in between and other requests may rebuild the session; *)
(* and a session that is no longer in use does not stay open.                *)
SessionsKept ==
  /\ \A r \in Requests : req[r].step = "sent" /\ sess[req[r].sess].state # "closed" =>
       /\ sess[req[r].sess].dns = req[r].dns
       /\ req[r].dns \notin Looping
  /\ \A s \in Slots \ {cur} : sess[s].state # "open"

(* A cloud that does not answer is asked at most twice in a row and once     *)
(* more per request under way before it is left alone for the cooldown.      *)
DeadCloudIsCheap == paid <= BREAKER_THRESHOLD - 1 + Cardinality(Requests)

\* A request that was taken in proxy mode is answered, whatever the cloud does.
AlwaysAnswered ==
  \A r \in Requests : req[r].step = "handling" ~> req[r].step = "answered"
=============================================================================
