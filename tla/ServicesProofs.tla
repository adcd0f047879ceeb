---------------------------- MODULE ServicesProofs ----------------------------
(***************************************************************************)
(* The proxy, the connection to the cloud's broker and the hub, for any    *)
(* number of requests, sessions, settings, replies, messages, pages and    *)
(* events.  Redaction is what RedactionAssumption and LinkAssumption say   *)
(* of it: nothing else is known of it here.                                *)
(***************************************************************************)
EXTENDS CloudProxy, UpstreamLink, Hub, Sidecar, FiniteSetTheorems, SequenceTheorems, TLAPS

-----------------------------------------------------------------------------
(* The proxy: sessions and what a dead cloud costs                         *)

Sessions == [dns : Servers \cup {""}, state : {"open", "closing", "closed"}]

Sent == {r \in Requests : req[r].step = "sent"}

\* Requests that are out go through a session that is there.
ProxyTypes ==
  /\ sess \in [Slots -> Sessions] /\ req = [r \in Requests |-> req[r]]
  /\ conf \in Settings
  /\ \A r \in Requests : req[r].step = "looking" => req[r].dns \in Servers
  /\ \A r \in Sent : req[r].sess \in Slots
  /\ breaker \in [fails : 0..BREAKER_THRESHOLD, open : BOOLEAN] /\ paid \in Nat /\ up \in BOOLEAN

\* What a dead cloud has cost: each request that is out when the breaker opens may cost one more.
Cost ==
  /\ up /\ ~breaker.open => paid =< breaker.fails /\ paid =< BREAKER_THRESHOLD - 1
  /\ up /\ breaker.open => paid + Cardinality(Sent) =< BREAKER_THRESHOLD - 1 + Cardinality(Requests)
  /\ ~up => /\ \A r \in Requests : req[r] = Idle
            /\ paid =< BREAKER_THRESHOLD - 1 + Cardinality(Requests)

ProxyInv == ProxyTypes /\ SessionsKept /\ Cost

\* The requests that are out are finitely many.
LEMMA SentIsFinite ==
  /\ IsFiniteSet(Requests) /\ Cardinality(Requests) \in Nat
  /\ IsFiniteSet(Sent) /\ Cardinality(Sent) \in Nat /\ Cardinality(Sent) =< Cardinality(Requests)
<1>1. IsFiniteSet(Requests) /\ Cardinality(Requests) \in Nat
  BY ProxyAssumption, FS_CardinalityType
<1>2. Sent \subseteq Requests
  BY DEF Sent
<1> QED BY <1>1, <1>2, FS_Subset, FS_CardinalityType

\* Requests move on, and none is sent.
LEMMA RequestsMove ==
  ASSUME ProxyInv, NEW r \in Requests, NEW next, req' = [req EXCEPT ![r] = next],
         next.step # "sent", next.step = "looking" => next.dns \in Servers
  PROVE  /\ Sent' = Sent \ {r}
         /\ \A q \in Requests : q # r => req'[q] = req[q]
         /\ req'[r] = next
         /\ req' = [q \in Requests |-> req'[q]]
         /\ \A q \in Requests : req'[q].step = "looking" => req'[q].dns \in Servers
         /\ \A q \in Sent' : q \in Sent /\ req'[q] = req[q]
<1>1. req = [q \in Requests |-> req[q]]
  BY DEF ProxyInv, ProxyTypes
<1>2. req' = [q \in Requests |-> IF q = r THEN next ELSE req[q]]
  BY <1>1
<1> QED BY <1>2 DEF Sent, ProxyInv, ProxyTypes

\* A request that is under way is one of a server that is up.
LEMMA UnderWay ==
  ASSUME ProxyInv, NEW r \in Requests, req[r].step # "idle"
  PROVE  up
BY DEF ProxyInv, Cost, Idle

\* Sessions are kept where no session changes and no request goes out.
LEMMA SessionsStay ==
  ASSUME ProxyInv, UNCHANGED <<sess, cur>>,
         \A q \in Sent' : q \in Sent /\ req'[q] = req[q]
  PROVE  SessionsKept'
BY DEF ProxyInv, SessionsKept, Sent

\* A step of a request at home.
LEMMA MoveKeeps ==
  ASSUME ProxyInv, up, NEW r \in Requests, NEW next, req' = [req EXCEPT ![r] = next],
         next.step # "sent", next.step = "looking" => next.dns \in Servers,
         UNCHANGED <<conf, sess, cur, breaker, paid, up>>
  PROVE  ProxyInv'
<1>1. /\ Sent' = Sent \ {r} /\ req' = [q \in Requests |-> req'[q]]
      /\ \A q \in Requests : req'[q].step = "looking" => req'[q].dns \in Servers
      /\ \A q \in Sent' : q \in Sent /\ req'[q] = req[q]
  BY RequestsMove
<1>2. SessionsKept'
  BY <1>1, SessionsStay
<1>3. ProxyTypes'
  BY <1>1 DEF ProxyInv, ProxyTypes, Sessions, Servers
<1>4. Cost'
  <2>1. Cardinality(Sent') =< Cardinality(Sent) /\ Cardinality(Sent') \in Nat
    BY <1>1, SentIsFinite, FS_Subset, FS_CardinalityType
  <2>2. Cardinality(Sent)' = Cardinality(Sent')
    OBVIOUS
  <2> QED BY <2>1, <2>2, SentIsFinite DEF ProxyInv, ProxyTypes, Cost, BREAKER_THRESHOLD
<1> QED BY <1>2, <1>3, <1>4 DEF ProxyInv

\* A device sends a request.
LEMMA AskKeeps ==
  ASSUME ProxyInv, NEW r \in Requests, Ask(r)
  PROVE  ProxyInv'
<1>1. PICK e \in Paths, asked \in BOOLEAN, ours \in BOOLEAN :
         req' = [req EXCEPT ![r] = [step |-> "handling", endpoint |-> e, known |-> asked,
                                    ours |-> ours, proxied |-> conf.mode]]
  BY DEF Ask
<1>2. up /\ UNCHANGED <<conf, sess, cur, breaker, paid, up>>
  BY DEF Ask
<1> DEFINE next == [step |-> "handling", endpoint |-> e, known |-> asked, ours |-> ours,
                    proxied |-> conf.mode]
<1>3. next.step = "handling" /\ req' = [req EXCEPT ![r] = next]
  BY <1>1
<1> HIDE DEF next
<1> QED BY <1>2, <1>3, MoveKeeps

\* What stays at home is answered.
LEMMA LocalIs ==
  ASSUME NEW q, NEW carries
  PROVE  Local(q, carries).step = "answered"
BY DEF Local, Answer

\* The local handler returns or raises, or the answer has gone out.
LEMMA HandledKeeps ==
  ASSUME ProxyInv, NEW r \in Requests, Handled(r) \/ HandlerRaises(r) \/ Done(r)
  PROVE  ProxyInv'
<1>1. up /\ UNCHANGED <<conf, sess, cur, breaker, paid, up>>
  BY UnderWay DEF Handled, HandlerRaises, Done
<1>2. req = [q \in Requests |-> req[q]] /\ conf.dns \in Servers
  BY DEF ProxyInv, ProxyTypes, Servers
<1>3. CASE Handled(r)
  <2> DEFINE away == [step |-> "looking", endpoint |-> req[r].endpoint, dns |-> conf.dns,
                      carries |-> CarriesCommands(req[r])]
             home == Local(req[r], CarriesCommands(req[r]))
  <2>1. req' = [req EXCEPT ![r] = home] \/ req' = [req EXCEPT ![r] = away]
    BY <1>3 DEF Handled
  <2>2. home.step = "answered" /\ away.step = "looking" /\ away.dns = conf.dns
    BY LocalIs
  <2> HIDE DEF home, away
  <2> QED BY <1>1, <1>2, <2>1, <2>2, MoveKeeps
<1>4. CASE HandlerRaises(r)
  <2> DEFINE home == Local(req[r], FALSE)
  <2>1. req' = [req EXCEPT ![r] = home] /\ home.step = "answered"
    BY <1>4, LocalIs DEF HandlerRaises
  <2> HIDE DEF home
  <2> QED BY <1>1, <2>1, MoveKeeps
<1>5. CASE Done(r)
  <2>1. req' = [req EXCEPT ![r] = Idle] /\ Idle.step = "idle"
    BY <1>5 DEF Done, Idle
  <2> QED BY <1>1, <2>1, MoveKeeps
<1> QED BY <1>3, <1>4, <1>5

\* The session a request goes out through is one that resolves by its server.
LEMMA LookedKeeps ==
  ASSUME ProxyInv, NEW r \in Requests, Looked(r)
  PROVE  ProxyInv'
<1>1. up /\ UNCHANGED <<conf, breaker, paid, up>> /\ req[r].step = "looking"
      /\ req[r].dns \in Servers
  BY UnderWay DEF Looked, ProxyInv, ProxyTypes
<1>2. req = [q \in Requests |-> req[q]] /\ sess \in [Slots -> Sessions]
  BY DEF ProxyInv, ProxyTypes
<1>3. CASE req[r].dns \in Looping \/ BreakerIsOpen
  <2> DEFINE home == Local(req[r], req[r].carries)
  <2>1. req' = [req EXCEPT ![r] = home] /\ home.step = "answered" /\ UNCHANGED <<sess, cur>>
    BY <1>3, LocalIs DEF Looked
  <2> HIDE DEF home
  <2> QED BY <1>1, <2>1, MoveKeeps
<1>4. CASE ~(req[r].dns \in Looping \/ BreakerIsOpen)
  <2>1. PICK s \in Slots :
          /\ GetProxySession(req[r].dns, s)
          /\ req' = [req EXCEPT ![r] =
               [step |-> "sent", endpoint |-> @.endpoint, dns |-> @.dns, sess |-> s,
                carries |-> @.carries, policy |-> conf.policy]]
    BY <1>4 DEF Looked
  <2>2. /\ req'[r].step = "sent" /\ req'[r].dns = req[r].dns /\ req'[r].sess = s
        /\ \A q \in Requests \ {r} : req'[q] = req[q]
        /\ req' = [q \in Requests |-> req'[q]]
    BY <1>2, <2>1
  <2>3. Sent' = Sent \cup {r}
    BY <2>2 DEF Sent
  <2>4. /\ sess' \in [Slots -> Sessions]
        /\ sess'[s].dns = req[r].dns
        /\ \A t \in Slots \ {cur'} : sess'[t].state # "open"
        /\ \A q \in Sent : sess'[req[q].sess].state # "closed" =>
             sess'[req[q].sess].dns = req[q].dns /\ req[q].dns \notin Looping
    <3>1. /\ \A t \in Slots \ {cur} : sess[t].state # "open"
          /\ \A q \in Sent : req[q].sess \in Slots /\
               (sess[req[q].sess].state # "closed" =>
                 sess[req[q].sess].dns = req[q].dns /\ req[q].dns \notin Looping)
      BY DEF ProxyInv, ProxyTypes, SessionsKept, Sent
    <3>2. CASE Reusable(req[r].dns) /\ s = cur /\ UNCHANGED <<cur, sess>>
      BY <1>2, <3>1, <3>2 DEF Reusable
    <3>3. CASE NewSession(req[r].dns, s)
      <4>1. /\ cur' = s
            /\ sess' = [t \in Slots |-> IF t = s THEN [dns |-> req[r].dns, state |-> "open"]
                              ELSE IF t = cur /\ sess[t].state = "open"
                                   THEN [sess[t] EXCEPT !.state = "closing"]
                              ELSE sess[t]]
            /\ \A q \in Sent : req[q].sess # s
        BY <3>3 DEF NewSession, FreeSlots, Sent
      <4>2. \A t \in Slots : [sess[t] EXCEPT !.state = "closing"] \in Sessions
                             /\ [sess[t] EXCEPT !.state = "closing"].dns = sess[t].dns
                             /\ [sess[t] EXCEPT !.state = "closing"].state = "closing"
        BY <1>2 DEF Sessions
      <4>3. [dns |-> req[r].dns, state |-> "open"] \in Sessions
        BY <1>1 DEF Sessions
      <4>4. sess' \in [Slots -> Sessions]
        BY <1>2, <4>1, <4>2, <4>3
      <4>5. ASSUME NEW t \in Slots, t # s
            PROVE /\ sess'[t].dns = sess[t].dns /\ sess'[t].state # "open"
                  /\ sess'[t].state # "closed" => sess[t].state # "closed"
        BY <3>1, <4>1, <4>2, <4>5
      <4> QED BY <3>1, <4>1, <4>4, <4>5
    <3> QED BY <2>1, <3>2, <3>3 DEF GetProxySession
  <2>5. SessionsKept'
    BY <1>4, <2>2, <2>3, <2>4 DEF SessionsKept, Sent
  <2>6. ProxyTypes'
    <3>1. \A q \in Sent' : req'[q].sess \in Slots
      BY <2>1, <2>2, <2>3 DEF ProxyInv, ProxyTypes, Sent
    <3>2. \A q \in Requests : req'[q].step = "looking" => req'[q].dns \in Servers
      BY <2>2 DEF ProxyInv, ProxyTypes
    <3> QED BY <1>1, <2>2, <2>4, <3>1, <3>2 DEF ProxyInv, ProxyTypes, Sessions, Servers
  <2>7. Cost'
    BY <1>1, <1>4 DEF ProxyInv, Cost, BreakerIsOpen
  <2> QED BY <2>5, <2>6, <2>7 DEF ProxyInv
<1> QED BY <1>3, <1>4

\* A request comes back: three failures in a row open the breaker, and each of those under way
\* when it opens may still fail.
LEMMA BackKeeps ==
  ASSUME ProxyInv, NEW r \in Requests, req[r].step = "sent", NEW next, next.step = "answered",
         req' = [req EXCEPT ![r] = next], NEW ok \in BOOLEAN, RecordOutcome(ok),
         UNCHANGED <<conf, up, sess, cur>>
  PROVE  ProxyInv'
<1>1. /\ Sent' = Sent \ {r} /\ req' = [q \in Requests |-> req'[q]]
      /\ \A q \in Requests : req'[q].step = "looking" => req'[q].dns \in Servers
      /\ \A q \in Sent' : q \in Sent /\ req'[q] = req[q]
  BY RequestsMove
<1>2. SessionsKept'
  BY <1>1, SessionsStay
<1>3. up /\ breaker \in [fails : 0..3, open : BOOLEAN] /\ paid \in Nat
  BY UnderWay DEF ProxyInv, ProxyTypes, BREAKER_THRESHOLD
<1>4. /\ breaker' \in [fails : 0..3, open : BOOLEAN] /\ paid' \in Nat
      /\ ok => ~breaker'.open /\ paid' = 0
      /\ ~ok => /\ paid' = paid + 1
                /\ breaker.open => breaker'.open
                /\ ~breaker.open /\ ~breaker'.open => breaker'.fails = breaker.fails + 1
                                                     /\ breaker'.fails =< 2
  <2>1. CASE ok
    BY <2>1 DEF RecordOutcome
  <2>2. CASE ~ok
    <3> DEFINE n == IF breaker.fails < 3 THEN breaker.fails + 1 ELSE breaker.fails
    <3>1. n \in 0..3 /\ (n # 3 => n = breaker.fails + 1 /\ n =< 2)
      BY <1>3
    <3>2. breaker' = [fails |-> n, open |-> breaker.open \/ n = 3] /\ paid' = paid + 1
      BY <2>2 DEF RecordOutcome, BREAKER_THRESHOLD
    <3> HIDE DEF n
    <3>3. breaker'.fails = n /\ (breaker'.open <=> breaker.open \/ n = 3) /\ breaker'.open \in BOOLEAN
      BY <3>2
    <3>4. breaker' \in [fails : 0..3, open : BOOLEAN]
      BY <3>1, <3>2
    <3> QED BY <1>3, <2>2, <3>1, <3>2, <3>3, <3>4
  <2> QED BY <2>1, <2>2
<1>5. ProxyTypes'
  BY <1>1, <1>3, <1>4 DEF ProxyInv, ProxyTypes, Sessions, Servers, BREAKER_THRESHOLD
<1>6. Cost'
  <2>1. Cardinality(Sent') = Cardinality(Sent) - 1 /\ Cardinality(Sent') \in Nat
    <3>1. r \in Sent
      BY DEF Sent
    <3> QED BY <1>1, <3>1, SentIsFinite, FS_RemoveElement, FS_CardinalityType
  <2>2. Cardinality(Sent)' = Cardinality(Sent')
    OBVIOUS
  <2>3. ~breaker.open => paid =< breaker.fails /\ paid =< 2
    BY <1>3 DEF ProxyInv, Cost, BREAKER_THRESHOLD
  <2>4. breaker.open => paid + Cardinality(Sent) =< 2 + Cardinality(Requests)
    BY <1>3 DEF ProxyInv, Cost, BREAKER_THRESHOLD
  <2>5. ~breaker'.open => paid' =< breaker'.fails /\ paid' =< 2
    BY <1>3, <1>4, <2>3
  <2>6. breaker'.open => paid' + Cardinality(Sent') =< 2 + Cardinality(Requests)
    BY <1>3, <1>4, <2>1, <2>3, <2>4, SentIsFinite
  <2> QED BY <1>3, <2>2, <2>5, <2>6 DEF Cost, BREAKER_THRESHOLD
<1> QED BY <1>2, <1>5, <1>6 DEF ProxyInv

\* The cloud answers, or does not.
LEMMA RepliedKeeps ==
  ASSUME ProxyInv, NEW r \in Requests, Replied(r) \/ Failed(r)
  PROVE  ProxyInv'
<1>1. req[r].step = "sent" /\ UNCHANGED <<conf, up, sess, cur>>
  BY DEF Replied, Failed
<1> DEFINE home == Local(req[r], req[r].carries)
<1>2. home.step = "answered"
  BY LocalIs
<1>3. CASE Replied(r)
  <2>1. PICK reply \in Replies :
          req' = [req EXCEPT ![r] =
               IF req[r].endpoint \in LOCAL_ONLY_ENDPOINTS \/ ~Usable(reply)
               THEN home
               ELSE Answer(req[r], "cloud", Redacted[<<reply, req[r].endpoint, req[r].policy>>].out,
                           req[r].policy, FALSE)]
    BY <1>3 DEF Replied
  <2> DEFINE there == Answer(req[r], "cloud", Redacted[<<reply, req[r].endpoint, req[r].policy>>].out,
                             req[r].policy, FALSE)
  <2>2. there.step = "answered"
    BY DEF Answer
  <2>3. req' = [req EXCEPT ![r] = home] \/ req' = [req EXCEPT ![r] = there]
    BY <2>1
  <2>4. RecordOutcome(TRUE)
    BY <1>3 DEF Replied
  <2> HIDE DEF home, there
  <2> QED BY <1>1, <1>2, <2>2, <2>3, <2>4, BackKeeps
<1>4. CASE Failed(r)
  <2>1. req' = [req EXCEPT ![r] = home] /\ RecordOutcome(FALSE)
    BY <1>4 DEF Failed
  <2> HIDE DEF home
  <2> QED BY <1>1, <1>2, <2>1, BackKeeps
<1> QED BY <1>3, <1>4

\* Requests stay as they are.
LEMMA BesideKeeps ==
  ASSUME ProxyInv, req' = req,
         CooldownOver \/ (\E s \in Slots : SessionClosed(s)) \/ ChangeSettings \/ Enqueue
           \/ UNCHANGED proxyVars
  PROVE  ProxyInv'
<1>1. Sent' = Sent
  BY DEF Sent
<1>2. CASE CooldownOver
  <2>1. /\ breaker' = [breaker EXCEPT !.open = FALSE] /\ paid' = 0
        /\ UNCHANGED <<conf, up, sess, cur>>
    BY <1>2 DEF CooldownOver
  <2>2. breaker' \in [fails : 0..3, open : BOOLEAN] /\ ~breaker'.open /\ breaker'.fails \in Nat
    <3>1. breaker \in [fails : 0..3, open : BOOLEAN]
      BY DEF ProxyInv, ProxyTypes, BREAKER_THRESHOLD
    <3>2. breaker'.open = FALSE /\ breaker'.fails = breaker.fails
          /\ breaker' \in [fails : 0..3, open : BOOLEAN]
      BY <2>1, <3>1
    <3> QED BY <3>1, <3>2
  <2>3. Cost'
    BY <2>1, <2>2, SentIsFinite DEF ProxyInv, Cost, BREAKER_THRESHOLD
  <2> QED BY <1>1, <2>1, <2>2, <2>3
       DEF ProxyInv, ProxyTypes, Sessions, Servers, SessionsKept, BREAKER_THRESHOLD
<1>3. ASSUME NEW s \in Slots, SessionClosed(s) PROVE ProxyInv'
  <2>1. /\ sess' = [sess EXCEPT ![s] = [dns |-> "", state |-> "closed"]]
        /\ UNCHANGED <<conf, up, breaker, paid, cur>>
    BY <1>3 DEF SessionClosed
  <2>2. sess \in [Slots -> Sessions] /\ [dns |-> "", state |-> "closed"] \in Sessions
    BY DEF ProxyInv, ProxyTypes, Sessions
  <2>3. sess' \in [Slots -> Sessions]
    BY <2>1, <2>2
  <2>4. SessionsKept'
    BY <2>1, <2>2 DEF ProxyInv, ProxyTypes, SessionsKept, Sent
  <2>5. Cost'
    BY <1>1, <2>1 DEF ProxyInv, Cost
  <2> QED BY <1>1, <2>1, <2>3, <2>4, <2>5 DEF ProxyInv, ProxyTypes, Sessions, Servers
<1>4. CASE ChangeSettings \/ Enqueue \/ UNCHANGED proxyVars
  <2>1. conf' \in Settings /\ UNCHANGED <<up, sess, cur, breaker, paid>>
    BY <1>4 DEF ChangeSettings, Enqueue, proxyVars, ProxyInv, ProxyTypes
  <2>2. Cost'
    BY <1>1, <2>1 DEF ProxyInv, Cost
  <2> QED BY <1>1, <2>1, <2>2 DEF ProxyInv, ProxyTypes, Sessions, Servers, SessionsKept
<1> QED BY <1>2, <1>3, <1>4

\* The breaker as the server starts with it.
LEMMA ClosedBreaker ==
  [fails |-> 0, open |-> FALSE] \in [fails : 0..3, open : BOOLEAN]
OBVIOUS

\* The server stops after its last request.
LEMMA ShutdownKeeps ==
  ASSUME ProxyInv, Shutdown
  PROVE  ProxyInv'
<1>1. /\ up /\ ~up' /\ cur' = 0 /\ breaker' = [fails |-> 0, open |-> FALSE]
      /\ sess' = [s \in Slots |-> IF s = cur THEN [dns |-> "", state |-> "closed"] ELSE sess[s]]
      /\ UNCHANGED <<conf, paid, req>> /\ \A r \in Requests : req[r] = Idle
  BY DEF Shutdown
<1>0. req' = req /\ \A r \in Requests : req[r].step = "idle"
  <2>1. req' = req /\ \A r \in Requests : req[r] = Idle
    BY DEF Shutdown
  <2>2. Idle.step = "idle"
    BY DEF Idle
  <2> QED BY <2>1, <2>2
<1>2. Sent = {} /\ Sent' = {}
  BY <1>0 DEF Sent
<1>3. sess \in [Slots -> Sessions] /\ [dns |-> "", state |-> "closed"] \in Sessions
  BY DEF ProxyInv, ProxyTypes, Sessions
<1>4. sess' \in [Slots -> Sessions]
  BY <1>1, <1>3
<1>5. SessionsKept'
  <2>1. \A s \in Slots : sess'[s].state # "open"
    BY <1>1, <1>3 DEF ProxyInv, SessionsKept
  <2>2. \A r \in Requests : req'[r].step # "sent"
    BY <1>0
  <2> QED BY <2>1, <2>2 DEF SessionsKept
<1>6. ProxyTypes'
  <2>1. breaker' \in [fails : 0..3, open : BOOLEAN]
    BY ClosedBreaker DEF Shutdown
  <2>2. conf' = conf /\ paid' = paid /\ up' \in BOOLEAN
    BY DEF Shutdown
  <2> QED BY <1>0, <1>2, <1>4, <2>1, <2>2
       DEF ProxyInv, ProxyTypes, Sessions, Servers, BREAKER_THRESHOLD
<1>7. Cost'
  <2>1. paid =< BREAKER_THRESHOLD - 1 + Cardinality(Requests)
    <3>0. up
      BY DEF Shutdown
    <3>1. paid \in Nat /\ (breaker.open => paid + Cardinality(Sent) =< 2 + Cardinality(Requests))
           /\ (~breaker.open => paid =< 2)
      BY <3>0 DEF ProxyInv, ProxyTypes, Cost, BREAKER_THRESHOLD
    <3> QED BY <3>1, SentIsFinite DEF BREAKER_THRESHOLD
  <2> QED BY <1>1, <2>1 DEF Cost
<1> QED BY <1>5, <1>6, <1>7 DEF ProxyInv

\* ProxyInv holds at first, and every step keeps it.
LEMMA ProxyInitInv == ProxyInit => ProxyInv
<1> SUFFICES ASSUME ProxyInit PROVE ProxyInv
  OBVIOUS
<1>1. [dns |-> "", state |-> "closed"] \in Sessions
  BY DEF Sessions
<1>2. Sent = {} /\ \A r \in Requests : req[r].step = "idle"
  BY DEF Sent, ProxyInit, Idle
<1>3. ProxyTypes
  <2>1. /\ breaker \in [fails : 0..3, open : BOOLEAN] /\ paid \in Nat /\ up \in BOOLEAN
        /\ conf \in Settings /\ req = [r \in Requests |-> req[r]]
    BY ClosedBreaker DEF ProxyInit
  <2>2. sess \in [Slots -> Sessions]
    BY <1>1 DEF ProxyInit
  <2> QED BY <1>2, <2>1, <2>2 DEF ProxyTypes, BREAKER_THRESHOLD
<1>4. SessionsKept
  BY <1>2 DEF ProxyInit, SessionsKept
<1>5. Cost
  <2>1. up /\ breaker.open = FALSE /\ breaker.fails = 0 /\ paid = 0
    BY DEF ProxyInit
  <2> QED BY <2>1 DEF Cost, BREAKER_THRESHOLD
<1> QED BY <1>3, <1>4, <1>5 DEF ProxyInv

\* Every step keeps ProxyInv.
LEMMA ProxyNextInv == ProxyInv /\ [ProxyNext]_proxyVars => ProxyInv'
<1> SUFFICES ASSUME ProxyInv, [ProxyNext]_proxyVars PROVE ProxyInv'
  OBVIOUS
<1>1. ASSUME NEW r \in Requests,
             \/ Ask(r) \/ Handled(r) \/ HandlerRaises(r) \/ Looked(r)
             \/ Replied(r) \/ Failed(r) \/ Done(r)
      PROVE  ProxyInv'
  BY <1>1, AskKeeps, HandledKeeps, LookedKeeps, RepliedKeeps
<1>2. CASE CooldownOver \/ (\E s \in Slots : SessionClosed(s)) \/ ChangeSettings \/ Enqueue
             \/ UNCHANGED proxyVars
  <2>1. req' = req
    BY <1>2 DEF CooldownOver, SessionClosed, ChangeSettings, Enqueue, proxyVars
  <2> QED BY <1>2, <2>1, BesideKeeps
<1>3. CASE Shutdown
  BY <1>3, ShutdownKeeps
<1> QED BY <1>1, <1>2, <1>3 DEF ProxyNext

\* ProxyInv holds always.
LEMMA ProxyInvariant == ProxySpec => []ProxyInv
BY ProxyInitInv, ProxyNextInv, PTL DEF ProxySpec

-----------------------------------------------------------------------------
(* The proxy: answers                                                      *)

\* A request that leaves the house carries none of our commands, and what comes back in the
\* cloud's name is a clean answer to something the cloud may answer.
Ours(q) ==
  /\ q.step \in {"handling", "looking", "sent"} => q.endpoint \in Paths
  /\ q.step = "sent" => q.policy \in Policies
  /\ q.step \in {"looking", "sent", "answered"} =>
       /\ q.carries => q.step = "answered" /\ q.from = "local"
       /\ q.step = "answered" /\ q.from = "cloud" =>
            /\ ~Foreign(q.tree, q.policy)
            /\ ~Refusal(q.tree)
            /\ q.endpoint \notin LOCAL_ONLY_ENDPOINTS

AnswersInv ==
  conf \in Settings /\ req = [r \in Requests |-> req[r]] /\ \A r \in Requests : Ours(req[r])

\* A local answer is ours.
LEMMA LocalIsOurs ==
  ASSUME NEW q, NEW carries
  PROVE  Ours(Local(q, carries))
BY DEF Ours, Local, Answer

\* One request moves on, to something of ours.
LEMMA OneAnswers ==
  ASSUME AnswersInv, NEW r \in Requests, NEW next, req' = [req EXCEPT ![r] = next], Ours(next),
         conf' = conf
  PROVE  AnswersInv'
<1>1. req' = [q \in Requests |-> IF q = r THEN next ELSE req[q]]
  BY DEF AnswersInv
<1>2. \A q \in Requests : Ours(req'[q])
  BY <1>1 DEF AnswersInv
<1>3. \A q \in Requests : Ours(req[q])'
  BY <1>2 DEF Ours, Policies
<1> QED BY <1>1, <1>3 DEF AnswersInv

\* A request is handled at home: if it carries commands, or raises, it stays there.
LEMMA HomeAnswers ==
  ASSUME AnswersInv, NEW r \in Requests, Ask(r) \/ Handled(r) \/ HandlerRaises(r) \/ Done(r)
  PROVE  AnswersInv'
<1>1. conf' = conf
  BY DEF Ask, Handled, HandlerRaises, Done
<1>2. CASE Ask(r)
  <2>1. PICK e \in Paths, asked \in BOOLEAN, ours \in BOOLEAN :
           req' = [req EXCEPT ![r] = [step |-> "handling", endpoint |-> e, known |-> asked,
                                      ours |-> ours, proxied |-> conf.mode]]
    BY <1>2 DEF Ask
  <2> DEFINE next == [step |-> "handling", endpoint |-> e, known |-> asked, ours |-> ours,
                      proxied |-> conf.mode]
  <2>2. next.step = "handling" /\ next.endpoint = e
    OBVIOUS
  <2>3. req' = [req EXCEPT ![r] = next]
    BY <2>1
  <2> HIDE DEF next
  <2>4. Ours(next)
    BY <2>2 DEF Ours
  <2> QED BY <1>1, <2>3, <2>4, OneAnswers
<1>3. CASE Handled(r)
  <2> DEFINE away == [step |-> "looking", endpoint |-> req[r].endpoint, dns |-> conf.dns,
                      carries |-> CarriesCommands(req[r])]
             home == Local(req[r], CarriesCommands(req[r]))
  <2>1. req' = [req EXCEPT ![r] = home] \/ (~CarriesCommands(req[r]) /\ req' = [req EXCEPT ![r] = away])
    BY <1>3 DEF Handled, StaysLocal
  <2>2. Ours(home)
    BY LocalIsOurs
  <2>3. away.step = "looking" /\ away.endpoint = req[r].endpoint /\ away.carries = CarriesCommands(req[r])
    OBVIOUS
  <2>4. req[r].endpoint \in Paths
    BY <1>3 DEF Handled, AnswersInv, Ours
  <2> HIDE DEF home, away
  <2>5. ~CarriesCommands(req[r]) => Ours(away)
    BY <2>3, <2>4 DEF Ours
  <2> QED BY <1>1, <2>1, <2>2, <2>5, OneAnswers
<1>4. CASE HandlerRaises(r)
  <2> DEFINE home == Local(req[r], FALSE)
  <2>1. req' = [req EXCEPT ![r] = home] /\ Ours(home)
    BY <1>4, LocalIsOurs DEF HandlerRaises
  <2> HIDE DEF home
  <2> QED BY <1>1, <2>1, OneAnswers
<1>5. CASE Done(r)
  <2>1. req' = [req EXCEPT ![r] = Idle] /\ Ours(Idle)
    BY <1>5 DEF Done, Idle, Ours
  <2> QED BY <1>1, <2>1, OneAnswers
<1> QED BY <1>2, <1>3, <1>4, <1>5

\* A request looks for the cloud: it goes out under the policy of that moment.
LEMMA LookedAnswers ==
  ASSUME AnswersInv, NEW r \in Requests, Looked(r)
  PROVE  AnswersInv'
<1>1. conf' = conf /\ req[r].step = "looking" /\ conf \in Settings
  BY DEF Looked, AnswersInv
<1>2. req[r].endpoint \in Paths /\ ~req[r].carries
  BY <1>1 DEF AnswersInv, Ours
<1>3. PICK s \in Slots \cup {0} :
        \/ req' = [req EXCEPT ![r] = Local(@, @.carries)]
        \/ req' = [req EXCEPT ![r] =
               [step |-> "sent", endpoint |-> @.endpoint, dns |-> @.dns, sess |-> s,
                carries |-> @.carries, policy |-> conf.policy]]
  BY DEF Looked
<1> DEFINE home == Local(req[r], req[r].carries)
           away == [step |-> "sent", endpoint |-> req[r].endpoint, dns |-> req[r].dns, sess |-> s,
                    carries |-> req[r].carries, policy |-> conf.policy]
<1>4. req' = [req EXCEPT ![r] = home] \/ req' = [req EXCEPT ![r] = away]
  BY <1>3
<1>5. Ours(home)
  BY LocalIsOurs
<1>6. away.step = "sent" /\ away.endpoint = req[r].endpoint /\ away.carries = req[r].carries
       /\ away.policy = conf.policy
  OBVIOUS
<1>7. conf.policy \in Policies
  BY <1>1 DEF Policies
<1> HIDE DEF home, away
<1>8. Ours(away)
  BY <1>2, <1>6, <1>7 DEF Ours
<1> QED BY <1>1, <1>4, <1>5, <1>8, OneAnswers

\* The cloud's reply is redacted under the policy the request went out with.
LEMMA BackAnswers ==
  ASSUME AnswersInv, NEW r \in Requests, Replied(r) \/ Failed(r)
  PROVE  AnswersInv'
<1>1. conf' = conf /\ req[r].step = "sent"
  BY DEF Replied, Failed
<1>2. req[r].endpoint \in Paths /\ req[r].policy \in Policies
  BY <1>1 DEF AnswersInv, Ours
<1> DEFINE home == Local(req[r], req[r].carries)
<1>3. Ours(home)
  BY LocalIsOurs
<1>4. CASE Replied(r)
  <2>1. PICK reply \in Replies :
          req' = [req EXCEPT ![r] =
               IF req[r].endpoint \in LOCAL_ONLY_ENDPOINTS \/ ~Usable(reply)
               THEN home
               ELSE Answer(req[r], "cloud", Redacted[<<reply, req[r].endpoint, req[r].policy>>].out,
                           req[r].policy, FALSE)]
    BY <1>4 DEF Replied
  <2> DEFINE left == Redacted[<<reply, req[r].endpoint, req[r].policy>>].out
             there == Answer(req[r], "cloud", left, req[r].policy, FALSE)
  <2>2. left = Redaction(reply.tree, req[r].endpoint, req[r].policy).out
    BY <1>2 DEF Redacted
  <2>3. ~Foreign(left, req[r].policy) /\ (Usable(reply) => ~Refusal(left))
    BY <1>2, <2>2, RedactionAssumption
  <2> HIDE DEF left
  <2>4. /\ there.step = "answered" /\ there.from = "cloud" /\ there.tree = left
        /\ there.policy = req[r].policy /\ ~there.carries /\ there.endpoint = req[r].endpoint
    BY DEF Answer
  <2>5. \/ req' = [req EXCEPT ![r] = home]
        \/ /\ req[r].endpoint \notin LOCAL_ONLY_ENDPOINTS /\ Usable(reply)
           /\ req' = [req EXCEPT ![r] = there]
    BY <2>1 DEF left
  <2> HIDE DEF home, there
  <2>6. req[r].endpoint \notin LOCAL_ONLY_ENDPOINTS /\ Usable(reply) => Ours(there)
    BY <2>3, <2>4 DEF Ours
  <2> QED BY <1>1, <1>3, <2>5, <2>6, OneAnswers
<1>5. CASE Failed(r)
  <2>1. req' = [req EXCEPT ![r] = home]
    BY <1>5 DEF Failed
  <2> HIDE DEF home
  <2> QED BY <1>1, <1>3, <2>1, OneAnswers
<1> QED BY <1>4, <1>5

\* AnswersInv holds always.
LEMMA AnswersInvariant == ProxySpec => []AnswersInv
<1>1. ProxyInit => AnswersInv
  <2>1. Ours(Idle)
    BY DEF Ours, Idle
  <2> QED BY <2>1 DEF ProxyInit, AnswersInv
<1>2. AnswersInv /\ [ProxyNext]_proxyVars => AnswersInv'
  <2> SUFFICES ASSUME AnswersInv, [ProxyNext]_proxyVars PROVE AnswersInv'
    OBVIOUS
  <2>1. ASSUME NEW r \in Requests,
               \/ Ask(r) \/ Handled(r) \/ HandlerRaises(r) \/ Looked(r)
               \/ Replied(r) \/ Failed(r) \/ Done(r)
        PROVE  AnswersInv'
    BY <2>1, HomeAnswers, LookedAnswers, BackAnswers
  <2>2. CASE CooldownOver \/ (\E s \in Slots : SessionClosed(s)) \/ ChangeSettings \/ Enqueue
               \/ Shutdown \/ UNCHANGED proxyVars
    <3>1. req' = req /\ conf' \in Settings
      BY <2>2 DEF CooldownOver, SessionClosed, ChangeSettings, Enqueue, Shutdown, proxyVars, AnswersInv
    <3>2. \A r \in Requests : Ours(req[r])'
      BY <3>1 DEF AnswersInv, Ours, Policies
    <3> QED BY <3>1, <3>2 DEF AnswersInv
  <2> QED BY <2>1, <2>2 DEF ProxyNext
<1> QED BY <1>1, <1>2, PTL DEF ProxySpec

\* Whatever the cloud sends, and however the settings change while a request is under way, the
\* device gets nothing the policy keeps out and no refusal, and its queued commands are in the
\* local answer: carries_commands() is asked first and redact_body() is applied last.
THEOREM TheAnswersAreOurs == ProxySpec => []AnswersAreOurs
<1>1. AnswersInv => AnswersAreOurs
  BY DEF AnswersInv, Ours, AnswersAreOurs
<1> QED BY <1>1, AnswersInvariant, PTL

\* However many requests rebuild the client session at once, each goes out through one that
\* resolves by the server its address was checked with, and only the current one stays open:
\* get_proxy_session() and the loop check of forward().
THEOREM SessionsAreKept == ProxySpec => []SessionsKept
<1>1. ProxyInv => SessionsKept
  BY DEF ProxyInv
<1> QED BY <1>1, ProxyInvariant, PTL

\* However many requests are under way as the breaker opens, a dead cloud costs two waits and
\* one more for each of them: _record_outcome().
THEOREM DeadCloudCostsLittle == ProxySpec => []DeadCloudIsCheap
<1>1. ProxyInv => DeadCloudIsCheap
  BY SentIsFinite DEF ProxyInv, ProxyTypes, Cost, DeadCloudIsCheap, BREAKER_THRESHOLD
<1> QED BY <1>1, ProxyInvariant, PTL

\* The steps of a request.
Moves == {"idle", "handling", "looking", "sent", "answered"}

\* What the other variables of the proxy are.
RestTypes ==
  /\ edits \in 0..MaxEdits /\ cur \in Slots \cup {0} /\ waiting \in BOOLEAN
  /\ learned \subseteq {"secret", "mqtt"}
  /\ \A r \in Requests : req[r].step \in Moves

\* A request moves to a step there is.
LEMMA StepsAreMoves ==
  ASSUME req = [q \in Requests |-> req[q]], \A q \in Requests : req[q].step \in Moves,
         NEW r \in Requests, NEW next, req' = [req EXCEPT ![r] = next], next.step \in Moves
  PROVE  \A q \in Requests : req'[q].step \in Moves
<1>1. req' = [q \in Requests |-> IF q = r THEN next ELSE req[q]]
  OBVIOUS
<1>2. \A q \in Requests : req'[q] = IF q = r THEN next ELSE req[q]
  BY <1>1
<1> QED BY <1>2

LEMMA RestTypesKept == ProxyInv /\ RestTypes /\ [ProxyNext]_proxyVars => RestTypes'
<1> SUFFICES ASSUME ProxyInv, RestTypes, [ProxyNext]_proxyVars PROVE RestTypes'
  OBVIOUS
<1>1. /\ edits \in 0..MaxEdits /\ cur \in Slots \cup {0} /\ waiting \in BOOLEAN
      /\ learned \subseteq {"secret", "mqtt"} /\ \A r \in Requests : req[r].step \in Moves
      /\ req = [r \in Requests |-> req[r]]
  BY DEF RestTypes, ProxyInv, ProxyTypes
<1>3. ASSUME NEW q, NEW carries PROVE Local(q, carries).step \in Moves
  BY DEF Local, Answer, Moves
<1>4. ASSUME NEW r \in Requests, Ask(r) PROVE RestTypes'
  <2>1. PICK e \in Paths, registered \in BOOLEAN, ours \in BOOLEAN :
          req' = [req EXCEPT ![r] = [step |-> "handling", endpoint |-> e, known |-> registered,
                                     ours |-> ours, proxied |-> conf.mode]]
    BY <1>4 DEF Ask
  <2> DEFINE next == [step |-> "handling", endpoint |-> e, known |-> registered,
                      ours |-> ours, proxied |-> conf.mode]
  <2>2. req' = [req EXCEPT ![r] = next] /\ next.step \in Moves
    BY <2>1 DEF Moves
  <2> HIDE DEF next
  <2>3. \A q \in Requests : req'[q].step \in Moves
    BY <1>1, StepsAreMoves, <1>4, <2>2
  <2> QED BY <1>1, <1>4, <2>3 DEF Ask, RestTypes
<1>5. ASSUME NEW r \in Requests, Handled(r) PROVE RestTypes'
  <2> DEFINE next == IF StaysLocal(req[r]) THEN Local(req[r], CarriesCommands(req[r]))
                     ELSE [step |-> "looking", endpoint |-> req[r].endpoint, dns |-> conf.dns,
                           carries |-> CarriesCommands(req[r])]
  <2>1. req' = [req EXCEPT ![r] = next]
    BY <1>1, <1>5 DEF Handled
  <2>2. next.step \in Moves
    BY <1>3 DEF Moves
  <2> HIDE DEF next
  <2>3. \A q \in Requests : req'[q].step \in Moves
    BY <1>1, StepsAreMoves, <1>5, <2>1, <2>2
  <2>4. waiting' \in BOOLEAN
    BY <1>1, <1>5 DEF Handled
  <2> QED BY <1>1, <1>5, <2>3, <2>4 DEF Handled, RestTypes
<1>6. ASSUME NEW r \in Requests, NEW q, NEW carries, req' = [req EXCEPT ![r] = Local(q, carries)]
      PROVE  \A s \in Requests : req'[s].step \in Moves
  <2> DEFINE next == Local(q, carries)
  <2>1. next.step \in Moves /\ req' = [req EXCEPT ![r] = next]
    BY <1>3, <1>6
  <2> HIDE DEF next
  <2> QED BY <1>1, StepsAreMoves, <1>6, <2>1
<1>7. ASSUME NEW r \in Requests, HandlerRaises(r) \/ Failed(r) \/ Done(r) PROVE RestTypes'
  <2> SUFFICES \A q \in Requests : req'[q].step \in Moves
    BY <1>1, <1>7 DEF HandlerRaises, Failed, Done, RestTypes
  <2>1. CASE HandlerRaises(r)
    <3>1. req' = [req EXCEPT ![r] = Local(req[r], FALSE)]
      BY <1>1, <2>1 DEF HandlerRaises
    <3> QED BY <1>6, <1>7, <3>1
  <2>2. CASE Failed(r)
    <3>1. req' = [req EXCEPT ![r] = Local(req[r], req[r].carries)]
      BY <1>1, <2>2 DEF Failed
    <3> QED BY <1>6, <1>7, <3>1
  <2>3. CASE Done(r)
    <3>1. Idle.step \in Moves /\ req' = [req EXCEPT ![r] = Idle]
      BY <2>3 DEF Done, Idle, Moves
    <3> QED BY <1>1, StepsAreMoves, <1>7, <3>1
  <2> QED BY <1>7, <2>1, <2>2, <2>3
<1>8. ASSUME NEW r \in Requests, Looked(r) PROVE RestTypes'
  <2>1. CASE req' = [req EXCEPT ![r] = Local(@, @.carries)] /\ UNCHANGED <<sess, cur>>
    <3>1. req' = [req EXCEPT ![r] = Local(req[r], req[r].carries)]
      BY <1>1, <2>1
    <3>2. \A q \in Requests : req'[q].step \in Moves
      BY <1>6, <1>8, <3>1
    <3> QED BY <1>1, <1>8, <2>1, <3>2 DEF Looked, RestTypes
  <2>2. ASSUME NEW s \in Slots, GetProxySession(req[r].dns, s),
               req' = [req EXCEPT ![r] =
                 [step |-> "sent", endpoint |-> @.endpoint, dns |-> @.dns, sess |-> s,
                  carries |-> @.carries, policy |-> conf.policy]]
        PROVE  RestTypes'
    <3>1. cur' \in Slots \cup {0}
      BY <1>1, <2>2 DEF GetProxySession, NewSession
    <3> DEFINE next == [step |-> "sent", endpoint |-> req[r].endpoint, dns |-> req[r].dns,
                        sess |-> s, carries |-> req[r].carries, policy |-> conf.policy]
    <3>2. req' = [req EXCEPT ![r] = next] /\ next.step \in Moves
      BY <1>1, <2>2 DEF Moves
    <3> HIDE DEF next
    <3>3. \A q \in Requests : req'[q].step \in Moves
      BY <1>1, StepsAreMoves, <1>8, <3>2
    <3> QED BY <1>1, <1>8, <3>1, <3>3 DEF Looked, RestTypes
  <2> QED BY <1>8, <2>1, <2>2 DEF Looked
<1>9. ASSUME NEW r \in Requests, Replied(r) PROVE RestTypes'
  <2>1. PICK reply \in Replies :
          req' = [req EXCEPT ![r] =
            IF req[r].endpoint \in LOCAL_ONLY_ENDPOINTS \/ ~Usable(reply)
            THEN Local(req[r], req[r].carries)
            ELSE Answer(req[r], "cloud",
                        Redacted[<<reply, req[r].endpoint, req[r].policy>>].out,
                        req[r].policy, FALSE)]
    BY <1>9 DEF Replied
  <2> DEFINE next == IF req[r].endpoint \in LOCAL_ONLY_ENDPOINTS \/ ~Usable(reply)
                     THEN Local(req[r], req[r].carries)
                     ELSE Answer(req[r], "cloud",
                                 Redacted[<<reply, req[r].endpoint, req[r].policy>>].out,
                                 req[r].policy, FALSE)
  <2>2. next.step \in Moves /\ req' = [req EXCEPT ![r] = next]
    BY <2>1 DEF Local, Answer, Moves
  <2> HIDE DEF next
  <2>3. \A q \in Requests : req'[q].step \in Moves
    BY <1>1, StepsAreMoves, <1>9, <2>2
  <2>4. learned' \subseteq {"secret", "mqtt"}
    BY <1>1, <1>9 DEF Replied, RememberUpstreamCredentials
  <2> QED BY <1>1, <1>9, <2>3, <2>4 DEF Replied, RestTypes
<1>10. CASE ChangeSettings \/ Enqueue \/ CooldownOver \/ Shutdown \/ \E s \in Slots : SessionClosed(s)
  <2>1. edits \in 0..MaxEdits /\ MaxEdits \in Nat
    BY <1>1, ProxyAssumption
  <2>2. edits' = edits \/ (edits < MaxEdits /\ edits' = edits + 1)
    BY <1>10 DEF ChangeSettings, Enqueue, CooldownOver, Shutdown, SessionClosed
  <2>3. edits' \in 0..MaxEdits
    BY <2>1, <2>2
  <2>4. req' = req /\ learned' = learned /\ cur' \in Slots \cup {0} /\ waiting' \in BOOLEAN
    BY <1>1, <1>10
       DEF ChangeSettings, Enqueue, CooldownOver, Shutdown, SessionClosed
  <2> QED BY <1>1, <2>3, <2>4 DEF RestTypes
<1>11. CASE UNCHANGED proxyVars
  BY <1>1, <1>11 DEF proxyVars, RestTypes
<1> QED BY <1>4, <1>5, <1>7, <1>8, <1>9, <1>10, <1>11 DEF ProxyNext

\* Settings, sessions, breaker and requests keep their types, for any number of each.
THEOREM ProxyTypeCorrect == ProxySpec => []ProxyTypeOK
<1>1. ASSUME ProxyInit PROVE RestTypes
  <2>1. edits \in 0..MaxEdits
    <3>1. edits = 0
      BY <1>1 DEF ProxyInit
    <3> QED BY <3>1, ProxyAssumption
  <2>2. \A r \in Requests : req[r].step = "idle"
    BY <1>1 DEF ProxyInit, Idle
  <2> QED BY <1>1, <2>1, <2>2 DEF ProxyInit, RestTypes, Moves
<1>2. ProxyInv /\ RestTypes => ProxyTypeOK
  BY DEF ProxyInv, ProxyTypes, RestTypes, ProxyTypeOK, Sessions, Moves
<1> QED BY <1>1, <1>2, RestTypesKept, ProxyInvariant, PTL DEF ProxySpec

-----------------------------------------------------------------------------
(* The hub: lists                                                          *)

\* The last n of a list are a list of at most n, in its order.
LEMMA LastOfIs ==
  ASSUME NEW keys, NEW list \in Seq(keys), NEW n \in Nat \ {0}
  PROVE  /\ LastOf(list, n) \in Seq(keys)
         /\ Len(LastOf(list, n)) = IF Len(list) > n THEN n ELSE Len(list)
         /\ \A i \in 1..Len(LastOf(list, n)) :
              LastOf(list, n)[i] = list[i + Len(list) - Len(LastOf(list, n))]
<1>1. Len(list) \in Nat
  OBVIOUS
<1>2. CASE Len(list) > n
  BY <1>1, <1>2 DEF LastOf
<1>3. CASE ~(Len(list) > n)
  <2>1. LastOf(list, n) = SubSeq(list, 1, Len(list))
    BY <1>3 DEF LastOf
  <2>2. SubSeq(list, 1, Len(list)) = list
    BY <1>1, SubSeqFull
  <2>3. \A i \in 1..Len(list) : i + Len(list) - Len(list) = i
    BY <1>1
  <2> QED BY <1>1, <1>3, <2>1, <2>2, <2>3
<1> QED BY <1>2, <1>3

-----------------------------------------------------------------------------
(* The hub: its invariant                                                  *)

\* A page as the hub keeps it.
PageRecords ==
  [open : BOOLEAN, backlog : Seq(Nat), queue : Seq(Nat), seen : Seq(Nat), missed : SUBSET Nat,
   from : Nat]

\* The last so many events, in order.
EndsAt(list, n) ==
  /\ list \in Seq(Nat) /\ Len(list) =< n
  /\ \A i \in 1..Len(list) : list[i] = n - Len(list) + i

Increasing(list) == \A i, j \in DOMAIN list : i < j => list[i] < list[j]

\* What a page was and will be shown, and what it misses, are the events from its replay on.
Gapless(pg, n) ==
  LET feed == pg.seen \o pg.backlog \o pg.queue IN
  /\ pg.from =< n
  /\ Increasing(feed)
  /\ Elements(feed) \cup pg.missed = (pg.from + 1)..n
  /\ Elements(feed) \cap pg.missed = {}

HubInv ==
  /\ count \in Nat
  /\ EndsAt(ring, count)
  /\ page \in [Pages -> PageRecords]
  /\ \A p \in Pages : page[p].open => Gapless(page[p], count)

\* The elements of a list.
LEMMA ElementsAre ==
  ASSUME NEW list \in Seq(Nat)
  PROVE  /\ Elements(list) = {list[i] : i \in 1..Len(list)} /\ Elements(list) \subseteq Nat
BY DEF Elements

\* A list grows by one.
LEMMA ElementsAppended ==
  ASSUME NEW list \in Seq(Nat), NEW e \in Nat
  PROVE  Elements(Append(list, e)) = Elements(list) \cup {e}
<1>1. /\ Append(list, e) \in Seq(Nat) /\ Len(Append(list, e)) = Len(list) + 1 /\ Len(list) \in Nat
      /\ Append(list, e)[Len(list) + 1] = e
      /\ \A i \in 1..Len(list) : Append(list, e)[i] = list[i]
  OBVIOUS
<1> DEFINE longer == Append(list, e)
<1> HIDE DEF longer
<1>2. Elements(longer) = {longer[i] : i \in 1..(Len(list) + 1)}
  BY <1>1, ElementsAre DEF longer
<1>3. Elements(longer) = {list[i] : i \in 1..Len(list)} \cup {e}
  BY <1>1, <1>2 DEF longer
<1> QED BY <1>3, ElementsAre DEF longer

\* The replay: the last events, as many of them.
LEMMA ReplayIs ==
  ASSUME NEW n \in Nat, NEW list, EndsAt(list, n), NEW k \in Nat \ {0}
  PROVE  EndsAt(LastOf(list, k), n)
BY LastOfIs DEF EndsAt

\* The ring with one more event.
LEMMA Appended ==
  ASSUME NEW n \in Nat, NEW list, EndsAt(list, n)
  PROVE  EndsAt(Append(list, n + 1), n + 1)
BY DEF EndsAt

\* An interval grows by one.
LEMMA OneMore ==
  ASSUME NEW a \in Nat, NEW n \in Nat, a =< n
  PROVE  /\ (a + 1)..(n + 1) = ((a + 1)..n) \cup {n + 1}
         /\ n + 1 \notin (a + 1)..n
OBVIOUS

\* An event is put into the queue of an open page, or the queue is full and the page misses it.
LEMMA PutKeeps ==
  ASSUME NEW n \in Nat, NEW pg \in PageRecords, pg.open => Gapless(pg, n)
  PROVE  /\ Put(pg, n + 1) \in PageRecords /\ Put(pg, n + 1).open = pg.open
         /\ pg.open => Gapless(Put(pg, n + 1), n + 1)
<1> DEFINE feed == pg.seen \o pg.backlog \o pg.queue
<1>1. /\ pg.seen \in Seq(Nat) /\ pg.backlog \in Seq(Nat) /\ pg.queue \in Seq(Nat)
      /\ pg.missed \subseteq Nat /\ pg.from \in Nat
      /\ Append(pg.queue, n + 1) \in Seq(Nat) /\ n + 1 \in Nat
  <2>1. pg.queue \in Seq(Nat) /\ n + 1 \in Nat
    BY DEF PageRecords
  <2> QED BY <2>1, AppendProperties DEF PageRecords
<1>2. feed \in Seq(Nat)
  BY <1>1
<1>3. CASE Len(pg.queue) < QueueLength
  <2>1. Put(pg, n + 1) = [pg EXCEPT !.queue = Append(pg.queue, n + 1)]
    BY <1>3 DEF Put
  <2>2. /\ Put(pg, n + 1) \in PageRecords /\ Put(pg, n + 1).open = pg.open
        /\ Put(pg, n + 1).seen = pg.seen /\ Put(pg, n + 1).backlog = pg.backlog
        /\ Put(pg, n + 1).queue = Append(pg.queue, n + 1)
        /\ Put(pg, n + 1).missed = pg.missed /\ Put(pg, n + 1).from = pg.from
    BY <1>1, <2>1 DEF PageRecords
  <2>3. pg.seen \o pg.backlog \o Append(pg.queue, n + 1) = Append(feed, n + 1)
    <3>1. pg.seen \o pg.backlog \in Seq(Nat) /\ <<n + 1>> \in Seq(Nat)
      BY <1>1
    <3>2. Append(pg.queue, n + 1) = pg.queue \o <<n + 1>>
      BY <1>1, AppendIsConcat
    <3>3. Append(feed, n + 1) = feed \o <<n + 1>>
      <4> HIDE DEF feed
      <4> QED BY <1>1, <1>2, AppendIsConcat
    <3> DEFINE before == pg.seen \o pg.backlog
               q == pg.queue
               last == <<n + 1>>
    <3>4. before \in Seq(Nat) /\ q \in Seq(Nat) /\ last \in Seq(Nat)
      BY <1>1, <3>1
    <3> HIDE DEF before, q, last
    <3>5. (before \o q) \o last = before \o (q \o last)
      BY <3>4, ConcatAssociative, SMTT(60)
    <3> QED BY <3>2, <3>3, <3>5 DEF before, q, last
  <2>4. ASSUME pg.open PROVE Gapless(Put(pg, n + 1), n + 1)
    <3>1. /\ pg.from =< n /\ Increasing(feed) /\ Elements(feed) \cup pg.missed = (pg.from + 1)..n
          /\ Elements(feed) \cap pg.missed = {}
      BY <2>4 DEF Gapless
    <3> HIDE DEF feed
    <3>2. Elements(Append(feed, n + 1)) = Elements(feed) \cup {n + 1}
      BY <1>1, <1>2, ElementsAppended
    <3>3. \A i \in 1..Len(feed) : feed[i] < n + 1
      <4>1. \A i \in 1..Len(feed) : feed[i] \in (pg.from + 1)..n
        BY <1>2, <3>1, ElementsAre
      <4> QED BY <1>1, <4>1
    <3>4. Increasing(Append(feed, n + 1))
      <4>1. /\ Len(feed) \in Nat /\ DOMAIN feed = 1..Len(feed)
            /\ DOMAIN Append(feed, n + 1) = 1..(Len(feed) + 1)
            /\ \A i \in 1..Len(feed) : Append(feed, n + 1)[i] = feed[i]
            /\ Append(feed, n + 1)[Len(feed) + 1] = n + 1
        BY <1>2
      <4> QED BY <3>1, <3>3, <4>1 DEF Increasing
    <3>0. (pg.from + 1)..(n + 1) = ((pg.from + 1)..n) \cup {n + 1} /\ n + 1 \notin (pg.from + 1)..n
      BY <1>1, <3>1, OneMore
    <3>5. Elements(Append(feed, n + 1)) \cup pg.missed = (pg.from + 1)..(n + 1)
      BY <3>0, <3>1, <3>2, Zenon
    <3>6. n + 1 \notin pg.missed
      <4>1. pg.missed \subseteq (pg.from + 1)..n
        BY <3>1, Zenon
      <4> QED BY <3>0, <4>1, Zenon
    <3>7. Elements(Append(feed, n + 1)) \cap pg.missed = {}
      BY <3>1, <3>2, <3>6, Zenon
    <3> DEFINE new == Put(pg, n + 1)
    <3> HIDE DEF new
    <3>8. new.seen \o new.backlog \o new.queue = Append(feed, n + 1)
      BY <2>2, <2>3 DEF new, feed
    <3>9. new.missed = pg.missed /\ new.from = pg.from /\ pg.from =< n + 1
      BY <1>1, <2>2, <3>1 DEF new
    <3>10. Gapless(new, n + 1)
      BY <3>4, <3>5, <3>7, <3>8, <3>9, Zenon DEF Gapless
    <3> QED BY <3>10 DEF new
  <2> QED BY <2>2, <2>4
<1>4. CASE ~(Len(pg.queue) < QueueLength)
  <2>1. Put(pg, n + 1) = [pg EXCEPT !.missed = pg.missed \cup {n + 1}]
    BY <1>4 DEF Put
  <2>2. /\ Put(pg, n + 1) \in PageRecords /\ Put(pg, n + 1).open = pg.open
        /\ Put(pg, n + 1).seen = pg.seen /\ Put(pg, n + 1).backlog = pg.backlog
        /\ Put(pg, n + 1).queue = pg.queue
        /\ Put(pg, n + 1).missed = pg.missed \cup {n + 1} /\ Put(pg, n + 1).from = pg.from
    BY <1>1, <2>1 DEF PageRecords
  <2>3. ASSUME pg.open PROVE Gapless(Put(pg, n + 1), n + 1)
    <3>1. /\ pg.from =< n /\ Increasing(feed) /\ Elements(feed) \cup pg.missed = (pg.from + 1)..n
          /\ Elements(feed) \cap pg.missed = {}
      BY <2>3 DEF Gapless
    <3> HIDE DEF feed
    <3>2. Elements(feed) \cup (pg.missed \cup {n + 1}) = (pg.from + 1)..(n + 1)
      BY <1>1, <3>1
    <3>3. Elements(feed) \cap (pg.missed \cup {n + 1}) = {}
      BY <1>1, <3>1
    <3> QED BY <1>1, <2>2, <3>1, <3>2, <3>3, SMTT(60) DEF Gapless, feed
  <2> QED BY <2>2, <2>3
<1> QED BY <1>3, <1>4

\* Moving an event from the front of a list to the end of the one before it.
LEMMA MovedOn ==
  ASSUME NEW s \in Seq(Nat), NEW t \in Seq(Nat), t # <<>>
  PROVE  /\ Append(s, Head(t)) \o Tail(t) = s \o t
         /\ Append(s, Head(t)) \in Seq(Nat) /\ Tail(t) \in Seq(Nat)
BY SMTT(60)

\* HubInv holds at first.
LEMMA HubInitInv == HubInit => HubInv
<1> SUFFICES ASSUME HubInit PROVE HubInv
  OBVIOUS
<1>1. Closed \in PageRecords /\ ~Closed.open
  BY DEF Closed, PageRecords
<1>2. EndsAt(ring, count) /\ count \in Nat
  BY DEF HubInit, EndsAt
<1> QED BY <1>1, <1>2 DEF HubInit, HubInv

\* Publishing keeps it.
LEMMA PublishKeeps ==
  ASSUME HubInv, PublishEvent
  PROVE  HubInv'
<1>1. count \in Nat /\ count' = count + 1 /\ ring' = LastOf(Append(ring, count'), RingLength)
      /\ page' = [p \in Pages |-> IF Subscribed(p) THEN Put(page[p], count') ELSE page[p]]
  BY DEF HubInv, PublishEvent
<1>2. EndsAt(ring', count')
  BY <1>1, Appended, ReplayIs, HubAssumption DEF HubInv
<1>3. ASSUME NEW p \in Pages
      PROVE  page'[p] \in PageRecords /\ (page'[p].open => Gapless(page'[p], count'))
  <2>1. page[p] \in PageRecords /\ (page[p].open => Gapless(page[p], count))
    BY DEF HubInv
  <2>2. CASE page[p].open
    <3>1. page'[p] = Put(page[p], count + 1)
      BY <1>1, <2>2 DEF Subscribed
    <3> QED BY <1>1, <2>1, <2>2, <3>1, PutKeeps
  <2>3. CASE ~page[p].open
    BY <1>1, <2>1, <2>3 DEF Subscribed
  <2> QED BY <2>2, <2>3
<1>4. page' \in [Pages -> PageRecords]
  BY <1>1, <1>3
<1>5. EndsAt(ring, count)' /\ \A p \in Pages : (page[p].open => Gapless(page[p], count))'
  BY <1>2, <1>3 DEF EndsAt, Gapless, Increasing, Elements
<1> QED BY <1>1, <1>4, <1>5 DEF HubInv

\* One page changes, and nothing else.
LEMMA PageKeeps ==
  ASSUME HubInv, NEW p \in Pages, NEW pg \in PageRecords, pg.open => Gapless(pg, count),
         page' = [page EXCEPT ![p] = pg], UNCHANGED <<count, ring>>
  PROVE  HubInv'
<1>1. EndsAt(ring, count)'
  BY DEF HubInv, EndsAt
<1>2. page' \in [Pages -> PageRecords]
  BY DEF HubInv
<1>3. ASSUME NEW q \in Pages PROVE page'[q].open => Gapless(page'[q], count)
  BY DEF HubInv
<1>4. \A q \in Pages : (page[q].open => Gapless(page[q], count))'
  BY <1>3 DEF Gapless, Increasing, Elements
<1> QED BY <1>1, <1>2, <1>4 DEF HubInv

\* A page opens with the replay of the last events.
LEMMA OpenKeeps ==
  ASSUME HubInv, NEW p \in Pages, Open(p)
  PROVE  HubInv'
<1> DEFINE replay == Recent(Replay)
           from == count - Len(replay)
           pg == [Closed EXCEPT !.open = TRUE, !.backlog = replay, !.from = from]
<1>1. count \in Nat /\ EndsAt(replay, count)
  BY HubAssumption, ReplayIs DEF HubInv, Recent
<1>2. page' = [page EXCEPT ![p] = pg] /\ UNCHANGED <<count, ring>>
  BY DEF Open
<1> HIDE DEF replay
<1>3. replay \in Seq(Nat) /\ Len(replay) \in Nat /\ Len(replay) =< count /\ from \in Nat
  BY <1>1 DEF EndsAt
<1>4. /\ pg \in PageRecords /\ pg.open /\ pg.seen = <<>> /\ pg.backlog = replay /\ pg.queue = <<>>
      /\ pg.missed = {} /\ pg.from = from
  <2>1. <<>> \in Seq(Nat) /\ {} \in SUBSET Nat
    OBVIOUS
  <2> QED BY <1>3, <2>1 DEF Closed, PageRecords
<1>5. Gapless(pg, count)
  <2>1. <<>> \o replay \o <<>> = replay
    BY <1>3
  <2>2. Increasing(replay)
    <3>1. DOMAIN replay = 1..Len(replay)
      BY <1>3
    <3> QED BY <1>1, <1>3, <3>1 DEF Increasing, EndsAt
  <2>3. Elements(replay) = (from + 1)..count
    <3>1. \A k \in (from + 1)..count : k - from \in 1..Len(replay) /\ replay[k - from] = k
      BY <1>1, <1>3 DEF EndsAt
    <3>2. \A i \in 1..Len(replay) : replay[i] \in (from + 1)..count
      BY <1>1, <1>3 DEF EndsAt
    <3> QED BY <1>3, <3>1, <3>2, ElementsAre
  <2> HIDE DEF pg
  <2>4. pg.seen \o pg.backlog \o pg.queue = replay
    BY <1>4, <2>1
  <2> QED BY <1>1, <1>3, <1>4, <2>2, <2>3, <2>4 DEF Gapless
<1> HIDE DEF pg
<1> QED BY <1>2, <1>4, <1>5, PageKeeps

\* An event reaches the page, from the replay or from the queue.
LEMMA SendKeeps ==
  ASSUME HubInv, NEW p \in Pages, Send(p)
  PROVE  HubInv'
<1>1. page[p] \in PageRecords /\ Gapless(page[p], count) /\ UNCHANGED <<count, ring>>
  BY DEF HubInv, Send
<1>2. /\ page[p].seen \in Seq(Nat) /\ page[p].backlog \in Seq(Nat) /\ page[p].queue \in Seq(Nat)
  BY <1>1 DEF PageRecords
<1>3. CASE page[p].backlog # <<>>
  <2> DEFINE pg == [page[p] EXCEPT !.seen = Append(page[p].seen, Head(page[p].backlog)),
                                   !.backlog = Tail(page[p].backlog)]
  <2>1. page' = [page EXCEPT ![p] = pg]
    BY <1>3 DEF Send, HubInv
  <2>2. /\ pg.seen = Append(page[p].seen, Head(page[p].backlog)) /\ pg.backlog = Tail(page[p].backlog)
        /\ pg.queue = page[p].queue /\ pg.missed = page[p].missed /\ pg.from = page[p].from
        /\ pg \in PageRecords
    BY <1>1, <1>2, <1>3, MovedOn DEF PageRecords
  <2> HIDE DEF pg
  <2>3. pg.seen \o pg.backlog \o pg.queue = page[p].seen \o page[p].backlog \o page[p].queue
    <3> DEFINE s == page[p].seen
               b == page[p].backlog
               q == page[p].queue
    <3> HIDE DEF s, b, q
    <3>0. s \in Seq(Nat) /\ b \in Seq(Nat) /\ q \in Seq(Nat) /\ b # <<>>
      BY <1>2, <1>3 DEF s, b, q
    <3>1. Append(s, Head(b)) \o Tail(b) = s \o b
      BY <3>0, MovedOn
    <3> QED BY <2>2, <3>1 DEF s, b, q
  <2>4. Gapless(pg, count)
    BY <1>1, <2>2, <2>3 DEF Gapless
  <2> QED BY <1>1, <2>1, <2>2, <2>4, PageKeeps
<1>4. CASE page[p].backlog = <<>> /\ page[p].queue # <<>>
  <2> DEFINE pg == [page[p] EXCEPT !.seen = Append(page[p].seen, Head(page[p].queue)),
                                   !.queue = Tail(page[p].queue)]
  <2>1. page' = [page EXCEPT ![p] = pg]
    BY <1>4 DEF Send, HubInv
  <2>2. /\ pg.seen = Append(page[p].seen, Head(page[p].queue)) /\ pg.backlog = page[p].backlog
        /\ pg.queue = Tail(page[p].queue) /\ pg.missed = page[p].missed /\ pg.from = page[p].from
        /\ pg \in PageRecords
    BY <1>1, <1>2, <1>4, MovedOn DEF PageRecords
  <2> HIDE DEF pg
  <2>3. pg.seen \o pg.backlog \o pg.queue = page[p].seen \o page[p].backlog \o page[p].queue
    <3> DEFINE s == page[p].seen
               b == page[p].backlog
               q == page[p].queue
    <3> HIDE DEF s, b, q
    <3>0. s \in Seq(Nat) /\ b \in Seq(Nat) /\ q \in Seq(Nat) /\ b = <<>> /\ q # <<>>
      BY <1>2, <1>4 DEF s, b, q
    <3>1. Append(s, Head(q)) \o Tail(q) = s \o q
      BY <3>0, MovedOn
    <3>2. s \o b = s /\ Append(s, Head(q)) \o b = Append(s, Head(q))
      BY <3>0, MovedOn, ConcatEmptySeq
    <3> QED BY <2>2, <3>1, <3>2 DEF s, b, q
  <2>4. Gapless(pg, count)
    BY <1>1, <2>2, <2>3 DEF Gapless
  <2> QED BY <1>1, <2>1, <2>2, <2>4, PageKeeps
<1> QED BY <1>3, <1>4 DEF Send

\* A page closes.
LEMMA CloseKeeps ==
  ASSUME HubInv, NEW p \in Pages, Close(p)
  PROVE  HubInv'
<1>1. Closed \in PageRecords /\ ~Closed.open
  BY DEF Closed, PageRecords
<1> QED BY <1>1, PageKeeps DEF Close

\* Every step of the hub keeps HubInv.
LEMMA HubNextInv == HubInv /\ [HubNext]_hubVars => HubInv'
<1> SUFFICES ASSUME HubInv, [HubNext]_hubVars PROVE HubInv'
  OBVIOUS
<1>1. CASE UNCHANGED <<count, ring, page>>
  <2>1. \A p \in Pages : (page[p].open => Gapless(page[p], count))'
                         <=> (page[p].open => Gapless(page[p], count))
    BY <1>1 DEF Gapless, Increasing, Elements
  <2> QED BY <1>1, <2>1 DEF HubInv, EndsAt
<1>2. CASE PublishEvent
  BY <1>2, PublishKeeps
<1>3. ASSUME NEW p \in Pages, Open(p) \/ Send(p) \/ Close(p) PROVE HubInv'
  BY <1>3, OpenKeeps, SendKeeps, CloseKeeps
<1> QED BY <1>1, <1>2, <1>3 DEF HubNext, RecordOther, RecordDevice, SetStateReport, RecordUpstream, hubVars

\* HubInv holds always.
LEMMA HubInvariant == HubSpec => []HubInv
BY HubInitInv, HubNextInv, PTL DEF HubSpec

\* For any number of pages and events, and any lengths of ring, replay and queue: a page is shown
\* every event once and in order from the first of its replay on, but those its own queue was too
\* full for: publish(), subscribe() and api_ws().
THEOREM PageDoesSeeAll == HubSpec => []PageSeesAll
<1>1. HubInv => PageSeesAll
  BY DEF HubInv, Gapless, Increasing, PageSeesAll, Feed
<1> QED BY <1>1, HubInvariant, PTL

-----------------------------------------------------------------------------
(* The hub implements the feed of events.                                  *)

ClosedInv == \A p \in Pages : ~page[p].open => page[p] = Closed

FeedInv == HubInv /\ ClosedInv

\* Only a page that is open changes, or one that opens.
LEMMA ClosedStay == HubInv /\ ClosedInv /\ [HubNext]_hubVars => ClosedInv'
<1> SUFFICES ASSUME HubInv, ClosedInv, [HubNext]_hubVars PROVE ClosedInv'
  OBVIOUS
<1>1. page \in [Pages -> PageRecords]
  BY DEF HubInv
<1>2. CASE page' = page
  BY <1>2 DEF ClosedInv
<1>3. CASE PublishEvent
  <2>1. ASSUME NEW p \in Pages, ~page'[p].open PROVE page'[p] = Closed
    <3>1. page'[p] = IF page[p].open THEN Put(page[p], count') ELSE page[p]
      BY <1>3 DEF PublishEvent, Subscribed
    <3>2. page[p] \in PageRecords
      BY <1>1
    <3>3. page[p].open => Put(page[p], count').open
      BY <3>2 DEF Put, PageRecords
    <3> QED BY <2>1, <3>1, <3>3 DEF ClosedInv
  <2> QED BY <2>1 DEF ClosedInv
<1>4. ASSUME NEW p \in Pages, Open(p) \/ Send(p) \/ Close(p) PROVE ClosedInv'
  <2>1. page[p] \in PageRecords
    BY <1>1
  <2>2. \A q \in Pages \ {p} : page'[q] = page[q]
    BY <1>1, <1>4 DEF Open, Send, Close
  <2>3. page'[p] = Closed \/ page'[p].open
    <3>1. CASE Open(p)
      BY <1>1, <3>1 DEF Open, Closed
    <3>2. CASE Close(p)
      BY <1>1, <3>2 DEF Close
    <3>3. CASE Send(p)
      <4>1. page[p].open
        BY <3>3 DEF Send
      <4>2. CASE page' = [page EXCEPT ![p].seen = Append(@, Head(page[p].backlog)),
                                      ![p].backlog = Tail(@)]
        BY <1>1, <2>1, <4>1, <4>2 DEF PageRecords
      <4>3. CASE page' = [page EXCEPT ![p].seen = Append(@, Head(page[p].queue)),
                                      ![p].queue = Tail(@)]
        BY <1>1, <2>1, <4>1, <4>3 DEF PageRecords
      <4> QED BY <3>3, <4>2, <4>3 DEF Send
    <3> QED BY <1>4, <3>1, <3>2, <3>3
  <2> QED BY <2>2, <2>3 DEF ClosedInv
<1> QED BY <1>2, <1>3, <1>4 DEF HubNext, RecordOther, RecordDevice, SetStateReport,
           RecordUpstream, hubVars

\* The second part of an increasing list, and how its first event relates to the others.
LEMMA RestIncreases ==
  ASSUME NEW s \in Seq(Nat), NEW t \in Seq(Nat), Increasing(s \o t)
  PROVE  /\ \A i, j \in 1..Len(t) : i < j => t[i] < t[j]
         /\ \A i \in 1..Len(s), j \in 1..Len(t) : s[i] < t[j]
<1>1. /\ Len(s) \in Nat /\ Len(t) \in Nat /\ DOMAIN (s \o t) = 1..(Len(s) + Len(t))
      /\ \A i \in 1..Len(s) : (s \o t)[i] = s[i]
      /\ \A j \in 1..Len(t) : (s \o t)[Len(s) + j] = t[j]
  OBVIOUS
<1> DEFINE all == s \o t
<1>2. /\ \A i, j \in 1..(Len(s) + Len(t)) : i < j => all[i] < all[j]
      /\ \A i \in 1..Len(s) : all[i] = s[i]
      /\ \A j \in 1..Len(t) : all[Len(s) + j] = t[j]
  BY <1>1 DEF Increasing
<1> HIDE DEF all
<1>3. ASSUME NEW i \in 1..Len(t), NEW j \in 1..Len(t), i < j PROVE t[i] < t[j]
  <2>1. Len(s) + i \in 1..(Len(s) + Len(t)) /\ Len(s) + j \in 1..(Len(s) + Len(t))
        /\ Len(s) + i < Len(s) + j
    BY <1>1, <1>3
  <2>2. all[Len(s) + i] < all[Len(s) + j]
    BY <1>2, <2>1
  <2> QED BY <1>2, <2>2
<1>4. ASSUME NEW i \in 1..Len(s), NEW j \in 1..Len(t) PROVE s[i] < t[j]
  <2>1. i \in 1..(Len(s) + Len(t)) /\ Len(s) + j \in 1..(Len(s) + Len(t)) /\ i < Len(s) + j
    BY <1>1
  <2>2. all[i] < all[Len(s) + j]
    BY <1>2, <2>1
  <2> QED BY <1>2, <2>2
<1> QED BY <1>3, <1>4

\* An increasing list has as many elements as it is long.
LEMMA NoneTwice ==
  ASSUME NEW t \in Seq(Nat), \A i, j \in 1..Len(t) : i < j => t[i] < t[j]
  PROVE  Cardinality(Elements(t)) = Len(t)
<1>1. Len(t) \in Nat /\ Elements(t) = {t[i] : i \in 1..Len(t)}
  BY ElementsAre
<1> DEFINE f == [i \in 1..Len(t) |-> t[i]]
<1>2. f \in Bijection(1..Len(t), Elements(t))
  <2>1. \A i, j \in 1..Len(t) : t[i] = t[j] => i = j
    <3>1. ASSUME NEW i \in 1..Len(t), NEW j \in 1..Len(t), t[i] = t[j] PROVE i = j
      <4>1. t[i] \in Nat /\ t[j] \in Nat
        BY <1>1
      <4>2. i \in Nat /\ j \in Nat /\ ~(i < j) /\ ~(j < i)
        BY <1>1, <3>1, <4>1
      <4> QED BY <4>2
    <3> QED BY <3>1
  <2>2. f \in [1..Len(t) -> Elements(t)]
    BY <1>1
  <2>3. \A i, j \in 1..Len(t) : f[i] = f[j] => i = j
    BY <2>1
  <2>4. \A e \in Elements(t) : \E i \in 1..Len(t) : f[i] = e
    BY <1>1
  <2> QED BY <2>2, <2>3, <2>4, SMTT(60) DEF Bijection, Injection, Surjection, IsInjective
<1>3. ExistsBijection(1..Len(t), Elements(t))
  BY <1>2, Zenon DEF ExistsBijection
<1> QED BY <1>1, <1>3, FS_CountingElements

\* The first of a list is taken from it.
LEMMA TakenFirst ==
  ASSUME NEW t \in Seq(Nat), t # <<>>, \A i, j \in 1..Len(t) : i < j => t[i] < t[j]
  PROVE  /\ Head(t) \in Elements(t) /\ \A e \in Elements(t) : Head(t) =< e
         /\ Elements(Tail(t)) = Elements(t) \ {Head(t)}
<1>1. /\ Len(t) \in Nat /\ Len(t) >= 1 /\ Head(t) = t[1] /\ Tail(t) \in Seq(Nat)
      /\ Len(Tail(t)) = Len(t) - 1 /\ \A i \in 1..(Len(t) - 1) : Tail(t)[i] = t[i + 1]
      /\ \A i \in 1..Len(t) : t[i] \in Nat
  OBVIOUS
<1>2. Elements(t) = {t[i] : i \in 1..Len(t)}
  BY ElementsAre
<1> DEFINE rest == Tail(t)
<1> HIDE DEF rest
<1>3. Elements(rest) = {rest[i] : i \in 1..(Len(t) - 1)}
  BY <1>1, ElementsAre DEF rest
<1>4. \A i \in 1..Len(t) : i # 1 => t[1] < t[i] /\ i - 1 \in 1..(Len(t) - 1) /\ rest[i - 1] = t[i]
  BY <1>1 DEF rest
<1>5. \A i \in 1..(Len(t) - 1) : i + 1 \in 1..Len(t) /\ i + 1 # 1 /\ rest[i] = t[i + 1]
  BY <1>1 DEF rest
<1>6. 1 \in 1..Len(t)
  BY <1>1
<1>7. t[1] \in Elements(t) /\ \A e \in Elements(t) : t[1] =< e
  BY <1>1, <1>2, <1>4, <1>6
<1>8. Elements(rest) \subseteq Elements(t) \ {t[1]}
  <2>1. ASSUME NEW i \in 1..(Len(t) - 1) PROVE rest[i] \in Elements(t) /\ rest[i] # t[1]
    BY <1>1, <1>2, <1>4, <1>5
  <2> QED BY <1>3, <2>1
<1>9. Elements(t) \ {t[1]} \subseteq Elements(rest)
  <2>1. ASSUME NEW i \in 1..Len(t), t[i] # t[1] PROVE t[i] \in Elements(rest)
    BY <1>3, <1>4, <2>1
  <2> QED BY <1>2, <2>1
<1> QED BY <1>1, <1>7, <1>8, <1>9 DEF rest

\* What an open page is owed comes after what it was shown, in order, and is no event 0.
LEMMA OwedInOrder ==
  ASSUME HubInv, NEW p \in Pages, page[p].open
  PROVE  LET rest == page[p].backlog \o page[p].queue IN
         /\ rest \in Seq(Nat)
         /\ \A i, j \in 1..Len(rest) : i < j => rest[i] < rest[j]
         /\ \A e \in Elements(rest) : e > LastShown(page[p])
<1> DEFINE s == page[p].seen
           b == page[p].backlog
           q == page[p].queue
           rest == b \o q
<1>1. page[p] \in PageRecords /\ Gapless(page[p], count)
  BY DEF HubInv
<1>2. s \in Seq(Nat) /\ b \in Seq(Nat) /\ q \in Seq(Nat) /\ page[p].from \in Nat
  BY <1>1 DEF PageRecords
<1>3. Increasing((s \o b) \o q) /\ Elements((s \o b) \o q) \subseteq (page[p].from + 1)..count
  BY <1>1 DEF Gapless
<1> HIDE DEF s, b, q
<1>4. (s \o b) \o q = s \o rest /\ rest \in Seq(Nat)
  BY <1>2, ConcatAssociative, SMTT(60)
<1> HIDE DEF rest
<1>5. /\ \A i, j \in 1..Len(rest) : i < j => rest[i] < rest[j]
      /\ \A i \in 1..Len(s), j \in 1..Len(rest) : s[i] < rest[j]
  BY <1>2, <1>3, <1>4, RestIncreases
<1>6. ASSUME NEW j \in 1..Len(rest) PROVE rest[j] > LastShown(page[p])
  <2>1. CASE s = <<>>
    <3>1. /\ s \o rest = rest /\ rest[j] \in Elements(rest)
      BY <1>2, <1>4, <2>1, ElementsAre, ConcatEmptySeq
    <3>2. rest[j] \in (page[p].from + 1)..count
      BY <1>3, <1>4, <3>1
    <3> QED BY <1>2, <2>1, <3>2 DEF LastShown, s
  <2>2. CASE s # <<>>
    <3>1. Len(s) \in 1..Len(s) /\ s[Len(s)] \in Nat /\ rest[j] \in Nat
      BY <1>2, <1>4, <2>2
    <3>2. s[Len(s)] < rest[j]
      BY <1>5, <3>1
    <3> QED BY <2>2, <3>1, <3>2 DEF LastShown, s
  <2> QED BY <2>1, <2>2
<1>7. \A e \in Elements(rest) : e > LastShown(page[p])
  BY <1>4, <1>6, ElementsAre
<1> QED BY <1>4, <1>5, <1>7 DEF rest, b, q

\* What a page is owed as the feed sees it.
Owed == [p \in Pages |-> Due(page[p])]
LastOnes == [p \in Pages |-> LastShown(page[p])]

LEMMA OwedNext ==
  /\ Owed' = [p \in Pages |-> Due(page'[p])]
  /\ LastOnes' = [p \in Pages |-> LastShown(page'[p])]
BY DEF Owed, LastOnes, Due, LastShown, Elements

\* One page's feed changes.
LEMMA OneChanges ==
  ASSUME NEW p \in Pages, NEW owed, NEW last, \A q \in Pages \ {p} : page'[q] = page[q],
         Due(page'[p]) = owed, LastShown(page'[p]) = last
  PROVE  Owed' = [Owed EXCEPT ![p] = owed] /\ LastOnes' = [LastOnes EXCEPT ![p] = last]
BY OwedNext DEF Owed, LastOnes

\* The last of a list is what was appended to it.
LEMMA LastAppended ==
  ASSUME NEW s \in Seq(Nat), NEW e \in Nat
  PROVE  Append(s, e) # <<>> /\ Append(s, e)[Len(Append(s, e))] = e
<1>1. Append(s, e) \in Seq(Nat) /\ Len(Append(s, e)) = Len(s) + 1 /\ Append(s, e)[Len(s) + 1] = e
      /\ Len(s) \in Nat
  OBVIOUS
<1>2. Len(<<>>) = 0
  OBVIOUS
<1> QED BY <1>1, <1>2

LEMMA FeedBegins == HubInit => Feeds!Init
<1> SUFFICES ASSUME HubInit PROVE Feeds!Init
  OBVIOUS
<1>1. <<>> \o <<>> = <<>> /\ Elements(<<>>) = {}
  BY DEF Elements
<1>2. \A p \in Pages : Due(page[p]) = {} /\ LastShown(page[p]) = 0 /\ ~page[p].open
  BY <1>1 DEF HubInit, Closed, Due, LastShown
<1>3. count = 0
  BY DEF HubInit
<1> QED BY <1>2, <1>3 DEF Feeds!Init, OpenPages

\* A full queue is as many events owed.
LEMMA FullIsBehind ==
  ASSUME HubInv, NEW p \in Pages, page[p].open, ~(Len(page[p].queue) < QueueLength)
  PROVE  Cardinality(Due(page[p])) >= QueueLength
<1> DEFINE b == page[p].backlog
           q == page[p].queue
           rest == b \o q
<1>1. b \in Seq(Nat) /\ q \in Seq(Nat) /\ QueueLength \in Nat
  BY HubAssumption DEF HubInv, PageRecords
<1>2. rest \in Seq(Nat) /\ \A i, j \in 1..Len(rest) : i < j => rest[i] < rest[j]
  BY OwedInOrder
<1>3. Cardinality(Elements(rest)) = Len(rest)
  <2> HIDE DEF rest
  <2> QED BY <1>2, NoneTwice
<1>4. Len(rest) = Len(b) + Len(q) /\ Len(b) \in Nat /\ Len(q) \in Nat /\ ~(Len(q) < QueueLength)
  <2> HIDE DEF b, q
  <2>1. Len(b \o q) = Len(b) + Len(q) /\ Len(b) \in Nat /\ Len(q) \in Nat
    BY <1>1
  <2> QED BY <2>1 DEF b, q
<1>5. Len(rest) >= QueueLength
  <2> HIDE DEF rest, b, q
  <2> QED BY <1>1, <1>4
<1> QED BY <1>3, <1>5 DEF Due

\* What publishing does to what a page is owed.
LEMMA PutOwes ==
  ASSUME NEW n \in Nat, NEW pg \in PageRecords
  PROVE  /\ LastShown(Put(pg, n)) = LastShown(pg)
         /\ Due(Put(pg, n)) = IF Len(pg.queue) < QueueLength THEN Due(pg) \cup {n} ELSE Due(pg)
<1> DEFINE b == pg.backlog
           q == pg.queue
<1>1. b \in Seq(Nat) /\ q \in Seq(Nat)
  BY DEF PageRecords
<1>2. CASE Len(q) < QueueLength
  <2>1. /\ Put(pg, n).seen = pg.seen /\ Put(pg, n).backlog = b
        /\ Put(pg, n).queue = Append(q, n)
    BY <1>2 DEF Put, PageRecords
  <2> HIDE DEF b, q
  <2>2. b \o Append(q, n) = Append(b \o q, n) /\ b \o q \in Seq(Nat)
    <3>1. b \o q \in Seq(Nat) /\ <<n>> \in Seq(Nat)
      BY <1>1
    <3>2. Append(q, n) = q \o <<n>> /\ Append(b \o q, n) = (b \o q) \o <<n>>
      BY <1>1, <3>1, AppendIsConcat
    <3> DEFINE last == <<n>>
    <3> HIDE DEF last
    <3>3. last \in Seq(Nat)
      BY <3>1 DEF last
    <3>4. (b \o q) \o last = b \o (q \o last)
      BY <1>1, <3>3, ConcatAssociative, SMTT(60)
    <3> QED BY <3>1, <3>2, <3>4 DEF last
  <2>3. Elements(b \o Append(q, n)) = Elements(b \o q) \cup {n}
    BY <2>2, ElementsAppended
  <2> QED BY <1>2, <2>1, <2>3 DEF Due, LastShown, b, q
<1>3. CASE ~(Len(q) < QueueLength)
  BY <1>3 DEF Put, PageRecords, Due, LastShown
<1> QED BY <1>2, <1>3

\* Publishing is the feed's: only pages a full queue behind miss the event.
LEMMA PublishOwes == ASSUME FeedInv, PublishEvent PROVE Feeds!Publish
<1> DEFINE missing == {p \in OpenPages : ~(Len(page[p].queue) < QueueLength)}
<1>1. /\ count \in Nat /\ count' = count + 1
      /\ page' = [p \in Pages |-> IF page[p].open THEN Put(page[p], count') ELSE page[p]]
      /\ \A p \in Pages : page[p] \in PageRecords
  BY DEF FeedInv, HubInv, PublishEvent, Subscribed
<1>2. \A p \in Pages : page'[p].open = page[p].open
  <2>1. \A p \in Pages : page[p].open => Put(page[p], count').open = page[p].open
    BY <1>1 DEF Put, PageRecords
  <2> QED BY <1>1, <2>1
<1>3. OpenPages' = OpenPages
  BY <1>2 DEF OpenPages
<1>4. missing \in SUBSET Feeds!Behind
  <2>1. \A p \in missing : p \in OpenPages /\ Owed[p] = Due(page[p])
                          /\ Cardinality(Due(page[p])) >= QueueLength
    BY FullIsBehind DEF OpenPages, Owed, FeedInv
  <2>2. Feeds!Behind = {p \in OpenPages : Cardinality(Owed[p]) >= QueueLength}
    BY DEF Feeds!Behind, Owed, Feeds!Cardinality, Cardinality
  <2> QED BY <2>1, <2>2
<1>5. ASSUME NEW p \in Pages
      PROVE  /\ LastShown(page'[p]) = LastShown(page[p])
             /\ Due(page'[p]) = IF p \in OpenPages \ missing THEN Due(page[p]) \cup {count'}
                               ELSE Due(page[p])
  <2>1. page[p] \in PageRecords /\ count' \in Nat
    BY <1>1
  <2>2. CASE page[p].open
    <3>1. page'[p] = Put(page[p], count') /\ p \in OpenPages
      BY <1>1, <2>2 DEF OpenPages
    <3> QED BY <2>1, <3>1, PutOwes
  <2>3. CASE ~page[p].open
    BY <1>1, <2>3 DEF OpenPages
  <2> QED BY <2>2, <2>3
<1>6. LastOnes' = LastOnes
  BY <1>5, OwedNext DEF LastOnes
<1>7. Owed' = [p \in Pages |-> IF p \in OpenPages \ missing THEN Owed[p] \cup {count'} ELSE Owed[p]]
  BY <1>5, OwedNext DEF Owed
<1> HIDE DEF missing
<1> QED BY <1>1, <1>3, <1>4, <1>6, <1>7 DEF Feeds!Publish, Owed, LastOnes

\* A page opens: it is owed the last events.
LEMMA OpenOwes == ASSUME FeedInv, NEW p \in Pages, Open(p) PROVE Feeds!Open(p)
<1> DEFINE replay == Recent(Replay)
           from == count - Len(replay)
<1>1. count \in Nat /\ EndsAt(replay, count) /\ page \in [Pages -> PageRecords]
  BY HubAssumption, ReplayIs DEF FeedInv, HubInv, Recent
<1> HIDE DEF replay
<1>2. replay \in Seq(Nat) /\ Len(replay) \in Nat /\ Len(replay) =< count /\ from \in 0..count
  BY <1>1 DEF EndsAt
<1>3. /\ page'[p].open /\ page'[p].seen = <<>> /\ page'[p].backlog = replay
      /\ page'[p].queue = <<>> /\ ~page[p].open /\ UNCHANGED count
      /\ \A q \in Pages \ {p} : page'[q] = page[q]
  BY <1>1 DEF Open, Closed, replay
<1>4. Elements(replay) = (from + 1)..count
  <2>1. \A k \in (from + 1)..count : k - from \in 1..Len(replay) /\ replay[k - from] = k
    BY <1>1, <1>2 DEF EndsAt
  <2>2. \A i \in 1..Len(replay) : replay[i] \in (from + 1)..count
    BY <1>1, <1>2 DEF EndsAt
  <2> QED BY <1>2, <2>1, <2>2, ElementsAre
<1>5. Due(page'[p]) = (from + 1)..count /\ LastShown(page'[p]) = 0
  <2>1. replay \o <<>> = replay
    BY <1>2, ConcatEmptySeq
  <2> QED BY <1>3, <1>4, <2>1 DEF Due, LastShown
<1>6. LastShown(page[p]) = 0
  BY <1>3 DEF FeedInv, ClosedInv, LastShown, Closed
<1>7. OpenPages' = OpenPages \cup {p} /\ p \notin OpenPages
  BY <1>3 DEF OpenPages
<1>8. Owed' = [Owed EXCEPT ![p] = (from + 1)..count]
  BY <1>3, <1>5, OneChanges
<1>9. LastOnes' = LastOnes
  BY <1>3, <1>5, <1>6, OwedNext DEF LastOnes
<1> HIDE DEF from
<1> QED BY <1>2, <1>3, <1>7, <1>8, <1>9 DEF Feeds!Open, Owed, LastOnes

\* What is sent is the first of what is owed.
LEMMA SendTakes ==
  ASSUME HubInv, NEW p \in Pages, Send(p)
  PROVE  LET rest == page[p].backlog \o page[p].queue IN
         /\ rest # <<>> /\ page[p].open /\ page'[p].open /\ UNCHANGED count
         /\ \A q \in Pages \ {p} : page'[q] = page[q]
         /\ Due(page'[p]) = Elements(Tail(rest)) /\ LastShown(page'[p]) = Head(rest)
<1> DEFINE s == page[p].seen
           b == page[p].backlog
           q == page[p].queue
           rest == b \o q
<1>1. /\ page \in [Pages -> PageRecords] /\ page[p] \in PageRecords
      /\ page[p].open /\ UNCHANGED count
      /\ s \in Seq(Nat) /\ b \in Seq(Nat) /\ q \in Seq(Nat)
  BY DEF HubInv, PageRecords, Send
<1>2. \A r \in Pages \ {p} : page'[r] = page[r]
  BY <1>1 DEF Send
<1>3. CASE b # <<>>
  <2>1. /\ page'[p].open /\ page'[p].seen = Append(s, Head(b)) /\ page'[p].backlog = Tail(b)
        /\ page'[p].queue = q
    BY <1>1, <1>3, SMTT(60) DEF Send, PageRecords
  <2> HIDE DEF s, b, q
  <2>2. /\ b \o q # <<>> /\ Tail(b \o q) = Tail(b) \o q /\ Head(b \o q) = Head(b)
    BY <1>1, <1>3, SMTT(60)
  <2>3. Append(s, Head(b)) # <<>> /\ Append(s, Head(b))[Len(Append(s, Head(b)))] = Head(b)
    <3>1. Head(b) \in Nat
      BY <1>1, <1>3
    <3> QED BY <1>1, <3>1, LastAppended
  <2> QED BY <1>1, <1>2, <2>1, <2>2, <2>3 DEF Due, LastShown, s, b, q
<1>4. CASE b = <<>> /\ q # <<>>
  <2>1. page' = [page EXCEPT ![p].seen = Append(@, Head(page[p].queue)), ![p].queue = Tail(@)]
    BY <1>4 DEF Send
  <2>2. /\ page'[p].open /\ page'[p].seen = Append(s, Head(q)) /\ page'[p].backlog = b
        /\ page'[p].queue = Tail(q)
    BY <1>1, <2>1 DEF PageRecords
  <2> HIDE DEF s, b, q
  <2>3. b \o q = q /\ b \o Tail(q) = Tail(q)
    <3>1. Tail(q) \in Seq(Nat)
      BY <1>1, <1>4, MovedOn
    <3> QED BY <1>1, <1>4, <3>1, ConcatEmptySeq
  <2>4. Append(s, Head(q)) # <<>> /\ Append(s, Head(q))[Len(Append(s, Head(q)))] = Head(q)
    <3>1. Head(q) \in Nat
      BY <1>1, <1>4
    <3> QED BY <1>1, <3>1, LastAppended
  <2> QED BY <1>1, <1>2, <1>4, <2>2, <2>3, <2>4 DEF Due, LastShown, s, b, q
<1> QED BY <1>3, <1>4 DEF Send

LEMMA SendShows == ASSUME FeedInv, NEW p \in Pages, Send(p) PROVE Feeds!Show(p)
<1> DEFINE rest == page[p].backlog \o page[p].queue
<1>1. /\ rest # <<>> /\ page[p].open /\ page'[p].open /\ UNCHANGED count
      /\ \A q \in Pages \ {p} : page'[q] = page[q]
      /\ Due(page'[p]) = Elements(Tail(rest)) /\ LastShown(page'[p]) = Head(rest)
  BY SendTakes DEF FeedInv
<1>2. /\ rest \in Seq(Nat) /\ \A i, j \in 1..Len(rest) : i < j => rest[i] < rest[j]
      /\ \A e \in Elements(rest) : e > LastShown(page[p])
  BY <1>1, OwedInOrder DEF FeedInv
<1>3. Due(page[p]) = Elements(rest)
  BY DEF Due
<1> HIDE DEF rest
<1>4. /\ Head(rest) \in Elements(rest) /\ \A e \in Elements(rest) : Head(rest) =< e
      /\ Elements(Tail(rest)) = Elements(rest) \ {Head(rest)}
  BY <1>1, <1>2, TakenFirst
<1>5. OpenPages' = OpenPages /\ p \in OpenPages
  BY <1>1 DEF OpenPages
<1>6. Owed' = [Owed EXCEPT ![p] = Owed[p] \ {Head(rest)}]
  BY <1>1, <1>3, <1>4, OneChanges DEF Owed
<1>7. LastOnes' = [LastOnes EXCEPT ![p] = Head(rest)]
  BY <1>1, OneChanges
<1>8. /\ Head(rest) \in Owed[p] /\ Head(rest) > LastOnes[p]
      /\ \A other \in Owed[p] : Head(rest) =< other
  BY <1>2, <1>3, <1>4 DEF Owed, LastOnes
<1> QED BY <1>1, <1>5, <1>6, <1>7, <1>8 DEF Feeds!Show, Owed, LastOnes

LEMMA CloseOwes == ASSUME FeedInv, NEW p \in Pages, Close(p) PROVE Feeds!Close(p)
<1>1. /\ page[p].open /\ page'[p] = Closed /\ UNCHANGED count
      /\ \A q \in Pages \ {p} : page'[q] = page[q]
  BY DEF FeedInv, HubInv, Close
<1>2. <<>> \o <<>> = <<>> /\ Elements(<<>>) = {}
  BY DEF Elements
<1>3. Due(page'[p]) = {} /\ LastShown(page'[p]) = 0 /\ ~page'[p].open
  BY <1>1, <1>2 DEF Closed, Due, LastShown
<1>4. OpenPages' = OpenPages \ {p} /\ p \in OpenPages
  BY <1>1, <1>3 DEF OpenPages
<1>5. Owed' = [Owed EXCEPT ![p] = {}] /\ LastOnes' = [LastOnes EXCEPT ![p] = 0]
  BY <1>1, <1>3, OneChanges
<1> QED BY <1>1, <1>4, <1>5 DEF Feeds!Close, Owed, LastOnes

LEMMA StepsKeepTheFeed ==
  FeedInv /\ [HubNext]_hubVars => [Feeds!Next]_<<count, OpenPages, Owed, LastOnes>>
<1> SUFFICES ASSUME FeedInv, [HubNext]_hubVars
             PROVE  [Feeds!Next]_<<count, OpenPages, Owed, LastOnes>>
  OBVIOUS
<1>1. CASE UNCHANGED <<count, page>>
  BY <1>1 DEF OpenPages, Owed, LastOnes, Due, LastShown, Elements
<1>2. CASE PublishEvent
  BY <1>2, PublishOwes DEF Feeds!Next
<1>3. ASSUME NEW p \in Pages, Open(p) \/ Send(p) \/ Close(p) PROVE Feeds!Next
  BY <1>3, OpenOwes, SendShows, CloseOwes DEF Feeds!Next
<1> QED BY <1>1, <1>2, <1>3 DEF HubNext, RecordOther, RecordDevice, SetStateReport,
           RecordUpstream, hubVars

\* The hub implements the feed: whatever falls between subscribing, replay and queue, an open
\* page is shown the events it is owed in their order, and only those that come while it is a
\* full queue behind are kept from it: publish(), subscribe() and api_ws().
THEOREM ImplementsEventFeed == HubSpec => EventFeedSpec
<1>1. HubInit => ClosedInv
  BY DEF HubInit, ClosedInv
<1>2. HubSpec => []FeedInv
  BY <1>1, HubInitInv, HubNextInv, ClosedStay, PTL DEF HubSpec, FeedInv
<1> QED BY <1>2, FeedBegins, StepsKeepTheFeed, PTL DEF HubSpec, EventFeedSpec, Feeds!Spec, Owed, LastOnes

\* A table: keys in the order they were touched, each once, and not too many.
Table(list, keys) ==
  /\ list \in Seq(keys) /\ Len(list) =< MaxTracked
  /\ \A i, j \in 1..Len(list) : i # j => list[i] # list[j]

\* The queues of a page are within their limits.
PageFits(pg) == Len(pg.backlog) =< Replay /\ Len(pg.queue) =< QueueLength

LimitsInv ==
  /\ HubInv /\ count =< MaxEvents /\ Len(ring) =< RingLength
  /\ \A p \in Pages : PageFits(page[p])
  /\ Table(diag, Devices) /\ Table(upstream, Outcomes)

LEMMA WithoutIs ==
  ASSUME NEW keys, NEW list \in Seq(keys), NEW key \in keys,
         \A i, j \in 1..Len(list) : i # j => list[i] # list[j]
  PROVE  LET rest == Without(list, key) IN
         /\ rest \in Seq(keys) /\ Len(rest) =< Len(list)
         /\ \A i \in 1..Len(rest) : rest[i] # key
         /\ \A i, j \in 1..Len(rest) : i # j => rest[i] # rest[j]
<1>1. Len(list) \in Nat /\ DOMAIN list = 1..Len(list)
  OBVIOUS
<1>2. CASE ~\E i \in DOMAIN list : list[i] = key
  <2>1. Without(list, key) = list
    BY <1>2 DEF Without
  <2> QED BY <1>1, <1>2, <2>1
<1>3. CASE \E i \in DOMAIN list : list[i] = key
  <2> DEFINE at == CHOOSE i \in DOMAIN list : list[i] = key
             front == SubSeq(list, 1, at - 1)
             back == SubSeq(list, at + 1, Len(list))
             rest == front \o back
  <2>1. at \in 1..Len(list) /\ list[at] = key
    BY <1>1, <1>3
  <2>2. Without(list, key) = rest
    BY <1>3 DEF Without
  <2> HIDE DEF at
  <2>3. /\ front \in Seq(keys) /\ Len(front) = at - 1
        /\ \A i \in 1..(at - 1) : front[i] = list[i]
    BY <1>1, <2>1
  <2>4. /\ back \in Seq(keys) /\ Len(back) = Len(list) - at
        /\ \A i \in 1..(Len(list) - at) : back[i] = list[i + at]
    <3>1. at + 1 \in Nat /\ \A i \in (at + 1)..Len(list) : list[i] \in keys
      BY <1>1, <2>1
    <3>2. back = [i \in 1..(Len(list) - at) |-> list[i + at]]
      BY <1>1, <2>1, <3>1
    <3> HIDE DEF back
    <3>3. \A i \in 1..(Len(list) - at) : list[i + at] \in keys
      BY <1>1, <2>1, <3>1
    <3> QED BY <1>1, <2>1, <3>2, <3>3
  <2> HIDE DEF front, back
  <2>5. /\ rest \in Seq(keys) /\ Len(rest) = Len(list) - 1
        /\ \A i \in 1..(at - 1) : rest[i] = list[i]
        /\ \A i \in at..(Len(list) - 1) : rest[i] = list[i + 1]
    <3>1. /\ rest \in Seq(keys) /\ Len(rest) = Len(front) + Len(back)
          /\ \A i \in 1..(Len(front) + Len(back)) :
               rest[i] = IF i =< Len(front) THEN front[i] ELSE back[i - Len(front)]
      BY <2>3, <2>4, ConcatProperties, ZenonT(60)
    <3> HIDE DEF rest
    <3>2. ASSUME NEW i \in 1..Len(front) PROVE rest[i] = front[i]
      <4>1. Len(front) \in Nat /\ Len(back) \in Nat
        BY <2>3, <2>4
      <4>2. i \in 1..(Len(front) + Len(back)) /\ i =< Len(front)
        BY <4>1
      <4> QED BY <3>1, <4>2
    <3>3. ASSUME NEW i \in (Len(front) + 1)..(Len(front) + Len(back))
          PROVE  rest[i] = back[i - Len(front)]
      <4>1. Len(front) \in Nat /\ Len(back) \in Nat
        BY <2>3, <2>4
      <4>2. i \in 1..(Len(front) + Len(back)) /\ ~(i =< Len(front))
        BY <4>1
      <4> QED BY <3>1, <4>2
    <3>4. ASSUME NEW i \in at..(Len(list) - 1) PROVE rest[i] = list[i + 1]
      <4>1. i \in (Len(front) + 1)..(Len(front) + Len(back)) /\ i - Len(front) = i + 1 - at
        BY <1>1, <2>1, <2>3, <2>4
      <4>2. i + 1 - at \in 1..(Len(list) - at) /\ (i + 1 - at) + at = i + 1
        BY <1>1, <2>1
      <4> QED BY <2>4, <3>3, <4>1, <4>2
    <3> QED BY <1>1, <2>1, <2>3, <2>4, <3>1, <3>2, <3>4
  <2> HIDE DEF rest
  <2> DEFINE old(i) == IF i < at THEN i ELSE i + 1
  <2>6. ASSUME NEW i \in 1..(Len(list) - 1)
        PROVE  old(i) \in 1..Len(list) /\ old(i) # at /\ rest[i] = list[old(i)]
    <3>1. CASE i < at
      <4>1. i \in 1..(at - 1) /\ i \in 1..Len(list) /\ i # at
        BY <1>1, <2>1, <3>1
      <4> QED BY <2>5, <3>1, <4>1
    <3>2. CASE ~(i < at)
      <4>1. i \in at..(Len(list) - 1) /\ i + 1 \in 1..Len(list) /\ i + 1 # at
        BY <1>1, <2>1, <3>2
      <4> QED BY <2>5, <3>2, <4>1
    <3> QED BY <3>1, <3>2
  <2>7. ASSUME NEW i \in 1..(Len(list) - 1), NEW j \in 1..(Len(list) - 1), i # j
        PROVE  old(i) # old(j)
    BY <1>1, <2>1, <2>7
  <2> HIDE DEF old
  <2>8. \A i \in 1..Len(rest) : rest[i] # key
    BY <2>1, <2>5, <2>6
  <2>9. \A i, j \in 1..Len(rest) : i # j => rest[i] # rest[j]
    BY <2>5, <2>6, <2>7
  <2>10. rest \in Seq(keys) /\ Len(rest) =< Len(list)
    BY <1>1, <2>5
  <2> QED BY <2>2, <2>8, <2>9, <2>10
<1> QED BY <1>2, <1>3

LEMMA TouchKeeps ==
  ASSUME NEW keys, NEW list, Table(list, keys), NEW key \in keys
  PROVE  Table(Touch(list, key), keys)
<1> DEFINE rest == Without(list, key)
           longer == Append(rest, key)
           kept == LastOf(longer, MaxTracked)
<1>1. /\ rest \in Seq(keys) /\ \A i \in 1..Len(rest) : rest[i] # key
      /\ \A i, j \in 1..Len(rest) : i # j => rest[i] # rest[j]
  BY WithoutIs DEF Table
<1> HIDE DEF rest
<1>2. /\ longer \in Seq(keys) /\ Len(longer) = Len(rest) + 1 /\ Len(rest) \in Nat
      /\ \A i \in 1..Len(rest) : longer[i] = rest[i]
      /\ longer[Len(rest) + 1] = key
  BY <1>1
<1> HIDE DEF longer
<1>3. \A i, j \in 1..Len(longer) : i # j => longer[i] # longer[j]
  BY <1>1, <1>2
<1>4. /\ kept \in Seq(keys) /\ Len(kept) =< MaxTracked /\ Len(kept) =< Len(longer)
      /\ \A i \in 1..Len(kept) : kept[i] = longer[i + Len(longer) - Len(kept)]
  <2>1. MaxTracked \in Nat \ {0}
    BY HubAssumption
  <2>2. /\ kept \in Seq(keys) /\ Len(kept) = IF Len(longer) > MaxTracked THEN MaxTracked ELSE Len(longer)
        /\ \A i \in 1..Len(kept) : kept[i] = longer[i + Len(longer) - Len(kept)]
    BY <1>2, <2>1, LastOfIs
  <2> HIDE DEF kept
  <2>3. Len(longer) \in Nat
    BY <1>2
  <2>4. Len(kept) =< MaxTracked /\ Len(kept) =< Len(longer)
    BY <2>1, <2>2, <2>3
  <2> QED BY <2>2, <2>4
<1>5. Touch(list, key) = kept
  BY DEF Touch, rest, longer
<1> HIDE DEF kept
<1>6. Len(kept) \in Nat /\ Len(longer) \in Nat
  BY <1>2, <1>4
<1>7. \A i \in 1..Len(kept) : i + Len(longer) - Len(kept) \in 1..Len(longer)
  BY <1>4, <1>6
<1>8. ASSUME NEW i \in 1..Len(kept), NEW j \in 1..Len(kept), i # j PROVE kept[i] # kept[j]
  <2>1. i + Len(longer) - Len(kept) # j + Len(longer) - Len(kept)
    BY <1>6, <1>8
  <2> QED BY <1>3, <1>4, <1>7, <2>1
<1> QED BY <1>4, <1>5, <1>8 DEF Table

\* What the hub keeps stays within its limits.
LEMMA LimitsKept == LimitsInv /\ [HubNext]_hubVars => LimitsInv'
<1> SUFFICES ASSUME LimitsInv, [HubNext]_hubVars PROVE LimitsInv'
  OBVIOUS
<1>1. HubInv /\ HubInv'
  BY HubNextInv DEF LimitsInv
<1>2. {RingLength, Replay, QueueLength, MaxTracked} \subseteq Nat \ {0} /\ MaxEvents \in Nat
  BY HubAssumption
<1>3. count \in Nat /\ ring \in Seq(Nat) /\ page \in [Pages -> PageRecords]
  BY <1>1 DEF HubInv, EndsAt
<1>4. /\ count =< MaxEvents /\ Len(ring) =< RingLength /\ \A p \in Pages : PageFits(page[p])
      /\ Table(diag, Devices) /\ Table(upstream, Outcomes)
  BY DEF LimitsInv
<1>5. ASSUME PublishEvent
      PROVE  count' =< MaxEvents /\ Len(ring') =< RingLength /\ \A p \in Pages : PageFits(page'[p])
  <2>1. count' = count + 1 /\ count < MaxEvents /\ ring' = LastOf(Append(ring, count'), RingLength)
    BY <1>5 DEF PublishEvent
  <2>2. Append(ring, count') \in Seq(Nat) /\ Len(Append(ring, count')) \in Nat
    BY <1>3, <2>1
  <2>3. Len(ring') =< RingLength
    <3> DEFINE longer == Append(ring, count')
    <3> HIDE DEF longer
    <3>1. Len(LastOf(longer, RingLength)) = IF Len(longer) > RingLength THEN RingLength ELSE Len(longer)
      BY <1>2, <2>2, LastOfIs DEF longer
    <3>2. Len(longer) \in Nat /\ RingLength \in Nat
      BY <1>2, <2>2 DEF longer
    <3> QED BY <2>1, <3>1, <3>2 DEF longer
  <2>4. ASSUME NEW p \in Pages PROVE PageFits(page'[p])
    <3>1. page'[p] = IF Subscribed(p) THEN Put(page[p], count') ELSE page[p]
      BY <1>5 DEF PublishEvent
    <3>2. page[p] \in PageRecords /\ PageFits(page[p])
      BY <1>3, <1>4
    <3>3. PageFits(Put(page[p], count'))
      <4>1. CASE Len(page[p].queue) < QueueLength
        <5>1. /\ Put(page[p], count').backlog = page[p].backlog
              /\ Put(page[p], count').queue = Append(page[p].queue, count')
          BY <3>2, <4>1 DEF Put, PageRecords
        <5>2. Len(Append(page[p].queue, count')) = Len(page[p].queue) + 1
              /\ Len(page[p].queue) \in Nat
          BY <1>3, <2>1, <3>2 DEF PageRecords
        <5> QED BY <1>2, <3>2, <4>1, <5>1, <5>2 DEF PageFits
      <4>2. CASE ~(Len(page[p].queue) < QueueLength)
        BY <3>2, <4>2 DEF Put, PageRecords, PageFits
      <4> QED BY <4>1, <4>2
    <3> QED BY <3>1, <3>2, <3>3
  <2> QED BY <1>2, <1>3, <2>1, <2>3, <2>4
<1>6. CASE RecordOther
  BY <1>1, <1>4, <1>5, <1>6 DEF RecordOther, LimitsInv
<1>7. ASSUME NEW d \in Devices, RecordDevice(d) PROVE LimitsInv'
  <2>1. Table(diag', Devices)
    BY <1>4, <1>7, TouchKeeps DEF RecordDevice
  <2> QED BY <1>1, <1>4, <1>5, <1>7, <2>1 DEF RecordDevice, LimitsInv
<1>8. ASSUME NEW d \in Devices, SetStateReport(d) PROVE LimitsInv'
  <2>1. Table(diag', Devices)
    BY <1>4, <1>8, TouchKeeps DEF SetStateReport
  <2> QED BY <1>1, <1>4, <1>8, <2>1 DEF SetStateReport, LimitsInv
<1>9. ASSUME NEW o \in Outcomes, RecordUpstream(o) PROVE LimitsInv'
  <2>1. Table(upstream', Outcomes)
    BY <1>4, <1>9, TouchKeeps DEF RecordUpstream
  <2> QED BY <1>1, <1>4, <1>9, <2>1 DEF RecordUpstream, LimitsInv
<1>10. ASSUME NEW p \in Pages, NEW pg, PageFits(pg), page' = [page EXCEPT ![p] = pg],
              UNCHANGED <<count, ring, diag, upstream>>
       PROVE  LimitsInv'
  <2>1. \A q \in Pages : PageFits(page'[q])
    BY <1>3, <1>4, <1>10
  <2> QED BY <1>1, <1>4, <1>10, <2>1 DEF LimitsInv
<1>11. ASSUME NEW p \in Pages, Open(p) PROVE LimitsInv'
  <2> DEFINE pg == [Closed EXCEPT !.open = TRUE, !.backlog = Recent(Replay),
                                  !.from = count - Len(Recent(Replay))]
  <2>1. pg.backlog = Recent(Replay) /\ pg.queue = <<>>
    BY DEF Closed
  <2>2. Len(Recent(Replay)) =< Replay
    BY <1>2, <1>3, LastOfIs DEF Recent
  <2> HIDE DEF pg
  <2>3. PageFits(pg)
    BY <1>2, <2>1, <2>2 DEF PageFits
  <2>4. page' = [page EXCEPT ![p] = pg] /\ UNCHANGED <<count, ring, diag, upstream>>
    BY <1>11 DEF Open, pg
  <2> QED BY <1>10, <2>3, <2>4
<1>12. ASSUME NEW p \in Pages, Send(p) PROVE LimitsInv'
  <2>0. page[p] \in PageRecords /\ PageFits(page[p])
    BY <1>3, <1>4
  <2>1. CASE /\ page[p].backlog # <<>>
             /\ page' = [page EXCEPT ![p].seen = Append(@, Head(page[p].backlog)), ![p].backlog = Tail(@)]
    <3> DEFINE pg == [page[p] EXCEPT !.seen = Append(page[p].seen, Head(page[p].backlog)),
                                     !.backlog = Tail(page[p].backlog)]
    <3>1. page' = [page EXCEPT ![p] = pg]
      BY <1>3, <2>1
    <3>2. Len(Tail(page[p].backlog)) = Len(page[p].backlog) - 1 /\ Len(page[p].backlog) \in Nat
      BY <2>0, <2>1 DEF PageRecords
    <3>3. PageFits(pg)
      BY <1>2, <2>0, <3>2 DEF PageFits, PageRecords
    <3> HIDE DEF pg
    <3> QED BY <1>10, <1>12, <3>1, <3>3 DEF Send
  <2>2. CASE /\ page[p].backlog = <<>> /\ page[p].queue # <<>>
             /\ page' = [page EXCEPT ![p].seen = Append(@, Head(page[p].queue)), ![p].queue = Tail(@)]
    <3> DEFINE pg == [page[p] EXCEPT !.seen = Append(page[p].seen, Head(page[p].queue)),
                                     !.queue = Tail(page[p].queue)]
    <3>1. page' = [page EXCEPT ![p] = pg]
      BY <1>3, <2>2
    <3>2. Len(Tail(page[p].queue)) = Len(page[p].queue) - 1 /\ Len(page[p].queue) \in Nat
      BY <2>0, <2>2 DEF PageRecords
    <3>3. PageFits(pg)
      BY <1>2, <2>0, <3>2 DEF PageFits, PageRecords
    <3> HIDE DEF pg
    <3> QED BY <1>10, <1>12, <3>1, <3>3 DEF Send
  <2> QED BY <1>12, <2>1, <2>2 DEF Send
<1>13. ASSUME NEW p \in Pages, Close(p) PROVE LimitsInv'
  <2>1. PageFits(Closed)
    BY <1>2 DEF PageFits, Closed
  <2> QED BY <1>10, <1>13, <2>1 DEF Close
<1>14. CASE UNCHANGED hubVars
  BY <1>1, <1>4, <1>14 DEF hubVars, LimitsInv
<1> QED BY <1>6, <1>7, <1>8, <1>9, <1>11, <1>12, <1>13, <1>14 DEF HubNext

\* However many events, pages, devices and outcomes there are: the ring, the replays, the queues
\* and the two tables stay within their limits, and a table has a key once (_d(),
\* record_upstream()).
THEOREM HubKeepsItsLimits == HubSpec => []HubTypeOK
<1>1. HubInit => LimitsInv
  <2> SUFFICES ASSUME HubInit PROVE LimitsInv
    OBVIOUS
  <2>1. HubInv
    BY HubInitInv
  <2>2. {RingLength, Replay, QueueLength, MaxTracked} \subseteq Nat \ {0} /\ MaxEvents \in Nat
    BY HubAssumption
  <2>3. Table(diag, Devices) /\ Table(upstream, Outcomes)
    BY <2>2 DEF HubInit, Table
  <2> QED BY <2>1, <2>2, <2>3 DEF HubInit, LimitsInv, PageFits, Closed
<1>2. LimitsInv => HubTypeOK
  <2> SUFFICES ASSUME LimitsInv PROVE HubTypeOK
    OBVIOUS
  <2>1. /\ DOMAIN diag = 1..Len(diag) /\ DOMAIN upstream = 1..Len(upstream)
        /\ \A i \in 1..Len(diag) : diag[i] \in Devices
        /\ \A i \in 1..Len(upstream) : upstream[i] \in Outcomes
    BY DEF LimitsInv, Table
  <2>2. count \in 0..MaxEvents
    BY HubAssumption DEF LimitsInv, HubInv
  <2> QED BY <2>1, <2>2 DEF LimitsInv, Table, PageFits, HubTypeOK, Elements
<1> QED BY <1>1, <1>2, LimitsKept, PTL DEF HubSpec

-----------------------------------------------------------------------------
(* The connection to the cloud's broker                                    *)

\* What is on the local broker is one message, and none of the cloud's is one that goes up.
BusTypes ==
  \/ bus = NoMessage
  \/ bus \in [shape : Shapes, origin : {"device", "cloud"}, body : {bus.body}]

LinkInv ==
  /\ LinkTypeOK /\ BusTypes /\ out # "cloud"
  /\ bus # NoMessage /\ bus.origin = "cloud" =>
       PassesDown(bus.shape) /\ ~ForeignBody(bus.body, Policy)

Flags == on \in BOOLEAN /\ known \in BOOLEAN /\ tracked \in BOOLEAN /\ client \in BOOLEAN
ATask == [state : {"none", "new", "dialing", "up", "waiting", "ending", "done"},
          creds : 0..MaxCreds]

LEMMA LinkInvInit == ASSUME LinkAssumption, LinkInit PROVE LinkInv
<1>1. MaxToggles \in Nat /\ MaxCreds \in Nat \ {0}
  BY DEF LinkAssumption
<1>2. BusTypes /\ out # "cloud" /\ bus = NoMessage
  BY DEF LinkInit, BusTypes
<1>3. Flags
  BY DEF LinkInit, Flags
<1>4. LinkTypeOK
  BY <1>1, <1>3 DEF LinkInit, LinkTypeOK, NoMessage, NoTask, Flags
<1> QED BY <1>2, <1>4 DEF LinkInv

LEMMA LinkInvNext == ASSUME LinkAssumption, LinkInv, [LinkNext]_linkVars PROVE LinkInv'
<1>0. MaxToggles \in Nat /\ MaxCreds \in Nat /\ MaxCreds >= 1
  BY DEF LinkAssumption
<1>1. /\ LinkTypeOK /\ BusTypes /\ out # "cloud"
      /\ bus # NoMessage /\ bus.origin = "cloud" =>
           PassesDown(bus.shape) /\ ~ForeignBody(bus.body, Policy)
  BY DEF LinkInv
<1>2. Flags /\ task \in ATask
  BY <1>1 DEF LinkTypeOK, Flags, ATask
\* The supervisor, the task, the panel and the end leave the messages alone.
<1>3. ASSUME UNCHANGED <<bus, out>>, LinkTypeOK' PROVE LinkInv'
  BY <1>1, <1>3 DEF LinkInv, BusTypes
\* A message comes or goes, and the rest stays.
<1>4. ASSUME UNCHANGED BusLeft, bus'.shape \in Shapes \cup {"none"},
             out' \in {"none", "device", "cloud"}
      PROVE  LinkTypeOK'
  <2>1. Flags'
    BY <1>2, <1>4 DEF BusLeft, Flags
  <2> QED BY <2>1, <1>1, <1>4 DEF BusLeft, LinkTypeOK, Flags
<1>4a. StopAll => task' \in ATask /\ tracked' \in BOOLEAN
  <2>1. CancelTask \in ATask
    BY <1>0, <1>2 DEF CancelTask, NoTask, ATask
  <2> QED BY <2>1, <1>2 DEF StopAll
<1>5. CASE UNCHANGED linkVars
  <2>1. Flags' /\ UNCHANGED <<bus, out>>
    BY <1>2, <1>5 DEF linkVars, Flags
  <2> QED BY <2>1, <1>1, <1>3, <1>5 DEF linkVars, LinkTypeOK, Flags
<1>6. CASE Reconcile
  <2>0. UNCHANGED <<bus, out>> /\ (StopAll \/ StartWanted)
    BY <1>6 DEF Reconcile
  <2>3. StopAll => task' \in ATask /\ tracked' \in BOOLEAN
    BY <1>4a
  <2>4. StartWanted => task' \in ATask
    BY <1>0, <1>2 DEF StartWanted, NoTask, ATask
  <2>5. StartWanted => tracked' \in BOOLEAN
    BY <1>2 DEF StartWanted, Swept, Flags
  <2>1. task' \in ATask /\ tracked' \in BOOLEAN /\ UNCHANGED <<bus, out>>
    BY <2>0, <2>3, <2>4, <2>5
  <2>2. Flags' /\ sup' \in {"asleep", "stopping", sup}
    BY <2>1, <1>2, <1>6 DEF Reconcile, Flags
  <2> QED BY <2>1, <2>2, <1>1, <1>3, <1>6 DEF Reconcile, LinkTypeOK, Flags, ATask
<1>7. CASE SupStopped \/ ShutdownAsked \/ CleanupEnds
  <2>1. Flags' /\ UNCHANGED <<bus, out>>
    BY <1>2, <1>7 DEF SupStopped, ShutdownAsked, CleanupEnds, Flags
  <2> QED BY <2>1, <1>1, <1>3, <1>7
      DEF SupStopped, ShutdownAsked, CleanupEnds, LinkTypeOK, Flags
<1>8. CASE Captured \/ Edit
  <2>1. Flags' /\ UNCHANGED <<bus, out>>
    BY <1>2, <1>8 DEF Captured, Edit, Flags
  <2>2. toggles' \in 0..MaxToggles /\ version' \in 0..MaxCreds
    BY <1>0, <1>1, <1>8 DEF Captured, Edit, LinkTypeOK
  <2>3. UNCHANGED <<sup, task, shutdown>>
    BY <1>8 DEF Captured, Edit
  <2> QED BY <2>1, <2>2, <2>3, <1>1, <1>3 DEF LinkTypeOK, Flags
<1>9. CASE TaskDials \/ DialEnds(TRUE) \/ DialEnds(FALSE) \/ Drop \/ WaitOver \/ Ended
  <2>1. Flags' /\ UNCHANGED TaskLeft
    BY <1>2, <1>9 DEF TaskDials, DialEnds, Drop, WaitOver, Ended, TaskLeft, Flags
  <2>2. task' \in ATask
    BY <1>0, <1>1, <1>2, <1>9
    DEF TaskDials, DialEnds, Drop, WaitOver, Ended, NoTask, ATask, LinkTypeOK
  <2> QED BY <2>1, <2>2, <1>1, <1>3 DEF TaskLeft, LinkTypeOK, Flags, ATask
<1>10. CASE LinksStop
  <2>1. task' \in ATask /\ Flags' /\ UNCHANGED <<bus, out>>
    BY <1>2, <1>4a, <1>10 DEF LinksStop, Flags
  <2> QED BY <2>1, <1>1, <1>3, <1>10 DEF LinksStop, LinkTypeOK, Flags, ATask
<1>11. ASSUME NEW shape \in Shapes, NEW body \in CloudBodies, FromCloud(shape, body) PROVE LinkInv'
  <2>1. bus' = [shape |-> shape, origin |-> "cloud", body |-> CleanBody(body, Policy)]
        /\ PassesDown(shape) /\ out' = out /\ UNCHANGED BusLeft
    BY <1>11 DEF FromCloud
  <2>2. LinkTypeOK'
    BY <1>1, <1>4, <2>1 DEF LinkTypeOK
  <2>3. ~ForeignBody(CleanBody(body, Policy), Policy)
    BY DEF LinkAssumption
  <2> QED BY <2>1, <2>2, <2>3, <1>1 DEF LinkInv, BusTypes
<1>12. ASSUME NEW shape \in Shapes, FromDevice(shape) PROVE LinkInv'
  <2>1. bus' = [shape |-> shape, origin |-> "device", body |-> DeviceBody] /\ out' = out
        /\ UNCHANGED BusLeft
    BY <1>12 DEF FromDevice
  <2>2. LinkTypeOK'
    BY <1>1, <1>4, <2>1 DEF LinkTypeOK
  <2> QED BY <2>1, <2>2, <1>1 DEF LinkInv, BusTypes
\* What goes up is not on a topic of a server's, and all of the cloud's are.
<1>13. CASE BridgeHears
  <2>1. /\ bus' = NoMessage /\ bus # NoMessage /\ UNCHANGED BusLeft
        /\ out' = out \/ (out' = bus.origin /\ ~IsServerPublished(bus.shape))
    <3>1. bus' = NoMessage /\ bus # NoMessage /\ UNCHANGED BusLeft
      BY <1>13 DEF BridgeHears
    <3>2. out' = out \/ (out' = bus.origin /\ ~IsServerPublished(bus.shape))
      BY <1>13, Zenon DEF BridgeHears
    <3> QED BY <3>1, <3>2
  <2>2. bus.origin \in {"device", "cloud"}
    BY <2>1, <1>1 DEF BusTypes
  <2>3. out' \in {out, "device"}
    BY <2>1, <2>2, <1>1 DEF PassesDown
  <2>4. LinkTypeOK'
    BY <2>1, <2>3, <1>1, <1>4 DEF NoMessage, LinkTypeOK
  <2> QED BY <2>1, <2>3, <2>4, <1>1 DEF LinkInv, BusTypes
<1> QED BY <1>5, <1>6, <1>7, <1>8, <1>9, <1>10, <1>11, <1>12, <1>13 DEF LinkNext

\* The connection's variables keep their types, whatever the panel, the cloud and the shutdown
\* do to it (mqtt/upstream.py).
THEOREM LinkTypeCorrect == ASSUME LinkAssumption PROVE LinkSpec => []LinkTypeOK
<1>1. LinkInit => LinkInv BY LinkInvInit
<1>2. LinkInv /\ [LinkNext]_linkVars => LinkInv' BY LinkInvNext
<1>3. LinkInv => LinkTypeOK BY DEF LinkInv
<1> QED BY <1>1, <1>2, <1>3, PTL DEF LinkSpec

\* The bridge hears its own publishes, and the topic's shape alone keeps what the cloud said from
\* going back up to it (forward_up); what reaches the local broker from the cloud is redacted and
\* no offer of firmware.
THEOREM NothingEchoes == ASSUME LinkAssumption PROVE LinkSpec => []NoEcho
<1>1. LinkInit => LinkInv BY LinkInvInit
<1>2. LinkInv /\ [LinkNext]_linkVars => LinkInv' BY LinkInvNext
<1>3. LinkInv => NoEcho BY DEF LinkInv, NoEcho, PassesDown, Relayable
<1> QED BY <1>1, <1>2, <1>3, PTL DEF LinkSpec
-----------------------------------------------------------------------------
(* The camera sidecar: what the supervisor compares with, and what it does *)
(* between forgetting one process and starting the next.                   *)

\* What is on its way to a new process is never empty, whichever variable holds it.
SidecarInv ==
  /\ SidecarTypeOK /\ RenderedIsServed
  /\ step = "writing" => config # {}
  /\ step = "starting" => rendered # {}

LEMMA SidecarInvInit == ASSUME SidecarAssumption, Init PROVE SidecarInv
<1>1. SidecarTypeOK
  BY DEF SidecarAssumption, Init, SidecarTypeOK
<1> QED BY <1>1 DEF Init, SidecarInv, RenderedIsServed, Running, NoConfig

\* The types, step by step.
LEMMA SidecarTypesKept ==
  ASSUME SidecarAssumption, SidecarTypeOK, [Next]_vars PROVE SidecarTypeOK'
<1> USE DEF SidecarTypeOK, cameraVars, processVars
<1>0. MaxChanges \in Nat /\ changes \in 0..MaxChanges
      /\ (changes < MaxChanges => changes + 1 \in 0..MaxChanges)
  BY DEF SidecarAssumption
<1>1. ASSUME NEW answers \in BOOLEAN, Round(answers) PROVE SidecarTypeOK'
  BY <1>0, <1>1 DEF Round
<1>2. ASSUME NEW c \in Cameras, PassOver(c) PROVE SidecarTypeOK'
  BY <1>2 DEF PassOver
<1>3. ASSUME NEW c \in Cameras, Probe(c) PROVE SidecarTypeOK'
  BY <1>3 DEF Probe
<1>4. ASSUME NEW c \in Cameras, Expires(c) \/ Leave(c) PROVE SidecarTypeOK'
  BY <1>4 DEF Expires, Leave
<1>5. CASE Probed
  <2>1. PICK p \in probing :
          /\ probing' = {} /\ todo' = todo \ {p[1]} /\ fresh' = fresh \cup {p[1]}
          /\ available' \in {available \cup {p[1]}, available \ {p[1]}}
          /\ UNCHANGED <<ip, streams, step, config, rendered, process, serving, viewers, changes>>
    BY <1>5 DEF Probed
  <2>2. p[1] \in Cameras
    OBVIOUS
  <2> QED BY <2>1, <2>2
<1>6. CASE ReconcileStreams
  BY <1>6 DEF ReconcileStreams, StopProcess
<1>7. CASE Write \/ WriteFails
  BY <1>0, <1>7 DEF Write, WriteFails
<1>8. ASSUME NEW starts \in BOOLEAN, StartProcess(starts) PROVE SidecarTypeOK'
  BY <1>0, <1>8 DEF StartProcess
<1>9. CASE Cancelled
  BY <1>9 DEF Cancelled, StopProcess
<1>10. CASE Change
  BY <1>0, <1>10 DEF Change, Reports, Patched, Watch, Dies
<1>11. CASE UNCHANGED vars
  BY <1>11 DEF vars
<1> QED BY <1>1, <1>2, <1>3, <1>4, <1>5, <1>6, <1>7, <1>8, <1>9, <1>10, <1>11 DEF Next

\* A step that leaves the process, what it serves and its viewers alone, while the supervisor
\* sleeps or probes or becomes one that does, disturbs nothing.
LEMMA QuietKeeps ==
  ASSUME SidecarInv, SidecarTypeOK', UNCHANGED <<config, rendered, process, serving, viewers>>,
         step' = step \/ step' \in {"asleep", "probing"}
  PROVE  SidecarInv'
BY DEF SidecarInv, RenderedIsServed, Running, Named

LEMMA ReconcileKeeps ==
  ASSUME SidecarInv, SidecarTypeOK', ReconcileStreams PROVE SidecarInv'
<1>1. CASE UNCHANGED processVars /\ step' = "asleep"
  BY <1>1, QuietKeeps DEF processVars
<1>2. CASE StopProcess /\ step' = "asleep"
  BY <1>2 DEF StopProcess, SidecarInv, RenderedIsServed, Running, NoConfig
<1>3. CASE config' # {} /\ step' = "writing" /\ StopProcess
  BY <1>3 DEF StopProcess, SidecarInv, RenderedIsServed, Running, NoConfig
<1>4. CASE /\ config' # {} /\ step' = "writing" /\ ~Running
           /\ UNCHANGED <<rendered, process, serving, viewers>>
  BY <1>4 DEF SidecarInv, RenderedIsServed, Running, Named
<1> QED BY <1>1, <1>2, <1>3, <1>4 DEF ReconcileStreams, Wanted

LEMMA SidecarNextInv ==
  ASSUME SidecarAssumption, SidecarInv, [Next]_vars PROVE SidecarInv'
<1>0. SidecarTypeOK'
  BY SidecarTypesKept DEF SidecarInv
<1>1. CASE \E answers \in BOOLEAN : Round(answers)
  BY <1>0, <1>1, QuietKeeps DEF Round, processVars
<1>2. ASSUME NEW c \in Cameras, PassOver(c) \/ Probe(c) \/ Expires(c) PROVE SidecarInv'
  BY <1>0, <1>2, QuietKeeps DEF PassOver, Probe, Expires, processVars
<1>3. ASSUME NEW c \in Cameras, Leave(c) PROVE SidecarInv'
  BY <1>0, <1>3 DEF Leave, SidecarInv, RenderedIsServed, Running, Named
<1>4. CASE Probed
  BY <1>0, <1>4, QuietKeeps DEF Probed, processVars
<1>5. CASE ReconcileStreams
  BY <1>0, <1>5, ReconcileKeeps
<1>6. CASE Write \/ WriteFails
  BY <1>0, <1>6 DEF Write, WriteFails, SidecarInv, RenderedIsServed, Running, Named
<1>7. ASSUME NEW starts \in BOOLEAN, StartProcess(starts) PROVE SidecarInv'
  <2>1. ~Running /\ serving = {} /\ viewers = {} /\ rendered # {}
    BY <1>7 DEF StartProcess, SidecarInv, RenderedIsServed, Running
  <2> QED BY <1>0, <1>7, <2>1 DEF StartProcess, SidecarInv, RenderedIsServed, Running, NoConfig, Named
<1>8. CASE Cancelled
  BY <1>0, <1>8 DEF Cancelled, StopProcess, SidecarInv, RenderedIsServed, Running, NoConfig
<1>9. CASE Change
  <2>0. UNCHANGED <<available, fresh, step, todo, probing, config, rendered>>
    BY <1>9 DEF Change
  <2>1. CASE UNCHANGED <<process, serving, viewers>>
    BY <1>0, <2>0, <2>1, QuietKeeps
  <2>2. CASE Dies
    BY <1>0, <2>0, <2>2 DEF Dies, SidecarInv, RenderedIsServed, Running, NoConfig
  <2>3. ASSUME NEW c \in Cameras, Watch(c) PROVE SidecarInv'
    BY <1>0, <2>0, <2>3 DEF Watch, SidecarInv, RenderedIsServed, Running, Named
  <2> QED BY <1>9, <2>1, <2>2, <2>3 DEF Change, Reports, Patched
<1>10. CASE UNCHANGED vars
  BY <1>0, <1>10, QuietKeeps DEF vars
<1> QED BY <1>1, <1>2, <1>3, <1>4, <1>5, <1>6, <1>7, <1>8, <1>9, <1>10 DEF Next

LEMMA SidecarInvariant == ASSUME SidecarAssumption PROVE SidecarSpec => []SidecarInv
<1>1. SidecarInv /\ [Next]_vars => SidecarInv'
  BY SidecarNextInv
<1>2. Init => SidecarInv
  BY SidecarInvInit
<1> QED BY <1>1, <1>2, PTL DEF SidecarSpec

\* The sidecar's variables keep their types, for any cameras, addresses and bound.
THEOREM SidecarTypeCorrect ==
  ASSUME SidecarAssumption PROVE SidecarSpec => []SidecarTypeOK
<1>1. SidecarInv => SidecarTypeOK
  BY DEF SidecarInv
<1> QED BY <1>1, SidecarInvariant, PTL

\* What reconcile() compares with is what the process serves, and nobody watches what is not
\* served: through writes, starts that fail, deaths, cancellations and cameras that change
\* address in between.
THEOREM ServesWhatItRendered ==
  ASSUME SidecarAssumption PROVE SidecarSpec => []RenderedIsServed
<1>1. SidecarInv => RenderedIsServed
  BY DEF SidecarInv
<1> QED BY <1>1, SidecarInvariant, PTL

\* The supervisor takes a running process from its viewers only when what is to be served is
\* no longer what it serves, or at shutdown.
THEOREM CutsOffForAReason ==
  ASSUME SidecarAssumption PROVE SidecarSpec => CutOffForAReason
<1>1. ASSUME SidecarInv, Next, Running, process' = "none"
      PROVE  step' = "stopped" \/ serving # DesiredStreams
  <2>1. serving = rendered /\ serving # {} /\ process # "none" /\ step # "starting"
    BY <1>1 DEF SidecarInv, RenderedIsServed, Running
  <2>2. CASE process' = process
    BY <1>1, <2>1, <2>2
  <2>3. CASE ReconcileStreams
    BY <1>1, <2>1, <2>3 DEF ReconcileStreams, Wanted, UpToDate, processVars
  <2>4. CASE Cancelled
    BY <2>4 DEF Cancelled
  <2>5. ASSUME NEW starts \in BOOLEAN, StartProcess(starts) PROVE FALSE
    BY <2>1, <2>5 DEF StartProcess
  <2>6. CASE Change /\ process' # process
    BY <1>1, <2>6 DEF Change, Reports, Patched, Watch, Dies
  <2> QED BY <1>1, <2>2, <2>3, <2>4, <2>5, <2>6
      DEF Next, Round, PassOver, Probe, Expires, Leave, Probed, Write, WriteFails, processVars
<1>2. SidecarInv /\ [Next]_vars =>
        [Running /\ process' = "none" => step' = "stopped" \/ serving # DesiredStreams]_vars
  BY <1>1
<1> QED BY <1>2, SidecarInvariant, PTL DEF SidecarSpec, CutOffForAReason
=============================================================================
