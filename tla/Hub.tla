--------------------------------- MODULE Hub ---------------------------------
(***************************************************************************)
(* The hub behind the panel's Log tab: every component publishes to it, it *)
(* keeps the last events, and each open page is sent a replay of the last  *)
(* ones and then what its queue holds.  The hub also counts what it saw of *)
(* devices and of upstream calls, for a bounded number of them.            *)
(***************************************************************************)
EXTENDS Naturals, Sequences, FiniteSets

CONSTANTS Pages, Devices, Outcomes,
          RingLength, Replay, QueueLength, MaxTracked,
          MaxEvents

ASSUME HubAssumption ==
  /\ {RingLength, Replay, QueueLength, MaxTracked} \subseteq Nat \ {0} /\ MaxEvents \in Nat
  /\ IsFiniteSet(Devices)

VARIABLES
  count,     \* events published; the seq of the last one
  ring,      \* the last events
  page,      \* each page: [open, backlog, queue, seen, missed, from]
  diag,      \* devices with an entry, the one heard of last at the end
  upstream   \* outcomes with a count, the last one at the end

hubVars == <<count, ring, page, diag, upstream>>

Closed == [open |-> FALSE, backlog |-> <<>>, queue |-> <<>>, seen |-> <<>>, missed |-> {}, from |-> 0]

HubInit ==
  /\ count = 0 /\ ring = <<>> /\ page = [p \in Pages |-> Closed]
  /\ diag = <<>> /\ upstream = <<>>

LastOfLonger(list, n) == SubSeq(list, IF Len(list) > n THEN Len(list) - n ELSE 1, Len(list))
LastOf(list, n) == SubSeq(list, IF Len(list) > n THEN Len(list) - n + 1 ELSE 1, Len(list))

\* A key leaves a list that holds it once at most.
Without(list, key) ==
  LET at == CHOOSE i \in DOMAIN list : list[i] = key
  IN IF \E i \in DOMAIN list : list[i] = key
     THEN SubSeq(list, 1, at - 1) \o SubSeq(list, at + 1, Len(list))
     ELSE list

\* An entry is made or moved to the end, and the oldest given up.
Touch(list, key) == LastOf(Append(Without(list, key), key), MaxTracked)

-----------------------------------------------------------------------------

\* recent().
Recent(limit) == LastOf(ring, limit)

\* Mutant of Subscribed: a page joins once its replay was sent.
SubscribedOnceReplayed(p) == page[p].open /\ page[p].backlog = <<>>
Subscribed(p) == page[p].open

\* put_nowait(), and what QueueFull drops.
Put(pg, event) ==
  IF Len(pg.queue) < QueueLength THEN [pg EXCEPT !.queue = Append(@, event)]
  ELSE [pg EXCEPT !.missed = @ \cup {event}]

\* publish(): the ring, then every subscriber's queue.
PublishEvent ==
  /\ count < MaxEvents /\ count' = count + 1
  /\ ring' = LastOf(Append(ring, count'), RingLength)
  /\ page' = [p \in Pages |-> IF Subscribed(p) THEN Put(page[p], count') ELSE page[p]]

\* record_http(), record_mqtt(), record_connect(): what is kept of the device
\* comes before the event.
RecordDevice(d) == PublishEvent /\ diag' = Touch(diag, d) /\ UNCHANGED upstream

\* record_command(), record_redaction() and the patchers only publish.
RecordOther == PublishEvent /\ UNCHANGED <<diag, upstream>>

SetStateReport(d) == diag' = Touch(diag, d) /\ UNCHANGED <<count, ring, page, upstream>>
RecordUpstream(o) == upstream' = Touch(upstream, o) /\ UNCHANGED <<count, ring, page, diag>>

\* api_ws(): a page subscribes and takes the replay in one go.
Open(p) ==
  /\ ~page[p].open
  /\ page' = [page EXCEPT ![p] = [Closed EXCEPT !.open = TRUE, !.backlog = Recent(Replay),
                                                !.from = count - Len(Recent(Replay))]]
  /\ UNCHANGED <<count, ring, diag, upstream>>

\* One event reaches the page: the replay's first, then the queue's.
Send(p) ==
  /\ page[p].open
  /\ \/ /\ page[p].backlog # <<>>
        /\ page' = [page EXCEPT ![p].seen = Append(@, Head(page[p].backlog)), ![p].backlog = Tail(@)]
     \/ /\ page[p].backlog = <<>> /\ page[p].queue # <<>>
        /\ page' = [page EXCEPT ![p].seen = Append(@, Head(page[p].queue)), ![p].queue = Tail(@)]
  /\ UNCHANGED <<count, ring, diag, upstream>>

\* The socket closes: unsubscribe().
Close(p) ==
  /\ page[p].open /\ page' = [page EXCEPT ![p] = Closed]
  /\ UNCHANGED <<count, ring, diag, upstream>>

HubNext ==
  \/ RecordOther
  \/ \E d \in Devices : RecordDevice(d) \/ SetStateReport(d)
  \/ \E o \in Outcomes : RecordUpstream(o)
  \/ \E p \in Pages : Open(p) \/ Send(p) \/ Close(p)

HubSpec == HubInit /\ [][HubNext]_hubVars

-----------------------------------------------------------------------------

Elements(list) == {list[i] : i \in DOMAIN list}
Feed(p) == page[p].seen \o page[p].backlog \o page[p].queue

HubTypeOK ==
  /\ count \in 0..MaxEvents /\ Len(ring) <= RingLength
  /\ \A p \in Pages : Len(page[p].backlog) <= Replay /\ Len(page[p].queue) <= QueueLength
  /\ Elements(diag) \subseteq Devices /\ Len(diag) <= MaxTracked
  /\ \A i, j \in DOMAIN diag : i # j => diag[i] # diag[j]
  /\ Elements(upstream) \subseteq Outcomes /\ Len(upstream) <= MaxTracked

(* A page shows every event once and in order from the first of its replay   *)
(* on, wherever publishing falls between subscribing, replay and queue; what *)
(* it misses is what its own queue was too full for.                         *)
PageSeesAll ==
  \A p \in Pages : page[p].open =>
    /\ \A i, j \in DOMAIN Feed(p) : i < j => Feed(p)[i] < Feed(p)[j]
    /\ Elements(Feed(p)) \cup page[p].missed = (page[p].from + 1)..count
    /\ Elements(Feed(p)) \cap page[p].missed = {}

OpenPages == {p \in Pages : page[p].open}
\* A page is owed what is left of its replay and what is in its queue.
Due(pg) == Elements(pg.backlog \o pg.queue)
LastShown(pg) == IF pg.seen = <<>> THEN 0 ELSE pg.seen[Len(pg.seen)]

Feeds == INSTANCE EventFeed WITH
  published <- count, open <- OpenPages,
  due <- [p \in Pages |-> Due(page[p])], shown <- [p \in Pages |-> LastShown(page[p])]

(* The hub is an event feed: a page is shown what it is owed in order, and   *)
(* is owed every event from its replay on, but for those that come while it  *)
(* is a full queue behind (EventHub.publish(), api_ws()).                    *)
EventFeedSpec == Feeds!Spec
=============================================================================
