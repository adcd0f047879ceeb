------------------------------- MODULE Visits -------------------------------
(***************************************************************************)
(* The timeline: reports of the devices become rows (events/normalize.py,  *)
(* events/store.py), each report also moves what only events tell about a  *)
(* device, and the panel groups the rows of a page into cards, one per     *)
(* visit or other episode (events/sessions.py, web/api/timeline.py).       *)
(*                                                                         *)
(* A report is known by its event_uid.  What it says is fixed: the device, *)
(* its episode (related_event), the code, the episode that it names as its *)
(* cause (parent_event), the kind its content spells out, and for a feed   *)
(* the day and whether anything was dispensed.  Its row adds the time of   *)
(* arrival.  Weights, labels and pets are left out; `PetBook' has those.   *)
(* Times are seconds; two reports never arrive at the same instant.        *)
(***************************************************************************)
EXTENDS Integers, FiniteSets

CONSTANTS
  Devices, DeviceType,   \* DeviceType \in [Devices -> code names]
  Uids, Report,          \* Report \in [Uids -> what each report says]
  Pictured,              \* the episodes that have photos or recordings
  Stories,               \* the sets of reports that a behaviour may consist of
  Gaps,                  \* the seconds between one report and the next
  SUB_EVENT_WINDOW_SEC, CYCLE_TAIL_WINDOW_SEC,
  MaxResends, MaxRestarts

VARIABLES
  story,    \* the reports of this behaviour
  rows,     \* the table of events: the time of each row, 0 where there is none
  clock,
  derived,  \* what the events alone tell, in memory, for each device
  heard,    \* the reports that came since the last start
  resends, restarts,  \* bounds
  late,     \* history: a feed of an earlier day was reported after a later one's
  doubled   \* history: what was reported twice

timelineVars == <<story, rows, clock, derived, heard, resends, restarts, late, doubled>>

INSTANCE Sessions

NoDay == 0
NoTotals == [day |-> NoDay, times |-> 0]
Unheard == [clean |-> 0, visit |-> 0, feed |-> 0, totals |-> NoTotals]

(* What is assumed of the constants.  The id of an episode tells its device *)
(* (`3_10000001_1784741818', normalize.py:133).                             *)
ASSUME Catalogue ==
  /\ IsFiniteSet(Uids)
  /\ \A u \in Uids : /\ Report[u].dev \in Devices /\ Report[u].day \in Nat
                     /\ Report[u].says \in {"", "toilet_visit", "cleaning", "motion", "pet"}
  /\ \A u, v \in Uids :
       Report[u].rel = Report[v].rel /\ Report[u].rel # None => Report[u].dev = Report[v].dev
  /\ Stories \subseteq SUBSET Uids
  /\ Gaps \subseteq Nat \ {0}
  /\ SUB_EVENT_WINDOW_SEC \in Nat /\ CYCLE_TAIL_WINDOW_SEC \in Nat
  /\ MaxResends \in Nat /\ MaxRestarts \in Nat

(* What a report tells of its device: its kind goes by the code, not by the *)
(* content.                                                                 *)
Tells(kind, field) ==
  {u \in Uids : /\ ClassifyEventKind(Code(u), "", Type(u)) = kind
                /\ Code(u) \in Table(Code(u), Type(u))[field]}
Cleans == Tells("cleaning", "clean")
Summaries == Tells("toilet_visit", "summary")
Dispenses == {u \in Tells("feeding", "done") : Report[u].grams}
Feeds == Tells("feeding", "done")

TimelineTypeOK ==
  /\ story \in Stories /\ rows \in [Uids -> Nat] /\ clock \in Nat
  /\ derived \in [Devices -> [clean : Nat, visit : Nat, feed : Nat,
                              totals : [day : Nat, times : Nat]]]
  /\ heard \subseteq story /\ doubled \subseteq story /\ late \in BOOLEAN
  /\ resends \in 0..MaxResends /\ restarts \in 0..MaxRestarts

-----------------------------------------------------------------------------
(* query_timeline(): the rows of a window; here all, or the latest ones.    *)
Page(from) == {u \in story : rows[u] # 0 /\ rows[u] >= from}
Pages == {Page(1), Page(clock - SUB_EVENT_WINDOW_SEC)}
-----------------------------------------------------------------------------
(* A variant of Upsert that keeps the time of the first report.             *)
UpsertKeepsFirst(u, ts) == rows' = [rows EXCEPT ![u] = IF @ = 0 THEN ts ELSE @]

(* upsert_event(): a report that arrives again overwrites its row.          *)
Upsert(u, ts) == rows' = [rows EXCEPT ![u] = ts]

(* A variant of Totals that never starts a new day.                         *)
TotalsForever(totals, u) ==
  IF u \notin Dispenses THEN totals
  ELSE [day |-> Report[u].day, times |-> totals.times + 1]

Totals(totals, u) ==
  IF u \notin Dispenses THEN totals
  ELSE LET day == Report[u].day
           same == totals # NoTotals /\ (day = NoDay \/ totals.day = day)
       IN [day |-> IF same THEN totals.day ELSE day,
           times |-> IF same THEN totals.times + 1 ELSE 1]

(* apply_derived_state(), the same for both transports.                     *)
ApplyDerivedState(was, u, now) ==
  CASE u \in Cleans -> [was EXCEPT !.clean = now]
    [] u \in Summaries -> [was EXCEPT !.visit = now]
    [] u \in Feeds -> [was EXCEPT !.feed = now, !.totals = Totals(@, u)]
    [] OTHER -> was

(* handle_event_report() or _handle_event(): the same row and the same      *)
(* derived values, whichever transport it came by.  A report without an     *)
(* episode has no uid to be recognised by, so it is reported once here.     *)
Receive(u, gap) ==
  /\ rows[u] # 0 => Rel(u) # None /\ resends < MaxResends
  /\ resends' = IF rows[u] # 0 THEN resends + 1 ELSE resends
  /\ clock' = clock + gap
  /\ Upsert(u, clock')
  /\ derived' = [derived EXCEPT ![Dev(u)] = ApplyDerivedState(@, u, clock')]
  /\ heard' = heard \cup {u}
  /\ doubled' = IF u \in heard THEN doubled \cup {u} ELSE doubled
  /\ late' = (late \/ /\ u \in Dispenses
                       /\ Report[u].day \in 1..(derived[Dev(u)].totals.day - 1))
  /\ UNCHANGED <<story, restarts>>

(* What is derived is in memory only.                                       *)
Restart ==
  /\ restarts < MaxRestarts /\ restarts' = restarts + 1
  /\ derived' = [d \in Devices |-> Unheard]
  /\ heard' = {} /\ doubled' = {} /\ late' = FALSE
  /\ UNCHANGED <<story, rows, clock, resends>>

TimelineInit ==
  /\ story \in Stories /\ rows = [u \in Uids |-> 0] /\ clock = 0
  /\ derived = [d \in Devices |-> Unheard]
  /\ heard = {} /\ doubled = {} /\ late = FALSE /\ resends = 0 /\ restarts = 0

TimelineNext == (\E u \in story, gap \in Gaps : Receive(u, gap)) \/ Restart

TimelineSpec == TimelineInit /\ [][TimelineNext]_timelineVars

-----------------------------------------------------------------------------
(* Whatever came when, each row of a page is on one line of one card, next  *)
(* to rows of its own device, and a card of a pictured episode shows the    *)
(* pictures on one line: the six passes neither lose a report, nor file it  *)
(* twice, nor mix boxes up (sessions.py:311-313 tells of 23 weight samples  *)
(* that an earlier version discarded).                                      *)
CardsComplete ==
  \A shown \in Pages : LET cards == GroupSessions(shown) IN
    /\ \A u \in shown : Cardinality({c \in cards : u \in Lines(c)}) = 1
    /\ \A c \in cards :
         /\ c.head \notin c.steps
         /\ \A u \in c.steps : Dev(u) = Dev(c.head)
         /\ shown = Page(1) => \A rel \in Pictured :
              (\E u \in Lines(c) : Rel(u) = rel) => Cardinality(Showing(c, rel)) = 1

(* A visit is one card and counted once, however many reports it made and   *)
(* however often they were sent.                                            *)
VisitsCountedOnce ==
  LET shown == Page(1)
      visits == {u \in shown : Kind(u) = "toilet_visit"}
  IN FilterCount(GroupSessions(shown), "toileting")
       = Cardinality({Rel(u) : u \in visits} \ {None})
         + Cardinality({u \in visits : Rel(u) = None})

(* Last Visit and Last Clean, which are kept beside the table, are the time *)
(* of the newest row of their kind, once any was heard since the start.     *)
LastSeenAgrees ==
  \A d \in Devices :
    LET agrees(what, telling) ==
          LET seen == {u \in heard \cap telling : Dev(u) = d}
          IN seen # {} => (\A u \in seen : what >= rows[u]) /\ \E u \in seen : what = rows[u]
    IN agrees(derived[d].visit, Summaries) /\ agrees(derived[d].clean, Cleans)

(* "Keep today's totals running": times dispensed is the number of feeds of *)
(* the day, as long as none was reported twice or without its day, and none *)
(* of an earlier day came late.                                             *)
FeedTotals ==
  \A d \in Devices :
    LET feeds == {u \in heard \cap Dispenses : Dev(u) = d}
        totals == derived[d].totals
    IN ~late /\ doubled \cap feeds = {} /\ (\A u \in feeds : Report[u].day # NoDay) =>
         totals.times = Cardinality({u \in feeds : Report[u].day = totals.day})

(* sessions.py:215-219: the completion heads the card of its episode, the   *)
(* rest is filed as steps.  What a code means depends on the device's       *)
(* category (codes.py:1257-1259).                                           *)
SummaryHeadsCard ==
  \A c \in GroupSessions(Page(1)) :
    LET summaries == {u \in Lines(c) : Rel(u) = Rel(c.head)
                                       /\ Code(u) \in Table(Code(u), Type(u)).anchor}
    IN summaries # {} => c.head \in summaries
=============================================================================
