------------------------------ MODULE Sessions ------------------------------
(***************************************************************************)
(* The panel's cards (events/sessions.py, events/normalize.py): the rows   *)
(* of a page are grouped into one card per visit or other episode, by six  *)
(* passes of group_sessions() in the code's order, each of which files     *)
(* some of the rows that the earlier ones left.                            *)
(*                                                                         *)
(* A report says its device, its episode (related_event), the code, the    *)
(* episode that it names as its cause (parent_event) and the kind that its *)
(* content spells out; its row adds the time of arrival in seconds.        *)
(***************************************************************************)
EXTENDS EventCodes, FiniteSets

CONSTANTS
  DeviceType,            \* DeviceType \in [Devices -> code names]
  Uids, Report,          \* Report \in [Uids -> what each report says]
  SUB_EVENT_WINDOW_SEC, CYCLE_TAIL_WINDOW_SEC

VARIABLE rows   \* the table of events: the time of each row, 0 where there is none

None == ""
Dev(u) == Report[u].dev
Type(u) == DeviceType[Dev(u)]
Rel(u) == Report[u].rel
Code(u) == Report[u].code
Kinds == [u \in Uids |-> ClassifyEventKind(Code(u), Report[u].says, Type(u))]
Details == {u \in Uids : IsDetail(Code(u), Type(u))}
Kind(u) == Kinds[u]
Anchors == {u \in Uids : Code(u) \in ANCHOR_CODES}
PrimaryDone == {u \in Uids : Code(u) \in PRIMARY_DONE_CODES}

(* In all that follows `shown' is the set of the rows of one page.          *)
Oldest(us) == CHOOSE u \in us : \A v \in us : rows[u] <= rows[v]
Newest(us) == CHOOSE u \in us : \A v \in us : rows[u] >= rows[v]
Card(kind, head, steps) == [kind |-> kind, head |-> head, steps |-> steps]
Lines(card) == {card.head} \cup card.steps
Used(cards) == UNION {Lines(c) : c \in cards}
Attach(cards, place) ==   \* place: for some rows, the card that they belong to
  {[c EXCEPT !.steps = @ \cup {u \in DOMAIN place : place[u] = c}] : c \in cards}

AnchorEvents(shown) ==
  {u \in shown : \/ Kind(u) \in {"toilet_visit", "feeding", "drinking"}
                 \/ Kind(u) \in {"pet", "motion", "error"} /\ u \notin Details}

(* A variant of EpisodesOf with an episode for each report.                 *)
EpisodesOfOneEach(anchors) == {{u} : u \in {w \in anchors : Rel(w) # None}}

EpisodesOf(anchors) ==
  {{v \in anchors : Rel(v) = Rel(u)} : u \in {w \in anchors : Rel(w) # None}}

CardOfEpisode(group) ==
  LET heads == group \cap Anchors
      head == IF heads # {} THEN Oldest(heads) ELSE Newest(group)
      visit == \E u \in group : Kind(u) = "toilet_visit"
  IN Card(IF visit THEN "visit" ELSE Kind(head), head, group \ {head})

CardsFromEpisodes(shown) ==
  {CardOfEpisode(group) : group \in EpisodesOf(AnchorEvents(shown))}

CardsFromLooseVisits(shown) ==
  {Card("visit", u, {}) :
     u \in {v \in AnchorEvents(shown) : Rel(v) = None /\ Kind(v) = "toilet_visit"}}

(* The cause of an episode, which any of its reports may name.              *)
ParentOf(u, shown) ==
  LET telling == {v \in shown : Rel(v) = Rel(u) /\ Rel(v) # None
                                /\ Report[v].parent \notin {None, Rel(v)}}
  IN IF telling # {} THEN Report[Newest(telling)].parent ELSE Report[u].parent

AttachLinkedFollowups(shown, cards) ==
  LET mine(u) == {c \in cards : /\ Rel(c.head) # None /\ Rel(c.head) = ParentOf(u, shown)
                                /\ Dev(c.head) = Dev(u)}
      linked == {u \in shown \ Used(cards) :
                   /\ Kind(u) \in {"cleaning", "pet", "motion", "error"}
                   /\ mine(u) # {}}
  IN Attach(cards, [u \in linked |-> CHOOSE c \in mine(u) : TRUE])

NearVisits(u, cards) ==
  {c \in cards : /\ c.kind = "visit" /\ Dev(c.head) = Dev(u)
                 /\ rows[u] - rows[c.head] \in 0..SUB_EVENT_WINDOW_SEC}

(* A variant of Unplaced that only looks at heads.                          *)
UnplacedLinked(shown, cards) ==
  {u \in shown : Kind(u) = "cleaning" /\ u \notin {c.head : c \in cards}}

Unplaced(shown, cards) == {u \in shown \ Used(cards) : Kind(u) = "cleaning"}

AttachNearbyCleanings(shown, cards) ==
  LET near == {u \in Unplaced(shown, cards) : NearVisits(u, cards) # {}}
  IN Attach(cards, [u \in near |-> CHOOSE c \in NearVisits(u, cards) :
                      \A d \in NearVisits(u, cards) : rows[c.head] >= rows[d.head]])

CardsFromOrphanCleanings(shown, cards) ==
  LET orphans == {u \in Unplaced(shown, cards) : Rel(u) # None}
      closed == orphans \cap PrimaryDone
      group(rel) == {u \in orphans : Rel(u) = rel}
      head(rel) == Oldest(group(rel) \cap closed)
  IN {Card("cleaning", head(rel), group(rel) \ {head(rel)}) : rel \in {Rel(u) : u \in closed}}

Apart(u, card) == IF rows[u] > rows[card.head] THEN rows[u] - rows[card.head]
                                               ELSE rows[card.head] - rows[u]

(* The closest card; of two that are as close, the one found first, since   *)
(* the page is read from its newest row.                                    *)
AttachCycleTails(shown, cards) ==
  LET near(u) == {c \in cards : /\ c.kind = "cleaning" /\ Dev(c.head) = Dev(u)
                                /\ Rel(c.head) # Rel(u)
                                /\ Apart(u, c) <= CYCLE_TAIL_WINDOW_SEC}
      tails == {u \in Unplaced(shown, cards) : near(u) # {}}
      closest(u) == {c \in near(u) : \A d \in near(u) : Apart(u, c) <= Apart(u, d)}
  IN Attach(cards, [u \in tails |-> CHOOSE c \in closest(u) :
                      \A d \in closest(u) : rows[Newest(Lines(c))] >= rows[Newest(Lines(d))]])

StandaloneRows(shown, cards) == {Card("event", u, {}) : u \in shown \ Used(cards)}

GroupSessions(shown) ==
  LET visits == CardsFromEpisodes(shown) \cup CardsFromLooseVisits(shown)
      near == AttachNearbyCleanings(shown, AttachLinkedFollowups(shown, visits))
      all == AttachCycleTails(shown, near \cup CardsFromOrphanCleanings(shown, near))
  IN all \cup StandaloneRows(shown, all)

(* Which line of a card shows the media of another episode than the card's. *)
Carrier(steps) ==
  LET done == steps \cap PrimaryDone
  IN IF done # {} THEN {Oldest(done)} ELSE {Newest(steps)}

(* The lines of a card that show the media of an episode.                   *)
Showing(card, rel) ==
  IF Rel(card.head) = rel THEN {card.head}
  ELSE LET steps == {u \in card.steps : Rel(u) = rel}
       IN IF steps = {} THEN {} ELSE Carrier(steps)

FilterBucket(card) ==
  LET kind == CASE card.kind = "visit" -> "toilet_visit"
                [] card.kind = "event" -> Kind(card.head)
                [] OTHER -> card.kind
  IN CASE kind = "toilet_visit" -> "toileting"
       [] kind \in {"pet", "motion"} -> "pet"
       [] kind = "error" -> "fault"
       [] kind \in {"feeding", "drinking", "cleaning"} -> kind
       [] OTHER -> None

FilterCount(cards, bucket) == Cardinality({c \in cards : FilterBucket(c) = bucket})
=============================================================================
