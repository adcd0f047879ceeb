------------------------------ MODULE EventFeed ------------------------------
(***************************************************************************)
(* What the hub promises an open page of the panel: it is owed the last    *)
(* events as of its opening and each one published since, and it is shown  *)
(* them in the order they were published in.  Only an event that comes     *)
(* while a queue's length of others is owed may be kept from it.           *)
(***************************************************************************)
EXTENDS Naturals, FiniteSets

CONSTANTS Pages, QueueLength

VARIABLES
  published,  \* how many events there were; an event is its number
  open,       \* the pages that are open
  due,        \* the events each page is owed
  shown       \* the last event each page was shown, or 0

Init ==
  /\ published = 0 /\ open = {}
  /\ due = [p \in Pages |-> {}] /\ shown = [p \in Pages |-> 0]

Behind == {p \in open : Cardinality(due[p]) >= QueueLength}

Publish ==
  /\ published' = published + 1
  /\ \E missing \in SUBSET Behind :
       due' = [p \in Pages |-> IF p \in open \ missing THEN due[p] \cup {published'} ELSE due[p]]
  /\ UNCHANGED <<open, shown>>

Open(p) ==
  /\ p \notin open /\ open' = open \cup {p}
  /\ \E from \in 0..published : due' = [due EXCEPT ![p] = (from + 1)..published]
  /\ UNCHANGED <<published, shown>>

Show(p) ==
  /\ p \in open
  /\ \E e \in due[p] :
       /\ e > shown[p] /\ \A other \in due[p] : e <= other
       /\ due' = [due EXCEPT ![p] = @ \ {e}] /\ shown' = [shown EXCEPT ![p] = e]
  /\ UNCHANGED <<published, open>>

Close(p) ==
  /\ p \in open /\ open' = open \ {p}
  /\ due' = [due EXCEPT ![p] = {}] /\ shown' = [shown EXCEPT ![p] = 0]
  /\ UNCHANGED published

Next == Publish \/ \E p \in Pages : Open(p) \/ Show(p) \/ Close(p)

Spec == Init /\ [][Next]_<<published, open, due, shown>>
=============================================================================
