----------------------------- MODULE DeviceBook -----------------------------
(***************************************************************************)
(* What the registry promises a device: the credentials it was given stay  *)
(* its own until it is removed.  Restarts and kills do not show, unless a  *)
(* write of the file failed or overtook another and nothing has made up    *)
(* for it since: then a restart may find an earlier book.                  *)
(***************************************************************************)
EXTENDS Naturals

CONSTANT Ids

VARIABLES
  book,     \* the credentials of each id, 0 where there is no device
  excused   \* a write failed or overtook another

Init == book = [i \in Ids |-> 0] /\ excused \in BOOLEAN

SignUp(i) ==
  /\ book[i] = 0 /\ book'[i] \in Nat \ {0}
  /\ book' = [book EXCEPT ![i] = book'[i]]

Remove(i) == book[i] # 0 /\ book' = [book EXCEPT ![i] = 0]

Relapse == excused /\ book' \in [Ids -> Nat]

Next ==
  /\ excused' \in BOOLEAN
  /\ \/ \E i \in Ids : SignUp(i) \/ Remove(i)
     \/ Relapse
     \/ UNCHANGED book

Spec == Init /\ [][Next]_<<book, excused>>
=============================================================================
