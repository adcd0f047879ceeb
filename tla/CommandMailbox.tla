--------------------------- MODULE CommandMailbox ---------------------------
(***************************************************************************)
(* What the add-on promises about a command it accepted for a device: it   *)
(* is held until it is handed to a transport, and each transport is handed *)
(* it at most once.  A command goes to both only when the MQTT publish     *)
(* failed in doubt, after the frame had left.  Only a restart forgets one. *)
(***************************************************************************)
EXTENDS Naturals

CONSTANT Commands

VARIABLES
  seen,   \* the commands accepted so far
  held,   \* those the add-on still owes the device
  sent    \* how often each was handed to each transport

Transports == {"mqtt", "http"}

Init ==
  /\ seen = {}
  /\ held = {}
  /\ sent = [c \in Commands |-> [t \in Transports |-> 0]]

Accept ==
  \E c \in Commands \ seen :
    /\ seen' = seen \cup {c}
    /\ held' = held \cup {c}
    /\ UNCHANGED sent

Publish ==
  \E c \in held :
    /\ sent[c] = [t \in Transports |-> 0]
    /\ sent' = [sent EXCEPT ![c]["mqtt"] = 1]
    /\ held' \in {held, held \ {c}}
    /\ UNCHANGED seen

Answer ==
  \E C \in (SUBSET held) \ {{}} :
    /\ \A c \in C : sent[c]["http"] = 0
    /\ sent' = [c \in Commands |->
                  IF c \in C THEN [sent[c] EXCEPT !["http"] = 1] ELSE sent[c]]
    /\ held' = held \ C
    /\ UNCHANGED seen

Restart ==
  /\ held' = {}
  /\ UNCHANGED <<seen, sent>>

Next == Accept \/ Publish \/ Answer \/ Restart

Spec == Init /\ [][Next]_<<seen, held, sent>>
=============================================================================
