------------------------- MODULE MCCommandDelivery -------------------------
(* Two commands and two sessions: one may linger while the other is used.  *)
EXTENDS CommandDelivery

CONSTANTS c1, c2, s1, s2
MCCommands == {c1, c2}
MCSessions == {s1, s2}
=============================================================================
