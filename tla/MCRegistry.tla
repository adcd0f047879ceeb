----------------------------- MODULE MCRegistry -----------------------------
(* Two devices that sign up, are removed and sign up again, around one or  *)
(* two flushes, a failing write, a stop and a crash.                       *)
EXTENDS Registry

CONSTANTS a, b
MCIds == {a, b}
=============================================================================
