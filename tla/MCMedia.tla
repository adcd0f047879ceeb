------------------------------ MODULE MCMedia ------------------------------
(***************************************************************************)
(* A visit of three chunks, the last two of which start in one second.     *)
(***************************************************************************)
EXTENDS MediaLifecycle

MCChunks == 1..3
MCSec == <<1, 2, 2>>
MCNumbers == 1..2
MCTasks == 1..2
=============================================================================
