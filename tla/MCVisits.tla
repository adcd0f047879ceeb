------------------------------ MODULE MCVisits ------------------------------
(* The timeline alone, for one meal of two reports.                         *)
EXTENDS Visits, MCStories
=============================================================================
