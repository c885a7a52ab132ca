------------------------------- MODULE MCRoster -------------------------------
(***************************************************************************)
(* Roster for TLC.                                                         *)
(***************************************************************************)
EXTENDS Roster

=============================================================================
