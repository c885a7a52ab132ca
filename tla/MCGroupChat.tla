------------------------------ MODULE MCGroupChat ------------------------------
(***************************************************************************)
(* GroupChat for TLC.                                                      *)
(***************************************************************************)
EXTENDS GroupChat

MCRole == <<"moderator", "participant">>
=============================================================================
