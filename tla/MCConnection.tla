---------------------------- MODULE MCConnection ----------------------------
(***************************************************************************)
(* Connection for TLC.  The configurations differ in the options of the    *)
(* account and in what may go wrong; clients are numbers, so that a new    *)
(* client is always the same one among those that are free.                *)
(***************************************************************************)
EXTENDS Connection

ASSUME ClientsAreEnough ==
    \* a client that is open, and a zombie or another client that is new
    \E c, d \in Con : c # d

=============================================================================
