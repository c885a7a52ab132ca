---------------------------- MODULE MCIdleQueue -----------------------------
(***************************************************************************)
(* IdleQueue for TLC: two descriptors, so that one is used again as soon   *)
(* as it is closed, and as many objects and alarms as can meet there.      *)
(***************************************************************************)
EXTENDS IdleQueue

\* Those that read, and those that have something to write
ReadersAndWriters == {<<FALSE, TRUE>>, <<TRUE, FALSE>>}

Symmetric == Permutations(Obj) \cup Permutations(Alarm)

=============================================================================
