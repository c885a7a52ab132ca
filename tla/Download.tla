------------------------------ MODULE Download ------------------------------
(***************************************************************************)
(* What the download of a file promises, whatever becomes of the sockets:  *)
(* it is tried when the sender has named streamhosts, settles on one of    *)
(* them for good, and ends once, complete only with the whole file, failed *)
(* only if nothing was accepted.                                           *)
(***************************************************************************)
EXTENDS Integers

CONSTANT Size   \* of the file, a number

VARIABLES phase, got

vars == <<phase, got>>

Ended == {"completed", "failed", "stopped"}

Init == phase = "offered" /\ got = 0

Try == phase = "offered" /\ phase' \in {"trying", "failed"} /\ UNCHANGED got

Accept == phase = "trying" /\ phase' = "receiving" /\ UNCHANGED got

Fail == phase = "trying" /\ phase' = "failed" /\ UNCHANGED got

Receive ==
    /\ phase = "receiving" /\ phase' = phase
    /\ got' \in Nat /\ got' > got /\ got' < Size

Complete ==
    /\ phase = "receiving" /\ phase' = "completed"
    /\ got' \in Nat /\ got' > got /\ got' >= Size

\* The user cancels, the sender stops, the disk is full...
Stop ==
    /\ phase \notin Ended /\ phase' = "stopped"
    /\ got' \in Nat /\ got' >= got
    /\ phase # "receiving" => UNCHANGED got

Next == Try \/ Accept \/ Fail \/ Receive \/ Complete \/ Stop

Spec == Init /\ [][Next]_vars

=============================================================================
