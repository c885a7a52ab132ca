------------------------------ MODULE MCESession ------------------------------
(***************************************************************************)
(* ESession for TLC: two parties that prefer different things, so that the *)
(* one who is asked accepts or rejects what the other chose.               *)
(***************************************************************************)
EXTENDS ESession

CONSTANTS a, b

\* What b decrypts with the first counter that a chooses
OfB == {<<<<a, 1>>, b>>}

Differently == [p \in {a, b} |-> IF p = a THEN "may" ELSE "mustnot"]

=============================================================================
