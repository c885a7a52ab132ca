------------------------------ MODULE MCClient ------------------------------
(* A client of an account that tries any type of connection.               *)
EXTENDS Client

CONSTANTS q1, q2, q3

=============================================================================
