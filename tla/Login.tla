------------------------------- MODULE Login -------------------------------
(***************************************************************************)
(* What a client promises the Connection that created it, which models     *)
(* each client by such a phase: it reports that the stream is ready or     *)
(* that it failed, not both and at most once; it reports the end of the    *)
(* authentication only when it was asked to authenticate; and a client     *)
(* that has ended reports nothing more.                                    *)
(***************************************************************************)
VARIABLE phase

Ended == {"refused", "failed", "closed"}

Init == phase = "opening"

\* on_connect: the Connection goes on at once, asks the user or has gone
\* offline ("ready"), or takes another type of connection
Connected == phase = "opening" /\ phase' \in {"ready", "auth", "refused", "closed"}

\* on_connect_failure
ConnectFailure == phase = "opening" /\ phase' = "failed"

\* The user has answered
Accepted == phase = "ready" /\ phase' \in {"auth", "refused"}

\* on_auth
AuthEnds == phase = "auth" /\ phase' \in {"in", "refused"}

\* The disconnect handlers.  A client whose stream the server ends while it is
\* opened has none, so that nobody is told.
Closed == phase \in {"opening", "ready", "auth", "in"} /\ phase' = "closed"

Next == Connected \/ ConnectFailure \/ Accepted \/ AuthEnds \/ Closed

Spec == Init /\ [][Next]_phase

=============================================================================
