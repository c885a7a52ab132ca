----------------------------- MODULE Connection -----------------------------
(***************************************************************************)
(* One account of Gajim: the Connection object of common/connection.py,    *)
(* with the xmpp clients (NonBlockingClient over NonBlockingTcp) that it   *)
(* creates, and the alarms, resolver callbacks and dialogs that call it    *)
(* back.  Gajim is single threaded: each action is one callback of the     *)
(* main loop, run to its end.  A callback often re-enters the object:      *)
(* closing a socket runs the client's disconnect handlers, and these close *)
(* the connection.  The methods are therefore operators from states to     *)
(* states, composed as the code calls them, and an action applies one.     *)
(***************************************************************************)
EXTENDS Integers

CONSTANTS
    Con,            \* identities of client objects; at most one is in use
    None,           \* Python's None
    Shows,          \* shows a user may ask for, "online" or "invisible"
    AutoReconnect,  \* the account's option autoreconnect
    AskPlain,       \* the account's option warn_when_plaintext_connection
    AskPassphrase,  \* presence is signed and the passphrase has to be asked
    OddErrors,      \* the kernel may report errors other than a closed peer, and
                    \* a server may end a stream that is negotiated
    MaxAttempts,    \* bound: (host, type) pairs one connect() can try
    MaxResolving,   \* bound: callbacks waiting for the resolver
    MaxAlarms       \* bound: pending alarms of one kind

ASSUME ConnectionAssumption ==
    /\ Con # {} /\ None \notin Con
    /\ Shows \subseteq {"online", "invisible"}
    /\ {AutoReconnect, AskPlain, AskPassphrase, OddErrors} \subseteq BOOLEAN
    /\ MaxAttempts \in Nat \ {0} /\ {MaxResolving, MaxAlarms} \subseteq Nat \ {0}

VARIABLES
    acc,     \* the Connection object and what hangs off it, see State
    request  \* the status the user asked for last; no code reads it

vars == <<acc, request>>

-----------------------------------------------------------------------------
(* Values of Connection.connected: indexes of STATUS_LIST, -1 is "error".  *)
ERROR == -1
OFFLINE == 0
CONNECTING == 1
IndexOffByOne(show) == IF show = "invisible" THEN 8 ELSE 3  \* mutant
Index(show) == IF show = "invisible" THEN 7 ELSE 2
ShowAt(i) == IF i = 7 THEN "invisible" ELSE "online"

(* Phases of a client.  "opening": TCP is up, the stream is negotiated.    *)
(* "orphan": the stream is up and on_connect returned without using it.    *)
(* "asking": the user is asked whether a plain connection will do;         *)
(* "declined": the answer was no.  "auth" to "up": accepted, log in under  *)
(* way or done.  "detached": authenticated, but self.connection is None.   *)
(* "closing": NonBlockingTcp.state = -1.  "zombie": closed, with state set *)
(* back to -1 and the 10 s alarm still to come.                            *)
Asked == {"asking", "declined"}       \* disconnect handler _on_disconnected
Established == {"privacy", "roster", "up"}
Accepted == {"auth", "detached"} \cup Established  \* _disconnectedReconnCB
Open == {"opening", "orphan", "closing"} \cup Asked \cup Accepted
Phase == Open \cup {"closed", "zombie"}

State ==
    [connected : {ERROR, OFFLINE, CONNECTING, 2, 7},
     connection : Con \cup {None},
     last_connection : Con \cup {None},
     on_purpose : BOOLEAN,
     time_to_reconnect : BOOLEAN,      \* whether it is set
     retrycount : {0, 1, 2},           \* 0, then 1 and 2 in turn; only the
                                       \* delay asks for more than "is it 0"
     old_show : {"online", "invisible"},
     on_connect_failure : BOOLEAN,     \* whether it is set
     on_connect_auth : BOOLEAN,        \* None, or _init_roster
     continue_connect_info : {"online", "invisible", "none"},
     privacy_rules_supported : BOOLEAN,
     awaiting_xmpp_ping_id : BOOLEAN,  \* whether it is set
     attempts : 0 .. MaxAttempts,      \* (host, type) pairs not yet tried
     con : [Con -> Phase],
     resolved : BOOLEAN,               \* the hosts are known without a lookup
     resolving : 0 .. MaxResolving,    \* _on_resolve callbacks to come
     reconnect_alarms : 0 .. MaxAlarms,
     keepalive_alarms : 0 .. MaxAlarms,
     invisible_asked : BOOLEAN,        \* _continue_invisible is to be called
     passphrase_asked : BOOLEAN,       \* _send_first_presence is to be called
     stale_question : BOOLEAN,         \* a plain-connection dialog whose
                                       \* client is closed is on the screen
     shown : {"offline", "connecting", "error", "online", "invisible"}]

TypeOK ==
    /\ acc \in State
    /\ request \in {"online", "invisible", "offline"}

Init ==
    /\ \E resolved \in BOOLEAN :
          acc = [connected |-> OFFLINE, connection |-> None,
                 last_connection |-> None, on_purpose |-> FALSE,
                 time_to_reconnect |-> FALSE, retrycount |-> 0,
                 old_show |-> "online", on_connect_failure |-> FALSE,
                 on_connect_auth |-> FALSE, continue_connect_info |-> "none",
                 privacy_rules_supported |-> FALSE,
                 awaiting_xmpp_ping_id |-> FALSE, attempts |-> 0,
                 con |-> [c \in Con |-> "closed"],
                 resolved |-> resolved, resolving |-> 0,
                 reconnect_alarms |-> 0, keepalive_alarms |-> 0,
                 invisible_asked |-> FALSE, passphrase_asked |-> FALSE,
                 stale_question |-> FALSE, shown |-> "offline"]
    /\ request = "offline"

-----------------------------------------------------------------------------
(* Closing.                                                                *)

\* dispatch('STATUS', status)
Tell(s, status) == [s EXCEPT !.shown = status]

\* set_alarm; more than MaxAlarms pending alarms are not told apart
Armed(n) == IF n < MaxAlarms THEN n + 1 ELSE n

\* disconnect() when the socket of self.connection is closed already, as it
\* is whenever a disconnect handler calls it
Forget(s) ==
    [s EXCEPT !.on_purpose = FALSE, !.connected = OFFLINE,
              !.time_to_reconnect = FALSE, !.privacy_rules_supported = FALSE,
              !.last_connection = IF s.connection = None THEN @ ELSE None,
              !.connection = None]

\* The show to restore: self.old_show = STATUS_LIST[self.connected]
Remember(s) ==
    [s EXCEPT !.old_show = IF s.connected > 1 THEN ShowAt(s.connected) ELSE @,
              !.connected = OFFLINE]

\* End of _disconnectedReconnCB, for a loss that was not on purpose.  In its
\* second case _connect_failure finds connected = 0 and does nothing.
AfterLoss(s) ==
    IF AutoReconnect
    THEN [s EXCEPT !.connected = ERROR, !.shown = "error",
                   !.time_to_reconnect = TRUE,
                   !.reconnect_alarms = Armed(@), !.on_purpose = FALSE]
    ELSE IF s.on_connect_failure
    THEN [s EXCEPT !.on_connect_failure = FALSE, !.on_purpose = FALSE]
    ELSE Tell(Forget(s), "offline")

\* _disconnectedReconnCB run by the client whose socket was just closed
HandleLoss(s) ==
    IF s.on_purpose
    THEN Forget(Remember(s))
    ELSE AfterLoss(Forget(Tell(Remember(s), "offline")))

\* The socket itself, and the callbacks that are gone with it
SocketClosed(s, c) ==
    [s EXCEPT !.con[c] = "closed",
              !.stale_question = @ \/ s.con[c] = "asking",
              !.invisible_asked = @ /\ s.con[c] \notin Established]

\* NonBlockingTcp.disconnect on client c: its disconnect handlers run, then
\* on_disconnect if start_disconnect left one
CloseSocket(s, c) ==
    LET was == s.con[c]
        closed == SocketClosed(s, c)
    IN CASE was \in Asked -> Forget(Tell(closed, "offline"))
         [] was \in Accepted -> HandleLoss(closed)
         [] was = "closing" -> Forget(Tell(HandleLoss(closed), "offline"))
         [] OTHER -> closed

\* disconnect(on_purpose)
Disconnect(s, on_purpose) ==
    LET t == [s EXCEPT !.on_purpose = on_purpose, !.connected = OFFLINE,
                       !.time_to_reconnect = FALSE,
                       !.privacy_rules_supported = FALSE]
    IN IF s.connection = None THEN t
       ELSE [CloseSocket(t, s.connection) EXCEPT !.last_connection = None,
                                                 !.connection = None]

\* _on_disconnected
OnDisconnected(s) == Disconnect(Tell(s, "offline"), FALSE)

\* disconnect(on_purpose=True) followed by STATUS offline, at the six places
\* where a connection is given up
Abandon(s) == Tell(Disconnect(s, TRUE), "offline")

\* _disconnectedReconnCB called while the socket is still open: closing it
\* runs the handler once more
DisconnectedReconnCB(s) ==
    IF s.on_purpose
    THEN [Disconnect(Remember(s), FALSE) EXCEPT !.on_purpose = FALSE]
    ELSE AfterLoss(Disconnect(Tell(Remember(s), "offline"), FALSE))

\* _connection_lost
ConnectionLost(s) == Tell(Disconnect(s, FALSE), "offline")

\* Mutant: a failure counts only for an account that is connected
ConnectFailureIfConnected(s) ==
    IF s.retrycount = 0 /\ s.connected > CONNECTING THEN Abandon(s) ELSE s

\* _connect_failure
ConnectFailure(s) ==
    IF s.retrycount = 0 /\ s.connected # OFFLINE THEN Abandon(s) ELSE s

-----------------------------------------------------------------------------
(* Connecting.                                                             *)

\* connect_to_next_host when no host is left
GiveUp(s, retry) ==
    LET t == [s EXCEPT !.time_to_reconnect = FALSE]
    IN IF retry \/ s.retrycount # 0 THEN DisconnectedReconnCB(s)
       ELSE IF s.on_connect_failure
       THEN [ConnectFailure(t) EXCEPT !.on_connect_failure = FALSE]
       ELSE ConnectionLost(t)

\* A client object not in use
Fresh(s) ==
    CHOOSE c \in Con :
        (\E d \in Con : s.con[d] = "closed") => s.con[c] = "closed"

\* Mutant: the client tried before is forgotten, not closed
NextAttemptForgettingOld(s, retry, fail) ==
    LET dropped == [s EXCEPT !.last_connection = None, !.connection = None]
        new == Fresh(dropped)
    IN IF s.attempts = 0 THEN GiveUp(s, retry)
       ELSE IF fail >= s.attempts
       THEN GiveUp([dropped EXCEPT !.attempts = 0], FALSE)
       ELSE [dropped EXCEPT !.attempts = s.attempts - fail - 1,
                            !.con[new] = "opening",
                            !.last_connection = new]

\* connect_to_next_type and connect_to_next_host, which call each other when
\* a client fails while it is being created (a lookup or a connect() that
\* fails at once): "fail" attempts do, and the next one, if there is one, is
\* in progress when the chain of calls returns.
NextAttempt(s, retry, fail) ==
    LET old == IF s.last_connection = None THEN s
               ELSE CloseSocket(s, s.last_connection)
        dropped == [old EXCEPT !.last_connection = None, !.connection = None]
        new == Fresh(dropped)
    IN IF s.attempts = 0 THEN GiveUp(s, retry)
       ELSE IF fail >= s.attempts
       THEN GiveUp([dropped EXCEPT !.attempts = 0], FALSE)
       ELSE [dropped EXCEPT !.attempts = s.attempts - fail - 1,
                            !.con[new] = "opening",
                            !.last_connection = new]

\* The (host, type) pairs there are to try, and those that fail at once
Answer == [hosts : 1 .. MaxAttempts, fail : 0 .. MaxAttempts]

\* _on_resolve
OnResolve(s, a) ==
    NextAttempt([s EXCEPT !.attempts = a.hosts], FALSE, a.fail)

\* connect.  Resolver.resolve answers at once what it was asked before; no
\* lookup is made for a custom host or without use_srv.
Connect(s, a) ==
    LET t == [s EXCEPT !.connected = CONNECTING]
    IN IF s.connection # None THEN s
       ELSE IF ~s.resolved
       THEN [t EXCEPT !.resolving = IF @ < MaxResolving THEN @ + 1 ELSE @]
       ELSE OnResolve(t, a)

\* Mutant: on_connect_auth is left as the login before left it
ConnectAndInitWithoutAuth(s, show, a) ==
    Connect([s EXCEPT !.continue_connect_info = show,
                      !.on_connect_failure = TRUE], a)

\* connect_and_init and connect_and_auth
ConnectAndInit(s, show, a) ==
    Connect([s EXCEPT !.continue_connect_info = show,
                      !.on_connect_auth = TRUE,
                      !.on_connect_failure = TRUE], a)

\* _reconnect
Reconnect(s, a) ==
    LET t == [s EXCEPT !.time_to_reconnect = FALSE]
    IN IF s.connected < 2
       THEN ConnectAndInit([t EXCEPT !.connected = CONNECTING,
                                     !.shown = "connecting",
                                     !.retrycount = IF @ = 1 THEN 2 ELSE 1],
                           s.old_show, a)
       ELSE [t EXCEPT !.retrycount = 0]

\* connection_accepted
ConnectionAccepted(s, c) ==
    IF s.con[c] \notin Open THEN Abandon(s)
    ELSE [s EXCEPT !.on_connect_failure = FALSE, !.connection = c,
                   !.con[c] = "auth"]

-----------------------------------------------------------------------------
(* The user.                                                               *)

\* change_status(show) on an account that is offline or in error
GoOnline(show, a) ==
    /\ acc.connected < CONNECTING
    /\ acc' = ConnectAndInit([acc EXCEPT !.old_show = show,
                                         !.on_purpose = FALSE], show, a)
    /\ request' = show

\* NonBlockingTcp.start_disconnect.  "fails": sending what is queued meets an
\* error, or, on a client that is closing already, empties the queue.  Either
\* closes the socket inside the call, which then sets state = -1 and the alarm
StartDisconnect(s, c, fails) ==
    IF ~fails THEN [s EXCEPT !.con[c] = "closing"]
    ELSE IF s.con[c] = "closing"
    THEN [CloseSocket(s, c) EXCEPT !.con[c] = "zombie"]
    ELSE [DisconnectedReconnCB([s EXCEPT !.con[c] = "closing"])
            EXCEPT !.con[c] = "zombie"]

\* change_status('offline')
GoOffline(fails) ==
    LET t == [acc EXCEPT !.connected = OFFLINE, !.time_to_reconnect = FALSE]
    IN /\ fails => OddErrors /\ acc.connection # None
                   /\ \A c \in Con : acc.con[c] # "zombie"
       /\ acc' = IF acc.connection # None
                 THEN StartDisconnect([t EXCEPT !.on_purpose = TRUE],
                                      acc.connection, fails)
                 ELSE OnDisconnected(t)
       /\ request' = "offline"

\* send_invisible_presence
SendInvisiblePresence(s) ==
    IF s.connection = None THEN s
    ELSE IF ~s.privacy_rules_supported
    THEN Tell(s, ShowAt(s.connected))
    ELSE [s EXCEPT !.on_purpose = @ \/ s.connected > 1,
                   !.invisible_asked = s.con[s.connection] \in Established]

\* Mutant: without the test for an account that is connecting
ChangeShowAtOnce(show) ==
    /\ acc.connected >= CONNECTING
    /\ acc' = IF show = "invisible" THEN SendInvisiblePresence(acc)
              ELSE [acc EXCEPT !.connected = Index(show), !.shown = show]
    /\ request' = show

\* change_status(show) on an account that is connected.  While it is
\* connecting the call returns at once.
ChangeShow(show) ==
    /\ acc.connected >= CONNECTING
    /\ acc' = IF acc.connected = CONNECTING THEN acc
              ELSE IF show = "invisible" THEN SendInvisiblePresence(acc)
              ELSE [acc EXCEPT !.connected = Index(show), !.shown = show]
    /\ request' = show

\* The user answers the question about a plain connection.  Cancelling calls
\* disconnect(on_purpose=True), which leaves a client in "asking" open.
AnswerQuestion(accept) ==
    \/ \E c \in Con :
          /\ acc.con[c] = "asking"
          /\ acc' = IF accept THEN ConnectionAccepted(acc, c)
                    ELSE [Abandon(acc) EXCEPT !.con[c] = "declined"]
          /\ request' = IF accept THEN request ELSE "offline"
    \/ /\ acc.stale_question
       /\ acc' = Abandon([acc EXCEPT !.stale_question = FALSE])
       /\ request' = IF accept THEN request ELSE "offline"

-----------------------------------------------------------------------------
(* The resolver and the network.                                           *)

\* Resolver._on_ready calls every callback that waits, with one result
Resolved(a, fail) ==
    /\ acc.resolving > 0
    /\ LET s == OnResolve([acc EXCEPT !.resolving = 0, !.resolved = TRUE], a)
       IN acc' = IF acc.resolving = 1 THEN s
                 ELSE OnResolve(s, [a EXCEPT !.fail = fail])
    /\ UNCHANGED request

\* _is_connected calls on_connect, which is _connect_success: the stream is
\* up with the type that was asked for, or ("match" false) another one
StreamReady(c, match, fail) ==
    /\ acc.con[c] = "opening"
    /\ acc' = IF acc.connected = OFFLINE
              THEN [acc EXCEPT !.con[c] = "orphan"]
              ELSE IF ~match THEN NextAttempt(acc, FALSE, fail)
              ELSE IF AskPlain THEN [acc EXCEPT !.con[c] = "asking"]
              ELSE ConnectionAccepted(acc, c)
    /\ UNCHANGED request

\* NonBlockingTcp.pollend(retry) before on_connect was called: the socket is
\* closed, then on_connect_failure is connect_to_next_type
StreamFails(c, retry, fail) ==
    /\ acc.con[c] = "opening"
    /\ acc' = NextAttempt(CloseSocket(acc, c), retry, fail)
    /\ UNCHANGED request

\* NonBlockingTcp.pollend later on: on_connect_failure is None by then.  For
\* a client in "closing" this is also the end of _do_send's last message
StreamLost(c) ==
    /\ acc.con[c] \in Open \ {"opening"}
    /\ acc' = CloseSocket(acc, c)
    /\ UNCHANGED request

\* Mutant: the disconnect handlers are not called
OddErrorUnnoticed(c) ==
    /\ OddErrors /\ acc.con[c] \in Open
    /\ acc' = [acc EXCEPT !.con[c] = "closed"]
    /\ UNCHANGED request

\* An error other than a closed peer, in _do_receive or _do_send: the owner's
\* disconnected() runs the disconnect handlers while the socket is open, and
\* unplugging the transport then closes it.  No failure callback is called.
\* Nor is it by disconnect(), which ProcessNonBlocking calls when a client in
\* "opening" reads the end tag of its stream.
OddError(c) ==
    LET handled == IF acc.con[c] \in Asked THEN OnDisconnected(acc)
                   ELSE IF acc.con[c] \in Accepted \cup {"closing"}
                   THEN DisconnectedReconnCB(acc)
                   ELSE acc
    IN /\ OddErrors /\ acc.con[c] \in Open
       /\ acc' = CloseSocket(handled, c)
       /\ UNCHANGED request

\* Mutant: end_disconnect tests for the wrong state
EndDisconnectOfClosed(c) ==
    /\ acc.con[c] \in {"closing", "zombie"}
    /\ acc' = IF acc.con[c] = "closing" THEN acc
              ELSE OnDisconnected([acc EXCEPT !.con[c] = "closed"])
    /\ UNCHANGED request

\* end_disconnect, 10 s after start_disconnect.  A zombie has no owner any
\* more, and what is left of it is the on_disconnect callback.
EndDisconnect(c) ==
    /\ acc.con[c] \in {"closing", "zombie"}
    /\ acc' = IF acc.con[c] = "closing" THEN CloseSocket(acc, c)
              ELSE OnDisconnected([acc EXCEPT !.con[c] = "closed"])
    /\ UNCHANGED request

-----------------------------------------------------------------------------
(* Logging in.                                                             *)

\* __on_auth(con, auth).  When the account is offline by then, it is
\* _init_roster(None) that is called: the client is dropped, not closed.
OnAuth(s, c, auth) ==
    IF s.connected = OFFLINE /\ s.on_connect_auth
    THEN [s EXCEPT !.connection = None, !.on_connect_auth = FALSE,
                   !.con[c] = "detached"]
    ELSE IF auth
    THEN [s EXCEPT !.connected = 2, !.retrycount = 0,
                   !.on_connect_auth = FALSE,
                   !.connection = IF s.on_connect_auth THEN c ELSE @,
                   !.con[c] = IF s.on_connect_auth THEN "privacy" ELSE @]
    ELSE [Abandon(s) EXCEPT !.on_connect_auth = FALSE]

\* The end of the authentication; _on_session reports it twice
AuthEnds(c, auth, twice) ==
    /\ acc.con[c] = "auth"
    /\ acc' = IF twice THEN OnAuth(OnAuth(acc, c, auth), c, auth)
              ELSE OnAuth(acc, c, auth)
    /\ UNCHANGED request

\* _IqCB for PRIVACY_ARRIVED, the first request of _init_roster
PrivacyArrived(c, supported) ==
    LET s == [acc EXCEPT !.con[c] = "roster"]
    IN /\ acc.con[c] = "privacy"
       /\ acc' = IF supported
                 THEN [s EXCEPT !.privacy_rules_supported = TRUE]
                 ELSE IF acc.continue_connect_info = "invisible"
                 THEN Abandon(acc)
                 ELSE s
       /\ UNCHANGED request

\* _send_first_presence; with continue_connect_info = None it raises an
\* exception on its first line
SendFirstPresence(s) ==
    LET show == s.continue_connect_info
        t == [s EXCEPT !.connected = Index(show)]
    IN IF show = "none" THEN s
       ELSE IF show = "invisible" THEN SendInvisiblePresence(t)
       ELSE [t EXCEPT !.shown = show, !.continue_connect_info = "none"]

\* _on_roster_set
RosterArrived(c) ==
    LET s == [acc EXCEPT !.con[c] = "up"]
    IN /\ acc.con[c] = "roster"
       /\ acc' = IF acc.connected < 2 \/ acc.continue_connect_info = "none"
                 THEN s
                 ELSE IF AskPassphrase
                 THEN [s EXCEPT !.passphrase_asked = TRUE]
                 ELSE SendFirstPresence(s)
       /\ UNCHANGED request

\* PassphraseRequest.complete calls _send_first_presence back
PassphraseGiven ==
    /\ acc.passphrase_asked
    /\ acc' = SendFirstPresence([acc EXCEPT !.passphrase_asked = FALSE])
    /\ UNCHANGED request

\* _continue_invisible
ContinueInvisible(c, accepted) ==
    LET s == [acc EXCEPT !.invisible_asked = FALSE]
    IN /\ acc.invisible_asked /\ acc.con[c] \in Established
       /\ acc' = IF accepted
                 THEN [s EXCEPT !.privacy_rules_supported = TRUE,
                                !.connected = Index("invisible"),
                                !.shown = "invisible"]
                 ELSE s
       /\ UNCHANGED request

-----------------------------------------------------------------------------
(* Alarms, keepalive and the network manager.                              *)

\* NonBlockingTcp.read_timeout calls sendPing
SendPing(c) ==
    /\ acc.con[c] \in Established /\ acc.connection # None
    /\ acc.keepalive_alarms < MaxAlarms
    /\ acc' = [acc EXCEPT !.awaiting_xmpp_ping_id = TRUE,
                          !.keepalive_alarms = @ + 1]
    /\ UNCHANGED request

\* _ResultCB or _ErrorAnswerCB finds the id of the ping
Pong(c) ==
    /\ acc.con[c] \in Established /\ acc.awaiting_xmpp_ping_id
    /\ acc' = [acc EXCEPT !.awaiting_xmpp_ping_id = FALSE]
    /\ UNCHANGED request

\* check_keepalive
CheckKeepalive ==
    LET s == [acc EXCEPT !.keepalive_alarms = @ - 1]
    IN /\ acc.keepalive_alarms > 0
       /\ acc' = IF acc.awaiting_xmpp_ping_id THEN DisconnectedReconnCB(s)
                 ELSE s
       /\ UNCHANGED request

\* Mutant: the alarm takes an account in error for a connected one
ReconnectAlarmIfConnecting(a) ==
    LET s == [acc EXCEPT !.reconnect_alarms = @ - 1]
    IN /\ acc.reconnect_alarms > 0
       /\ acc' = IF acc.time_to_reconnect /\ acc.connected = CONNECTING
                 THEN Reconnect(s, a) ELSE s
       /\ UNCHANGED request

\* _reconnect_alarm
ReconnectAlarm(a) ==
    LET s == [acc EXCEPT !.reconnect_alarms = @ - 1]
    IN /\ acc.reconnect_alarms > 0
       /\ acc' = IF ~acc.time_to_reconnect THEN s
                 ELSE IF acc.connected < 2 THEN Reconnect(s, a)
                 ELSE [s EXCEPT !.time_to_reconnect = FALSE]
       /\ UNCHANGED request

\* device_now_active
DeviceNowActive(a) ==
    /\ acc.time_to_reconnect
    /\ acc' = Reconnect(acc, a)
    /\ UNCHANGED request

\* device_no_longer_active
DeviceNoLongerActive ==
    /\ acc.connected > 1
    /\ acc' = DisconnectedReconnCB(acc)
    /\ UNCHANGED request

-----------------------------------------------------------------------------
User ==
    \/ \E show \in Shows, a \in Answer : GoOnline(show, a)
    \/ \E fails \in BOOLEAN : GoOffline(fails)
    \/ \E show \in Shows : ChangeShow(show)

Dialog ==
    \/ \E accept \in BOOLEAN : AnswerQuestion(accept)
    \/ PassphraseGiven

Stream(c) ==
    \/ \E match \in BOOLEAN, fail \in 0 .. MaxAttempts : StreamReady(c, match, fail)
    \/ \E retry \in BOOLEAN, fail \in 0 .. MaxAttempts : StreamFails(c, retry, fail)

Auth(c) == \E auth, twice \in BOOLEAN : AuthEnds(c, auth, twice)

Login(c) ==
    \/ \E supported \in BOOLEAN : PrivacyArrived(c, supported)
    \/ RosterArrived(c)
    \/ \E accepted \in BOOLEAN : ContinueInvisible(c, accepted)

Network(c) == StreamLost(c) \/ OddError(c) \/ SendPing(c) \/ Pong(c)

Resolver == \E a \in Answer, fail \in 0 .. MaxAttempts : Resolved(a, fail)

Timer ==
    \/ CheckKeepalive
    \/ \E a \in Answer : ReconnectAlarm(a)

NetworkManager ==
    \/ \E a \in Answer : DeviceNowActive(a)
    \/ DeviceNoLongerActive

Next ==
    \/ User \/ Dialog \/ Resolver \/ Timer \/ NetworkManager
    \/ \E c \in Con :
          Stream(c) \/ Auth(c) \/ Login(c) \/ Network(c) \/ EndDisconnect(c)

Spec == Init /\ [][Next]_vars

\* Alarms fire: process_connections calls check_time_events every two
\* seconds.
Fairness ==
    /\ WF_vars(\E a \in Answer : ReconnectAlarm(a))
    /\ \A c \in Con : WF_vars(EndDisconnect(c))

FairSpec == Spec /\ Fairness

-----------------------------------------------------------------------------
(* Properties.                                                             *)

\* Two clients are never open at the same time, whatever callbacks of earlier
\* attempts, lookups, alarms and dialogs are still to come ("this property is
\* used to prevent double connections", of last_connection).
OneClient ==
    \A c, d \in Con : acc.con[c] \in Open /\ acc.con[d] \in Open => c = d

\* What OneClient rests on: an open client is never forgotten; the one that
\* can be open is last_connection, which the next attempt closes.
OpenIsLast == \A c \in Con : acc.con[c] \in Open => acc.last_connection = c

\* What the account sends on is a live client, the one connected last.
ConnectionInUse ==
    acc.connection # None =>
        /\ acc.connection = acc.last_connection
        /\ acc.con[acc.connection] \in Accepted \cup {"closing"}

\* "2=>authorised": an account with a show has an authenticated session.
SessionBehindStatus ==
    acc.connected >= 2 =>
        acc.connection # None /\ acc.con[acc.connection] \in Established

\* "1=>connection in progress": an account that is connecting waits for a
\* callback that will come, and never sits there with nothing under way.
ConnectingIsUnderWay ==
    acc.connected = CONNECTING =>
        \/ acc.resolving > 0
        \/ \E c \in Con : acc.con[c] \in {"opening", "asking", "auth", "closing"}

\* An account in error is about to reconnect: the user sees the error, an
\* alarm is set, and what the alarm tests has not been reset in the meantime.
ErrorIsTemporary ==
    acc.connected = ERROR => /\ acc.shown = "error"
                             /\ acc.time_to_reconnect
                             /\ acc.reconnect_alarms > 0

\* Nobody took the continuation of a login away: when the authentication
\* ends, _init_roster is there to ask for privacy lists and the roster.
LoginContinues ==
    \A c \in Con : acc.con[c] = "auth" => acc.on_connect_auth

\* The roster window shows an account without a connection as offline.
OfflineIsShown ==
    acc.connected = OFFLINE /\ acc.connection = None => acc.shown = "offline"

\* What the status says is so, at both ends of it.
StatusIsTrue == SessionBehindStatus /\ OfflineIsShown

\* An account in error keeps trying: it is never left in that state without
\* another attempt, counted by retrycount, however often attempts fail, at
\* once or later.  Whether one of them succeeds is up to the network.
KeepsTrying ==
    \A n \in {0, 1, 2} :
        acc.connected = ERROR /\ acc.retrycount = n
            ~> acc.connected # ERROR \/ acc.retrycount # n

\* A stream that is being closed is closed, if need be by the alarm.
ClosingEnds ==
    \A c \in Con : acc.con[c] \in {"closing", "zombie"} ~> acc.con[c] = "closed"

\* sendPing pings the server "to detect connection failure at application
\* level": the alarm of a ping that was not answered is about a connection,
\* and does not take an account that has disconnected since out of its rest.
KeepaliveFindsFailure ==
    [][acc.connection = None /\ acc'.keepalive_alarms < acc.keepalive_alarms
         => acc'.connected = acc.connected]_vars

=============================================================================
