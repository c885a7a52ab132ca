---------------------------- MODULE SocksReceiver ----------------------------
(***************************************************************************)
(* The download of a file from one of several streamhosts, by SocksQueue   *)
(* and Socks5Receiver of common/socks5.py with the callbacks of            *)
(* common/connection_handlers.py and the buttons of the transfers window.  *)
(* There is a receiver for each streamhost; they race to connect, the      *)
(* first one that does stops the others, and those may be started again    *)
(* when it fails.  As in Connection, methods are operators from states to  *)
(* states, composed as the code calls them, and an action is one callback. *)
(***************************************************************************)
EXTENDS Integers, SequencesExt

CONSTANTS
    Hosts,        \* the streamhosts, in the order the sender gave
    None,         \* no value
    Size,         \* of the file, in units of what one recv may return
    AtOnce,       \* how connect() of a socket that does not block may end at
                  \* once, on the platform: "connected", "refused"
    CancelEarly   \* the user may cancel before streamhosts are known

ASSUME SocksReceiverAssumption ==
    /\ Hosts \in Seq(STRING) /\ Hosts # <<>> /\ IsInjective(Hosts)
    /\ Size \in Nat \ {0} /\ CancelEarly \in BOOLEAN /\ None \notin Nat
    /\ AtOnce \subseteq {"connected", "refused"}

VARIABLE ft    \* the transfer, see Transfer

Host == ToSet(Hosts)
Before(g, h) == \E i, j \in DOMAIN Hosts : i < j /\ Hosts[i] = g /\ Hosts[j] = h

\* How connect() of a new receiver may end: it goes on, or ends at once, or
\* the name of the host was not resolved and there is no socket
Outcome == {"progress", "unresolved"} \cup AtOnce

Receiver == [
    state : -1 .. 8,                        \* Socks5.state
    plugged : {"no", "in", "out", "hup"},   \* what the event loop waits for
    timer : BOOLEAN,                        \* it has a read timeout
    listed : BOOLEAN]                       \* it is one of SocksQueue.readers

Transfer == [
    \* file_props['streamhosts']: the state of each, 0 to be tried, 1 in use,
    \* -1 failed, -2 stopped; and whether idx is absent, set, or -1
    state : [Host -> -2 .. 1],
    idx : [Host -> {"none", "set", "gone"}],
    rcv : [Host -> Receiver],
    \* file_props
    started : BOOLEAN, paused : BOOLEAN, stalled : BOOLEAN,
    completed : BOOLEAN, stopped : BOOLEAN, error : {0, -1, -3, -6},
    received : {None} \cup 0 .. 2 * Size - 1,   \* 'received-len'
    fd : BOOLEAN,                           \* 'fd', the file is open
    failure_cb : BOOLEAN,                   \* there is one
    continue_cb : {None} \cup Host,         \* the receiver it is bound to
    \* the account is connected
    online : BOOLEAN,
    \* no code reads these: replies to the sender, what the user was told, and
    \* whether something went wrong that nobody is going to notice
    replied : Nat, told : Seq({"completed", "stopped", "failed"}),
    unnoticed : BOOLEAN]

Unused == [state |-> 0, plugged |-> "no", timer |-> FALSE, listed |-> FALSE]

Init ==
    ft = [state |-> [h \in Host |-> 0], idx |-> [h \in Host |-> "none"],
          rcv |-> [h \in Host |-> Unused],
          started |-> FALSE, paused |-> FALSE, stalled |-> FALSE,
          completed |-> FALSE, stopped |-> FALSE, error |-> 0,
          received |-> None, fd |-> FALSE, failure_cb |-> FALSE,
          continue_cb |-> None, online |-> TRUE,
          replied |-> 0, told |-> <<>>, unnoticed |-> FALSE]

-----------------------------------------------------------------------------
(* Closing.                                                                *)

Unplug(s, h) == [s EXCEPT !.rcv[h].plugged = "no", !.rcv[h].timer = FALSE]

\* remove_receiver(idx, False)
Unlist(s, h) ==
    IF s.rcv[h].listed
    THEN [Unplug(s, h) EXCEPT !.state[h] = -1, !.rcv[h].listed = FALSE]
    ELSE s

\* Socks5Receiver.disconnect
Disconnect(s, h) == Unlist([Unplug(s, h) EXCEPT !.rcv[h].state = -1], h)

\* remove_receiver(host['idx']) of each of these: it disconnects
RemoveReceivers(s, hosts) ==
    LET listed == {h \in hosts : s.idx[h] = "set" /\ s.rcv[h].listed}
    IN [s EXCEPT
          !.rcv = [h \in Host |-> IF h \in listed THEN [Unused EXCEPT !.state = -1] ELSE @[h]],
          !.state = [h \in Host |-> IF h \in listed THEN -1 ELSE @[h]]]

\* Connection.disconnect_transfer
DisconnectTransfer(s) == RemoveReceivers(s, Host)

Tell(s, what) == [s EXCEPT !.told = Append(@, what)]

\* Connection._connect_error, for code 404, then the callback is deleted
ConnectError(s) ==
    [IF s.online
     THEN Tell([DisconnectTransfer(s) EXCEPT !.error = -3, !.stopped = TRUE], "failed")
     ELSE [s EXCEPT !.unnoticed = TRUE]
     EXCEPT !.failure_cb = FALSE]

\* SocksQueue._connection_refused
ConnectionRefused(s, h) ==
    LET refused == Unlist([s EXCEPT !.state[h] = -1], h)
    IN IF s.failure_cb /\ \A g \in Host : refused.state[g] = -1
       THEN ConnectError(refused) ELSE refused

\* process_result with 0 or -1: handle_event_file_rcv_completed
Complete(s) ==
    LET shown == [s EXCEPT !.stopped = @ \/ s.error # 0]
    IN IF s.stalled \/ s.paused \/ s.error = -6 THEN shown
       ELSE Tell(shown, IF s.error = 0 THEN "completed" ELSE "stopped")

\* Mutant: the error is reported before it is set
BreakSilently(s, h) == [Complete(Disconnect(s, h)) EXCEPT !.error = -1]

Break(s, h) == Complete([Disconnect(s, h) EXCEPT !.error = -1])

-----------------------------------------------------------------------------
(* Connecting.                                                             *)

\* Mutant: the other attempts go on
SocketConnectedAlone(s, h) == s

\* SocksQueue._socket_connected.  The loop ends when it meets a host in use.
SocketConnected(s, h) ==
    LET others == {g \in Host \ {h} : s.idx[g] # "none"}
        used == {g \in others : s.state[g] = 1}
        stopped == {g \in others : s.state[g] >= 0 /\ \A u \in used : Before(g, u)}
        alone == [RemoveReceivers(s, stopped) EXCEPT
                    !.idx = [g \in Host |-> IF g \in stopped THEN "gone" ELSE @[g]],
                    !.state = [g \in Host |-> IF g \in stopped THEN -2 ELSE @[g]]]
    IN IF used = {} THEN alone ELSE RemoveReceivers(alone, {h})

\* do_connect, when the socket is connected
Connected(s, h) ==
    LET t == SocketConnected([s EXCEPT !.rcv[h].state = 1], h)
    IN IF t.rcv[h].listed THEN [t EXCEPT !.rcv[h].plugged = "out"] ELSE t

\* A new Socks5Receiver and add_receiver.  The timeout is set last, and counts
\* for a socket that is plugged.
AddReceiver(s, h, outcome) ==
    LET new == [s EXCEPT
            !.rcv[h] = [state |-> 0, timer |-> FALSE, listed |-> TRUE,
                        plugged |-> IF outcome = "unresolved" THEN "no" ELSE "out"],
            !.started = TRUE, !.paused = FALSE, !.stalled = FALSE,
            !.completed = FALSE, !.error = 0, !.continue_cb = h,
            !.unnoticed = @ \/ outcome = "unresolved"]
        tried == CASE outcome = "connected" -> Connected(new, h)
                   [] outcome = "refused" -> ConnectionRefused(new, h)
                   [] OTHER -> new
    IN [tried EXCEPT !.idx[h] = "set",
                     !.rcv[h].timer = tried.rcv[h].plugged # "no"]

\* SocksQueue.connect_to_hosts, which adds one after the other
ConnectToHosts(s, outcome) ==
    LET added[n \in 0 .. Len(Hosts)] ==
            IF n = 0 THEN [s EXCEPT !.failure_cb = TRUE]
            ELSE AddReceiver(added[n - 1], Hosts[n], outcome[Hosts[n]])
    IN added[Len(Hosts)]

\* Mutant: a streamhost that was stopped is not tried again
ReconnectReceiverOnce(s, h, outcome) ==
    LET gone == [Unplug(s, h) EXCEPT !.state[h] = -1]
    IN IF \E g \in Host : gone.idx[g] # "none" /\ gone.state[g] >= 0 THEN gone
       ELSE ConnectionRefused(gone, h)

\* A streamhost that was stopped is tried again
Again(s, h, outcome) ==
    IF s.state[h] = -2 THEN AddReceiver([s EXCEPT !.state[h] = 0], h, outcome) ELSE s

TryAgain(s, outcome) ==
    LET tried[n \in 0 .. Len(Hosts)] ==
            IF n = 0 THEN s ELSE Again(tried[n - 1], Hosts[n], outcome[Hosts[n]])
    IN tried[Len(Hosts)]

\* SocksQueue.reconnect_receiver
ReconnectReceiver(s, h, outcome) ==
    LET gone == [Unplug(s, h) EXCEPT !.state[h] = -1]
        Tested(n) == \E g \in Host : gone.idx[g] # "none" /\ gone.state[g] \in n
    IN IF Tested({0, 1}) THEN gone
       ELSE IF Tested({-2}) THEN TryAgain(gone, outcome)
       ELSE IF gone.received \in {None, 0} THEN ConnectionRefused(gone, h)
       ELSE Break(gone, h)

-----------------------------------------------------------------------------
(* Events of sockets.                                                      *)

WaitFor(s, h, condition) ==
    [s EXCEPT !.rcv[h].plugged = condition, !.rcv[h].timer = TRUE]

\* _bytestreamSetCB: the sender names its streamhosts
Bytestream(outcome) ==
    /\ ft.online /\ ~ft.started
    /\ ft' = ConnectToHosts(ft, outcome)

\* pollout of a socket that is connecting: it is, or is refused, or has an
\* error for which do_connect only waits for the next event
ConnectEnds(h, outcome) ==
    /\ ft.rcv[h].plugged = "out" /\ ft.rcv[h].state = 0
    /\ ft' = LET s == [ft EXCEPT !.rcv[h].timer = FALSE]
             IN CASE outcome = "connected" -> Connected(s, h)
                  [] outcome = "refused" -> ConnectionRefused(s, h)
                  [] OTHER -> s

\* pollout: the next request is sent
Request(h) ==
    /\ ft.rcv[h].plugged = "out" /\ ft.rcv[h].state \in {1, 3}
    /\ ft' = WaitFor([ft EXCEPT !.rcv[h].state = @ + 1], h, "in")

\* send_raw fails: the socket is closed, and pollout goes on with the next state
RequestFails(h) ==
    /\ ft.rcv[h].plugged = "out" /\ ft.rcv[h].state \in {1, 3}
    /\ ft' = [Disconnect(ft, h) EXCEPT !.rcv[h].state = 0, !.unnoticed = TRUE]

Readable(h) == ft.rcv[h].plugged = "in" /\ ~ft.paused

\* pollin, while the transfer is paused
NoticePause(h) ==
    /\ ft.rcv[h].plugged = "in" /\ ft.paused
    /\ ft' = [ft EXCEPT !.rcv[h].plugged = "hup", !.rcv[h].timer = FALSE]

\* main: the method of authentication is accepted
Authenticated(h) ==
    /\ Readable(h) /\ ft.rcv[h].state = 2
    /\ ft' = WaitFor([ft EXCEPT !.rcv[h].state = 3], h, "out")

\* main: it is not; the socket is closed, and main goes on with the next state
NotAuthenticated(h) ==
    /\ Readable(h) /\ ft.rcv[h].state = 2
    /\ ft' = [Disconnect(ft, h) EXCEPT !.rcv[h].state = 0, !.unnoticed = TRUE]

\* main: the answer is too short
ShortAnswer(h) ==
    /\ Readable(h) /\ ft.rcv[h].state \in {2, 4}
    /\ ft' = WaitFor(ft, h, "in")

\* main: the request is approved; send_success_reply
Approved(h) ==
    /\ Readable(h) /\ ft.rcv[h].state = 4
    /\ ft' = IF ft.state[h] = 1 THEN [Disconnect(ft, h) EXCEPT !.rcv[h].state = 0]
             ELSE WaitFor([ft EXCEPT !.rcv[h].state = 6, !.state[h] = 1,
                                     !.replied = @ + (IF ft.online THEN 1 ELSE 0),
                                     !.continue_cb = h], h, "in")

\* main: nothing to read, the socket is closed; then pollend
HangUp(h, outcome) ==
    /\ Readable(h) /\ ft.rcv[h].state \in {2, 4}
    /\ ft' = ReconnectReceiver(Disconnect(ft, h), h, outcome)

\* get_fd
GetFd(s) == IF s.fd THEN s ELSE [s EXCEPT !.fd = TRUE, !.received = 0]

\* Mutant: the file is complete when the length is reached, not passed
ReceiveExactly(h, n) ==
    LET s == GetFd(ft)
        t == [s EXCEPT !.received = @ + n]
        done == [Disconnect(t, h) EXCEPT !.fd = FALSE, !.completed = TRUE]
    IN /\ Readable(h) /\ ft.rcv[h].state = 6 /\ t.received <= 2 * Size
       /\ ft' = IF t.received = Size THEN Complete(done)
                ELSE WaitFor([t EXCEPT !.stalled = FALSE], h, "in")

\* get_file_contents: n units are received
Receive(h, n) ==
    LET s == GetFd(ft)
        t == [s EXCEPT !.received = @ + n]
        done == [Disconnect(t, h) EXCEPT !.fd = FALSE, !.error = 0,
                                         !.completed = TRUE]
    IN /\ Readable(h) /\ ft.rcv[h].state = 6
       /\ ft' = IF t.received >= Size THEN Complete(done)
                ELSE WaitFor([t EXCEPT !.stalled = FALSE], h, "in")

\* get_file_contents: the sender closed, or there is an error
ReceiveEnds(h) ==
    /\ Readable(h) /\ ft.rcv[h].state = 6
    /\ ft' = Break([GetFd(ft) EXCEPT !.fd = FALSE], h)

\* get_file_contents: n units are received and cannot be written
WriteFails(h, n) ==
    /\ Readable(h) /\ ft.rcv[h].state = 6
    /\ LET s == [GetFd(ft) EXCEPT !.received = @ + n, !.fd = FALSE]
       IN ft' = Complete([Disconnect(s, h) EXCEPT !.error = -6])

\* pollend
PollEnd(h, outcome) ==
    /\ ft.rcv[h].plugged # "no"
    /\ ft' = IF ft.rcv[h].state >= 5 THEN Break(ft, h)
             ELSE ReconnectReceiver(Unplug(ft, h), h, outcome)

\* read_timeout of a transfer that is under way: it is stalled first
Stall(h) ==
    /\ ft.rcv[h].timer /\ ft.rcv[h].state > 5
    /\ ft' = IF ft.stalled THEN Break(ft, h)
             ELSE [Complete([ft EXCEPT !.stalled = TRUE])
                   EXCEPT !.received = IF @ = None THEN 0 ELSE @]

\* read_timeout before that: another streamhost is tried
ConnectTimeout(h, outcome) ==
    /\ ft.rcv[h].timer /\ ft.rcv[h].state <= 5
    /\ ft' = ReconnectReceiver(ft, h, outcome)

-----------------------------------------------------------------------------
(* The user, in the transfers window, and the account.                     *)

\* is_transfer_stopped
Over == ft.error # 0 \/ ft.completed \/ ft.stopped

Pause ==
    /\ ft.started /\ ~Over /\ ~ft.paused
    /\ ft' = [ft EXCEPT !.paused = TRUE]

\* continue_cb is continue_paused_transfer of the receiver that set it last
Continue ==
    /\ ft.paused /\ ~Over
    /\ LET h == ft.continue_cb
           s == [ft EXCEPT !.paused = FALSE]
       IN ft' = IF s.rcv[h].state >= 5 THEN [s EXCEPT !.rcv[h].plugged = "in"]
                ELSE [s EXCEPT !.unnoticed =
                          @ \/ \E g \in Host : s.rcv[g].plugged = "hup"]

\* Mutant: only the streamhost in use is disconnected
CancelUsed ==
    /\ ~Over /\ (ft.started \/ CancelEarly)
    /\ ft' = [RemoveReceivers(ft, {h \in Host : ft.state[h] = 1}) EXCEPT !.stopped = TRUE]

Cancel ==
    /\ ~Over /\ (ft.started \/ CancelEarly)
    /\ ft' = [DisconnectTransfer(ft) EXCEPT !.stopped = TRUE]

\* The account loses its connection and gets it back
GoOnOff == ft' = [ft EXCEPT !.online = ~@]

-----------------------------------------------------------------------------
Next ==
    \/ \E outcome \in [Host -> Outcome] :
          \/ Bytestream(outcome)
          \/ \E h \in Host : \/ HangUp(h, outcome) \/ PollEnd(h, outcome)
                             \/ ConnectTimeout(h, outcome)
    \/ \E h \in Host :
          \/ \E outcome \in {"connected", "refused", "error"} : ConnectEnds(h, outcome)
          \/ Request(h) \/ RequestFails(h) \/ NoticePause(h)
          \/ Authenticated(h) \/ NotAuthenticated(h) \/ ShortAnswer(h) \/ Approved(h)
          \/ \E n \in 1 .. Size : Receive(h, n) \/ WriteFails(h, n)
          \/ ReceiveEnds(h) \/ Stall(h)
    \/ Pause \/ Continue \/ Cancel \/ GoOnOff

Spec == Init /\ [][Next]_ft

-----------------------------------------------------------------------------
(* Properties.                                                             *)

TypeOK == ft \in Transfer

\* _socket_connected, "Stop othere attempts for connections": two streamhosts
\* are never connected, and the sender is told of one.
Connects(h) == ft.rcv[h].state >= 1 /\ ft.rcv[h].plugged # "no"

OneStreamhost ==
    /\ \A g, h \in Host : Connects(g) /\ Connects(h) => g = h
    /\ ft.replied <= 1

\* A transfer that is over has no socket left that may continue it.
EndedIsClosed ==
    ft.stopped \/ ft.completed =>
        \A h \in Host : ft.rcv[h].plugged = "no" /\ ~ft.rcv[h].timer

\* A transfer that is neither over nor paused waits for a socket or a
\* timeout, unless it lost the last one on one of the paths that tell nobody.
SomethingIsAwaited ==
    ft.started /\ ~Over /\ ~ft.paused =>
        \/ \E h \in Host : ft.rcv[h].plugged \in {"in", "out"} \/ ft.rcv[h].timer
        \/ ft.unnoticed

\* The user is told of one end at most: that it failed if all streamhosts
\* have, and none was ever used; that it is complete if it is, and the file
\* is closed; that it stopped if one was used.
ToldRight ==
    /\ Len(ft.told) <= 1
    /\ ft.told = <<"failed">> => /\ \A h \in Host : ft.state[h] = -1
                                 /\ ft.received \in {None, 0} /\ ft.replied = 0
    /\ ft.told = <<"completed">> => ft.received \in Size .. 2 * Size /\ ~ft.fd /\ ft.error = 0
    /\ ft.told = <<"stopped">> => ft.error = -1

\* The race of the streamhosts implements a download: a mapping of the state
\* of the sockets to its phases.
Phase ==
    IF ft.completed THEN "completed"
    ELSE IF ft.error = -3 THEN "failed"
    ELSE IF ft.stopped THEN "stopped"
    ELSE IF \E h \in Host : ft.state[h] = 1 THEN "receiving"
    ELSE IF ft.started THEN "trying" ELSE "offered"

Abstract == INSTANCE Download WITH
    phase <- Phase, got <- IF ft.received = None THEN 0 ELSE ft.received

ImplementsDownload == Abstract!Spec

=============================================================================
