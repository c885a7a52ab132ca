# Gajim: specifications, checks and proofs

TLA+ specifications of the part of Gajim that has no window: the connection of
an account, what it is built on and what is built on it.  `src/` below is the
root of the repository; most of what is modelled is under `src/src/common`.

How to run, in this directory:

    tlc -workers 2 -config MCConnection_core.cfg MCConnection
    tlapm Connection_proofs.tla

`PROJECT.json` lists the runs and what each is expected to show, the source
lines every definition stands for, the mutants every property was tried on,
the disagreements between code and documentation that were met, and the
hazards the properties are for.

## 1. The system

Gajim runs in one thread.  On Unix Glib watches the file descriptors and calls
`_process_events` for those that have an event; every two seconds (every 200 ms
on platforms where the queue polls by itself) `process_connections` runs the
read timeouts that have passed and the alarms that are due.  Everything below is
a callback of that loop or of a GTK widget, and runs to its end.  What is hard is therefore not
preemption but *re-entrance* and *staleness*: closing a socket runs the
disconnect handlers of its client, these close the connection that is closing
the socket; and a callback registered in one life of the account (a lookup, an
alarm, a dialog, a stanza that waits for its answer) is run in another one.

| Component | Source | State it keeps | Operations | What makes it correct |
|---|---|---|---|---|
| Connection of an account | `common/connection.py`, `connection_handlers.py`, `network_manager_listener.py` | `connected`, `connection`, `last_connection`, `on_purpose`, `time_to_reconnect`, `retrycount`, `on_connect_failure`, `on_connect_auth`, `continue_connect_info` | `change_status`, `connect`, `disconnect`, `_reconnect`, log in, `sendPing`, `send_invisible_presence` | one client at a time, none forgotten; status shown = status of the connection; an error is followed by attempts, again and again; nothing waits for a callback that will not come |
| Client and transport | `common/xmpp/client_nb.py`, `transports_nb.py`, `auth_nb.py` | `NonBlockingTcp.state`, send queue, disconnect handlers, read timeout | open, send, receive, `start_disconnect`, `disconnect` | handlers run once, at the end; what is queued is sent in order; closing ends |
| Service lookup | `common/nslookup.py` | `resolved_hosts`, `handlers`, the running commands | `resolve`, `_on_ready` | every callback is called once |
| Event loop | `common/xmpp/idlequeue.py` | `queue`, `read_timeouts`, `alarms` | plug, unplug, set and remove timeouts and alarms, `process` | a callback is for an object still plugged; no alarm is lost; alarms run when due |
| Choice of a host | `common/connection.py` | hosts and types still to try | `select_next_host`, `connect_to_next_host`, `connect_to_next_type` | each host and type tried once, by priority |
| Stanza dispatcher | `common/xmpp/dispatcher_nb.py` | handlers, expected answers | send and wait, `dispatch` | an answer goes to the one who waits for it |
| File transfers | `common/socks5.py`, bytestream part of `connection_handlers.py` | readers, senders, state of each streamhost | connect to hosts, send, receive, pause, disconnect | one streamhost is used; a transfer ends, and is reported once |
| File transfer proxies | `common/proxy65_manager.py` | one resolver per proxy, its connections | `resolve`, `disconnect`, `resolve_result` | a proxy is resolved once, by a live connection |
| Encrypted sessions | `common/stanza_session.py`, `session.py` | `status`, `enable_encryption`, keys, counters, the table of sessions | negotiate, accept, reject, terminate, encrypt, decrypt | both ends have the same keys, in step, and agree on logging; nobody waits, or is encrypted, alone |
| Contacts | `common/contacts.py` | contacts by account and JID, metacontact tags | add, remove, highest priority | one contact per resource, none lost |
| Pending events | `common/events.py` | events by account and JID | add, remove, change JID | an event is read or its message stays unread |
| Roster window and chats | `roster_window.py`, `chat_control.py`, `message_window.py`, `message_control.py`, `gajim.py` | rows, `contacts_to_be_removed`, controls and their sessions | presences, roster pushes, messages; open, read, close, add, remove | what is listed is what was told; a contact has its rows; a message reaches an open window or a queue; what was put off is done |
| Group chats | `groupchat_control.py`, `gajim.py` | `nick`, `new_nick`, `gc_connected`, rows and contacts of occupants, private chats | join, leave, change name, presences, private chats, rejoin | the window knows whether and as whom the user is there, and who else is |
| Entity capabilities | `common/caps.py` | cache by hash, queried or not | presence, disco answer, preload | asked once, never answered from another's hash |
| Ad-hoc commands | `common/commands.py`, `adhoc_commands.py` | running sessions | execute, next, cancel | only the one who began a session continues it |
| The rest | other windows, archive, options, remote control, link-local accounts, personal events, translations | | | not modelled, see section 13 |

Who calls whom: the user's actions reach `Connection.change_status`; the
connection creates clients, each with a `NonBlockingTcp` that the event loop
drives; the transport reports upwards by `on_connect`, `on_connect_failure`,
the disconnect handlers and `on_disconnect`; the resolver calls back
`_on_resolve`; alarms call back `_reconnect_alarm`, `check_keepalive` and
`end_disconnect`; dialogs call back `connection_accepted` and
`_send_first_presence`; the network manager calls `_reconnect` and
`_disconnectedReconnCB`.  Once an account is connected, stanzas reach the handlers
of `connection_handlers.py`; these pass what concerns a session to
`session.py` and `stanza_session.py`, and the rest to the `handle_event_*` methods of
`gajim.py`, which change contacts, events, roster and windows together.

## 2. Plan

The order follows what users lose when it goes wrong: the account first, then
the loop everything rests on, then the protocols that run over it.

| | Modules | Content | State |
|---|---|---|---|
| 1 | `Connection`, `Connection_proofs` | an account, its clients, callbacks and alarms | modelled, checked, invariants proved |
| 2 | `IdleQueue`, `IdleQueue_proofs` | the event loop, with callbacks that are not atomic | modelled, checked, invariants proved |
| 3 | `Download` (abstract), `SocksReceiver`, `SocksReceiver_proofs` | a download from several streamhosts, and what it promises | modelled, checked, invariants and refinement proved |
| 4 | `ESession`, `ESession_proofs` | two clients that negotiate, use and end encrypted sessions over a network that loses | modelled, checked, invariants and the order of keys proved |
| 5 | `Roster`, `Roster_proofs` | a contact: instances, rows, events, chats, sessions, the server's roster and another client | modelled, checked, all but one property proved |
| 6 | `GroupChat`, `GroupChat_proofs` | a room, its server, the occupants, private chats, lost connections | modelled, checked, all safety properties proved |
| 7 | `Login` (abstract), `Client`, `Client_proofs` | the negotiation of a stream, authentication, answers that are waited for, and what a client promises its connection | modelled, checked, invariants and refinement proved |
| 8 | `SendQueue`, `HostSelection`, `Resolver`, `Proxy65` | send queue with `disconnect` and `send(now)`; order of SRV hosts and backoff; callbacks of lookups; sharing of proxies | left |
| 9 | `SocksSender`, `Caps`, `Commands` | uploads; capabilities; commands of other clients | left |

`Loops` has what the proofs about `SocksReceiver`, `Roster`, `GroupChat` and `ESession` need of
the natural numbers.

Composition: `Connection` takes from the loop that callbacks run to their end,
and that an alarm that is set runs some time.  `IdleQueue` drops the first, since its callbacks
may act on the queue between any two steps of the loop, and shows how far the second is true:
an alarm is never lost, and the latest one of all runs as soon as it is due unless another raises, but one that is due may be
skipped for others that are not (section 13).  `Client` is what happens inside one client of `Connection`: the phases that
`Connection` gives a client are those of `Login`, which `Client` is shown to
implement.  `SocksReceiver` is composed with `Download` by a refinement mapping.
`ESession` composes two instances of the same code with the network between them,
`Roster` the tables of one contact with the server and a second client of the user,
`GroupChat` the window of a room with the server that runs it.

## 3. The account: `Connection`

`acc` is the `Connection` object with what hangs off it, one field for each
attribute that a condition of the code reads, under its name.  Each client that
is not garbage is a member of `Con` with a *phase*, which stands for
`NonBlockingTcp.state`, the disconnect handlers the client has and what the
login has come to.  `resolving`, `reconnect_alarms` and `keepalive_alarms`
count callbacks that are still to come, `shown` is what the roster window was
told last, and `request`, which no code reads, is what the user asked for last.

Methods are operators from states to states (`Disconnect`, `CloseSocket`,
`DisconnectedReconnCB`, `NextAttempt`, `Connect`, `Reconnect`,
`StartDisconnect`...), and they are composed as the code calls them, so that
re-entrance is computed and not guessed: `CloseSocket` runs the disconnect
handlers of the phase the client is in, these run `Forget`, and a call that
returns goes on with what is left.  An action applies one of them to `acc`:

| Action | Callback |
|---|---|
| `GoOnline`, `GoOffline`, `ChangeShow` | `change_status` |
| `AnswerQuestion`, `PassphraseGiven` | answers of dialogs |
| `Resolved` | `_on_resolve`, called by the resolver |
| `StreamReady`, `StreamFails` | `on_connect` and `on_connect_failure` of the client, `connect_to_next_type` |
| `AuthEnds` | `__on_auth`, which the client may call twice |
| `PrivacyArrived`, `RosterArrived`, `ContinueInvisible` | answers of the server while logging in |
| `StreamLost`, `OddError` | a closed peer, and any other error of the socket |
| `SendPing`, `Pong`, `CheckKeepalive` | the ping of `read_timeout` and its alarm |
| `ReconnectAlarm`, `EndDisconnect` | alarms |
| `DeviceNowActive`, `DeviceNoLongerActive` | the network manager |

Abstractions: the pairs of a host and a connection type that are left are a
number, and an argument says how many of them fail inside the call; `show` is
online or invisible; the time of the backoff and random numbers are left to the
alarm, which may fire at any time; passwords, certificates and what GPG does
are left out but for the dialogs that call back.

Two identities of clients are enough: a third could be open only when two are
open or forgotten already, which is what `OneClient` and `OpenIsLast` exclude.
A client that is closed gives its identity back (`Fresh`).

## 4. The event loop: `IdleQueue`

Here callbacks are not atomic.  `running` is the callback that runs; while one
does, and between any two steps of a loop over timeouts or alarms, `Act` may
open, plug, close, or set a timeout or an alarm, on any object, as the code of
a callback or of a widget may; then the callback returns (`Return`) or raises
(`Raise`).  `fd` is the operating system's side: a descriptor that was closed is
given to the next object that opens one.  `CheckTimeEvents` begins a call of
`check_time_events` and takes a snapshot of the timeouts in `todo`; `CheckTimeout`,
`CheckAlarms`, `CheckAlarmTime`, `CheckDone` are the turns of its loops.  `life` and
the field `by` of a timeout record what was asked for; no code reads them.

`SkippedForLater` is what is true of the loop over the alarms: it leaves one that is due only if
another is set for later.  `DueAreRun`, that it leaves none, is what the comment of `set_alarm` says, and is
not true of the code: the run `skipped` has the order of the dictionary in which the first time met is not due.

This is `GlibIdleQueue`; the forms that poll by themselves have the same
tables.

## 5. A download: `SocksReceiver` and `Download`

`ft` holds, for each streamhost, its `state` and `idx` and the receiver that was
created for it last; and `file_props`.  Again methods are operators on that state
(`Disconnect`, `RemoveReceivers`, `SocketConnected`, `ConnectionRefused`,
`ReconnectReceiver`, `AddReceiver`, `Complete`, `ConnectError`), and actions are
the stanza with the streamhosts (`Bytestream`), what happens to a socket
(`ConnectEnds`, `Request`, `Authenticated`, `Approved`, `Receive`, `HangUp`,
`PollEnd`, ...), its timeout (`Stall`, `ConnectTimeout`), and the buttons of the
window (`Pause`, `Continue`, `Cancel`).

A loop of the code over streamhosts is a recursive function `f` on how many of them are
left, `f[n]` being what the loop makes of the last or the first n: it is checked as
well as a fold, and can be proved about.

The first socket that connects stops the others (state -2); if it fails before
the transfer began, `reconnect_receiver` gives all of these a new receiver, and
the race is run again.  `told` and `replied` record what the user and the sender were told.
`unnoticed` records that the code took one of the paths on which a receiver
is lost and nobody is told (see section 13): `SomethingIsAwaited` is about all others.

`Download` is what all this promises: offered, trying, receiving, and one of
three ends; it settles on a streamhost once, what is received only grows, it
fails only if nothing was accepted, and it completes only with the whole file.
`ImplementsDownload` maps the state of the sockets to these phases.

`AtOnce` says whether `connect()` on a socket that does not block may succeed or be
refused at once.  Success at once is left out of the runs, since Linux reports
`EINPROGRESS` first; with it `EndedIsClosed` does not hold, see section 13.

## 6. Encrypted sessions: `ESession`

Two instances of Gajim, each a record `at[p]`: session objects, the table
`ConnectionHandlersBase.sessions` that finds one by its thread, the chat with the
session it has, the session of the last message that waits to be read, the open
dialogs.  `net[p]` is what is under way to `p`.  A session object lives as long as
something refers to it (`Collect`), as in Python: code that keeps a session that
was deleted from the table acts on it, and answers to it reach another.  What a party
without a connection would send is not sent (`Transmitted`).

Methods are operators that collect in `out` what they send: `NegotiateE2E`,
`RespondE2EBob`, `AcceptE2EAlice`, `AcceptE2EBob`, `FinalStepsAlice`, `Terminate`,
`TerminateE2E`, `AcknowledgeTermination`, `FailedDecrypt`, `Unavailable` and so on under
their names; `EndEach` is a loop over the table that ends the sessions it concerns; `Message` is `_messageCB` with what it leads to.  `Receive` handles
the next stanza; `Accept` and `Reject` answer the dialog of an Alice; `Type`,
`StopEncryption`, `BeginE2ENegotiation`, `OpenChat`, `CloseChat` are what a user does;
`LoseConnection`, `GoOffline` and `Reconnect` the network, with what was sent kept
or lost.

Cryptography is by name: Alice's and Bob's halves of Diffie-Hellman are values
`Half`, each used in one message; a key is a pair of halves; a counter is
the half it began with and a number of stanzas; a stanza can be decrypted, and an
identity verified, with the same key and counter only.  The MAC of a stanza is made of the counter in one
encoding and compared with one that is made of it in another (`encode_mpi`, `encode_mpi_with_padding`), which
differ when the counter begins with zeros: `Short` is the set of those counters, and `Decrypts` is
false for them.  It gives the directions too, since the two counters of a session differ in their first bit.
What is negotiated is one
option, logging, which the parties have different preferences for.

A session that was begun by typing in a chat that has no resource keeps the bare address
(`bare`).  When the contact loses its connection, `handle_event_notify` ends the sessions whose full address is that
of the contact, so that such a session goes on encrypting (`Concerns`), although the comment there says what that is done
for: "if any messages are lost they'll be not decryptable".

`rough` marks accidents the code is not prepared for, after which parties do wait for
each other in vain: a request during a negotiation, a termination that arrives in the middle of one (it is taken for the
answer by who has requested, and the handler raises),
a message that cannot be decrypted, a session that is in no table, a connection that is lost.
`NobodyWaitsInVain` and `NotAlone` are about all other behaviours; `InStep`,
`KeyAgreed` and `LoggingAgreed` about every one.

`InStep` says that of what is under way with the counter of a session (`Flow`) the first is
what the receiver decrypts next, and nothing is missing until what the sender encrypts
next (`InOrder`).  There are two exceptions, after stanzas were lost: the sender is going to be told (`ToldOfLoss`), or
its session is `bare` and the other end has lost a connection.  Each value of a counter is used for one stanza: keys are
never used twice with the same counter, and what arrives can be decrypted.

## 7. A contact: `Roster`

`gui` is what Gajim keeps of one contact: `inst`, its instances in the list of
`contacts.py`; `rows`, the groups it has a row in; `ev`, the queues of events by
address, bare or full; `chat` and `control`, the two pointers between a chat and a
session; `known`, the table of sessions; `removal`, its entry in
`contacts_to_be_removed`; `unread`, the table of unread messages of the log.
`item` is what the server has, `pushes` what it has sent, `told` what each resource said
last.

| Action | Code |
|---|---|
| `MessageArrives`, `FileEvent` | `received` and `roster_message` of `session.py`; `handle_event_file_request`, `add_event` |
| `Presence` | `_presenceCB`, `handle_event_notify`, `chg_contact_status` |
| `PushArrives` | `_rosterSetCB`, `handle_event_roster_info`; `handle_event_subscribed` |
| `Lose`, `Reconnect` | `on_status_changed`; `handle_event_roster`, `fire_up_unread_messages_events` |
| `Activate`, `Tray`, `StartChat`, `Close` | a double click on the row; `handle_event`; `new_chat_from_jid`; `remove_tab` |
| `RemoveByUser`, `Request` | `on_req_usub`; `req_sub` |
| `Approve`, `Edit` | the contact; another client of the user |

`remove_contact`, which every handler that moves a contact calls, may put its work off
for unread messages or a chat, and `on_event_removed` or the closing of the chat takes it up
again; `RemoveContact` keeps each of its exits.  A removal or an approval that crosses
a push, an instance that is renamed under an open chat, a queue filled again from the
log at each connection are what the runs are for.  The constants that
are BOOLEAN choose which of it a run has.  Loops are recursive functions, as in
`SocksReceiver`: over the events that are filtered (`OfType`) and over the messages that are
printed, each of which may change the session of the chat (`ReadQueue`).

## 8. A room: `GroupChat`

`room` is the server's: who has which name, with which role, and whether it is the
user, another one, or what a connection that was lost left there.  `toRoom` and `toGajim`
are the streams between them, in order.  `gc` is the window of the room: `nick`,
`new_nick`, `connected`, the dialog that asks for a name, `rows` (the tree, where a name
may get two rows), `contact`, the messages to be read, private chats, and their two
tables: `table` by address (of the message window) and `control` by session.

`Arrive` is `handle_event_gc_notify` with `chg_contact_status` for presences, and
`on_private_message` for messages; where the code would raise, the operator returns what
was changed until then.  `JoinRoom`, `ChangeStatus`, `LeaveRoom`, `ChangeNick`,
`AnswerDialog`, `Activate`, `Tray` and `Close` are the user, `SignIn` is
`handle_event_signed_in`, `Lose` the connection, and `Serve` the
server's answer to the next presence.  The server is modelled from what the handlers
expect of it (XEP-0045: the occupants first, the user's own presence last; a name
change is an unavailable presence with the new name, then an available one; a
conflict leaves things as they are).

`astray` records an accident: a change of name that was asked for in the middle of something, or
that something came into the middle of (a kick, a change of status, another occupant with the name); the end
of the user's presence that the code does not notice; an occupant removed by a window that is
not the one in the table.  `InDoubt` adds the changes under way.  `KnowsItself`, `RoomIsShown` and
`JoinIsAnswered` are about the rest, section 13 says what becomes of these.  The first two hold when
all that was sent has arrived.  `NobodyLingers` is about each step instead: none leaves somebody in
the list who is gone and of whom there is nothing to be read, unless the step drops messages nobody saw
(`Dropped`: a chat is closed over them, or they are read in the window of somebody who had the name before).

## 9. A client: `Client` and `Login`

One `NonBlockingClient` from the moment its socket is connected.  The code has no table
of states: what comes next is `NonBlockingTcp.on_receive`, a function that every step
replaces, here the field `on_receive` with a name for each function that is ever
installed.  `cl` has, besides, what these functions look at (`connected`, the attributes and the features
of the stream, `starttls`, `startsasl`, `bound`, `_witid`, `_expected`) and the
`stage` the Connection knows of.  `wire` is what the server has sent, `reading` the
function that was called with the data being read, `granted` what the server has
agreed to, which no code reads.

Methods are operators, composed as in the code.  `onreceive(f)` calls `f` before it
installs it, and `f` may install something else: `OnReceive` is given what that call
makes of the client, so that nested calls are computed inside out, in the order in which
the code assigns.  Actions:

| Action | Code |
|---|---|
| `Read`, `DispatchNext`, `EndOfRead` | one call of `_do_receive`: `on_receive` is called with the data, each element that ends in it is dispatched (`Dispatch`), and then the function looks for what it waits for (`Handle`) |
| `EndTag` | the data ends with the end tag of the stream |
| `Lose` | `pollend` |
| `Decide` | the dialog about plain connections: `connection_accepted` |
| `Ask` | `SendAndCallForResponse`, once logged in |
| `Server`, `Stanza` | the server |

A read is one callback of the loop, so nothing else happens between `Read` and
`EndOfRead`; how many elements are dispatched in between is left open, and none is a read
that ends in the middle of one.  The server keeps to the protocol: it answers each header
with a header and features, or with a header alone if it is an old one, offers TLS before it was
used and binding after SASL, agrees to or refuses what it is asked, and answers requests in
any order.  What mechanisms compute is left out: a challenge is known or not.

`ConnectSuccess` is `_connect_success` of the account with what it leads to; whether the
account goes on, asks the user or has gone offline is chosen at the beginning (`answer`).

`Login` is what `Connection` takes for granted of a client: it is ready or has
failed, at most one of them and once; the authentication ends once, and if it was begun; after
its end it says nothing.

## 10. Runs

| Run | Question | Result |
|---|---|---|
| `core` | an account that reconnects by itself: is there one client, is what is shown true, does an account in error keep trying, do closing streams end? | pass |
| `dialogs` | with questions, passphrases, invisibility and errors of any kind at any time, is what the account sends on alive? | pass |
| `keepalive` | is the alarm of a ping that was not answered about a connection that is there? | violated |
| `queue` | are callbacks only for what is open, are alarms kept, and are due ones skipped only for later ones, whatever callbacks do and raise? | pass |
| `skipped` | has the loop called all alarms that are due when it ends? | violated |
| `download` | race, failure, timeout, pause and cancel of a download from three streamhosts | pass |
| `sessions` | do two clients agree on keys, counters and logging, and is neither left waiting or encrypted alone? | pass |
| `roster` | is what is listed what resources said, do messages reach open windows, are removals carried out? | pass |
| `lost` | the same contact with requests, both ways of removing it and lost connections: does it keep a row, does each message that waits go on waiting? | pass |
| `room` | does the window know whether and as whom the user is in the room, and who else is? Do those who are gone leave the list? Is a join answered? | pass |
| `login` | does a login end, however the server cuts its stream into reads; is it granted step by step, over a connection of the type that was tried; does a client keep to `Login`? | pass |
| `private_chat` | does activating an occupant open the chat with that one? | violated |

A run that is violated states what a comment says; `findings` in `PROJECT.json` quotes it and tells the trace:

* `keepalive`: `sendPing` says that its ping is sent "to detect connection failure at application level".
  An account that is online sends it, the user goes offline, the stream is closed, and then the
  alarm of the ping runs.  Nothing has forgotten `awaiting_xmpp_ping_id`, so that `check_keepalive` puts the account in
  error with an alarm that reconnects it.
* `skipped`: `set_alarm` says that the alarm is "to be called after alarm_cb sec."  The loop breaks at the first time that
  is not due, and the times come in the order of a dictionary.
* `private_chat`: the window found for an occupant may be that of one who had the name before.

Bounds, and why they are enough:

* `MaxAttempts` = 2: the first pair, one more to go on with, and none left are
  all met; `dialogs` has 1 to make room for the dialogs.
* `MaxResolving`, `MaxAlarms` = 2: one callback of this life of the account and
  one of an earlier one.  `dialogs` has one alarm of a kind, which stands for any
  number: `Armed` saturates, and a ping is not sent beyond the bound.
* `Con` has two members, see section 3.  No symmetry: `Fresh` uses `CHOOSE`.
* The queue: two objects at two descriptors are what it takes for one to close
  the other and to get its descriptor; two alarms for one to come before the
  other at the same time or at another.  `queue` has `MaxTime` 2, so that what is
  set at 0 is due at 1 while an alarm for 2 is not; all its properties are about states and single steps, so that the end of
  the clock makes nothing true that would be false later.  Objects wait to read or to write (`Wanted`), which
  gives each of the callbacks; the proofs are for any combination.  Objects and alarms are symmetric in `queue`, which checks
  no liveness.  `skipped` has one object, which plays no part in it.
* `download`: three streamhosts, so that one that fails leaves two to race again;
  a file of two units, each `recv` returning one or two.  A counter of failed
  `connect()` calls (up to 1000) is replaced by a choice.
* `sessions`: a thread for each party, since negotiations interfere on one thread, and
  either may begin one; `MaxActs` 4 is enough for two negotiations, or one with
  messages and a loss, and everything they lead to is not counted; three
  sessions of a party: one that waits to be read, one in the chat, one in the table (`MayMake`, `MayBegin`
keep the steps that make a session within the bound).  One counter is `Short`: the one for which the first
response of a party is decrypted by the other.  One party may have a chat at the bare address (`AtBare`), which is enough for
a session that one end keeps and the other does not; the proof is for any.  The number of halves has no bound.
* `roster`, `lost`: two resources for a highest one that changes; one group,
  so that a contact is in it, in General or in the group for strangers; two
  messages; four or five acts, each of which may set off several handlers.  The options
  are split between the runs to keep each within minutes.
* `room`: three names, the user's two and one more, so that each may be taken, freed and
  taken by another; two roles; one window of a private chat, which is there or not, two in
  `private_chat`; five acts and at most three stanzas under way when one begins.

* `login`: two challenges, as DIGEST-MD5 has; three requests of an account, so that the last
  of them, one before it and one that is asked from a handler are told apart; other stanzas are sent while
  at most one element is under way.  During a login the server has nothing to send that was not asked for.

Every property has a mutant, a plausible slip in an operator (marked as such in
the modules, before the operator it spoils), for which its run finds a violation.


## 11. Fairness

`core` checks `KeepsTrying` and `ClosingEnds` with weak fairness of the alarms
`_reconnect_alarm` and `end_disconnect` alone: `process_connections` is a Glib
timer that always comes back.  Nothing is assumed of the server, the network, the
resolver or the user, and an attempt may fail inside the call for ever.  Therefore `KeepsTrying` does not say that the error ends, but
that an account in error does not stay there without another attempt.  An attempt that fails at once is a step
of the model, because it changes `retrycount` (0, then 1 and 2 in turns: the code asks whether it is 0, and, for the time until the next
attempt, which is left out, whether it is less than 2).
What this does assume is that the loop over the alarms does not skip the same one for ever.  The code does not guarantee it when
callbacks set new alarms for ever (`skipped`); without others that wait, `SkippedForLater` makes it true.

`room` checks `JoinIsAnswered` with weak fairness of `Serve`, `Arrive` and `SignIn`: the
server answers, what it sends arrives, and the account connects again: that the attempts `KeepsTrying` of
`core` is about succeed in the end is an assumption here.  Nothing is assumed of the user or of other occupants.

`login` checks `LoginEnds` with weak fairness of `Read` and `EndOfRead`: the loop reads
what has arrived, and functions return.  `DispatchNext` is given strong
fairness, since reads that end in the middle of an element may come between, but an
element is finite.  `Server` is given strong fairness too, since it is not enabled while
the client reads: the server answers what it is asked.  That a server which
does not answer is given up is not promised by the code (section 13).

`IdleQueue`, `SocksReceiver`, `ESession` and `Roster` have no fairness: their properties are
about what can be waited for, not about what comes (`SomethingIsAwaited`,
`NobodyWaitsInVain`, `RemovalIsFinished`), since what comes is up to a peer or a user.

## 12. Proofs

`Connection_proofs` proves, for any set of clients, any bounds and any options,
`TypeOK`, `OpenIsLast`, `OneClient`, `ConnectionInUse` and `ErrorIsTemporary`.
`OpenIsLast` and `ErrorIsTemporary` are proved only: the first is what makes `OneClient`
true, the second what `KeepsTrying` rests on.  The inductive invariant is `Good(acc)`:

* `Last`: an open client is `last_connection`.  `OneClient` follows at once and
  would not be inductive alone: nothing would tell that the client
  `connect_to_next_type` closes before it opens another is the one that is open.
* `Using`: `connection` is None or `last_connection`, and alive.  `Last` needs it
  because `disconnect` closes `connection` and then forgets `last_connection`.
* `Reconnects`: in the error state the error is shown, `time_to_reconnect` is set
  and an alarm is pending.

There is a lemma for each operator, that it keeps `Sound` (the first two and the
type) and what it does to the rest, in the order in which they call each other;
then one for each group of actions.  `Drops` is what the operators that give up
a connection have in common, so that those that call them need not know which.

`IdleQueue_proofs` proves `TypeOK`, `PluggedIsOpen`, `ClosedIsNotCalled`, `AlarmsAreKept` and
`SkippedForLater` for any descriptors, objects, alarms and length of time.
`PluggedIsOpen` is proved only.  `DescriptorsOK` adds to the type that what is plugged is open at its own
descriptor, from which it follows that whatever a loop finds in the queue is
open, however old its snapshot is.  For the alarms, `AlarmsDone` says that those
of the time being run are all set no later than `current_time` and those before
the present one have run; the argument is that an alarm set in the meantime is
for a later time than any being run, so that the `del` at the end of the loop
deletes none that waits.  For what a loop leaves, `AlarmsAhead` says that a time that is due is before the loop or being run,
and that a time before the loop still has its alarms: when the loop ends with one that is due, it is because it met another
that is not.

A second part of the module goes on from `Good` and proves what the account *says*.
The inductive invariant is `Honest(acc)`, whose parts are

* `Begun`, for all options: a login that waits for the resolver, a client or a dialog
  has the continuation `on_connect_auth`.  It gives `LoginContinues`
  (`LoginHasContinuation`).
* `UnderWay`, without odd errors: an account that is connecting waits for the resolver
  or has a client that is on its way.  It gives `ConnectingIsUnderWay`
  (`ConnectingEndsSomehow`, under `ASSUME ~OddErrors`).
* `Session` and `Told`, when the account is `Plain` (no question, no passphrase,
  nobody goes invisible): a show is backed by an authenticated session, and an account
  without a connection is shown offline, unless it is closing on purpose.  They give
  `StatusIsTrue` (`StatusIsReal`, under `ASSUME Plain`).

The argument goes along what operators have in common.  `GivesUp` says that an
operator closes clients at most, leaves what a login waits for alone and ends
offline or in error: `Disconnect`, `CloseSocket`, `HandleLoss`, `DisconnectedReconnCB`
and what calls them do, by whatever way they call each other.  `Attempted` says that what
tries the next host either opens a client for a continuation that is set, or gives up.
An account that gives up is honest (`GivesUpHonest`); `Told` is then shown apart, operator
by operator, since it depends on which of the two shows was told last.  What remains
for the actions is the moment a phase of a client changes.

`Client_proofs` proves, for any types of connection, any number of challenges and any
requests, `TypeOK`, `LoginIsGranted`, `LastAnswerDelivered` and that `Client` implements
`Login`, without fairness.  Whether a login is granted depends on which handler is
installed when which element is dispatched, so that the inductive invariant `Inv` says
above all whose turn it is:

* `Turn`: before the client is logged in, nothing is under way, or the client has sent
  one thing and the handler that is installed waits for the answer, or that answer is
  on the wire (`Awaits`).  Nothing else can therefore be dispatched to a handler.
* `Requests`: afterwards there are only stanzas, and answers to what was asked and not
  answered.
* `Fit` and `Socket`: the handler fits the stage and the mechanism, and `secure` the
  type that is tried.  From `Socket` follows that a `ConnectionType` equal to the type
  speaks of the stream that will be authenticated.
* `Granted`: what the client has been told, or will be told by what is on the wire, is
  in `granted`.
* `Reads`: while data is dispatched, the handler it was given to is still the one that
  waits; only SASL replaces itself, by the handler that binds.  It is why the answer to
  the last request is found with the data it was in.

There is a lemma for each method, from the inside out (`OnDocAttrsGood` before
`AuthenticateGood` before `ConnectSuccessGood` and so on), which says that the client is
in order after it and which stages it leads to; `HandleGood` and `DispatchGood` collect
them, and `NextGood` adds the server and the user.  The refinement follows from the
stages alone.

`Loops` is about the natural numbers and is what loops need.  A property of every number cannot be
a parameter of a lemma here, but a *set* of numbers can: `SetInduction` says that a set
that has 0, and with each number the next, has all of them, from which `LoopKeeps` follows: a
recursive function each step of which stays in a set stays in it.  (That every set of numbers has a
least one, `LeastExists`, is in the library as well-foundedness.)  A recursive function is a `CHOOSE`,
so that a lemma has to say that there is one: `LoopExists` does, for steps that go from
one set to the next (`StepsTo`, `Computes`), and `LoopStays` and `RepeatExists` are the same for one
set all along.

`SocksReceiver_proofs` proves, for any streamhosts in any order and a file of any size, the
type, `OneStreamhost`, `SomethingIsAwaited`, `ToldRight`, `EndedIsClosed` and that `SocksReceiver`
implements `Download`.  The inductive invariant is `Core(ft) /\ Awaited(ft)`:

* `Wired`: for each streamhost, who waits for an event is in the table of receivers, and in
  the state that the event is for; only the streamhost in use receives.
* `Alone` and `NoneStopped`: who is connected is the only one whose socket waits for something, and
  while one is connecting none is stopped.  `OneStreamhost` needs them: when a
  receiver that was first is lost, all that it had stopped are tried again, and no one else is
  in use meanwhile.
* `Final`: what is over and reported has no socket left.  It gives `EndedIsClosed`.
* `Accepts`: what was received, or told to the sender, is of a streamhost in use, or of one
  that was and after which all is closed.  So a transfer that fails cannot have been
  accepted before, which is what `Tells` and the refinement need.
* `Tells`: `told` has one entry at most, and the right one.
* `Waits` and `Awaited`: a streamhost that is tried waits for an event, and a transfer that is
  not over has one that does, except on the paths of `unnoticed`.

The race is where operators call each other (`SocketConnected`, `ConnectionRefused`,
`ReconnectReceiver`, `Disconnect`), through states that are in no behaviour; two predicates lead
through it: `Untried`, nothing was accepted and nobody told, and `Failed`, all
streamhosts have failed, and that was told or is one of the accidents.  For each action, `Good(ft, ft')` says that the
invariant holds after it and that the phases move as `Download` allows (`Moves`).
All theorems suppose `InProgressFirst`, that a `connect()` which does not block does not succeed at once, as
it does not on Linux; `EndedIsClosed` and the refinement also `~CancelEarly`, that nobody
cancels a transfer whose streamhosts are not known.  Without them these do not hold,
section 13 says why.  The `download` run has the same values.

`Roster_proofs` proves, for any resources and groups, any number of messages and acts and all options
of the runs, `TypeOK`, `ShownSomewhere`, `RemovalIsFinished` and the action property `UnreadStaysQueued`; and `AttachedIsOpen`
for an account whose connection is not lost (`~Reconnects`).  The inductive invariant is `Whole`:

* `Ok`: the type, and that between two callbacks the removal of a row alone is never put off, which
  `RemoveContact` relies on when it takes up a removal.
* `Shown`: a contact that is listed, and whose removal was not put off, has a row.  It is
  `ShownSomewhere` for any state `s`, since handlers pass through many.
* `Attached`: a session that has a chat is the session of that chat.  It is not inductive, and
  needs two more.
* `Own`: a chat at a full address, or a message that waits at one, belongs to the session of that resource.
  A window that is opened to read messages is therefore given no session that another
  window has.
* `Read`: no chat message waits at the bare address while its chat is open.  Otherwise `Tray`
  would open a second chat there, whose predecessor's session would keep its pointer.
* `Awaits`: `RemovalIsFinished` for any state `s`: while a removal
  is put off there is an event, or the chat at the bare address.  `RemoveContact` puts a removal off only then (`PendingIs`), and
  what takes the last event or closes the chat is followed by `EventsRemoved` or a removal that is forced, which is not put off
  (`NeverDelayed`).

`Sound` (`Ok` and `Shown`) is proved of every operator first, `Wired` (`Attached`, `Own` and `Read`) where chats,
sessions or events change.  `Recalls(s, t)` says that what is unread in `t` waits there if it did in `s` or
is new; it goes from operator to operator, so that a handler has it if all it calls do.  `Fine` says of a
handler that it ends in a state that is `Sound`, that it keeps `Wired` and `Awaits`, and `Recalls`.  All actions
are but two: `Close`, which drops the events of the chat it closes (that of the bare address has no chat message to
drop, by `Read`), and `Reconnect`, after which `TakesRoster` finds every unread message in a queue, by
induction over the messages of the log.
With connections that are lost, `Read` fails, and so does `AttachedIsOpen`: section 13.

`GroupChat_proofs` proves, for any names, roles and private chats, any number of acts and stanzas and
all options, `TypeOK`, `KnowsItself`, `RoomIsShown` and the action property `NobodyLingers`.  The last needs
more than the type; `Whole` adds:

* `Listed`: a contact has a row, in a window that is open.  Otherwise `remove_contact`, which looks for the row,
  would leave the contact.
* `Found`: the table of the windows leads to the chat with that occupant, that of the sessions to the
  chat with that session.  No handler looks at a chat that is closed.
* `Told`: the window of an occupant who is gone says "offline", unless a presence is on its way.  It is by
  that, and not by the contact, that `read_queue` decides to remove the row.
* `Paired`: a presence that changes a name is followed at once by one of the new name.
  In between the new name is listed as "offline".

Every operator is shown to keep `Good` (the type, `Listed` and `Found`) and `Told`, and to leave nobody
behind (`LingersIn`); `HandleGood` collects the stanzas, `Says` and `Does` the actions of the room and of Gajim.
That who is gone was kept for messages *at any time*, which looks like the same, is false after two
exchanges of names: who is `Dropped` stays.

`KnowsItself` and `RoomIsShown` say what is the case when all has arrived, of any number of stanzas in
any number of orders.  The invariant under them, `Sure`, says without an accident what the stanzas on
their way will do.  `Ends(w, M, Q)` is the form of most of it: of the stanzas of w that belong to M, the last
one is in Q.  If there is none (`NoneOf`), the window decides.  `Tracked` has these parts:

* `Known`: the last of the user's own presences on the way says whether the user is in the room; if
  there is none, `connected` does, unless a request to leave is under way.
* `Same` or `Other`: the user has the name that the window has, nothing on the way gives it to anybody else or
  takes it away, and the requests are for that name, but for one change asked for; or the server has
  made that change, and what tells of it is on its way, after what was about the old name and
  before what will be about the new one (`Splits`).
* `Empty`: in a room that the user is not in, the last presence on the way is the end of the user's own, or
  nothing is listed.
* `Shown`: for each name, the last presence about it, or about the end of the user's own, gives what the
  room has for that name; if there is none, the contact is what the room has, provided that
  it has the one row that `OneRow` asks for.
* `Away`: with no connection nothing is on the way and nothing listed; a window that is closed lists nothing, and has
  asked to leave after it last asked to join.

`Neat` is what handlers need besides `Good`: a contact has a row *of its role* (`Filed`), so that removing
the first row of one who has a single row removes that one; and the window of one who is online says so
(`Opened`), so that `read_queue` does not take one who is online for gone.  A request appends to the sequence of
requests (`Requests`, `Reopens`, `Closes`, `Asks`), the server takes the first and appends stanzas (`Served`,
`Enters`, `Turns`, `Goes`, `Hears`), and Gajim takes the first of these (`AvailableTracked`,
`LeavesTracked`, `GoneTracked`, `TurnTracked`).  The
accidents were found by this proof: for each of them a step failed to keep `Sure`, and TLC had the
behaviour.

`ESession_proofs` proves, for any preferences, any counters that begin with zeros, chats at any address and any number of threads, sessions and acts,
`TypeOK`, `InStep`, `LoggingAgreed` and the action property `KeyAgreed`; connections may be lost, and
accidents (`rough`) happen.  The inductive invariant `IInv` is `One`, said of each
of the two parties, of its state, the other's, and what is under way both ways.  It rests
on the half Bob chose, `Base`, that a session counts from: it is used in one response, and marks all
that belongs to that negotiation.

* `Local`: for each status, which values of the session are those of one negotiation, and what they
  are (`Responded`, `Identified`, `Active`); no two sessions of a party have the same base
  (`Apart`); what leads to a session leads to one with a thread (`Linked`); a key that
  was taken by who began is taken by the other one (`Taken`).
* `Under` and `Once`: each stanza has a half of the party that could have sent it, a response and an
  identity are sent once, and Bob's identity only after he has taken the key.
* `Unanswered`: as long as a response is under way, or its dialog open, its half is not used by
  anybody but the session that waits for the answer.  It is why a dialog that is answered
  long after, in a session that has gone on, harms nobody.
* `Identity`: to who is active with a key, nothing but messages is under way with its counter, so that
  no key is taken twice.
* `Matched`: `InStep`, also for sessions that are not active yet.  A session whose counter has run
  on without its messages (`Unidentified`, `Excused`) will not be believed, will be told of the loss, or is one that was begun at
  the bare address and whose contact lost a connection (`Bared`).
* `Answers`: before the first identity has come, all that was sent since the response is under way
  behind it.
* `Noticed`: to whoever is encrypted with one who is offline, the news of that is the last that is under way.
* `Threaded`: a half is used on one thread.  As the table has one session for each thread, an answer
  finds the session it is for or none with its half; `Matched` needs that when the one in the
  table is another than the one the user sees.

There is a lemma for each method, which says that it is `Quiet` (it sends nothing that is counted, and
makes no half: most of the ways a session ends) or what it changes.  Handlers call several, so that
`Both` must hold between them, with what was collected so far as if it were under way: that is
`Now`, which `NowQuiet`, `NowResponds`, `NowAccepts`, `NowContinues` and `NowSendsMessage` carry
from one to the next.  The lemmas named `...Handled` do this for each kind of stanza, and those named `...Keeps`
for the actions.
`KeyAgreed` follows from the invariant before the step, and from what the step says about
sessions that become active.

The assumptions are those on the constants in the modules, which TLC evaluates in
every run, and the hypotheses named above: the two options of the second part of
`Connection_proofs`, those of `SocksReceiver_proofs`, and `~Reconnects`.
The `NamesAssumption` of `Client` says that `None` and the account's own requests are not mistaken for
something else, that of `Roster` that `None` is not an address, one of the two things a removal can
be of, or `Closed`, that of `GroupChat` that it is not a name, a window or an occupant, and that of `ESession`
that what stands for no value is not one of the values.

Only model-checked:

* liveness (`KeepsTrying`, `ClosingEnds`, `LoginEnds`, `JoinIsAnswered`), which is out of the
  prover's reach;
* `ShownAsTold` of `Roster`, which fails for some
  options (section 13), so that an invariant for it speaks of what is
  under way in every queue;
* `NotAlone` and `NobodyWaitsInVain` of `ESession`.  They speak of behaviours without accidents, and
  an invariant for them has to say, for each state of a negotiation, what is under way on
  its thread and what it will lead to.

## 13. What was met and has no run, and what is not modelled

Met while modelling, in the code but against no statement of a document or
comment, or not worth a run of its own:

* A stream that comes up after its account has gone offline (late lookup, or a client that `GoOffline` leaves
  open, then `on_connect` with nobody waiting) leaves a client open that is used for nothing
  (phase "orphan") until the next attempt closes it.  If that stream fails instead, the account is put in error
  and reconnects by itself, although the user has gone offline.
* `_reconnect` does "not try to reco while we are already trying", says its
  comment, but it tests `connected < 2`, which includes connecting: an old alarm
  can begin a second attempt.  The new one closes the client of the first, and
  `OneClient` holds.
* A passphrase that is given after the account went offline sets the show of an
  account without a session when the account is signed; `StatusIsTrue` is
  therefore not checked in `dialogs`.
* An error of the kernel other than a closed peer while the stream is negotiated loses
  the failure callback, and the account stays connecting: `ConnectingIsUnderWay` fails
  with `OddErrors`.  The end tag of a stream that is being negotiated has the same effect, since
  `ProcessNonBlocking` calls `disconnect` and not `pollend`: a server that refuses a
  stream with an error and its end tag leaves the account connecting.
* `SendAndCallForResponse` says it calls back "when recipient replies".  `WaitForData` looks at
  the last request only, so that of two that are under way the first is never called back:
  `LastAnswerDelivered` fails when stated for every request.
* A server that is silent is waited for without limit: the timeout of
  `SendAndWaitForResponse` finds no handler during a login, and that of the
  socket is set before there is a descriptor.
* A server that offers TLS in a stream that is encrypted from the start is rejected:
  `_on_receive_starttls` calls the connection "tls", which is not the type "ssl" that was tried.
* A server that accepts a binding it did not offer: `_on_bound` appends to the string
  "failure", raises, and the login does not go on.
* The identity of an unanswered ping outlives its connection, and its alarm may close the
  next one while it logs in; the run `keepalive` shows it bring back an account that is offline.
* The alarms of a time are removed after all of them have returned: if one raises,
  those that ran before it run again.  A timeout belongs to a descriptor, and
  the next object that gets the descriptor inherits it.
* `check_time_events` stops at the first alarm that is not due, in the order of a
  dictionary, and skips others that are (`skipped`).  They are made up for when those that are set for later have become due; but
  while callbacks set new alarms for ever (`wait_child` in `nslookup.py` every 100 ms, `_reconnect_alarm` after each attempt), each
  call may meet one of them first, and nothing bounds how often an alarm is skipped.  No liveness is
  claimed of alarms for that reason.
* A download whose streamhost does not resolve never fails; one whose request
  cannot be sent, or whose authentication is refused, just stops; one that is
  paused while it negotiates never continues; one that fails while the account is
  offline is not reported.  These are the paths `unnoticed` records.
* A download that stalls and then completes with the next read is not announced,
  because `stalled` is reset only by a read that does not complete it.
* Where `connect()` may succeed at once, the first streamhost connects before the
  others have an `idx`, and does not stop them: they go on after the transfer ended.
* The file of a download stays open after a cancel or a broken socket.  A transfer that
  is cancelled before its streamhosts are known connects to them all the same
  (`CancelEarly`).
* A request for encryption during a negotiation on the same thread overwrites the values of
  the other one: both ends may wait for ever.  So they may when a
  termination crosses the request, which is answered by a session the other end has deleted; after a message that cannot
  be decrypted, when the session it belongs to is deleted from the table first and
  then negotiated on, which is what happens to all messages of a direction whose counter begins with zeros; after a termination
  that is taken for the answer to a request; and after a session whose chat was closed is found again in
  the queue of events.  `rough` marks all of these.
* `handle_event_roster_info` draws the old groups of a contact only, so that its row does
  not move, although the comment before it says "remove and re-add"; and what finds rows by the groups
  of the contact does not find it.
* A chat that is started with a full address lists a second instance, which no presence
  removes: `ShownAsTold` fails with a resource in `Starts`.
* The session of a resource has one chat.  If that at the bare address takes it from the chat of the full
  one, and is closed, further messages wait at the full address while its chat is open;
  closing that one removes the events, and the messages stay unread without waiting
  anywhere, until the next connection.  `UnreadStaysQueued` leaves this out (`ClosedOver`).
* A message that is unread at a full address while the chat of the bare address is open is queued again, at the
  bare address, when the connection was lost and comes back: `fire_up_unread_messages_events` asks the log,
  not the windows.  Opening it from the tray makes a second chat, and the session of the
  first keeps a pointer to a window that nobody closes: `AttachedIsOpen` fails with `Reconnects`.
* "subscribed" takes the resource away from the first instance, also from one that is
  online and has unread messages.  `contact_has_pending_roster_events` does not count what waits at an address that no instance
  has, so that the row shows nothing of it, and only the tray does.  A removal that was put off for
  such a message is carried out when it is read (`RemovalIsFinished`).
* A session that was begun in a chat at the bare address stays encrypted when the contact loses its connection, and what was
  under way is lost to its counter.  `InStep` excepts it.
* `JoinRoom` with another name while the first answer is under way, as
  the comment at `groupchat_control.py:1721` allows ("it's harmless"), leaves the window with a
  name the user does not have.  A change of status during a change of the name asks for
  the old name back.  A dialog cancelled during a change forgets the change, and one that is answered
  after the window was closed joins a room without a window.  One that is under way when the window is
  closed renames the user in the room first, and who joins again has the old name.  A window that is
  there when the room is joined again under another name keeps the old one.  When another occupant takes the
  name meanwhile, its presence is taken for the user's.
  The name that was asked for outlives a kick as well: who joins again and is given the old name is
  taken to have the new one as soon as somebody else takes that.
* The end of the user's own presence raises in `chg_contact_status` when messages wait of one who had the name before
  and the row of the user is not there any more: `got_disconnected` is not called, and the window goes on as if the user were in the
  room.
* Two chats may be about one name, after one of them followed an occupant who changed the name.  The one that is not in the
  table says "offline" for ever, and `read_queue` in it removes the row of an occupant who is there.
* An occupant that takes the name of one that is gone and has unread messages gets a second row;
  removing one of the two leaves a row without a contact, and later presences raise.
* A chat that followed an occupant to the name of one who is gone and has unread messages drops these
  when it is closed, and the row of that one stays in the list, offline, with nothing to be read (`Dropped`).

Not modelled in the components above:

* The account: creation and removal, certificate dialogs, proxies, presence
  other than a show, the messages sent once logged in.
* The client: the send queue, HTTP and SOCKS5 proxies, the errors of TLS libraries, components.
* Transfers: uploads, resuming at an offset, several transfers at
  once (whose `on_success` is one slot for all).
* Encryption: the three-message form as Bob, public keys and retained secrets, rekeying,
  GPG, chat states, several resources.
* The roster: metacontacts, transports, drag and drop, blocked contacts, several accounts.
* Rooms: minimized ones, passwords, configuration, subjects, affiliations, the
  printing of messages; several sessions with one occupant, and messages
  that wait for a window after that of the room was closed.

Not modelled at all: the components the plan leaves (the send queue, the choice of a host, uploads and their proxies, capabilities, ad-hoc
commands); windows and dialogs, archive, options, translations, D-Bus, which are input
and output or a database's; and link-local accounts, a second implementation of the first row.
