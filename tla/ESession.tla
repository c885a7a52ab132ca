------------------------------- MODULE ESession -------------------------------
(***************************************************************************)
(* Sessions with a contact and their encryption (XEP-0116): the table of   *)
(* sessions of a connection (common/connection_handlers.py), negotiation   *)
(* and encryption of a session (common/stanza_session.py, session.py), the *)
(* chat that shows it (chat_control.py, message_control.py) and what       *)
(* gajim.py does when a message cannot be decrypted or a contact leaves.   *)
(* Two Gajims talk to each other.  The state of each is a record; methods  *)
(* are operators from such records to such records, that collect in `out'  *)
(* what the method sends, and an action is what the user or the event loop *)
(* has one of the two do.                                                  *)
(***************************************************************************)
EXTENDS Integers, SequencesExt, FiniteSets

CONSTANTS
    Party,         \* the two accounts
    None,          \* no value
    Empty,         \* the empty string, for a key
    Closed,        \* for a chat that has no control
    Prefers,       \* what each would have of logging: logging_preference()[0]
    Short,         \* counters, by their half and who decrypts with them, that
                   \* begin with a byte of zeros
    AtBare,        \* who may have a chat that has no resource
    MaxThreads,    \* threads each begins
    MaxActs,       \* what the users do, and connections that are lost
    MaxSessions    \* session objects of one party at one time

ASSUME ESessionAssumption ==
    /\ IsFiniteSet(Party) /\ Cardinality(Party) = 2
    /\ Prefers \in [Party -> {"may", "mustnot"}]
    \* the counters of the two directions differ in their first bit
    /\ Short \subseteq (Party \X Nat) \X Party
    /\ \A d, e \in Short : d[1] = e[1] => d = e
    /\ AtBare \subseteq Party
    /\ {MaxThreads, MaxActs, MaxSessions} \subseteq Nat \ {0}

VARIABLES
    at,        \* the state of each party, see PartyState
    net,       \* what is under way to each, in order
    acts,      \* how often the users did something, or a connection was lost
    lost       \* who lost or closed a connection; no code reads it

vars == <<at, net, acts, lost>>

Other(p) == CHOOSE q \in Party : q # p

Thread == Party \X (1 .. MaxThreads)
\* x, or y with the counter Bob chose: a new one for each request and response
Half == Party \X (Nat \ {0})
Key == Half \X Half                   \* what both make of x and y
Id == 1 .. MaxSessions

\* A counter of a cipher: whose random value it started from, and the number
\* of stanzas since.
Counter == (Half \cup {None}) \X Nat
NoCounter == <<None, 0>>

Waiting == {"requested-e2e", "responded-e2e", "identified-alice"}

\* EncryptedStanzaSession.  The keys of one direction are one value, kept
\* from the moment they are final; Empty is the km_o of a failure.
Session == [
    thread_id : Thread \cup {None},
    bare : BOOLEAN,                       \* whether jid has no resource
    received_thread_id : BOOLEAN,
    last_send : BOOLEAN, last_receive : BOOLEAN,     \* whether they are not 0
    status : Waiting \cup {None, "active"},
    enable_encryption : BOOLEAN, loggable : BOOLEAN,
    logging : {None, "may", "mustnot"},              \* negotiated['logging']
    x : Half \cup {None},                            \* of the last request
    he : Half \cup {None}, y : Half \cup {None},     \* of the last response
    km_s : Key \cup {None}, km_o : Key \cup {None, Empty},
    c_s : Counter, c_o : Counter]

\* The names are no values
ASSUME NamesAssumption ==
    /\ None \notin Id \cup Thread \cup Half \cup Key
    /\ None \notin Waiting \cup {"active", "may", "mustnot"}
    /\ Empty \notin Key \cup {None}
    /\ Closed \notin Id \cup {None}

Unused == [
    thread_id |-> None, bare |-> FALSE, received_thread_id |-> FALSE,
    last_send |-> FALSE, last_receive |-> FALSE, status |-> None,
    enable_encryption |-> FALSE, loggable |-> TRUE, logging |-> None,
    x |-> None, he |-> None, y |-> None,
    km_s |-> None, km_o |-> None, c_s |-> NoCounter, c_o |-> NoCounter]

Stanza == [
    kind : {"form", "submit", "result", "init", "cancel", "terminate", "error",
            "chat", "encrypted", "unavailable"},
    thread : Thread \cup {None}, half : Half \cup {None},
    logging : {None, "may", "mustnot"}, key : Key \cup {None}, counter : Counter]

Plain(kind, thread) ==
    [kind |-> kind, thread |-> thread, half |-> None, logging |-> None,
     key |-> None, counter |-> NoCounter]

\* An instance of Gajim with one contact.  A session object is kept as long
\* as something refers to it.  session.control and control.session are set
\* together, and one of the two is enough.
PartyState == [
    session : [Id -> Session],
    table : [Thread -> Id \cup {None}],          \* ConnectionHandlersBase.sessions
    chat : Id \cup {None, Closed},             \* the session of the control
    queue : Id \cup {None},                      \* of the last message not read
    dialogs : SUBSET [session : Id, form : Stanza],
    online : BOOLEAN,
    threads : 0 .. MaxThreads, halves : Nat,
    out : Seq(Stanza),
    \* no code reads these: the keys it went active with, and whether it did
    \* something the negotiation is not prepared for
    taken : SUBSET Key,
    rough : BOOLEAN]

Init ==
    /\ at \in [Party -> {[
           session |-> [i \in Id |-> Unused],
           table |-> [t \in Thread |-> None],
           chat |-> chat, queue |-> None, dialogs |-> {}, online |-> TRUE,
           threads |-> 0, halves |-> 0, out |-> <<>>,
           taken |-> {}, rough |-> FALSE] : chat \in {None, Closed}}]
    /\ net = [p \in Party |-> <<>>]
    /\ acts = 0 /\ lost = {}

-----------------------------------------------------------------------------
(* The table of sessions.                                                  *)

InTable(s, i) == s.session[i].thread_id # None
                 /\ s.table[s.session[i].thread_id] = i

Referred(s, i) == \/ InTable(s, i) \/ i \in {s.chat, s.queue}
                  \/ \E d \in s.dialogs : d.session = i

\* Python frees a session that nothing refers to
Collect(s) ==
    [s EXCEPT !.session = [i \in Id |-> IF Referred(s, i) THEN @[i] ELSE Unused]]

Free(s) == {i \in Id : s.session[i] = Unused}
NewId(s) == CHOOSE i \in Free(s) : \A j \in Free(s) : i <= j

\* make_new_session: for the full address and the thread of a message, or for
\* the address of a chat
NewSession(s, thread, named, bare) ==
    LET i == NewId(s)
    IN [s EXCEPT !.session[i] = [Unused EXCEPT !.thread_id = thread,
                                               !.bare = bare,
                                               !.received_thread_id = named],
                 !.table[thread] = i]

\* make_new_session without one: generate_thread_id
NextThread(p, s) == <<p, s.threads + 1>>
NewThread(p, s, bare) ==
    NewSession([s EXCEPT !.threads = @ + 1], NextThread(p, s), FALSE, bare)

\* find_controlless_session returns any of these
Controlless(s) == {i \in Id : InTable(s, i) /\ s.chat # i}

DeleteSession(s, i) == [s EXCEPT !.table[s.session[i].thread_id] = None]

\* control.set_session(None), if the session has a control
LoseControl(s, i) == [s EXCEPT !.chat = IF @ = i THEN None ELSE @]

-----------------------------------------------------------------------------
(* Negotiation.  Alice requests, Bob responds.                             *)

\* StanzaSession.send
Of(s, i, kind) == Plain(kind, s.session[i].thread_id)
Send(s, i, stanza) ==
    [s EXCEPT !.out = Append(@, stanza),
              !.session[i].last_send = @ \/ stanza.kind # "error"]

NewHalf(p, s) == <<p, s.halves + 1>>

NegotiateE2E(p, s, i) ==
    Send([s EXCEPT !.halves = @ + 1,
                   !.session[i] = [@ EXCEPT !.x = NewHalf(p, s), !.logging = None,
                                            !.status = "requested-e2e"]],
         i, [Of(s, i, "form") EXCEPT !.half = NewHalf(p, s)])

RespondE2EBob(p, s, i, form) ==
    LET y == NewHalf(p, s)
    IN Send([s EXCEPT !.halves = @ + 1,
                      !.session[i] = [@ EXCEPT
                          !.he = form.half, !.y = y, !.logging = Prefers[p],
                          !.c_s = <<y, 0>>, !.c_o = <<y, 0>>,
                          !.status = "responded-e2e"]],
            i, [Of(s, i, "submit") EXCEPT !.half = y, !.logging = Prefers[p]])

Next1(counter) == [counter EXCEPT ![2] = @ + 1]

\* encrypt_stanza, or make_identity: what is sent with the key and the counter
SendEncrypted(s, i, kind, key) ==
    Send([s EXCEPT !.session[i].c_s = Next1(@)], i,
         [Of(s, i, kind) EXCEPT !.key = key, !.counter = s.session[i].c_s])

\* verify_identity: the MAC of the identity
Verified(s, i, form, key) == form.key = key /\ form.counter = s.session[i].c_o

\* Mutant: Alice does not wait for Bob to identify himself
AcceptE2EAliceAtOnce(s, i, form) ==
    LET key == <<s.session[i].x, form.half>>
    IN SendEncrypted(
        [s EXCEPT !.taken = @ \cup {key}, !.session[i] = [@ EXCEPT
            !.c_s = <<form.half, 0>>, !.c_o = <<form.half, 0>>,
            !.km_s = key, !.km_o = key, !.logging = form.logging,
            !.status = "active", !.enable_encryption = TRUE]],
        i, "result", key)

AcceptE2EAlice(s, i, form) ==
    SendEncrypted(
        [s EXCEPT !.session[i] = [@ EXCEPT
            !.c_s = <<form.half, 0>>, !.c_o = <<form.half, 0>>,
            !.km_s = <<s.session[i].x, form.half>>, !.logging = form.logging,
            !.status = "identified-alice"]],
        i, "result", <<s.session[i].x, form.half>>)

\* Mutant: a status of its own
FailBadNegotiationError(s, i) ==
    Send([s EXCEPT !.session[i] = [@ EXCEPT !.status = "error", !.km_o = Empty,
                                            !.enable_encryption = FALSE]],
         i, Of(s, i, "error"))

FailBadNegotiation(s, i) ==
    Send([s EXCEPT !.session[i] = [@ EXCEPT !.status = None, !.km_o = Empty,
                                            !.enable_encryption = FALSE]],
         i, Of(s, i, "error"))

CancelledNegotiation(s, i) ==
    [s EXCEPT !.session[i] = [@ EXCEPT !.status = None, !.logging = None,
                                       !.enable_encryption = FALSE, !.km_o = Empty]]

\* Mutant: the other end is not told
RejectSilently(s, i) == CancelledNegotiation(s, i)

RejectNegotiation(s, i) == CancelledNegotiation(Send(s, i, Of(s, i, "cancel")), i)

\* Mutant: what was agreed of logging is forgotten
ActivateOnly(s, i, key) ==
    [s EXCEPT !.taken = @ \cup {key},
              !.session[i] = [@ EXCEPT
                  !.km_s = key, !.km_o = key, !.c_o = Next1(s.session[i].c_o),
                  !.status = "active", !.enable_encryption = TRUE]]

\* What accept_e2e_bob and final_steps_alice have in common at their end
Activate(s, i, key) ==
    LET self == s.session[i]
    IN [s EXCEPT !.taken = @ \cup {key},
                 !.session[i] = [self EXCEPT
                     !.km_s = key, !.km_o = key, !.c_o = Next1(self.c_o),
                     !.loggable = self.loggable /\ self.logging # "mustnot",
                     !.status = "active", !.enable_encryption = TRUE]]

AcceptE2EBob(s, i, form) ==
    LET key == <<form.key[1], s.session[i].y>>
    IN IF form.key[1] = s.session[i].he /\ Verified(s, i, form, key)
       THEN SendEncrypted(Activate(s, i, key), i, "init", key)
       ELSE FailBadNegotiation(s, i)

FinalStepsAlice(s, i, form) ==
    LET key == s.session[i].km_s
    IN IF Verified(s, i, form, key) THEN Activate(s, i, key)
       ELSE FailBadNegotiation(s, i)

-----------------------------------------------------------------------------
(* The end of a session.                                                   *)

\* Mutant: only told who has not answered yet
TerminateSilently(s, i) ==
    LET self == s.session[i]
        told == IF self.last_send /\ ~self.last_receive
                THEN Send(s, i, Of(s, i, "terminate")) ELSE s
    IN LoseControl([told EXCEPT !.session[i].status = None], i)

Terminate(s, i) ==
    LET self == s.session[i]
        told == IF self.last_send /\ (self.received_thread_id \/ ~self.last_receive)
                THEN Send(s, i, Of(s, i, "terminate")) ELSE s
    IN LoseControl([told EXCEPT !.session[i].status = None], i)

TerminateE2E(s, i) ==
    [Terminate(s, i) EXCEPT !.session[i].enable_encryption = FALSE]

AcknowledgeTermination(s, i) ==
    [LoseControl(s, i) EXCEPT !.session[i].status = None,
                              !.session[i].enable_encryption = FALSE]

\* handle_event_failed_decrypt: the session is deleted, and starts again
FailedDecrypt(p, s, i) ==
    NegotiateE2E(p, DeleteSession(TerminateE2E([s EXCEPT !.rough = TRUE], i), i), i)

\* Loops over the table end sessions the contact never answered, those that
\* are encrypted and have its full address, or all
Concerns(self, which) ==
    CASE which = "unanswered" -> ~self.received_thread_id
      [] which = "encrypted" -> self.enable_encryption /\ ~self.bare
      [] which = "all" -> TRUE

End(s, i, which) ==
    IF InTable(s, i) /\ Concerns(s.session[i], which)
    THEN DeleteSession(IF which = "encrypted" THEN TerminateE2E(s, i)
                       ELSE Terminate(s, i), i)
    ELSE s

EndEach(s, which) ==
    LET after[n \in 0 .. MaxSessions] ==
            IF n = 0 THEN s ELSE End(after[n - 1], n, which)
    IN after[MaxSessions]

\* Mutant: encryption goes on
UnavailableKept(s) == EndEach(s, "unanswered")

\* _presenceCB, then handle_event_notify: the contact is unavailable
Unavailable(s) == EndEach(EndEach(s, "unanswered"), "encrypted")

-----------------------------------------------------------------------------
(* Messages.                                                               *)

\* ChatControlSession.received: the session finds the control, or waits in
\* the queue of events, or pops up a control
Received(s, i, popup) ==
    IF s.chat # Closed THEN [s EXCEPT !.chat = i]
    ELSE IF popup THEN [s EXCEPT !.chat = i, !.queue = None]
    ELSE [s EXCEPT !.queue = i]

\* decrypt_stanza: the MAC of what was sent with this key and counter.  It is
\* made of the counter without leading zeros (encode_mpi), and compared with
\* one that is made of the counter with them (encode_mpi_with_padding).
Decrypts(p, s, i, stanza) ==
    /\ stanza.key = s.session[i].km_o /\ stanza.counter = s.session[i].c_o
    /\ <<stanza.counter[1], p>> \notin Short

\* handle_negotiation.  A termination is taken for the answer by who has
\* requested: verify_options_alice raises an exception at its first line.
HandleNegotiation(p, s, i, form) ==
    LET status == s.session[i].status
    IN CASE form.kind = "cancel" -> CancelledNegotiation(s, i)
         [] form.kind = "form" ->
              RespondE2EBob(p, [s EXCEPT !.rough = @ \/ status # None], i, form)
         [] form.kind = "terminate" /\ status = "requested-e2e" ->
              [s EXCEPT !.rough = TRUE]
         [] form.kind = "submit" /\ status = "requested-e2e" ->
              IF form.logging = Prefers[p] THEN AcceptE2EAlice(s, i, form)
              ELSE [s EXCEPT !.dialogs = @ \cup {[session |-> i, form |-> form]}]
         [] form.kind = "result" /\ status = "responded-e2e" -> AcceptE2EBob(s, i, form)
         [] form.kind = "init" /\ status = "identified-alice" -> FinalStepsAlice(s, i, form)
         [] form.kind = "terminate" /\ status # "requested-e2e" ->
              DeleteSession(AcknowledgeTermination(
                  [s EXCEPT !.rough = @ \/ status \in Waiting], i), i)
         [] OTHER -> s

\* _messageCB.  Of what cannot be decrypted no body is left, and
\* ChatControlSession.received returns at once.
Message(p, s, stanza, popup) ==
    LET known == IF s.table[stanza.thread] # None THEN s
                 ELSE NewSession(s, stanza.thread, TRUE, FALSE)
        i == known.table[stanza.thread]
        heard == [known EXCEPT !.session[i].received_thread_id = TRUE,
                               !.session[i].last_receive = TRUE]
    IN CASE stanza.kind = "chat" -> Received(heard, i, popup)
         [] stanza.kind = "error" ->
              IF s.chat = Closed THEN Received(heard, i, popup) ELSE heard
         [] stanza.kind = "encrypted" /\ Decrypts(p, heard, i, stanza) ->
              Received([heard EXCEPT !.session[i].c_o = Next1(@)], i, popup)
         [] stanza.kind = "encrypted" /\ ~Decrypts(p, heard, i, stanza) ->
              FailedDecrypt(p, heard, i)
         [] OTHER -> HandleNegotiation(p, heard, i, stanza)

\* Connection.send_message, of a control that has a session
SendMessage(s, i) ==
    LET self == s.session[i]
    IN IF self.enable_encryption
       THEN SendEncrypted(s, i, "encrypted", self.km_s)
       ELSE Send(s, i, Of(s, i, "chat"))

-----------------------------------------------------------------------------
(* Steps of a party.                                                       *)

AtEnd(s) == [Collect(s) EXCEPT !.out = <<>>]

\* Connection.send_stanza: who is not connected sends nothing
Transmitted(s) == IF s.online THEN s.out ELSE <<>>

Becomes(p, s) ==
    /\ at' = [at EXCEPT ![p] = AtEnd(s)]
    /\ net' = [net EXCEPT ![Other(p)] = @ \o Transmitted(s)]

\* Bound: how often the users and the network act
Act == acts < MaxActs /\ acts' = acts + 1

\* Bound: a session can be made, or need not be
MayMake(p) == Free(at[p]) # {}
MayBegin(p) == at[p].chat # None \/ (at[p].threads < MaxThreads /\ MayMake(p))

\* The next stanza is handled
Receive(p, popup) ==
    /\ at[p].online /\ net[p] # <<>>
    /\ popup => at[p].chat = Closed
    /\ Head(net[p]).kind # "unavailable" /\ at[p].table[Head(net[p]).thread] = None
       => MayMake(p)
    /\ LET stanza == Head(net[p])
           s == IF stanza.kind = "unavailable" THEN Unavailable(at[p])
                ELSE Message(p, at[p], stanza, popup)
       IN /\ at' = [at EXCEPT ![p] = AtEnd(s)]
          /\ net' = [net EXCEPT ![p] = Tail(@), ![Other(p)] = @ \o Transmitted(s)]
    /\ UNCHANGED <<acts, lost>>

\* The user answers the dialog of an Alice: are these options acceptable?
Accept(p, d) ==
    /\ Becomes(p, AcceptE2EAlice([at[p] EXCEPT !.dialogs = @ \ {d}], d.session, d.form))
    /\ UNCHANGED <<acts, lost>>

Reject(p, d) ==
    /\ Becomes(p, RejectNegotiation([at[p] EXCEPT !.dialogs = @ \ {d}], d.session))
    /\ UNCHANGED <<acts, lost>>

\* The session of the control; MessageControl.send_message takes one that has
\* no control, and makes one if there is none, for the address of the chat,
\* which has a resource or none
WithSession(p, s) ==
    IF s.chat # None THEN {s}
    ELSE IF Controlless(s) # {} THEN {[s EXCEPT !.chat = i] : i \in Controlless(s)}
    ELSE LET made(bare) == NewThread(p, s, bare)
         IN {[made(bare) EXCEPT !.chat = made(bare).table[NextThread(p, s)]] :
                bare \in IF p \in AtBare THEN BOOLEAN ELSE {FALSE}}

\* The user types a message
Type(p) ==
    /\ at[p].online /\ at[p].chat # Closed
    /\ MayBegin(p) \/ Controlless(at[p]) # {}
    /\ \E s \in WithSession(p, at[p]) :
          Becomes(p, SendMessage(s, s.chat))
    /\ Act /\ UNCHANGED lost

Encrypts(p) == at[p].chat \in Id /\ at[p].session[at[p].chat].enable_encryption

\* _on_toggle_e2e_menuitem_activate, of a session that is encrypted
StopEncryption(p) ==
    /\ at[p].online /\ Encrypts(p)
    /\ Becomes(p, DeleteSession(TerminateE2E(at[p], at[p].chat), at[p].chat))
    /\ Act /\ UNCHANGED lost

\* and of one that is not: begin_e2e_negotiation, with the full address
BeginE2ENegotiation(p) ==
    /\ at[p].online /\ at[p].chat # Closed /\ ~Encrypts(p)
    /\ MayBegin(p)
    /\ LET made == NewThread(p, at[p], FALSE)
           s == IF at[p].chat # None THEN at[p]
                ELSE [made EXCEPT !.chat = made.table[NextThread(p, at[p])]]
           impatient == s.session[s.chat].status # None
       IN Becomes(p, NegotiateE2E(p, [s EXCEPT !.rough = @ \/ impatient], s.chat))
    /\ Act /\ UNCHANGED lost

\* new_chat: the control takes a session that has none, then the one of the
\* last message it reads from the queue
OpenChat(p) ==
    /\ at[p].chat = Closed
    /\ \E i \in IF at[p].queue # None THEN {at[p].queue}
                ELSE IF Controlless(at[p]) # {} THEN Controlless(at[p]) ELSE {None} :
          Becomes(p, [at[p] EXCEPT !.chat = i, !.queue = None,
                                   !.rough = @ \/ (i # None /\ ~InTable(at[p], i))])
    /\ Act /\ UNCHANGED lost

\* ChatControl.shutdown
CloseChat(p) ==
    /\ at[p].chat # Closed
    /\ Becomes(p, [at[p] EXCEPT !.chat = Closed, !.queue = None])
    /\ Act /\ UNCHANGED lost

Leave(p, s) ==
    /\ at' = [at EXCEPT ![p] = [AtEnd(s) EXCEPT !.online = FALSE, !.rough = TRUE]]
    /\ net' = [net EXCEPT
          ![p] = <<>>,
          ![Other(p)] = Append(@ \o Transmitted(s), Plain("unavailable", None))]
    /\ Act /\ lost' = lost \cup {p}

\* The connection is lost, with what was under way to this party
LoseConnection(p) == at[p].online /\ Leave(p, at[p])

\* change_status('offline'): terminate_sessions
GoOffline(p) ==
    /\ at[p].online
    /\ Leave(p, EndEach(at[p], "all"))

\* What was sent meanwhile is delivered, or the server has not kept it
Reconnect(p, kept) ==
    /\ ~at[p].online
    /\ at' = [at EXCEPT ![p].online = TRUE]
    /\ net' = [net EXCEPT ![p] = IF kept THEN @ ELSE <<>>]
    /\ UNCHANGED <<acts, lost>>

-----------------------------------------------------------------------------
Next ==
    \E p \in Party :
        \/ \E popup \in BOOLEAN : Receive(p, popup)
        \/ \E d \in at[p].dialogs : Accept(p, d) \/ Reject(p, d)
        \/ Type(p) \/ StopEncryption(p) \/ BeginE2ENegotiation(p)
        \/ OpenChat(p) \/ CloseChat(p)
        \/ LoseConnection(p) \/ GoOffline(p)
        \/ \E kept \in BOOLEAN : Reconnect(p, kept)

Spec == Init /\ [][Next]_vars

-----------------------------------------------------------------------------
(* Properties.                                                             *)

TypeOK == at \in [Party -> PartyState] /\ acts \in 0 .. MaxActs /\ lost \subseteq Party

Sessions(p) == {at[p].session[i] : i \in {j \in Id : InTable(at[p], j)}}

UnderWay(p, thread) == \E n \in DOMAIN net[p] : net[p][n].thread = thread

Smooth == \A p \in Party : ~at[p].rough

\* Of the stanzas under way to q that were sent with the counter of h, those
\* from first on and before next are there, each once and in order.
Flow(q, h) == {n \in DOMAIN net[q] : net[q][n].counter[1] = h}

InOrder(q, h, first, next) ==
    /\ {net[q][n].counter[2] : n \in Flow(q, h)} = first .. next - 1
    /\ first <= next
    /\ \A m, n \in Flow(q, h) : m < n => net[q][m].counter[2] < net[q][n].counter[2]

\* Stanzas were lost, of which the sender is going to be told.
ToldOfLoss(p) ==
    \/ \E n \in DOMAIN net[p] : net[p][n].kind = "unavailable"
    \/ lost = Party

\* stanza_session.py, encryptcounter and decryptcounter: when both ends of a
\* session are active with the same key, what is under way with their counter
\* is what the one will decrypt next, and so on until what the other will
\* encrypt next.  Unless some of it was lost: then the sender is going to be
\* told, or has been and keeps a session that was begun in a bare chat, which
\* handle_event_notify takes for one with another resource.
InStep ==
    \A p \in Party : \A s \in Sessions(p), r \in Sessions(Other(p)) :
        s.status = "active" /\ r.status = "active" /\ s.km_s = r.km_o
        => /\ s.c_s[1] = r.c_o[1]
           /\ \/ InOrder(Other(p), s.c_s[1], r.c_o[2], s.c_s[2])
              \/ ToldOfLoss(p)
              \/ s.bare /\ Other(p) \in lost

\* The order of the negotiation: who begins takes a key after the other has
\* taken the same one, and nobody takes a key twice.
KeyAgreed ==
    [][\A p \in Party : \A i \in Id :
          /\ at'[p].session[i].status = "active"
          /\ at[p].session[i].status # "active"
          => LET key == at'[p].session[i].km_s
             IN /\ key \notin at[p].taken
                /\ key[1][1] = p => key \in at[Other(p)].taken]_vars

\* logging_preference: what both agreed not to log is not logged by either.
LoggingAgreed ==
    \A p \in Party : \A s \in Sessions(p), r \in Sessions(Other(p)) :
        s.status = "active" /\ r.status = "active" /\ s.km_s = r.km_s =>
            /\ s.logging = r.logging
            /\ s.logging = "mustnot" => ~s.loggable /\ ~r.loggable

\* Encryption that one end has stopped is stopped at the other: an end is
\* encrypted alone only while it is about to hear of it.
NotAlone ==
    Smooth =>
        \A p \in Party : \A s \in Sessions(p) :
            s.enable_encryption =>
                \/ UnderWay(p, s.thread_id) \/ UnderWay(Other(p), s.thread_id)
                \/ \E r \in Sessions(Other(p)) :
                      r.enable_encryption /\ r.km_o = s.km_s /\ r.km_s = s.km_o

\* stanza_session.py, the states of a negotiation: each waits for something
\* that the other end is going to send, or for its user.
NobodyWaitsInVain ==
    Smooth =>
        \A p \in Party : \A s \in Sessions(p) :
            s.status \in Waiting =>
                \/ UnderWay(p, s.thread_id) \/ UnderWay(Other(p), s.thread_id)
                \/ \E q \in Party : \E d \in at[q].dialogs : d.form.thread = s.thread_id

=============================================================================
