------------------------------- MODULE GroupChat -------------------------------
(***************************************************************************)
(* One room: the server that keeps its occupants, and what Gajim keeps of  *)
(* them in the window of the room (groupchat_control.py), in the table of  *)
(* occupants (common/contacts.py) and in the windows of private chats      *)
(* (message_window.py).  Both send each other stanzas, which arrive in     *)
(* order, and go on meanwhile: Gajim knows neither its own name nor who is *)
(* there but from what it is told.                                         *)
(***************************************************************************)
EXTENDS Integers, SequencesExt, FiniteSets

CONSTANTS
    Nick,
    Role,          \* in the order of their rows
    None,          \* no value
    Mine,          \* the names the user takes
    Chats,         \* windows of private chats
    Changes,       \* whether the user changes the name
    Renames,       \* whether the other occupants do
    Leaves,        \* whether the user closes the window of the room
    Loses,         \* whether the connection is lost
    MaxActs,       \* what the user and the other occupants do
    MaxStanzas     \* on the way to Gajim, for those who act

ASSUME GroupChatAssumption ==
    /\ IsFiniteSet(Nick) /\ IsFiniteSet(Chats) /\ Mine \subseteq Nick
    /\ Role \in Seq(STRING) /\ Role # <<>>
    /\ {Changes, Renames, Leaves, Loses} \subseteq BOOLEAN
    /\ {MaxActs, MaxStanzas} \subseteq Nat

VARIABLES
    room,      \* who has a name: "me", "other" occupants, or "ghost", the user
               \* on a connection that the server has not given up yet
    toRoom,    \* the presences that Gajim has sent
    toGajim,   \* the stanzas that the room has sent
    online,    \* whether the account is connected
    gc,        \* what Gajim keeps, see Gc
    acts       \* how much the user and the other occupants have done

vars == <<room, toRoom, toGajim, online, gc, acts>>

Roles == {Role[i] : i \in DOMAIN Role}
Occupant == [who : {"me", "other", "ghost"}, role : Roles]

\* A presence in the room, or one that joins it; the last one leaves it
Request == [nick : Nick, join : BOOLEAN] \cup {[nick |-> None, join |-> FALSE]}

\* "unavailable" with a new name is one that changes it
Stanza == [kind : {"available", "unavailable", "message", "conflict"},
           nick : Nick, role : Roles, new : Nick \cup {None}]

Contact == [show : {"online", "offline"}, role : Roles]
Chat == [nick : Nick, session : Nick, show : {"online", "offline"}]

\* All messages of one address belong to one session
Gc == [
    open : BOOLEAN,                            \* the window of the room
    nick : Nick,
    new_nick : Nick \cup {None},
    connected : BOOLEAN,                       \* gc_connected
    dialog : BOOLEAN,                          \* change_nick_dialog
    astray : BOOLEAN,                          \* auxiliary, see RoomIsShown
    rows : [Nick -> [Roles -> Nat]],           \* the tree
    contact : [Nick -> Contact \cup {None}],
    events : [Nick -> Nat],                    \* messages to be read
    chat : [Chats -> Chat \cup {None}],
    table : [Nick -> Chats \cup {None}],       \* the controls of the window
    control : [Nick -> Chats \cup {None}],     \* the control of a session
    active : Chats \cup {None}]                \* the tab in front

ASSUME NamesAssumption ==
    /\ None \notin Nick /\ None \notin Chats
    /\ None \notin Occupant /\ None \notin Contact /\ None \notin Chat

TypeOK ==
    /\ room \in [Nick -> Occupant \cup {None}]
    /\ toRoom \in Seq(Request) /\ toGajim \in Seq(Stanza)
    /\ online \in BOOLEAN /\ gc \in Gc /\ acts \in 0 .. MaxActs

-----------------------------------------------------------------------------
(* The tree and the contacts: groupchat_control.py, common/contacts.py.    *)

HasRow(g, n) == \E r \in Roles : g.rows[n][r] > 0

\* get_contact_iter finds the first
FirstRole(g, n) ==
    Role[CHOOSE i \in DOMAIN Role :
            /\ g.rows[n][Role[i]] > 0
            /\ \A j \in 1 .. i - 1 : g.rows[n][Role[j]] = 0]

\* Mutant: who became online is not looked at.
AddContactUnnoticed(g, n, show, role) ==
    [g EXCEPT !.rows[n][role] = @ + 1,
              !.contact[n] = IF @ = None THEN [show |-> show, role |-> role] ELSE @]

\* add_contact_to_roster, and got_connected
AddContact(g, n, show, role) ==
    [g EXCEPT !.rows[n][role] = @ + 1,
              !.contact[n] = IF @ = None THEN [show |-> show, role |-> role] ELSE @,
              !.connected = @ \/ n = g.nick]

RemoveContact(g, n) ==
    IF HasRow(g, n)
    THEN [g EXCEPT !.rows[n][FirstRole(g, n)] = @ - 1, !.contact[n] = None]
    ELSE g

NoRow == [n \in Nick |-> [r \in Roles |-> 0]]
GotDisconnected(g) ==
    [g EXCEPT !.rows = NoRow, !.contact = [n \in Nick |-> None],
              !.connected = FALSE]

(* The windows of private chats.                                           *)

SetSession(g, c, n) ==
    LET lost == g.chat[c].session
        kept == IF lost = n THEN g.control[lost] ELSE None
    IN [g EXCEPT !.chat[c].session = n,
                 !.control = [g.control EXCEPT ![lost] = kept, ![n] = c]]

\* change_key, after the occupant of the chat has changed its name
ChangeKey(g, old, new) ==
    LET c == g.table[old]
    IN [g EXCEPT !.chat[c].nick = new, !.chat[c].show = g.contact[new].show,
                 !.table = [@ EXCEPT ![new] = c, ![old] = None]]

\* Mutant: the row of an occupant that is gone stays.
ReadQueueOnly(g, c) ==
    LET n == g.chat[c].nick
    IN IF g.events[n] = 0 THEN g ELSE [SetSession(g, c, n) EXCEPT !.events[n] = 0]

\* read_queue; it fails for a row without a contact
ReadQueue(g, c) ==
    LET n == g.chat[c].nick
        gone == g.chat[c].show = "offline" /\ g.contact[n] # None
        s == [SetSession(g, c, n) EXCEPT
                 !.events[n] = 0, !.astray = @ \/ (gone /\ g.table[n] # c)]
    IN IF g.events[n] = 0 THEN g ELSE IF gone THEN RemoveContact(s, n) ELSE s

\* new_private_chat
NewPrivateChat(g, n, show) ==
    IF g.control[n] # None THEN {ReadQueue(g, g.control[n])}
    ELSE {ReadQueue([g EXCEPT
              !.chat[c] = [nick |-> n, session |-> n, show |-> show],
              !.table[n] = c, !.control[n] = c], c) :
          c \in {d \in Chats : g.chat[d] = None}}

\* Mutant: one message is taken off the queue, rather than all.
CloseChatCounting(g, c) ==
    LET n == g.chat[c].nick
    IN [g EXCEPT !.control[g.chat[c].session] = None, !.events[n] = @ - 1,
                 !.table[n] = None, !.chat[c] = None,
                 !.active = IF @ = c THEN None ELSE @]

\* shutdown and remove_tab
CloseChat(g, c) ==
    LET n == g.chat[c].nick
    IN [g EXCEPT !.control[g.chat[c].session] = None, !.events[n] = 0,
                 !.table[n] = None, !.chat[c] = None,
                 !.active = IF @ = c THEN None ELSE @]

-----------------------------------------------------------------------------
(* The stanzas of the room: chg_contact_status, handle_event_gc_notify.    *)
(* Where the code fails, what it has changed until then remains.           *)

\* Mutant: the old name is kept.
TakeNickLate(g, st) ==
    IF st.new # g.new_nick THEN g ELSE [g EXCEPT !.new_nick = None]

\* "We changed our nick"
TakeNick(g, st) ==
    IF st.new # g.new_nick THEN g
    ELSE [g EXCEPT !.nick = st.new, !.new_nick = None]

Unavailable(g, st) ==
    LET n == st.nick
        g2 == IF st.new = None THEN g
              ELSE AddContact(TakeNick(g, st), st.new, "offline", st.role)
        g3 == IF g2.events[n] = 0 THEN RemoveContact(g2, n)
              ELSE [g2 EXCEPT !.contact[n].show = "offline"]
        g4 == IF st.new = None /\ n = g3.nick THEN GotDisconnected(g3) ELSE g3
        c == g4.table[n]
    IN IF g2.events[n] # 0 /\ g2.contact[n] = None
       THEN [g2 EXCEPT !.astray = @ \/ n = g2.nick]
       ELSE IF c = None THEN g4
       ELSE IF st.new # None THEN ChangeKey(g4, n, st.new)
       ELSE [g4 EXCEPT !.chat[c].show = "offline"]

\* Mutant: the role of an occupant who has a row is not looked at.
AvailableSameRole(g, st) ==
    LET n == st.nick
        g1 == IF ~HasRow(g, n) THEN AddContact(g, n, "online", st.role)
              ELSE [g EXCEPT !.contact[n].show = "online"]
        c == g.table[n]
    IN IF HasRow(g, n) /\ g.contact[n] = None THEN g
       ELSE IF c = None THEN g1 ELSE [g1 EXCEPT !.chat[c].show = "online"]

Available(g, st) ==
    LET n == st.nick
        g1 == IF ~HasRow(g, n) THEN AddContact(g, n, "online", st.role)
              ELSE IF g.contact[n].role # st.role
              THEN AddContact(RemoveContact(g, n), n, "online", st.role)
              ELSE [g EXCEPT !.contact[n].show = "online"]
        c == g.table[n]
    IN IF HasRow(g, n) /\ g.contact[n] = None THEN g
       ELSE IF c = None THEN g1 ELSE [g1 EXCEPT !.chat[c].show = "online"]

\* A private message: ChatControlSession.received, on_private_message
Message(g, st) ==
    LET n == st.nick
    IN IF g.control[n] # None THEN g
       ELSE IF g.table[n] # None THEN SetSession(g, g.table[n], n)
       ELSE [g EXCEPT !.events[n] = @ + 1]

Handle(g, st) ==
    IF ~g.open THEN g ELSE
    CASE st.kind = "available" -> Available(g, st)
      [] st.kind = "unavailable" -> Unavailable(g, st)
      [] st.kind = "message" -> Message(g, st)
      [] st.kind = "conflict" -> [g EXCEPT !.dialog = TRUE]

-----------------------------------------------------------------------------
(* The server.                                                             *)

\* The name the user has in the room, if any
InRoom == {n \in Nick : room[n] # None /\ room[n].who = "me"}

Presence(n, o) == [kind |-> "available", nick |-> n, role |-> o.role, new |-> None]
Left(n, o, new) == [kind |-> "unavailable", nick |-> n, role |-> o.role, new |-> new]

\* The room tells the user, who is in it
Tell(sts) == toGajim' = IF InRoom = {} THEN toGajim ELSE toGajim \o sts

Serve ==
    /\ toRoom # <<>>
    /\ toRoom' = Tail(toRoom)
    /\ LET q == Head(toRoom)
           n == q.nick
           o == [who |-> "me", role |-> Role[Len(Role)]]
           others == SetToSeq({Presence(m, room[m]) : m \in {m \in Nick : room[m] # None}})
       IN \/ /\ InRoom = {} /\ ~q.join
             /\ UNCHANGED <<room, toGajim>>
          \/ /\ InRoom = {} /\ q.join /\ room[n] = None
             /\ room' = [room EXCEPT ![n] = o]
             /\ toGajim' = (toGajim \o others) \o <<Presence(n, o)>>
          \/ /\ n # None /\ room[n] # None /\ room[n].who # "me"
             /\ q.join \/ InRoom # {}
             /\ toGajim' = Append(toGajim, [Presence(n, room[n]) EXCEPT !.kind = "conflict"])
             /\ UNCHANGED room
          \/ \E m \in InRoom :
                \/ /\ n = None
                   /\ Tell(<<Left(m, room[m], None)>>)
                   /\ room' = [room EXCEPT ![m] = None]
                \/ /\ n = m
                   /\ Tell(<<Presence(m, room[m])>>)
                   /\ UNCHANGED room
                \/ /\ n # None /\ room[n] = None
                   /\ Tell(<<Left(m, room[m], n), Presence(n, room[m])>>)
                   /\ room' = [room EXCEPT ![m] = None, ![n] = room[m]]
    /\ UNCHANGED <<online, gc, acts>>

Act == acts < MaxActs /\ acts' = acts + 1 /\ Len(toGajim) < MaxStanzas

\* What the other occupants do
Enter ==
    /\ Act
    /\ \E n \in {n \in Nick : room[n] = None}, r \in Roles :
           LET o == [who |-> "other", role |-> r]
           IN room' = [room EXCEPT ![n] = o] /\ Tell(<<Presence(n, o)>>)
    /\ UNCHANGED <<toRoom, online, gc>>

Others == {n \in Nick : room[n] # None /\ room[n].who # "me"}

Exit ==
    /\ Act
    /\ \E n \in Others :
           room' = [room EXCEPT ![n] = None] /\ Tell(<<Left(n, room[n], None)>>)
    /\ UNCHANGED <<toRoom, online, gc>>

Rename ==
    /\ Act /\ Renames
    /\ \E n \in Others, m \in {m \in Nick : room[m] = None} :
           /\ room[n].who = "other"
           /\ room' = [room EXCEPT ![n] = None, ![m] = room[n]]
           /\ Tell(<<Left(n, room[n], m), Presence(m, room[n])>>)
           /\ gc' = [gc EXCEPT !.astray = @ \/ m = gc.new_nick]
    /\ UNCHANGED <<toRoom, online>>

\* A moderator gives one of the occupants another role, or removes the user
SetRole ==
    /\ Act
    /\ \E n \in Nick, r \in Roles :
           /\ room[n] # None /\ room[n].role # r
           /\ room' = [room EXCEPT ![n].role = r]
           /\ Tell(<<Presence(n, room'[n])>>)
    /\ UNCHANGED <<toRoom, online, gc>>

Kick ==
    /\ Act
    /\ \E n \in InRoom :
           room' = [room EXCEPT ![n] = None] /\ Tell(<<Left(n, room[n], None)>>)
    /\ gc' = [gc EXCEPT !.astray = @ \/ gc.new_nick # None]
    /\ UNCHANGED <<toRoom, online>>

Say ==
    /\ Act /\ InRoom # {}
    /\ \E n \in Others :
           room[n].who = "other" /\ Tell(<<[Presence(n, room[n]) EXCEPT !.kind = "message"]>>)
    /\ UNCHANGED <<room, toRoom, online, gc>>

-----------------------------------------------------------------------------
(* Gajim.                                                                  *)

Arrive ==
    /\ toGajim # <<>>
    /\ gc' = Handle(gc, Head(toGajim)) /\ toGajim' = Tail(toGajim)
    /\ UNCHANGED <<room, toRoom, online, acts>>

\* join_gc and send_gc_status
Send(q) == toRoom' = IF online THEN Append(toRoom, q) ELSE toRoom
Join(n) == Send([nick |-> n, join |-> TRUE])

\* Auxiliary: another name is asked for in the middle of something.  Several
\* things go wrong then, see the properties.
Quiet == toRoom = <<>> /\ toGajim = <<>>
Astray(n) == ~Quiet /\ (n # gc.nick \/ gc.new_nick # None)

\* join_gc_room; a window that is there keeps the name it had
JoinRoom ==
    /\ Act /\ online
    /\ \E n \in Mine :
           /\ gc.open => ~gc.connected
           /\ gc' = IF gc.open THEN [gc EXCEPT !.astray = @ \/ n # gc.nick]
                    ELSE [gc EXCEPT !.open = TRUE, !.nick = n, !.new_nick = None,
                                    !.dialog = FALSE, !.astray = @ \/ Astray(n)]
           /\ Join(n)
    /\ UNCHANGED <<room, toGajim, online>>

\* send_status: the user changes the status
ChangeStatus ==
    /\ Act /\ online /\ gc.open
    /\ Send([nick |-> gc.nick, join |-> ~gc.connected])
    /\ gc' = [gc EXCEPT !.astray = @ \/ gc.new_nick # None]
    /\ UNCHANGED <<room, toGajim, online>>

\* shutdown of the window of the room
LeaveRoom ==
    /\ Act /\ Leaves /\ gc.open
    /\ Send([nick |-> None, join |-> FALSE])
    /\ gc' = [GotDisconnected(gc) EXCEPT !.open = FALSE, !.astray = @ \/ gc.new_nick # None]
    /\ UNCHANGED <<room, toGajim, online>>

\* show_change_nick_input_dialog, of the menu; a conflict opens it as well
ChangeNick ==
    /\ Act /\ Changes /\ gc.open /\ ~gc.dialog
    /\ gc' = [gc EXCEPT !.dialog = TRUE]
    /\ UNCHANGED <<room, toRoom, toGajim, online>>

AnswerDialog ==
    /\ Act /\ gc.dialog
    /\ \/ \E n \in Mine :
             /\ Join(n)
             /\ gc' = [gc EXCEPT !.dialog = FALSE, !.astray = @ \/ ~gc.open \/ Astray(n),
                                 !.new_nick = IF gc.connected THEN n ELSE @,
                                 !.nick = IF gc.connected THEN @ ELSE n]
       \/ /\ gc' = [gc EXCEPT !.dialog = FALSE, !.new_nick = None,
                                 !.astray = @ \/ gc.new_nick # None]
          /\ UNCHANGED toRoom
    /\ UNCHANGED <<room, toGajim, online>>

\* on_row_activated
ActivateRow(n) ==
    /\ Act /\ gc.open
    /\ gc.contact[n] # None /\ HasRow(gc, n)
    /\ \/ gc.table[n] # None /\ gc' = [gc EXCEPT !.active = gc.table[n]]
       \/ /\ gc.table[n] = None
          /\ \E g \in NewPrivateChat(gc, n, gc.contact[n].show) :
                 gc' = [g EXCEPT !.active = g.control[n]]
    /\ UNCHANGED <<room, toRoom, toGajim, online>>

Activate == \E n \in Nick : ActivateRow(n)

\* handle_event, of a notification or the icon in the tray
Tray ==
    /\ Act
    /\ \E n \in Nick :
           /\ gc.events[n] > 0
           /\ LET show == IF gc.contact[n] = None THEN "offline"
                          ELSE gc.contact[n].show
              IN \E g \in IF gc.control[n] # None THEN {gc}
                          ELSE IF gc.open THEN NewPrivateChat(gc, n, show) ELSE {} :
                    gc' = [g EXCEPT !.active = g.control[n]]
    /\ UNCHANGED <<room, toRoom, toGajim, online>>

Close ==
    /\ Act
    /\ \E c \in Chats : gc.chat[c] # None /\ gc' = CloseChat(gc, c)
    /\ UNCHANGED <<room, toRoom, toGajim, online>>

\* The connection is lost; the server may notice later
Lose ==
    /\ Act /\ Loses /\ online
    /\ online' = FALSE
    /\ toRoom' = <<>> /\ toGajim' = <<>>
    /\ gc' = IF gc.open THEN GotDisconnected(gc) ELSE gc
    /\ room' \in {[n \in Nick |-> IF n \in InRoom THEN o ELSE room[n]] :
                  o \in {None} \cup {[room[n] EXCEPT !.who = "ghost"] : n \in InRoom}}

\* handle_event_signed_in
SignIn ==
    /\ ~online
    /\ online' = TRUE
    /\ toRoom' = IF gc.open THEN <<[nick |-> gc.nick, join |-> TRUE]>> ELSE <<>>
    /\ UNCHANGED <<room, toGajim, gc, acts>>

Init ==
    /\ room \in [Nick -> {None} \cup [who : {"other"}, role : Roles]]
    /\ toRoom = <<>> /\ toGajim = <<>>
    /\ online = TRUE
    /\ \E n \in Mine :
           gc = [open |-> FALSE, nick |-> n, new_nick |-> None, connected |-> FALSE,
                 dialog |-> FALSE, astray |-> FALSE, rows |-> NoRow,
                 contact |-> [m \in Nick |-> None], events |-> [m \in Nick |-> 0],
                 chat |-> [c \in Chats |-> None], table |-> [m \in Nick |-> None],
                 control |-> [m \in Nick |-> None], active |-> None]
    /\ acts = 0

Next ==
    \/ Serve \/ Enter \/ Exit \/ Rename \/ SetRole \/ Kick \/ Say
    \/ Arrive \/ JoinRoom \/ ChangeStatus \/ LeaveRoom \/ ChangeNick \/ AnswerDialog
    \/ Activate \/ Tray \/ Close \/ Lose \/ SignIn

\* What is sent arrives, and the account connects again
Fairness == WF_vars(Serve) /\ WF_vars(Arrive) /\ WF_vars(SignIn)

Spec == Init /\ [][Next]_vars
FairSpec == Spec /\ Fairness

-----------------------------------------------------------------------------
(* Properties.                                                             *)

\* A change of the name under way, or an accident.  A change goes wrong when
\* the user asks for it before the room has answered, takes it back, changes
\* the status meanwhile (that asks for the old name) or leaves, answers the
\* question for a window that is closed, joins again under another name than
\* the window has, or is kicked, or when another occupant gets the name: the
\* code keeps new_nick, and takes whatever comes next for its answer.  Besides,
\* the end of the user's own presence is not noticed when messages of one who
\* had the name before wait to be read (the code fails), and an occupant may
\* be removed by a window that is not its own (read_queue).
InDoubt == gc.astray \/ gc.new_nick # None

\* gc_connected and self.nick, which nothing but presences sets: when all of
\* them have arrived, the user is in the room under that name or, kicked,
\* refused or disconnected meanwhile, the window says that they are not.
KnowsItself ==
    online /\ gc.open /\ Quiet /\ ~gc.dialog /\ ~InDoubt =>
        IF gc.connected THEN InRoom = {gc.nick} ELSE InRoom = {}

\* A contact has one row, below its role.  Not so after an occupant took the
\* name of one that is gone and kept for its messages.
OneRow ==
    \A n \in Nick, r \in Roles :
        gc.rows[n][r] = IF gc.contact[n] # None /\ gc.contact[n].role = r THEN 1 ELSE 0

\* When all has arrived the list of occupants is the room, also of those who
\* came, left, got another name or role while the user joined, and again.
RoomIsShown ==
    gc.connected /\ Quiet /\ OneRow /\ ~InDoubt =>
        \A n \in Nick :
            IF room[n] = None
            THEN gc.contact[n] = None \/ gc.contact[n].show = "offline"
            ELSE gc.contact[n] = [show |-> "online", role |-> room[n].role]

\* An occupant who is gone, and listed with nothing of theirs to be read,
\* unless they come back with the next presence
Lingers(n) ==
    /\ gc.contact[n] # None /\ gc.contact[n].show = "offline" /\ gc.events[n] = 0
    /\ \A i \in DOMAIN toGajim : ~(toGajim[i].kind = "available" /\ toGajim[i].nick = n)

\* A chat with n drops the messages to be read, as it is closed or as it is
\* read in the window of one who had the name before
Dropped(n) ==
    /\ gc.events[n] > 0
    /\ \E c \in Chats : /\ gc.chat[c] # None /\ gc.chat[c].nick = n
                        /\ gc'.chat[c] = None \/ gc.table[n] # c

\* Whoever is gone is kept in the list only for messages to be read: no step
\* leaves a row of one who is gone and of whom all was read, but one that drops
\* messages nobody saw.  Two occupants who exchange names, or one who gets the
\* name of another who is gone, are what it is about.
NobodyLingers == [][\A n \in Nick : Lingers(n)' => Lingers(n) \/ Dropped(n)]_vars

\* A user who asks to join is let in or asked for another name, in a room
\* whose occupants come and go, and on a connection that was lost before.
JoinIsAnswered ==
    (online /\ gc.open /\ \E i \in DOMAIN toRoom : toRoom[i].join)
        ~> (gc.connected \/ gc.dialog \/ ~gc.open \/ ~online \/ InDoubt)

\* "/query <nickname>, opens a private chat window with the specified
\* occupant"; so does activating the row.
OpensOwn ==
    [][\A n \in Nick : ActivateRow(n) => gc'.chat[gc'.active].nick = n]_vars

=============================================================================
