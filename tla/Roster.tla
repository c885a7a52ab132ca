-------------------------------- MODULE Roster --------------------------------
(***************************************************************************)
(* One contact in the roster window of one account: its instances, one per *)
(* resource (common/contacts.py), its rows, one per group, and the delayed *)
(* removal of both (roster_window.py), the events that wait to be read     *)
(* (common/events.py), the chats that are open with it and the sessions of *)
(* its messages (session.py, chat_control.py, message_control.py), and the *)
(* handlers of gajim.py that change them.  Methods are operators from a    *)
(* state of this to another; an action is what the server, the connection  *)
(* or the user has Gajim do.                                               *)
(***************************************************************************)
EXTENDS Integers, SequencesExt, FiniteSets

CONSTANTS
    Res,           \* the resources of the contact
    Group,         \* the groups it may be in on the server
    None,          \* no value
    Closed,        \* for a key that has no chat
    MaxMessages,   \* messages and file events that arrive
    MaxActs,       \* everything else that happens
    MaxPushes,     \* roster pushes that are under way
    Edits,         \* whether another client edits the contact
    Removes,       \* the ways the user removes the contact: whether it checks
                   \* the box that lets the contact still see its status
    Requests,      \* whether the user asks for its subscription
    Reconnects,    \* whether the connection is lost
    Starts         \* the addresses the user starts a chat with

ASSUME RosterAssumption ==
    /\ IsFiniteSet(Res) /\ IsFiniteSet(Group)
    /\ {MaxMessages, MaxActs, MaxPushes} \subseteq Nat
    /\ {Edits, Requests, Reconnects} \cup Removes \subseteq BOOLEAN

VARIABLES
    gui,       \* what Gajim keeps of the contact, see Gui
    item,      \* the item of the contact on the server, None: there is none
    pushes,    \* the items the server has sent and Gajim has not handled
    told,      \* the priority of a resource in its last presence, None: gone
    online,    \* whether the account is connected
    messages,  \* how many have arrived
    acts       \* how often something else has happened

vars == <<gui, item, pushes, told, online, messages, acts>>

NotInRoster == "Not in Roster"
General == "General"
Observers == "Observers"

\* The bare jid, and the resource of an instance that has none
Bare == ""
Key == Res \cup {Bare}
Prio == 0 .. 1
Id == 1 .. MaxMessages

\* The session of the thread that each resource of the contact writes in, and
\* those made for messages of the log; the sessions made for one message each
\* time it is read from the log are one here
Thread == (Res \X {0}) \cup ({Bare} \X Id)
Of(r) == <<r, 0>>
Logged(id) == <<Bare, id>>

\* Nothing is mistaken for something else
ASSUME NamesAssumption ==
    /\ Bare \notin Res /\ Starts \subseteq Key
    /\ {None, Closed} \cap Thread = {} /\ None # Closed
    /\ None \notin Key \cup {"row", "backend"}

Sub == {"both", "from", "to", "none", "subscribe", "remove"}
Item == [sub : {"both", "from", "to", "none"}, asked : BOOLEAN,
         named : BOOLEAN, groups : SUBSET Group]
Removed == [sub |-> "remove", asked |-> FALSE, named |-> FALSE, groups |-> {}]
\* the presence that tells of it
Approval == [Removed EXCEPT !.sub = "subscribed"]
Push == Item \cup {Removed, Approval}

Contact == [res : Key, show : {"online", "offline", "other"}, prio : Prio,
            sub : Sub, asked : BOOLEAN, named : BOOLEAN,
            groups : SUBSET (Group \cup {NotInRoster})]

\* "normal" are the events that open a window of their own: messages that are
\* no chat, and those of file transfers, which have no session
Event == [type : {"chat"}, session : Thread, id : Id]
         \cup [type : {"normal"}, session : Thread \cup {None}, id : Id]

Gui == [
    inst : Seq(Contact),
    rows : SUBSET (Group \cup {NotInRoster, General, Observers}),
    ev : [Key -> Seq(Event)],
    chat : [Key -> Thread \cup {None, Closed}],     \* the session of the control
    control : [Thread -> Key \cup {None}],          \* the control of the session
    known : SUBSET Thread,                          \* the table of sessions
    removal : {None, "row", "backend"},             \* contacts_to_be_removed
    unread : SUBSET Id]                             \* the table of the log

TypeOK ==
    /\ gui \in Gui
    /\ item \in Item \cup {None}
    /\ pushes \in Seq(Push)
    /\ told \in [Res -> Prio \cup {None}]
    /\ online \in BOOLEAN
    /\ messages \in 0 .. MaxMessages /\ acts \in 0 .. MaxActs

-----------------------------------------------------------------------------
(* The instances of the contact: common/contacts.py.                       *)

Listed(s) == s.inst # <<>>
Resources(s) == {s.inst[i].res : i \in DOMAIN s.inst}
IndexOf(s, res) == SelectInSeq(s.inst, LAMBDA c : c.res = res)

\* get_contact_with_highest_priority: the first of the highest
Highest(s) ==
    s.inst[SelectInSeq(s.inst,
        LAMBDA c : \A i \in DOMAIN s.inst : s.inst[i].prio <= c.prio)]

IsObserver(c) == c.sub = "from" /\ ~c.asked /\ ~c.named /\ c.groups = {}
ShownGroups(c) ==
    IF IsObserver(c) THEN {Observers}
    ELSE IF c.groups = {} THEN {General} ELSE c.groups

ListContact(s, c) ==
    LET rest == RemoveFirstMatch(s.inst, LAMBDA d : d.res = c.res)
    IN [s EXCEPT !.inst =
          IF Len(@) = 1 /\ @[1].show = "offline" THEN <<c>>
          ELSE IF rest = <<>> /\ @ # <<>> THEN <<>>  \* appended to no list
          ELSE Append(rest, c)]

NewContact(show, i) ==
    [res |-> Bare, show |-> show, prio |-> 0, sub |-> i.sub, asked |-> i.asked,
     named |-> i.named, groups |-> i.groups]

(* The rows of the contact, and their delayed removal: roster_window.py.   *)

AddRow(s) ==
    IF ShownGroups(Highest(s)) \cap s.rows # {} THEN s
    ELSE [s EXCEPT !.rows = @ \cup ShownGroups(Highest(s))]

\* contact_has_pending_roster_events
Pending(s) == \E k \in Resources(s) \cup {Bare} : s.ev[k] # <<>>

\* remove_contact
RemoveContact(s, force, backend) ==
    LET delay == ~force /\ (Pending(s) \/ s.chat[Bare] # Closed)
        s1 == IF delay /\ s.removal = None
              THEN [s EXCEPT !.removal = IF backend THEN "backend" ELSE "row"]
              ELSE s
    IN IF ~Listed(s) THEN s
       ELSE IF delay /\ Pending(s) THEN s1
       ELSE [s1 EXCEPT
               !.rows = @ \ ShownGroups(Highest(s)),
               !.inst = IF backend /\ (s.chat[Bare] = Closed \/ force)
                        THEN <<>> ELSE @]

\* Mutant: the removal that waited is not looked for
EventsRemovedOnly(s) == s

\* on_event_removed
EventsRemoved(s) ==
    IF s.removal = None THEN s
    ELSE RemoveContact([s EXCEPT !.removal = None], FALSE, s.removal = "backend")

\* add_to_not_in_the_roster
AddNotInRoster(s, res) ==
    LET i == [sub |-> "none", asked |-> FALSE, named |-> FALSE,
              groups |-> {NotInRoster}]
    IN AddRow(ListContact(s, [NewContact("other", i) EXCEPT !.res = res]))

(* Events: common/events.py.                                               *)

AddEvent(s, k, e) == [s EXCEPT !.ev[k] = Append(@, e)]

\* get_events, of a type
OfType(events, type) ==
    LET found[n \in 0 .. Len(events)] ==
            IF n = 0 THEN <<>>
            ELSE IF events[n].type = type THEN Append(found[n - 1], events[n])
            ELSE found[n - 1]
    IN found[Len(events)]

\* remove_events, of one event and of a type
RemoveEvent(s, k, e) == EventsRemoved([s EXCEPT !.ev[k] = RemoveFirst(@, e)])
RemoveChatEvents(s, k) ==
    LET kept == OfType(s.ev[k], "normal")
    IN IF kept = s.ev[k] THEN s ELSE EventsRemoved([s EXCEPT !.ev[k] = kept])

\* Mutant: the events that the bare address has are overwritten
ChangeJidReplacing(s, k) ==
    [s EXCEPT !.ev = [@ EXCEPT ![Bare] = s.ev[k], ![k] = <<>>]]

\* change_jid, to the bare jid
ChangeJid(s, k) ==
    LET joined == [s.ev EXCEPT ![Bare] = @ \o s.ev[k]]
    IN [s EXCEPT !.ev = [joined EXCEPT ![k] = <<>>]]

(* Chats and sessions: message_control.py, chat_control.py.                *)

\* MessageControl.set_session
SetSession(s, k, t) ==
    IF t # None /\ s.chat[k] = t THEN s
    ELSE [s EXCEPT
            !.chat[k] = t,
            !.control = [u \in Thread |->
                IF u = s.chat[k] THEN None ELSE IF u = t THEN k ELSE @[u]]]

\* read_queue
ReadQueue(s, k) ==
    LET chats == OfType(s.ev[k], "chat")
        shown[n \in 0 .. Len(chats)] ==
            IF n = 0 THEN s ELSE SetSession(shown[n - 1], k, chats[n].session)
    IN RemoveChatEvents(
           [shown[Len(chats)] EXCEPT !.unread = @ \ {e.id : e \in ToSet(chats)}], k)

\* find_controlless_session returns any of these, and a chat with one resource
\* takes that of no other
Orphans(s, k) == {t \in s.known : s.control[t] = None}
Takes(s, k) ==
    IF Orphans(s, k) = {} THEN {None}
    ELSE {IF k # Bare /\ t[1] # k THEN None ELSE t : t \in Orphans(s, k)}

\* new_chat, for the session of an event or for none
NewChat(s, k, t) ==
    LET s1 == [s EXCEPT !.chat[k] = t,
                        !.control = IF t = None THEN @ ELSE [@ EXCEPT ![t] = k]]
    IN IF s.ev[k] = <<>> THEN s1 ELSE ReadQueue(s1, k)

\* Mutant: the session keeps its control
CloseChatAttached(s, k) ==
    [RemoveChatEvents(s, k) EXCEPT !.chat[k] = Closed]

\* ChatControl.shutdown, and the rest of MessageWindow.remove_tab
CloseChat(s, k) ==
    LET s1 == [s EXCEPT !.control =
                 [u \in Thread |-> IF u = s.chat[k] THEN None ELSE @[u]]]
        s2 == RemoveChatEvents(s1, k)
        s3 == IF s2.removal # None /\ ~Pending(s2)
              THEN RemoveContact([s2 EXCEPT !.removal = None], TRUE,
                                 s2.removal = "backend")
              ELSE s2
    IN [s3 EXCEPT !.chat[k] = Closed]

-----------------------------------------------------------------------------
(* A message: session.py.                                                  *)

\* roster_message, of a message from res, or of the log
RosterMessage(s, res, e) ==
    LET t == e.session
        found == res \in Resources(s) \ {Bare}
        invisible == ~found /\ Listed(s)
                     /\ \/ Len(s.inst) > 1
                        \/ s.inst[1].res # Bare /\ s.inst[1].show # "offline"
        s1 == IF invisible
              THEN ListContact(s, [Highest(s) EXCEPT !.res = res, !.prio = 0,
                                                     !.show = "offline"])
              ELSE IF Listed(s) THEN s ELSE AddNotInRoster(s, Bare)
        of == IF found \/ invisible THEN res
              ELSE IF Listed(s) THEN Highest(s).res ELSE Bare
        toHighest == s.control[t] = None /\ Listed(s) /\ of = Highest(s).res
        key == IF (found \/ invisible) /\ ~toHighest THEN res ELSE Bare
    IN IF s.control[t] # None /\ e.type = "chat"
       THEN [s1 EXCEPT !.unread = @ \ {e.id}]
       ELSE AddEvent(s1, key, e)

\* ChatControlSession.received
Received(s, r, type, id) ==
    LET isHighest == \/ ~Listed(s)
                     \/ Highest(s).res \in {Bare, r}
                     \/ Highest(s).show = "offline"
        key == IF isHighest THEN Bare ELSE r
        s1 == [s EXCEPT !.known = @ \cup {Of(r)},
                        !.unread = @ \cup IF type = "chat" THEN {id} ELSE {}]
        s2 == IF s.control[Of(r)] = None /\ s.chat[key] # Closed
              THEN [SetSession(s1, key, Of(r)) EXCEPT !.control[Of(r)] = key]
              ELSE s1
    IN RosterMessage(s2, r, [type |-> type, session |-> Of(r), id |-> id])

(* Presence.                                                               *)

\* Mutant: whichever goes offline, the first instance is removed
ChangeStatusOfFirst(s, i, show) ==
    IF Len(s.inst) > 1 /\ show = "offline"
    THEN [s EXCEPT !.inst = Tail(@)] ELSE [s EXCEPT !.inst[i].show = show]

\* chg_contact_status, of the instance i
ChangeStatus(s, i, show) ==
    LET s1 == [s EXCEPT !.inst[i].show = show]
    IN IF /\ Len(s.inst) > 1
          /\ show = "offline"
          /\ ~Pending(s)
          /\ s.chat[s.inst[i].res] = Closed
       THEN [s1 EXCEPT !.inst = RemoveAt(@, i)]
       ELSE s1

\* on_status_changed walks the list that chg_contact_status removes from
GoesOffline(s, i) ==
    IF i <= Len(s.inst) /\ s.inst[i].show # "offline"
    THEN ChangeStatus(s, i, "offline") ELSE s

AllOffline(s) ==
    LET gone[i \in 0 .. Len(s.inst)] ==
            IF i = 0 THEN s ELSE GoesOffline(gone[i - 1], i)
    IN gone[Len(s.inst)]

\* Gajim looks for changes among the shows it knows, and takes others for
\* offline
Unchanged(c, show, prio) ==
    (c.show = "online") = (show = "online") /\ c.prio = prio

\* handle_event_notify, for a contact that is listed
Notify(s, r, show, prio) ==
    LET i == IndexOf(s, r)
        another == /\ [j \in DOMAIN s.inst |-> s.inst[j].res] # <<Bare>>
                   /\ ~(Len(s.inst) = 1 /\ s.inst[1].show = "offline")
        s1 == IF i # 0 THEN s
              ELSE AddRow(IF another
                          THEN [s EXCEPT !.inst =
                                  Append(@, [@[1] EXCEPT !.res = r])]
                          ELSE [s EXCEPT !.inst[1].res = r])
        s2 == [s1 EXCEPT !.inst[IndexOf(s1, r)].prio = prio]
        s3 == ChangeStatus(s2, IndexOf(s2, r), show)
        moved == (Highest(s).res = r) # (Highest(s3).res = r)
    IN IF i # 0 /\ Unchanged(s.inst[i], show, prio) THEN s
       ELSE IF moved /\ s3.chat[Bare] # Closed THEN SetSession(s3, Bare, None)
       ELSE s3

(* The roster of the server.                                               *)

Useless(i) == i.sub = "none" /\ ~i.asked /\ ~i.named /\ i.groups = {}

\* Mutant: the group shown for a contact without one is stored
RosterInfoShown(s, i) ==
    [s EXCEPT !.inst = [j \in DOMAIN @ |-> [@[j] EXCEPT !.groups = ShownGroups(i)]]]

\* handle_event_roster_info
RosterInfo(s, i) ==
    IF Useless(i) THEN RemoveContact(s, FALSE, TRUE)
    ELSE IF Listed(s)
    THEN [s EXCEPT !.inst = [j \in DOMAIN @ |->
            [@[j] EXCEPT !.sub = i.sub, !.asked = i.asked,
                       !.named = i.named, !.groups = i.groups]]]
    ELSE IF i.sub = "remove" THEN s
    ELSE AddRow(ListContact(s, NewContact("offline", i)))

\* fire_up_unread_messages_events, of one of the messages
Fire(s, id, unread) ==
    IF id \notin unread \/ ~Listed(s) THEN s
    ELSE RosterMessage([s EXCEPT !.known = @ \cup {Logged(id)},
                                 !.control[Logged(id)] = None], Bare,
                       [type |-> "chat", session |-> Logged(id), id |-> id])

\* handle_event_roster: fill_contacts_and_groups_dicts, add_account_contacts
\* and the messages
RosterReceived(s, i) ==
    LET s1 == IF i = None \/ Useless(i) THEN s
              ELSE [RemoveContact(s, TRUE, FALSE) EXCEPT !.inst = <<NewContact("offline", i)>>]
        s2 == IF Listed(s1) THEN AddRow(s1) ELSE s1
        fired[id \in 0 .. MaxMessages] ==
            IF id = 0 THEN s2 ELSE Fire(fired[id - 1], id, s.unread)
    IN fired[MaxMessages]

\* handle_event_subscribed: remove_contact_from_groups, for a contact that is
\* listed; the presence comes from its bare jid
Subscribed(s) ==
    IF Listed(s)
    THEN LET s1 == RemoveContact([s EXCEPT !.inst[1].res = Bare], TRUE, FALSE)
             kept(c) == [c EXCEPT !.groups = @ \ {NotInRoster}]
         IN AddRow([s1 EXCEPT !.inst = [j \in DOMAIN @ |-> kept(@[j])]])
    ELSE AddRow(ListContact(s,
                NewContact("online", [Approval EXCEPT !.sub = "subscribe"])))

-----------------------------------------------------------------------------
(* What the user does.                                                     *)

\* The address whose first event a double click on the row opens
FirstKey(s) ==
    IF s.ev[Bare] # <<>> THEN Bare
    ELSE s.inst[SelectInSeq(s.inst, LAMBDA c : s.ev[c.res] # <<>>)].res

\* open_event, and on_open_chat_window with the session of the event
OpenFirst(s, k, e) ==
    IF e.type = "normal" THEN RemoveEvent(s, k, e)
    ELSE IF s.control[e.session] # None \/ s.chat[k] # Closed THEN s
    ELSE NewChat(s, k, e.session)

\* handle_event, of a notification or the icon in the tray
OpenFromTray(s, k, e) ==
    LET higher == k # Bare /\ Highest(s).res = k /\ s.chat[Bare] = Closed
    IN IF e.type = "normal" THEN RemoveEvent(s, k, e)
       ELSE IF s.control[e.session] # None THEN s
       ELSE IF higher THEN NewChat(ChangeJid(s, k), Bare, e.session)
       ELSE NewChat(s, k, e.session)

\* Mutant: the row is removed and the instances stay
UserRemovesRow(s, keep) == RemoveContact(s, FALSE, FALSE)

\* on_req_usub, with the box that keeps the authorization checked or not
UserRemoves(s, keep) ==
    LET c == Highest(s)
        left == [c EXCEPT !.named = FALSE, !.groups = {}, !.sub = "from",
                          !.show = "offline"]
        s1 == RemoveContact(s, FALSE, TRUE)
        s2 == IF Listed(s1) THEN [s1 EXCEPT !.inst[IndexOf(s1, c.res)] = left]
              ELSE s1
    IN IF keep /\ c.sub = "both" THEN AddRow(ListContact(s2, left)) ELSE s1

\* req_sub
Asks(s, named, groups) ==
    LET fresh == [sub |-> "subscribe", asked |-> FALSE, named |-> named,
                  groups |-> groups]
        i == IndexOf(s, Highest(s).res)
        asked == [s.inst[i] EXCEPT !.groups = groups, !.named = @ \/ named]
    IN IF ~Listed(s) THEN AddRow(ListContact(s, NewContact("other", fresh)))
       ELSE IF NotInRoster \notin ShownGroups(Highest(s)) THEN s
       ELSE AddRow([RemoveContact(s, TRUE, FALSE) EXCEPT !.inst[i] = asked])

-----------------------------------------------------------------------------
Init ==
    /\ item \in {None} \cup [sub : {"both"}, asked : {FALSE}, named : {TRUE},
                          groups : SUBSET Group]
    /\ gui = RosterReceived(
           [inst |-> <<>>, rows |-> {}, ev |-> [k \in Key |-> <<>>],
            chat |-> [k \in Key |-> Closed], control |-> [t \in Thread |-> None],
            known |-> {}, removal |-> None, unread |-> {}], item)
    /\ pushes = <<>>
    /\ told = [r \in Res |-> None]
    /\ online = TRUE
    /\ messages = 0 /\ acts = 0

Act == acts < MaxActs /\ acts' = acts + 1

\* What the server makes of the item, and tells all clients
Serve(i, sent) ==
    /\ item' = i
    /\ Len(pushes) + Len(sent) <= MaxPushes
    /\ pushes' = pushes \o sent

MessageArrives ==
    /\ online /\ messages < MaxMessages
    /\ \E r \in Res, type \in {"chat", "normal"} :
           gui' = Received(gui, r, type, messages + 1)
    /\ messages' = messages + 1
    /\ UNCHANGED <<item, pushes, told, online, acts>>

\* handle_event_file_request, and add_event for other events of a transfer
FileEvent ==
    /\ online /\ messages < MaxMessages
    /\ \E request \in BOOLEAN :
           LET s == IF request /\ ~Listed(gui)
                    THEN AddNotInRoster(gui, Bare) ELSE gui
               s1 == AddEvent(s, Bare, [type |-> "normal", session |-> None,
                                        id |-> messages + 1])
           IN gui' = IF Listed(s1) \/ s.ev[Bare] # <<>> THEN s1
                     ELSE AddNotInRoster(s1, Bare)
    /\ messages' = messages + 1
    /\ UNCHANGED <<item, pushes, told, online, acts>>

\* A resource of the contact comes, goes or changes its priority.  When it
\* goes, the sessions that it has not written in are forgotten.
Presence ==
    /\ Act /\ online /\ pushes = <<>>     \* they come in order
    /\ \E r \in Res, p \in Prio \cup {None} :
           /\ told[r] # p
           /\ p # None => item # None /\ item.sub \in {"both", "to"}
           /\ told' = [told EXCEPT ![r] = p]
           /\ LET s == IF ~Listed(gui) THEN gui
                       ELSE IF p = None THEN Notify(gui, r, "offline", 0)
                       ELSE Notify(gui, r, "online", p)
              IN gui' = IF p = None THEN [s EXCEPT !.known = @ \ {Logged(id) : id \in Id}] ELSE s
    /\ UNCHANGED <<item, pushes, online, messages>>

\* _rosterSetCB, and a presence that comes with it
PushArrives ==
    /\ online /\ pushes # <<>>
    /\ IF Head(pushes) = Approval
       THEN /\ gui' = Subscribed(gui)
            /\ IF Listed(gui) /\ item # None
               THEN LET i == [item EXCEPT !.groups = Last(gui'.inst).groups]
                    IN item' = i /\ pushes' = Append(Tail(pushes), i)
               ELSE item' = item /\ pushes' = Tail(pushes)
       ELSE /\ gui' = RosterInfo(gui, Head(pushes))
            /\ pushes' = Tail(pushes) /\ UNCHANGED item
    /\ UNCHANGED <<told, online, messages, acts>>

\* The contact approves the request
Approve ==
    /\ Act /\ online
    /\ item # None /\ item.asked
    /\ LET i == [item EXCEPT !.asked = FALSE,
                             !.sub = IF @ = "from" THEN "both" ELSE "to"]
       IN Serve(i, <<Approval, i>>)
    /\ UNCHANGED <<gui, told, online, messages>>

\* Another client of the user edits or removes the contact
Edit ==
    /\ Act /\ Edits /\ online /\ item # None
    /\ \/ \E n \in BOOLEAN, g \in SUBSET Group :
             LET i == [item EXCEPT !.named = n, !.groups = g]
             IN i # item /\ Serve(i, <<i>>)
       \/ Serve(None, <<Removed>>)
    /\ UNCHANGED <<gui, told, online, messages>>

Lose ==
    /\ Act /\ Reconnects /\ online
    /\ gui' = AllOffline(gui)
    /\ online' = FALSE /\ pushes' = <<>> /\ told' = [r \in Res |-> None]
    /\ UNCHANGED <<item, messages>>

Reconnect ==
    /\ ~online
    /\ gui' = RosterReceived(gui, item)
    /\ item' = IF item # None /\ Useless(item) THEN None ELSE item
    /\ online' = TRUE
    /\ UNCHANGED <<pushes, told, messages, acts>>

Activate ==
    /\ Act /\ gui.rows # {} /\ Listed(gui)
    /\ IF Pending(gui)
       THEN LET k == FirstKey(gui) IN gui' = OpenFirst(gui, k, gui.ev[k][1])
       ELSE /\ gui.chat[Bare] = Closed
            /\ \E t \in Takes(gui, Bare) : gui' = NewChat(gui, Bare, t)
    /\ UNCHANGED <<item, pushes, told, online, messages>>

Tray ==
    /\ Act /\ Listed(gui)
    /\ \E k \in Key, type \in {"chat", "normal"} :
           LET i == SelectInSeq(gui.ev[k], LAMBDA e : e.type = type)
           IN i # 0 /\ gui' = OpenFromTray(gui, k, gui.ev[k][i])
    /\ UNCHANGED <<item, pushes, told, online, messages>>

\* new_chat_from_jid
StartChat ==
    /\ Act
    /\ \E k \in Starts :
           LET s == IF k \in Resources(gui) \/ (k = Bare /\ Listed(gui)) THEN gui
                    ELSE AddNotInRoster(gui, k)
           IN /\ s.chat[k] = Closed
              /\ \E t \in Takes(s, k) : gui' = NewChat(s, k, t)
    /\ UNCHANGED <<item, pushes, told, online, messages>>

Close ==
    /\ Act
    /\ \E k \in Key : gui.chat[k] # Closed /\ gui' = CloseChat(gui, k)
    /\ UNCHANGED <<item, pushes, told, online, messages>>

\* on_req_usub and unsubscribe
RemoveByUser ==
    /\ Act /\ online /\ Listed(gui)
    /\ \E checked \in Removes :
           LET c == Highest(gui)
               keep == checked /\ c.sub # "to"
               i == [sub |-> IF item.sub \in {"both", "from"} THEN "from" ELSE "none",
                     asked |-> FALSE, named |-> item.named, groups |-> item.groups]
               j == [i EXCEPT !.named = FALSE, !.groups = {}]
           IN /\ NotInRoster \in c.groups => ~checked
              /\ gui' = UserRemoves(gui, keep)
              /\ IF NotInRoster \in c.groups \/ item = None
                 THEN UNCHANGED <<item, pushes>>
                 ELSE IF keep
                 THEN Serve(j, <<i, j>>)
                 ELSE Serve(None, <<Removed>>)
    /\ UNCHANGED <<told, online, messages>>

\* The dialog that adds a contact, request_subscription and req_sub
Request ==
    /\ Act /\ Requests /\ online
    /\ Listed(gui) => \/ NotInRoster \in gui.inst[1].groups
                      \/ gui.inst[1].sub \notin {"both", "to"}
    /\ \E named \in BOOLEAN, groups \in {{}} \cup {{g} : g \in Group} :
           LET i == [sub |-> IF item = None THEN "none" ELSE item.sub,
                     asked |-> item # None /\ item.asked, named |-> named,
                     groups |-> groups]
               j == [i EXCEPT !.asked = i.sub \in {"none", "from"}]
           IN /\ Serve(j, <<i, j>>)
              /\ gui' = Asks(gui, named, groups)
    /\ UNCHANGED <<told, online, messages>>

Next ==
    \/ MessageArrives \/ FileEvent \/ Presence \/ PushArrives \/ Approve \/ Edit
    \/ Lose \/ Reconnect \/ Activate \/ Tray \/ StartChat \/ Close \/ RemoveByUser
    \/ Request

Spec == Init /\ [][Next]_vars

-----------------------------------------------------------------------------
\* A contact that is listed has a row somewhere, whatever the server, another
\* client and the user do with it while the connection comes and goes: without
\* a row its messages could not be read.  remove_contact and its callers take
\* rows away and add them again in separate steps.
ShownSomewhere == Listed(gui) /\ gui.removal = None => gui.rows # {}

\* The event of a message waits at an address, and is dropped with a chat that
\* is closed there: that of a full address, over messages that came when its
\* session had gone to the chat of the bare one; or that of the bare one, with
\* what a lost connection left there
Waits(s, k, id) == \E i \in DOMAIN s.ev[k] : s.ev[k][i].type = "chat" /\ s.ev[k][i].id = id
IsQueued(s, id) == \E k \in Key : Waits(s, k, id)
ClosedOver(id) ==
    \E k \in IF Reconnects THEN Key ELSE Res :
        gui.chat[k] # Closed /\ gui'.chat[k] = Closed /\ Waits(gui, k, id)
StayQueued ==
    \A id \in gui'.unread :
        /\ (id \in gui.unread => IsQueued(gui, id)) => IsQueued(gui', id) \/ ClosedOver(id)
        /\ online' # online /\ online' /\ Listed(gui') => IsQueued(gui', id)

\* A message that the table of unread messages has, and that waits to be opened,
\* goes on waiting until it is marked read, and a new one does from the start:
\* no chat that is read or moved, and no contact that is removed, takes the
\* event along alone.  What is unread when the connection is back waits again,
\* for a contact that is listed.
UnreadStaysQueued == [][StayQueued]_vars

\* A session whose messages go to a control is the session of that control, and
\* the control is open; messages would go to a window that is gone otherwise.
AttachedIsOpen ==
    \A t \in Thread : gui.control[t] # None => gui.chat[gui.control[t]] = t

\* contacts_to_be_removed: a removal that was put off has something to wait for,
\* whose end carries it out, or it never would be: the last event of the contact,
\* at whichever address, or the chat.  An event may wait at the address of a
\* resource that is listed no more; Pending does not count it, but its removal
\* is noticed all the same.
RemovalIsFinished ==
    gui.removal # None =>
        (\E k \in Key : gui.ev[k] # <<>>) \/ gui.chat[Bare] # Closed

\* The roster shows of a resource what it said last, and lists each one that is
\* there as online (once Gajim knows all the server does), though instances are
\* renamed, replaced and removed as others come and go.
ShownAsTold ==
    /\ online => \A i \in DOMAIN gui.inst : gui.inst[i].show = "online" =>
          /\ gui.inst[i].res \in Res
          /\ told[gui.inst[i].res] = gui.inst[i].prio
    /\ \A r \in Res :
          /\ told[r] # None /\ item # None /\ item.sub \in {"both", "to"}
          /\ pushes = <<>>
          => \E i \in DOMAIN gui.inst :
                gui.inst[i].res = r /\ gui.inst[i].show = "online"

=============================================================================
