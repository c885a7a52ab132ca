--------------------------- MODULE GroupChat_proofs ----------------------------
(***************************************************************************)
(* Proofs about GroupChat, for any names, roles and windows, and anything  *)
(* that the user, the other occupants and the connection do.               *)
(***************************************************************************)
EXTENDS GroupChat, Loops, FiniteSetTheorems

-----------------------------------------------------------------------------
(* The inductive invariant.                                                *)

\* A presence of n is on the way, in the stanzas w
Seen(w, n) == \E i \in DOMAIN w : w[i].kind = "available" /\ w[i].nick = n

\* Who is listed has a row, in a window that is open
Listed(g) == \A n \in Nick : g.contact[n] # None => g.open /\ HasRow(g, n)

\* What the two tables of windows lead to
Found(g) ==
    /\ \A n \in Nick : g.table[n] # None =>
          /\ g.chat[g.table[n]] # None
          /\ g.chat[g.table[n]].nick = n
    /\ \A n \in Nick : g.control[n] # None =>
          /\ g.chat[g.control[n]] # None
          /\ g.chat[g.control[n]].session = n

\* The window of who is gone says so
ToldOf(g, w, n) ==
    /\ g.table[n] # None /\ g.contact[n] # None
    /\ g.contact[n].show = "offline" /\ ~Seen(w, n)
    => g.chat[g.table[n]].show = "offline"

Told(g, w) == \A n \in Nick : ToldOf(g, w, n)

\* Who changes the name is there under the new one with the next stanza
Paired(w) ==
    \A i \in DOMAIN w : w[i].kind = "unavailable" /\ w[i].new # None =>
        /\ w[i].new # w[i].nick
        /\ i + 1 \in DOMAIN w
        /\ w[i + 1].kind = "available" /\ w[i + 1].nick = w[i].new

Good(g) == g \in Gc /\ Listed(g) /\ Found(g)

Whole == TypeOK /\ Good(gc) /\ Told(gc, toGajim) /\ Paired(toGajim)

\* Lingers, of any state
LingersIn(g, w, n) ==
    /\ g.contact[n] # None /\ g.contact[n].show = "offline" /\ g.events[n] = 0
    /\ ~Seen(w, n)

\* n has a chat that is not the one in the table
Elsewhere(g, n) ==
    /\ g.events[n] > 0
    /\ \E c \in Chats : g.chat[c] # None /\ g.chat[c].nick = n /\ g.table[n] # c

\* t differs from g in contacts and rows, and in what no window looks at
SameChats(g, t) ==
    /\ t.open = g.open /\ t.events = g.events /\ t.chat = g.chat
    /\ t.table = g.table /\ t.control = g.control

\* t differs from g in nothing that is shown or read
Alike(g, t) ==
    t \in Gc /\ SameChats(g, t) /\ t.contact = g.contact /\ t.rows = g.rows

-----------------------------------------------------------------------------
(* Contacts.                                                               *)

LEMMA FirstRoleIs ==
    ASSUME NEW g \in Gc, NEW n \in Nick, HasRow(g, n)
    PROVE  FirstRole(g, n) \in Roles /\ g.rows[n][FirstRole(g, n)] > 0
<1> DEFINE T == {i \in DOMAIN Role : g.rows[n][Role[i]] > 0}
           P(i) == g.rows[n][Role[i]] > 0 /\ \A j \in 1 .. i - 1 : g.rows[n][Role[j]] = 0
           m == CHOOSE i \in DOMAIN Role : P(i)
<1>1. DOMAIN Role = 1 .. Len(Role) /\ Len(Role) \in Nat
  BY GroupChatAssumption
<1>2. \A i \in DOMAIN Role : Role[i] \in Roles /\ g.rows[n][Role[i]] \in Nat
  <2>1. \A r \in Roles : g.rows[n][r] \in Nat
    BY DEF Gc
  <2> QED
    BY <2>1 DEF Roles
<1>3. T \subseteq Nat /\ T # {}
  BY <1>1 DEF HasRow, Roles
<1>4. PICK i \in T : \A j \in T : i <= j
  <2> HIDE DEF T
  <2> QED
    BY <1>3, LeastExists
<1>5. i \in DOMAIN Role /\ P(i)
  BY <1>1, <1>2, <1>4
<1> HIDE DEF P
<1>6. m \in DOMAIN Role /\ P(m)
  BY <1>5
<1> QED
  BY <1>2, <1>6 DEF FirstRole, P

LEMMA AddContactIs ==
    ASSUME NEW g \in Gc, NEW n \in Nick, NEW show \in {"online", "offline"}, NEW role \in Roles,
           NEW t, t = AddContact(g, n, show, role)
    PROVE  /\ t \in Gc /\ SameChats(g, t) /\ HasRow(t, n)
           /\ t.nick = g.nick /\ t.new_nick = g.new_nick
           /\ \A m \in Nick : HasRow(g, m) => HasRow(t, m)
           /\ t.contact = [g.contact EXCEPT ![n] =
                             IF @ = None THEN [show |-> show, role |-> role] ELSE @]
<1>1. t \in Gc
  <2>1. /\ g.rows[n][role] \in Nat /\ [show |-> show, role |-> role] \in Contact
        /\ g.rows \in [Nick -> [Roles -> Nat]]
        /\ g.contact \in [Nick -> Contact \cup {None}]
        /\ (g.connected \/ n = g.nick) \in BOOLEAN
    BY DEF Gc, Contact
  <2>2. /\ [g.rows EXCEPT ![n][role] = @ + 1] \in [Nick -> [Roles -> Nat]]
        /\ [g.contact EXCEPT ![n] = IF @ = None THEN [show |-> show, role |-> role] ELSE @]
               \in [Nick -> Contact \cup {None}]
    BY <2>1
  <2> QED
    BY <2>1, <2>2 DEF AddContact, Gc
<1>0. SameChats(g, t) /\ t.nick = g.nick /\ t.new_nick = g.new_nick
  BY DEF AddContact, Gc, SameChats
<1>2. t.contact = [g.contact EXCEPT ![n] =
                     IF @ = None THEN [show |-> show, role |-> role] ELSE @]
  BY DEF AddContact, Gc
<1>3. t.rows = [g.rows EXCEPT ![n][role] = @ + 1]
  BY DEF AddContact, Gc
<1>4. \A m \in Nick, r \in Roles : g.rows[m][r] \in Nat
  BY DEF Gc
<1>5. HasRow(t, n) /\ \A m \in Nick : HasRow(g, m) => HasRow(t, m)
  BY <1>3, <1>4 DEF HasRow, Gc
<1> QED
  BY <1>0, <1>1, <1>2, <1>5

LEMMA AddContactGood ==
    ASSUME NEW g, Good(g), g.open, NEW n \in Nick, NEW show \in {"online", "offline"},
           NEW role \in Roles
    PROVE  Good(AddContact(g, n, show, role))
<1> DEFINE t == AddContact(g, n, show, role)
<1>1. g \in Gc
  BY DEF Good
<1> HIDE DEF t
<1>2. /\ t \in Gc /\ SameChats(g, t) /\ HasRow(t, n)
      /\ \A m \in Nick : HasRow(g, m) => HasRow(t, m)
      /\ t.contact = [g.contact EXCEPT ![n] =
                        IF @ = None THEN [show |-> show, role |-> role] ELSE @]
  BY <1>1, AddContactIs DEF t
<1>3. Listed(t)
  BY <1>1, <1>2 DEF Good, Listed, SameChats, Gc
<1>4. Found(t)
  BY <1>2 DEF Good, Found, SameChats
<1> QED
  BY <1>2, <1>3, <1>4 DEF Good, t

LEMMA RemoveContactGood ==
    ASSUME NEW g, Good(g), NEW n \in Nick, NEW t, t = RemoveContact(g, n)
    PROVE  /\ Good(t) /\ SameChats(g, t)
           /\ t.nick = g.nick /\ t.new_nick = g.new_nick
           /\ t.contact = [g.contact EXCEPT ![n] = None]
<1>1. g \in Gc /\ Listed(g) /\ Found(g)
  BY DEF Good
<1>2. CASE ~HasRow(g, n)
  <2>1. t = g /\ g.contact[n] = None
    BY <1>1, <1>2 DEF RemoveContact, Listed
  <2>2. g.contact = [g.contact EXCEPT ![n] = None]
    BY <1>1, <2>1 DEF Gc
  <2> QED
    BY <2>1, <2>2 DEF SameChats
<1>3. CASE HasRow(g, n)
  <2> DEFINE r == FirstRole(g, n)
  <2>1. r \in Roles /\ g.rows[n][r] > 0
    BY <1>1, <1>3, FirstRoleIs
  <2> HIDE DEF r
  <2>2. t = [g EXCEPT !.rows[n][r] = @ - 1, !.contact[n] = None]
    BY <1>3 DEF RemoveContact, r
  <2>3. \A m \in Nick, q \in Roles : g.rows[m][q] \in Nat
    BY <1>1 DEF Gc
  <2>4. g.rows[n][r] - 1 \in Nat
    BY <2>1, <2>3
  <2>5. t \in Gc
    <3>1. /\ [g.rows EXCEPT ![n][r] = @ - 1] \in [Nick -> [Roles -> Nat]]
          /\ [g.contact EXCEPT ![n] = None] \in [Nick -> Contact \cup {None}]
      BY <1>1, <2>1, <2>4 DEF Gc
    <3> QED
      BY <1>1, <2>2, <3>1 DEF Gc
  <2>6. /\ SameChats(g, t) /\ t.nick = g.nick /\ t.new_nick = g.new_nick
        /\ t.contact = [g.contact EXCEPT ![n] = None]
        /\ \A m \in Nick \ {n} : t.rows[m] = g.rows[m]
    BY <1>1, <2>1, <2>2 DEF Gc, SameChats
  <2>7. Listed(t)
    BY <1>1, <2>6 DEF Listed, HasRow, SameChats, Gc
  <2>8. Found(t)
    BY <1>1, <2>6 DEF Found, SameChats
  <2> QED
    BY <2>5, <2>6, <2>7, <2>8 DEF Good
<1> QED
  BY <1>2, <1>3

LEMMA GotDisconnectedGood ==
    ASSUME NEW g, Good(g), NEW t, t = GotDisconnected(g)
    PROVE  /\ Good(t) /\ SameChats(g, t)
           /\ t.nick = g.nick /\ t.new_nick = g.new_nick
           /\ t.contact = [n \in Nick |-> None]
<1>1. g \in Gc /\ Found(g)
  BY DEF Good
<1>2. t \in Gc
  BY <1>1 DEF GotDisconnected, Gc, NoRow
<1>3. /\ SameChats(g, t) /\ t.nick = g.nick /\ t.new_nick = g.new_nick
      /\ t.contact = [n \in Nick |-> None]
  BY <1>1 DEF GotDisconnected, Gc, SameChats
<1>4. Listed(t) /\ Found(t)
  BY <1>1, <1>3 DEF Listed, Found, SameChats
<1> QED
  BY <1>2, <1>3, <1>4 DEF Good

-----------------------------------------------------------------------------
(* Windows of private chats.                                               *)

LEMMA Chatting ==
    ASSUME NEW g, Good(g)
    PROVE  /\ \A c \in Chats : g.chat[c] # None =>
                 g.chat[c] \in Chat /\ g.chat[c].nick \in Nick /\ g.chat[c].session \in Nick
           /\ \A n \in Nick : g.table[n] \in Chats \cup {None} /\ g.control[n] \in Chats \cup {None}
           /\ \A n \in Nick : g.events[n] \in Nat /\ g.contact[n] \in Contact \cup {None}
  BY DEF Good, Gc, Chat

LEMMA SetSessionGood ==
    ASSUME NEW g, Good(g), NEW c \in Chats, g.chat[c] # None, NEW n \in Nick,
           NEW t, t = SetSession(g, c, n)
    PROVE  /\ Good(t)
           /\ t.open = g.open /\ t.contact = g.contact /\ t.rows = g.rows
           /\ t.events = g.events /\ t.table = g.table
           /\ t.chat = [g.chat EXCEPT ![c].session = n]
<1> DEFINE old == g.chat[c].session
<1>1. g \in Gc /\ Listed(g) /\ Found(g) /\ g.chat[c] \in Chat /\ old \in Nick
  BY Chatting DEF Good
<1>2. /\ t.open = g.open /\ t.contact = g.contact /\ t.rows = g.rows
      /\ t.events = g.events /\ t.table = g.table
      /\ t.chat = [g.chat EXCEPT ![c].session = n]
      /\ t.control = [g.control EXCEPT ![old] = IF old = n THEN @ ELSE None, ![n] = c]
  BY <1>1 DEF SetSession, Gc
<1>3. t \in Gc
  <2>1. [g.chat[c] EXCEPT !.session = n] \in Chat
    BY <1>1 DEF Chat
  <2>2. /\ [g.chat EXCEPT ![c].session = n] \in [Chats -> Chat \cup {None}]
        /\ [g.control EXCEPT ![old] = IF old = n THEN @ ELSE None, ![n] = c]
               \in [Nick -> Chats \cup {None}]
    BY <1>1, <2>1 DEF Gc
  <2> QED
    BY <1>1, <2>2 DEF SetSession, Gc
<1>4. Listed(t)
  BY <1>1, <1>2 DEF Listed, HasRow
<1>5. /\ \A d \in Chats : d # c => t.chat[d] = g.chat[d]
      /\ t.chat[c] \in Chat /\ t.chat[c].nick = g.chat[c].nick /\ t.chat[c].session = n
  <2>1. /\ \A d \in Chats : d # c => t.chat[d] = g.chat[d]
        /\ t.chat[c] = [g.chat[c] EXCEPT !.session = n]
    BY <1>1, <1>2 DEF Gc
  <2>2. LET x == [g.chat[c] EXCEPT !.session = n]
        IN  x \in Chat /\ x.nick = g.chat[c].nick /\ x.session = n
    BY <1>1 DEF Chat
  <2> QED
    BY <2>1, <2>2
<1>6. t.chat[c] # None
  BY <1>5, NamesAssumption
<1>7. \A m \in Nick : t.control[m] = IF m = n THEN c ELSE IF m = old THEN None ELSE g.control[m]
  BY <1>1, <1>2 DEF Gc
<1>8. ASSUME NEW m \in Nick, t.control[m] # None
      PROVE  t.chat[t.control[m]] # None /\ t.chat[t.control[m]].session = m
  <2>1. CASE m = n
    BY <1>5, <1>6, <1>7, <2>1
  <2>2. CASE m # n
    <3>1. m # old /\ t.control[m] = g.control[m] /\ g.control[m] \in Chats
      BY <1>7, <1>8, <2>2, Chatting
    <3>2. g.control[m] # c /\ g.chat[g.control[m]] # None /\ g.chat[g.control[m]].session = m
      BY <1>1, <1>8, <3>1 DEF Found
    <3> QED
      BY <1>5, <3>1, <3>2
  <2> QED
    BY <2>1, <2>2
<1>9. ASSUME NEW m \in Nick, t.table[m] # None
      PROVE  t.chat[t.table[m]] # None /\ t.chat[t.table[m]].nick = m
  <2>1. /\ g.table[m] \in Chats /\ t.table[m] = g.table[m]
        /\ g.chat[g.table[m]] # None /\ g.chat[g.table[m]].nick = m
    BY <1>1, <1>2, <1>9, Chatting DEF Found
  <2> QED
    BY <1>5, <1>6, <2>1
<1>10. Found(t)
  BY <1>8, <1>9 DEF Found
<1> QED
  BY <1>2, <1>3, <1>4, <1>10 DEF Good

LEMMA ReadQueueGood ==
    ASSUME NEW g, Good(g), NEW w, Told(g, w), NEW c \in Chats, g.chat[c] # None,
           NEW t, t = ReadQueue(g, c)
    PROVE  /\ Good(t) /\ Told(t, w)
           /\ \A n \in Nick : LingersIn(t, w, n) =>
                  \/ LingersIn(g, w, n)
                  \/ n = g.chat[c].nick /\ g.events[n] > 0 /\ g.table[n] # c
<1> DEFINE n == g.chat[c].nick
           h == SetSession(g, c, n)
           gone == g.chat[c].show = "offline" /\ g.contact[n] # None
           s == [h EXCEPT !.events[n] = 0,
                          !.astray = @ \/ (gone /\ g.table[n] # c)]
<1>1. g \in Gc /\ g.chat[c] \in Chat /\ n \in Nick /\ g.events[n] \in Nat
  BY Chatting DEF Good
<1>2. CASE g.events[n] = 0
  BY <1>2 DEF ReadQueue
<1>3. CASE g.events[n] # 0
  <2>1. /\ Good(h)
        /\ h.open = g.open /\ h.contact = g.contact /\ h.rows = g.rows
        /\ h.events = g.events /\ h.table = g.table
        /\ h.chat = [g.chat EXCEPT ![c].session = n]
    BY <1>1, SetSessionGood
  <2>2. t = IF gone THEN RemoveContact(s, n) ELSE s
    BY <1>3 DEF ReadQueue
  <2>3. h \in Gc
    BY <2>1 DEF Good
  <2> HIDE DEF h
  <2>0. (h.astray \/ (gone /\ g.table[n] # c)) \in BOOLEAN
    BY <2>3 DEF Gc
  <2>4. /\ s \in Gc /\ s.open = g.open /\ s.contact = g.contact /\ s.rows = g.rows
        /\ s.table = g.table /\ s.chat = h.chat /\ s.control = h.control
        /\ s.events = [g.events EXCEPT ![n] = 0]
    BY <1>1, <2>0, <2>1, <2>3 DEF Gc
  <2> HIDE DEF s
  <2>5. Good(s)
    <3>1. Listed(s)
      BY <2>1, <2>4 DEF Good, Listed, HasRow
    <3>2. Found(s)
      BY <2>1, <2>4 DEF Good, Found
    <3> QED
      BY <2>4, <3>1, <3>2 DEF Good
  <2>6. ASSUME NEW d \in Chats, g.chat[d] # None
        PROVE  s.chat[d].show = g.chat[d].show
    <3>1. g.chat \in [Chats -> Chat \cup {None}] /\ g.chat[d] \in Chat
      BY <1>1, <2>6 DEF Gc
    <3>2. s.chat[d] = IF d = c THEN [g.chat[d] EXCEPT !.session = n] ELSE g.chat[d]
      BY <2>1, <2>4, <3>1
    <3> QED
      BY <3>1, <3>2 DEF Chat
  <2>7. Told(s, w)
    <3> SUFFICES ASSUME NEW m \in Nick, s.table[m] # None, s.contact[m] # None,
                        s.contact[m].show = "offline", ~Seen(w, m)
                 PROVE  s.chat[s.table[m]].show = "offline"
      BY DEF Told, ToldOf
    <3>1. /\ g.table[m] \in Chats /\ g.chat[g.table[m]] # None
          /\ g.chat[g.table[m]].show = "offline"
      BY <2>4, Chatting DEF Told, ToldOf, Good, Found
    <3> QED
      BY <2>4, <2>6, <3>1
  <2>8. \A m \in Nick : m # n => s.events[m] = g.events[m]
    BY <1>1, <2>4 DEF Gc
  <2>9. CASE gone
    <3>1. t = RemoveContact(s, n)
      BY <2>2, <2>9
    <3>2. Good(t) /\ SameChats(s, t) /\ t.contact = [s.contact EXCEPT ![n] = None]
      BY <1>1, <2>5, <3>1, RemoveContactGood
    <3>3. t.contact[n] = None /\ \A m \in Nick : m # n => t.contact[m] = g.contact[m]
      BY <1>1, <2>4, <3>2 DEF Gc
    <3>4. Told(t, w)
      BY <2>4, <2>7, <3>2, <3>3 DEF Told, ToldOf, SameChats
    <3>5. \A m \in Nick : LingersIn(t, w, m) => LingersIn(g, w, m)
      BY <2>8, <3>2, <3>3 DEF LingersIn, SameChats
    <3> QED
      BY <3>2, <3>4, <3>5
  <2>10. CASE ~gone
    <3>1. t = s
      BY <2>2, <2>10
    <3>2. ASSUME NEW m \in Nick, LingersIn(t, w, m), ~LingersIn(g, w, m)
          PROVE  m = n /\ g.events[m] > 0 /\ g.table[m] # c
      <4>1. m = n /\ g.contact[n] # None /\ g.contact[n].show = "offline" /\ ~Seen(w, n)
        BY <2>4, <2>8, <3>1, <3>2 DEF LingersIn
      <4>2. g.table[n] # c
        <5> SUFFICES ASSUME g.table[n] = c PROVE FALSE
          OBVIOUS
        <5>1. g.chat[c].show = "offline"
          BY <1>1, <4>1, NamesAssumption DEF Told, ToldOf
        <5> QED
          BY <2>10, <4>1, <5>1
      <4> QED
        BY <1>1, <1>3, <4>1, <4>2
    <3> QED
      BY <2>5, <2>7, <3>1, <3>2
  <2> QED
    BY <2>9, <2>10
<1> QED
  BY <1>2, <1>3

LEMMA ChangeKeyGood ==
    ASSUME NEW g, Good(g), NEW old \in Nick, NEW new \in Nick, old # new,
           g.table[old] # None, g.contact[new] # None,
           NEW w, \A m \in Nick \ {old} : ToldOf(g, w, m),
           NEW t, t = ChangeKey(g, old, new)
    PROVE  /\ Good(t) /\ Told(t, w)
           /\ t.open = g.open /\ t.contact = g.contact /\ t.events = g.events
<1> DEFINE c == g.table[old]
           show == g.contact[new].show
<1>1. /\ g \in Gc /\ Listed(g) /\ Found(g) /\ c \in Chats /\ g.chat[c] \in Chat
      /\ g.chat[c].nick = old /\ show \in {"online", "offline"}
  BY Chatting DEF Good, Found, Contact
<1>2. /\ t.open = g.open /\ t.contact = g.contact /\ t.rows = g.rows
      /\ t.events = g.events /\ t.control = g.control
      /\ t.chat = [g.chat EXCEPT ![c].nick = new, ![c].show = show]
      /\ t.table = [g.table EXCEPT ![new] = c, ![old] = None]
  BY <1>1 DEF ChangeKey, Gc
<1>3. t \in Gc
  <2>1. [g.chat[c] EXCEPT !.nick = new, !.show = show] \in Chat
    BY <1>1 DEF Chat
  <2>2. /\ [g.chat EXCEPT ![c].nick = new, ![c].show = show] \in [Chats -> Chat \cup {None}]
        /\ [g.table EXCEPT ![new] = c, ![old] = None] \in [Nick -> Chats \cup {None}]
    BY <1>1, <2>1 DEF Gc
  <2> QED
    BY <1>1, <2>2 DEF ChangeKey, Gc
<1> HIDE DEF c, show
<1>4. /\ \A d \in Chats : d # c => t.chat[d] = g.chat[d]
      /\ t.chat[c] \in Chat /\ t.chat[c].nick = new /\ t.chat[c].show = show
      /\ t.chat[c].session = g.chat[c].session
  <2>1. g.chat \in [Chats -> Chat \cup {None}]
    BY <1>1 DEF Gc
  <2>2. t.chat[c] = [g.chat[c] EXCEPT !.nick = new, !.show = show]
    BY <1>1, <1>2, <2>1
  <2> QED
    BY <1>1, <1>2, <2>1, <2>2 DEF Chat
<1>5. \A m \in Nick : t.table[m] = IF m = new THEN c ELSE IF m = old THEN None ELSE g.table[m]
  BY <1>1, <1>2 DEF Gc
<1>6. t.chat[c] # None
  BY <1>4, NamesAssumption
<1>7. ASSUME NEW m \in Nick \ {old, new}, t.table[m] # None
      PROVE  /\ t.table[m] = g.table[m] /\ t.table[m] \in Chats /\ t.chat[t.table[m]] = g.chat[t.table[m]]
             /\ t.chat[t.table[m]] # None /\ t.chat[t.table[m]].nick = m
  <2>1. t.table[m] = g.table[m] /\ g.table[m] \in Chats
    BY <1>5, <1>7, Chatting
  <2>2. g.chat[g.table[m]] # None /\ g.chat[g.table[m]].nick = m
    BY <1>1, <1>7, <2>1 DEF Found
  <2> QED
    BY <1>1, <1>4, <2>1, <2>2
<1>8. ASSUME NEW m \in Nick, t.control[m] # None
      PROVE  t.chat[t.control[m]] # None /\ t.chat[t.control[m]].session = m
  <2>1. /\ t.control[m] = g.control[m] /\ g.control[m] \in Chats
        /\ g.chat[g.control[m]] # None /\ g.chat[g.control[m]].session = m
    BY <1>1, <1>2, <1>8, Chatting DEF Found
  <2> QED
    BY <1>4, <1>6, <2>1
<1>9. Found(t)
  BY <1>4, <1>5, <1>6, <1>7, <1>8 DEF Found
<1>10. Listed(t)
  BY <1>1, <1>2 DEF Listed, HasRow
<1>11. ASSUME NEW m \in Nick PROVE ToldOf(t, w, m)
  <2>1. CASE m = old
    BY <1>5, <2>1 DEF ToldOf
  <2>2. CASE m = new
    BY <1>2, <1>4, <1>5, <2>2 DEF ToldOf, show
  <2>3. CASE m \in Nick \ {old, new}
    BY <1>2, <1>7, <2>3 DEF ToldOf
  <2> QED
    BY <2>1, <2>2, <2>3
<1> QED
  BY <1>2, <1>3, <1>9, <1>10, <1>11 DEF Good, Told

LEMMA CloseChatGood ==
    ASSUME NEW g, Good(g), NEW w, Told(g, w), NEW c \in Chats, g.chat[c] # None,
           NEW t, t = CloseChat(g, c)
    PROVE  /\ Good(t) /\ Told(t, w) /\ t.chat[c] = None
           /\ \A n \in Nick : LingersIn(t, w, n) =>
                  \/ LingersIn(g, w, n)
                  \/ n = g.chat[c].nick /\ g.events[n] > 0
<1> DEFINE n == g.chat[c].nick
           old == g.chat[c].session
<1>1. /\ g \in Gc /\ Listed(g) /\ Found(g) /\ g.chat[c] \in Chat
      /\ n \in Nick /\ old \in Nick /\ g.events[n] \in Nat
  BY Chatting DEF Good
<1>2. /\ t.open = g.open /\ t.contact = g.contact /\ t.rows = g.rows
      /\ t.events = [g.events EXCEPT ![n] = 0]
      /\ t.control = [g.control EXCEPT ![old] = None]
      /\ t.chat = [g.chat EXCEPT ![c] = None]
      /\ t.table = [g.table EXCEPT ![n] = None]
  BY <1>1 DEF CloseChat, Gc
<1>3. t \in Gc
  BY <1>1 DEF CloseChat, Gc
<1>4. ASSUME NEW m \in Nick, t.table[m] # None
      PROVE  /\ t.table[m] = g.table[m] /\ g.table[m] \in Chats \ {c}
             /\ t.chat[t.table[m]] = g.chat[t.table[m]]
             /\ g.chat[t.table[m]] # None /\ g.chat[t.table[m]].nick = m
  <2>1. m # n /\ t.table[m] = g.table[m] /\ g.table[m] \in Chats
    BY <1>1, <1>2, <1>4, Chatting DEF Gc
  <2>2. g.chat[g.table[m]] # None /\ g.chat[g.table[m]].nick = m
    BY <1>1, <1>4, <2>1 DEF Found
  <2>3. g.table[m] # c
    BY <2>1, <2>2
  <2> QED
    BY <1>1, <1>2, <2>1, <2>2, <2>3 DEF Gc
<1>5. ASSUME NEW m \in Nick, t.control[m] # None
      PROVE  t.chat[t.control[m]] # None /\ t.chat[t.control[m]].session = m
  <2>1. m # old /\ t.control[m] = g.control[m] /\ g.control[m] \in Chats
    BY <1>1, <1>2, <1>5, Chatting DEF Gc
  <2>2. g.chat[g.control[m]] # None /\ g.chat[g.control[m]].session = m
    BY <1>1, <1>5, <2>1 DEF Found
  <2>3. g.control[m] # c
    BY <2>1, <2>2
  <2> QED
    BY <1>1, <1>2, <2>1, <2>2, <2>3 DEF Gc
<1>6. Found(t)
  BY <1>4, <1>5 DEF Found
<1>7. Listed(t)
  BY <1>1, <1>2 DEF Listed, HasRow
<1>8. Told(t, w)
  BY <1>2, <1>4 DEF Told, ToldOf
<1>9. t.chat[c] = None
  BY <1>1, <1>2 DEF Gc
<1>10. \A m \in Nick : m # n => t.events[m] = g.events[m]
  BY <1>1, <1>2 DEF Gc
<1>11. ASSUME NEW m \in Nick, LingersIn(t, w, m), ~LingersIn(g, w, m)
       PROVE  m = n /\ g.events[m] > 0
  BY <1>1, <1>2, <1>10, <1>11 DEF LingersIn
<1> QED
  BY <1>3, <1>6, <1>7, <1>8, <1>9, <1>11 DEF Good

LEMMA NewPrivateChatGood ==
    ASSUME NEW g, Good(g), NEW w, Told(g, w), NEW n \in Nick,
           NEW show \in {"online", "offline"}, g.contact[n] # None => show = g.contact[n].show,
           NEW t \in NewPrivateChat(g, n, show)
    PROVE  /\ Good(t) /\ Told(t, w)
           /\ \A m \in Nick : LingersIn(t, w, m) => LingersIn(g, w, m) \/ Elsewhere(g, m)
<1>1. CASE g.control[n] # None
  <2> DEFINE c == g.control[n]
  <2>1. t = ReadQueue(g, c) /\ c \in Chats /\ g.chat[c] # None
    BY <1>1, Chatting DEF NewPrivateChat, Good, Found
  <2>2. /\ Good(t) /\ Told(t, w)
        /\ \A m \in Nick : LingersIn(t, w, m) =>
               \/ LingersIn(g, w, m)
               \/ m = g.chat[c].nick /\ g.events[m] > 0 /\ g.table[m] # c
    BY <2>1, ReadQueueGood
  <2> QED
    BY <2>1, <2>2 DEF Elsewhere
<1>2. CASE g.control[n] = None
  <2>1. PICK c \in Chats :
            /\ g.chat[c] = None
            /\ t = ReadQueue([g EXCEPT
                      !.chat[c] = [nick |-> n, session |-> n, show |-> show],
                      !.table[n] = c, !.control[n] = c], c)
    BY <1>2 DEF NewPrivateChat
  <2> DEFINE new == [nick |-> n, session |-> n, show |-> show]
             h == [g EXCEPT !.chat[c] = new, !.table[n] = c, !.control[n] = c]
  <2>2. new \in Chat /\ new.nick = n /\ new.session = n /\ new.show = show
    BY DEF Chat
  <2>3. new # None
    BY <2>2, NamesAssumption
  <2> HIDE DEF new
  <2>4. g \in Gc /\ Listed(g) /\ Found(g)
    BY DEF Good
  <2>5. h \in Gc
    BY <2>2, <2>4 DEF Gc
  <2>6. /\ h.open = g.open /\ h.contact = g.contact /\ h.rows = g.rows /\ h.events = g.events
        /\ h.chat = [g.chat EXCEPT ![c] = new]
        /\ h.table = [g.table EXCEPT ![n] = c]
        /\ h.control = [g.control EXCEPT ![n] = c]
    BY <2>4 DEF Gc
  <2>7. t = ReadQueue(h, c)
    BY <2>1 DEF new
  <2> HIDE DEF h
  <2>8. /\ h.chat[c] = new /\ h.table[n] = c /\ h.control[n] = c
        /\ \A d \in Chats : g.chat[d] # None => h.chat[d] = g.chat[d]
        /\ \A m \in Nick \ {n} : h.table[m] = g.table[m] /\ h.control[m] = g.control[m]
    BY <2>1, <2>4, <2>6 DEF Gc
  <2>9. ASSUME NEW m \in Nick, h.table[m] # None
        PROVE  h.chat[h.table[m]] # None /\ h.chat[h.table[m]].nick = m
    BY <2>2, <2>3, <2>4, <2>8, <2>9, Chatting DEF Found
  <2>10. ASSUME NEW m \in Nick, h.control[m] # None
         PROVE  h.chat[h.control[m]] # None /\ h.chat[h.control[m]].session = m
    BY <2>2, <2>3, <2>4, <2>8, <2>10, Chatting DEF Found
  <2>11. Good(h)
    BY <2>4, <2>5, <2>6, <2>9, <2>10 DEF Good, Listed, Found, HasRow
  <2>12. ASSUME NEW m \in Nick PROVE ToldOf(h, w, m)
    <3>1. CASE m = n
      BY <2>2, <2>6, <2>8, <3>1 DEF ToldOf
    <3>2. CASE m # n
      BY <2>4, <2>6, <2>8, <3>2, Chatting DEF Told, ToldOf, Found
    <3> QED
      BY <3>1, <3>2
  <2>13. Told(h, w) /\ h.chat[c] # None /\ h.chat[c].nick = n
    BY <2>2, <2>3, <2>8, <2>12 DEF Told
  <2>14. /\ Good(t) /\ Told(t, w)
         /\ \A m \in Nick : LingersIn(t, w, m) =>
                \/ LingersIn(h, w, m)
                \/ m = h.chat[c].nick /\ h.events[m] > 0 /\ h.table[m] # c
    BY <2>7, <2>11, <2>13, ReadQueueGood
  <2>15. \A m \in Nick : LingersIn(h, w, m) => LingersIn(g, w, m)
    BY <2>6 DEF LingersIn
  <2> QED
    BY <2>8, <2>13, <2>14, <2>15
<1> QED
  BY <1>1, <1>2

\* What is shown and read does not depend on the rest of the window
LEMMA RestGood ==
    ASSUME NEW g, Good(g), NEW w, Told(g, w), NEW t \in Gc,
           g.open => t.open, t.contact = g.contact, t.rows = g.rows, t.events = g.events,
           t.chat = g.chat, t.table = g.table, t.control = g.control
    PROVE  /\ Good(t) /\ Told(t, w)
           /\ \A n \in Nick : LingersIn(t, w, n) => LingersIn(g, w, n)
  BY DEF Good, Listed, Found, HasRow, Told, ToldOf, LingersIn

-----------------------------------------------------------------------------
(* The stanzas of the room.                                                *)

LEMMA ContactSaysGood ==
    ASSUME NEW g, Good(g), NEW n \in Nick, g.contact[n] # None,
           NEW show \in {"online", "offline"},
           NEW t, t = [g EXCEPT !.contact[n].show = show]
    PROVE  /\ Good(t) /\ SameChats(g, t) /\ t.nick = g.nick
           /\ t.contact[n] # None /\ t.contact[n].show = show
           /\ \A m \in Nick \ {n} : t.contact[m] = g.contact[m]
<1>1. g \in Gc /\ Listed(g) /\ Found(g) /\ g.contact \in [Nick -> Contact \cup {None}]
  BY DEF Good, Gc
<1>2. g.contact[n] \in Contact
  BY <1>1
<1>3. [g.contact[n] EXCEPT !.show = show] \in Contact
  BY <1>2 DEF Contact
<1>4. /\ SameChats(g, t) /\ t.nick = g.nick /\ t.rows = g.rows
      /\ t.contact = [g.contact EXCEPT ![n].show = show]
  BY <1>1 DEF Gc, SameChats
<1>5. t.contact \in [Nick -> Contact \cup {None}]
  BY <1>1, <1>3, <1>4
<1>6. t \in Gc
  BY <1>1, <1>5 DEF Gc
<1>7. t.contact[n] = [g.contact[n] EXCEPT !.show = show]
  BY <1>1, <1>4
<1>8. t.contact[n] # None /\ t.contact[n].show = show
  BY <1>2, <1>3, <1>7, NamesAssumption DEF Contact
<1>9. \A m \in Nick \ {n} : t.contact[m] = g.contact[m]
  BY <1>1, <1>4
<1>10. Listed(t) /\ Found(t)
  BY <1>1, <1>4, <1>9 DEF Listed, Found, HasRow, SameChats
<1> QED
  BY <1>4, <1>6, <1>8, <1>9, <1>10 DEF Good

ChatSays(g, n, show) == [g EXCEPT !.chat[g.table[n]].show = show]

LEMMA ChatSaysGood ==
    ASSUME NEW g, Good(g), NEW n \in Nick, g.table[n] # None,
           NEW show \in {"online", "offline"}, NEW w,
           \A m \in Nick \ {n} : ToldOf(g, w, m),
           g.contact[n] # None => show = g.contact[n].show,
           NEW t, t = ChatSays(g, n, show)
    PROVE  /\ Good(t) /\ Told(t, w)
           /\ t.open = g.open /\ t.contact = g.contact /\ t.events = g.events
<1> DEFINE c == g.table[n]
<1>1. /\ g \in Gc /\ Listed(g) /\ Found(g) /\ g.chat \in [Chats -> Chat \cup {None}]
      /\ c \in Chats /\ g.chat[c] \in Chat /\ g.chat[c].nick = n
  BY Chatting DEF Good, Gc, Found
<1> HIDE DEF c
<1>2. /\ t.open = g.open /\ t.contact = g.contact /\ t.events = g.events
      /\ t.rows = g.rows /\ t.table = g.table /\ t.control = g.control
      /\ t.chat = [g.chat EXCEPT ![c].show = show]
  BY <1>1 DEF Gc, c, ChatSays
<1>3. [g.chat[c] EXCEPT !.show = show] \in Chat
  BY <1>1 DEF Chat
<1>4. t.chat[c] = [g.chat[c] EXCEPT !.show = show]
  BY <1>1, <1>2
<1>5. /\ \A d \in Chats : d # c => t.chat[d] = g.chat[d]
      /\ t.chat[c] # None /\ t.chat[c].show = show
      /\ t.chat[c].nick = g.chat[c].nick /\ t.chat[c].session = g.chat[c].session
  BY <1>1, <1>2, <1>3, <1>4, NamesAssumption DEF Chat
<1>6. t \in Gc
  <2>0. [g.chat EXCEPT ![c].show = show] \in [Chats -> Chat \cup {None}]
    BY <1>1, <1>3
  <2>1. t.chat \in [Chats -> Chat \cup {None}]
    BY <1>2, <2>0
  <2>2. t = [g EXCEPT !.chat = t.chat]
    BY <1>1, <1>2 DEF Gc, c, ChatSays
  <2> QED
    BY <1>1, <2>1, <2>2 DEF Gc
<1>7. Listed(t)
  BY <1>1, <1>2 DEF Listed, HasRow
<1>8. ASSUME NEW m \in Nick, t.table[m] # None
      PROVE  /\ t.chat[t.table[m]] # None /\ t.chat[t.table[m]].nick = m
             /\ m # n => t.chat[t.table[m]] = g.chat[g.table[m]]
  BY <1>1, <1>2, <1>5, <1>8, Chatting DEF Found
<1>9. ASSUME NEW m \in Nick, t.control[m] # None
      PROVE  t.chat[t.control[m]] # None /\ t.chat[t.control[m]].session = m
  BY <1>1, <1>2, <1>5, <1>9, Chatting DEF Found
<1>10. Found(t)
  BY <1>8, <1>9 DEF Found
<1>11. ASSUME NEW m \in Nick PROVE ToldOf(t, w, m)
  <2>1. CASE m = n
    <3>1. t.chat[t.table[m]].show = show /\ t.contact[m] = g.contact[n]
      BY <1>2, <1>5, <2>1 DEF c
    <3> QED
      BY <2>1, <3>1 DEF ToldOf
  <2>2. CASE m # n
    <3>1. ToldOf(g, w, m)
      BY <2>2
    <3>2. /\ t.contact[m] = g.contact[m] /\ t.table[m] = g.table[m]
          /\ t.table[m] # None => t.chat[t.table[m]] = g.chat[g.table[m]]
      BY <1>2, <1>8, <2>2
    <3> QED
      BY <3>1, <3>2, Zenon DEF ToldOf
  <2> QED
    BY <2>1, <2>2
<1> QED
  BY <1>2, <1>6, <1>7, <1>10, <1>11 DEF Good, Told

LEMMA TakeNickGood ==
    ASSUME NEW g, Good(g), NEW st \in Stanza, st.new # None, NEW t, t = TakeNick(g, st)
    PROVE  /\ Good(t) /\ SameChats(g, t)
           /\ t.contact = g.contact
<1>1. g \in Gc /\ Listed(g) /\ Found(g) /\ st.new \in Nick /\ st.nick \in Nick
  BY DEF Good, Stanza
<1>2. t \in Gc
  BY <1>1 DEF TakeNick, Gc
<1>3. SameChats(g, t) /\ t.contact = g.contact /\ t.rows = g.rows
  BY <1>1 DEF TakeNick, SameChats, Gc
<1>4. Listed(t) /\ Found(t)
  BY <1>1, <1>3 DEF Listed, Found, HasRow, SameChats
<1> QED
  BY <1>2, <1>3, <1>4 DEF Good

LEMMA UnavailableGood ==
    ASSUME NEW g, Good(g), g.open, NEW st \in Stanza, NEW w, Told(g, w),
           st.new # None => st.new # st.nick /\ Seen(w, st.new),
           NEW t, t = Unavailable(g, st)
    PROVE  /\ Good(t) /\ Told(t, w)
           /\ \A m \in Nick : LingersIn(t, w, m) => LingersIn(g, w, m)
<1> DEFINE n == st.nick
           g2 == IF st.new = None THEN g
                 ELSE AddContact(TakeNick(g, st), st.new, "offline", st.role)
           g3 == IF g2.events[n] = 0 THEN RemoveContact(g2, n)
                 ELSE [g2 EXCEPT !.contact[n].show = "offline"]
           g4 == IF st.new = None /\ n = g3.nick THEN GotDisconnected(g3) ELSE g3
           c == g4.table[n]
<1>1. n \in Nick /\ st.role \in Roles /\ st.new \in Nick \cup {None}
  BY DEF Stanza
<1>2. t = IF g2.events[n] # 0 /\ g2.contact[n] = None
          THEN [g2 EXCEPT !.astray = @ \/ n = g2.nick]
          ELSE IF c = None THEN g4
          ELSE IF st.new # None THEN ChangeKey(g4, n, st.new)
          ELSE [g4 EXCEPT !.chat[c].show = "offline"]
  BY DEF Unavailable
<1> HIDE DEF g2
<1>3. /\ Good(g2) /\ SameChats(g, g2) /\ Told(g2, w)
      /\ st.new # None => g2.contact[st.new] # None
      /\ \A m \in Nick : LingersIn(g2, w, m) => LingersIn(g, w, m)
  <2>1. CASE st.new = None
    BY <2>1 DEF g2, SameChats
  <2>2. CASE st.new # None
    <3> DEFINE h == TakeNick(g, st)
    <3>1. Good(h) /\ SameChats(g, h) /\ h.contact = g.contact
      BY <2>2, TakeNickGood
    <3> HIDE DEF h
    <3>2. g2 = AddContact(h, st.new, "offline", st.role)
      BY <2>2 DEF g2, h
    <3>3. h \in Gc /\ h.open /\ st.new \in Nick
      BY <1>1, <2>2, <3>1 DEF Good, SameChats
    <3>4. Good(g2)
      BY <1>1, <3>1, <3>2, <3>3, AddContactGood
    <3>5. /\ SameChats(h, g2)
          /\ g2.contact = [h.contact EXCEPT ![st.new] =
                             IF @ = None THEN [show |-> "offline", role |-> st.role] ELSE @]
      BY <1>1, <3>2, <3>3, AddContactIs
    <3>6. SameChats(g, g2)
      BY <3>1, <3>5 DEF SameChats
    <3>7. \A m \in Nick \ {st.new} : g2.contact[m] = g.contact[m]
      BY <3>1, <3>3, <3>5 DEF Gc
    <3>8. g2.contact[st.new] # None
      <4>1. [show |-> "offline", role |-> st.role] # None
        BY <1>1, NamesAssumption DEF Contact
      <4> QED
        BY <3>1, <3>3, <3>5, <4>1 DEF Gc
    <3>9. Told(g2, w)
      BY <2>2, <3>6, <3>7 DEF Told, ToldOf, SameChats
    <3>10. \A m \in Nick : LingersIn(g2, w, m) => LingersIn(g, w, m)
      BY <2>2, <3>6, <3>7 DEF LingersIn, SameChats
    <3> QED
      BY <3>4, <3>6, <3>8, <3>9, <3>10
  <2> QED
    BY <2>1, <2>2
<1>4. CASE g2.events[n] # 0 /\ g2.contact[n] = None
  <2>1. t = [g2 EXCEPT !.astray = @ \/ n = g2.nick] /\ g2 \in Gc
    BY <1>2, <1>3, <1>4 DEF Good
  <2>2. (g2.astray \/ n = g2.nick) \in BOOLEAN
    BY <2>1 DEF Gc
  <2>3. /\ t \in Gc /\ t.open = g2.open /\ t.contact = g2.contact /\ t.rows = g2.rows
        /\ t.events = g2.events /\ t.chat = g2.chat /\ t.table = g2.table
        /\ t.control = g2.control
    BY <2>1, <2>2 DEF Gc
  <2> QED
    BY <1>3, <2>3, RestGood
<1>5. CASE ~(g2.events[n] # 0 /\ g2.contact[n] = None)
  <2> HIDE DEF g3
  <2>1. /\ Good(g3) /\ SameChats(g2, g3)
        /\ g3.contact[n] # None => g3.contact[n].show = "offline" /\ g3.events[n] # 0
        /\ \A m \in Nick \ {n} : g3.contact[m] = g2.contact[m]
    <3>1. CASE g2.events[n] = 0
      <4>1. g3 = RemoveContact(g2, n)
        BY <3>1 DEF g3
      <4>2. Good(g3) /\ SameChats(g2, g3) /\ g3.contact = [g2.contact EXCEPT ![n] = None]
        BY <1>1, <1>3, <4>1, RemoveContactGood
      <4>3. g2.contact \in [Nick -> Contact \cup {None}]
        BY <1>3 DEF Good, Gc
      <4>4. g3.contact[n] = None /\ \A m \in Nick \ {n} : g3.contact[m] = g2.contact[m]
        BY <1>1, <4>2, <4>3
      <4> QED
        BY <4>2, <4>4
    <3>2. CASE g2.events[n] # 0
      <4>1. g3 = [g2 EXCEPT !.contact[n].show = "offline"] /\ g2.contact[n] # None
        BY <1>5, <3>2 DEF g3
      <4>2. /\ Good(g3) /\ SameChats(g2, g3)
            /\ g3.contact[n] # None /\ g3.contact[n].show = "offline"
            /\ \A m \in Nick \ {n} : g3.contact[m] = g2.contact[m]
        BY <1>1, <1>3, <4>1, ContactSaysGood, SMTT(40)
      <4> QED
        BY <3>2, <4>2 DEF SameChats
    <3> QED
      BY <3>1, <3>2
  <2> HIDE DEF g4
  <2>2. /\ Good(g4) /\ SameChats(g2, g4)
        /\ g4.contact[n] # None => g4.contact[n].show = "offline" /\ g4.events[n] # 0
        /\ st.new # None => g4 = g3
        /\ \A m \in Nick \ {n} : g4.contact[m] \in {None, g2.contact[m]}
    <3>1. CASE st.new = None /\ n = g3.nick
      <4>1. g4 = GotDisconnected(g3)
        BY <3>1 DEF g4
      <4>2. Good(g4) /\ SameChats(g3, g4) /\ g4.contact = [m \in Nick |-> None]
        BY <2>1, <4>1, GotDisconnectedGood
      <4> QED
        BY <1>1, <2>1, <3>1, <4>2 DEF SameChats
    <3>2. CASE ~(st.new = None /\ n = g3.nick)
      <4>1. g4 = g3
        BY <3>2 DEF g4
      <4> QED
        BY <2>1, <4>1
    <3> QED
      BY <3>1, <3>2
  <2>3. \A m \in Nick \ {n} : ToldOf(g4, w, m)
    BY <1>3, <2>2 DEF Told, ToldOf, SameChats
  <2>4. \A m \in Nick : LingersIn(g4, w, m) => LingersIn(g2, w, m)
    BY <2>2 DEF LingersIn, SameChats
  <2>5. CASE c = None
    <3>1. t = g4
      BY <1>2, <1>5, <2>5
    <3>2. Told(g4, w)
      BY <2>3, <2>5 DEF Told, ToldOf
    <3> QED
      BY <1>3, <2>2, <2>4, <3>1, <3>2
  <2>6. CASE c # None /\ st.new # None
    <3>1. t = ChangeKey(g4, n, st.new)
      BY <1>2, <1>5, <2>6
    <3>2. st.new \in Nick /\ st.new # n /\ g4.contact[st.new] # None
      BY <1>1, <1>3, <2>1, <2>2, <2>6
    <3>3. /\ Good(t) /\ Told(t, w)
          /\ t.open = g4.open /\ t.contact = g4.contact /\ t.events = g4.events
      BY <1>1, <2>2, <2>3, <2>6, <3>1, <3>2, ChangeKeyGood
    <3> QED
      BY <1>3, <2>4, <3>3 DEF LingersIn
  <2>7. CASE c # None /\ st.new = None
    <3>1. t = [g4 EXCEPT !.chat[c].show = "offline"]
      BY <1>2, <1>5, <2>7
    <3>2. /\ Good(t) /\ Told(t, w)
          /\ t.open = g4.open /\ t.contact = g4.contact /\ t.events = g4.events
      <4>1. /\ "offline" \in {"online", "offline"} /\ g4.table[n] # None
            /\ g4.contact[n] # None => "offline" = g4.contact[n].show
            /\ t = ChatSays(g4, n, "offline")
        BY <2>2, <2>7, <3>1 DEF ChatSays
      <4> QED
        BY <1>1, <2>2, <2>3, <4>1, ChatSaysGood
    <3> QED
      BY <1>3, <2>4, <3>2 DEF LingersIn
  <2> QED
    BY <2>5, <2>6, <2>7
<1> QED
  BY <1>4, <1>5

LEMMA AvailableGood ==
    ASSUME NEW g, Good(g), g.open, NEW st \in Stanza, NEW w,
           \A m \in Nick \ {st.nick} : ToldOf(g, w, m),
           NEW t, t = Available(g, st)
    PROVE  /\ Good(t) /\ Told(t, w)
           /\ \A m \in Nick : LingersIn(t, w, m) => m # st.nick /\ LingersIn(g, w, m)
<1> DEFINE n == st.nick
           g1 == IF ~HasRow(g, n) THEN AddContact(g, n, "online", st.role)
                 ELSE IF g.contact[n].role # st.role
                 THEN AddContact(RemoveContact(g, n), n, "online", st.role)
                 ELSE [g EXCEPT !.contact[n].show = "online"]
           c == g.table[n]
           new == [show |-> "online", role |-> st.role]
<1>1. n \in Nick /\ st.role \in Roles
  BY DEF Stanza
<1> HIDE DEF g1
<1>3. new \in Contact /\ new # None /\ new.show = "online"
  BY <1>1, NamesAssumption DEF Contact
<1>4. CASE HasRow(g, n) /\ g.contact[n] = None
  <2>1. t = g
    BY <1>4 DEF Available
  <2>2. Told(t, w)
    BY <1>4, <2>1 DEF Told, ToldOf
  <2> QED
    BY <1>4, <2>1, <2>2 DEF LingersIn
<1>5. CASE ~(HasRow(g, n) /\ g.contact[n] = None)
  <2>1. /\ Good(g1) /\ SameChats(g, g1)
        /\ g1.contact[n] # None => g1.contact[n].show = "online"
        /\ \A m \in Nick \ {n} : g1.contact[m] = g.contact[m]
    <3> DEFINE Added(h) == /\ Good(h) /\ SameChats(g, h) /\ h.contact[n] = None
                           /\ \A m \in Nick \ {n} : h.contact[m] = g.contact[m]
    <3>1. ASSUME NEW h, Added(h), g1 = AddContact(h, n, "online", st.role)
          PROVE  /\ Good(g1) /\ SameChats(g, g1) /\ g1.contact[n] = new
                 /\ \A m \in Nick \ {n} : g1.contact[m] = g.contact[m]
      <4>1. h \in Gc /\ h.open /\ h.contact \in [Nick -> Contact \cup {None}]
        BY <3>1 DEF Good, SameChats, Gc
      <4>2. Good(g1)
        BY <1>1, <3>1, <4>1, AddContactGood
      <4>3. SameChats(h, g1) /\ g1.contact = [h.contact EXCEPT ![n] = IF @ = None THEN new ELSE @]
        BY <1>1, <3>1, <4>1, AddContactIs
      <4>4. g1.contact[n] = new /\ \A m \in Nick \ {n} : g1.contact[m] = g.contact[m]
        BY <1>1, <3>1, <4>1, <4>3
      <4> QED
        BY <3>1, <4>2, <4>3, <4>4 DEF SameChats
    <3>2. CASE ~HasRow(g, n)
      <4>1. Added(g)
        BY <1>1, <3>2 DEF Good, Listed, SameChats
      <4>2. g1 = AddContact(g, n, "online", st.role)
        BY <3>2 DEF g1
      <4> HIDE DEF Added
      <4> QED
        BY <1>3, <3>1, <4>1, <4>2
    <3>3. CASE HasRow(g, n) /\ g.contact[n].role # st.role
      <4> DEFINE h == RemoveContact(g, n)
      <4>1. g1 = AddContact(h, n, "online", st.role)
        BY <3>3 DEF g1
      <4> HIDE DEF h
      <4>2. Good(h) /\ SameChats(g, h) /\ h.contact = [g.contact EXCEPT ![n] = None]
        BY <1>1, RemoveContactGood DEF h
      <4>3. Added(h)
        BY <1>1, <4>2 DEF Good, Gc
      <4> HIDE DEF Added
      <4> QED
        BY <1>3, <3>1, <4>1, <4>3
    <3>4. CASE HasRow(g, n) /\ ~(g.contact[n].role # st.role)
      <4>1. g1 = [g EXCEPT !.contact[n].show = "online"] /\ g.contact[n] # None
        BY <1>5, <3>4 DEF g1
      <4> QED
        BY <1>1, <4>1, ContactSaysGood
    <3> QED
      BY <3>2, <3>3, <3>4
  <2>2. \A m \in Nick \ {n} : ToldOf(g1, w, m)
    BY <2>1 DEF ToldOf, SameChats
  <2>3. \A m \in Nick : LingersIn(g1, w, m) => m # n /\ LingersIn(g, w, m)
    BY <2>1 DEF LingersIn, SameChats
  <2>4. CASE c = None
    <3>1. t = g1
      BY <1>5, <2>4 DEF Available, g1
    <3>2. Told(g1, w)
      BY <2>1, <2>2, <2>4 DEF Told, ToldOf, SameChats
    <3> QED
      BY <2>1, <2>3, <3>1, <3>2
  <2>5. CASE c # None
    <3>1. t = [g1 EXCEPT !.chat[c].show = "online"]
      BY <1>5, <2>5 DEF Available, g1
    <3>2. /\ g1.table[n] # None /\ t = ChatSays(g1, n, "online")
          /\ "online" \in {"online", "offline"}
          /\ g1.contact[n] # None => "online" = g1.contact[n].show
      BY <2>1, <2>5, <3>1 DEF ChatSays, SameChats
    <3>3. /\ Good(t) /\ Told(t, w)
          /\ t.open = g1.open /\ t.contact = g1.contact /\ t.events = g1.events
      BY <1>1, <2>1, <2>2, <3>2, ChatSaysGood
    <3> QED
      BY <2>3, <3>3 DEF LingersIn
  <2> QED
    BY <2>4, <2>5
<1> QED
  BY <1>4, <1>5

LEMMA MessageGood ==
    ASSUME NEW g, Good(g), NEW st \in Stanza, NEW w, Told(g, w),
           NEW t, t = Message(g, st)
    PROVE  /\ Good(t) /\ Told(t, w)
           /\ \A m \in Nick : LingersIn(t, w, m) => LingersIn(g, w, m)
<1> DEFINE n == st.nick
           c == g.table[n]
<1>1. n \in Nick /\ g \in Gc /\ g.events[n] \in Nat /\ Listed(g) /\ Found(g)
  BY Chatting DEF Stanza, Good
<1>2. CASE g.control[n] # None
  BY <1>2 DEF Message
<1>3. CASE g.control[n] = None /\ c # None
  <2>1. t = SetSession(g, c, n) /\ c \in Chats /\ g.chat[c] # None
    BY <1>1, <1>3, Chatting DEF Message, Found
  <2>2. /\ Good(t)
        /\ t.open = g.open /\ t.contact = g.contact /\ t.events = g.events
        /\ t.table = g.table /\ t.chat = [g.chat EXCEPT ![c].session = n]
    BY <1>1, <2>1, SetSessionGood
  <2>3. ASSUME NEW d \in Chats, g.chat[d] # None
        PROVE  t.chat[d].show = g.chat[d].show
    <3>1. g.chat \in [Chats -> Chat \cup {None}] /\ g.chat[d] \in Chat
      BY <1>1, <2>3 DEF Gc
    <3>2. t.chat[d] = IF d = c THEN [g.chat[d] EXCEPT !.session = n] ELSE g.chat[d]
      BY <2>2, <3>1
    <3> QED
      BY <3>1, <3>2 DEF Chat
  <2>4. ASSUME NEW m \in Nick PROVE ToldOf(t, w, m)
    <3>1. g.table[m] # None => g.table[m] \in Chats /\ g.chat[g.table[m]] # None
      BY <1>1, Chatting DEF Found
    <3>2. ToldOf(g, w, m)
      BY DEF Told
    <3> QED
      BY <2>2, <2>3, <3>1, <3>2 DEF ToldOf
  <2> QED
    BY <2>2, <2>4 DEF Told, LingersIn
<1>4. CASE g.control[n] = None /\ c = None
  <2>1. t = [g EXCEPT !.events[n] = @ + 1]
    BY <1>4 DEF Message
  <2>2. /\ t \in Gc /\ t.open = g.open /\ t.contact = g.contact /\ t.rows = g.rows
        /\ t.chat = g.chat /\ t.table = g.table /\ t.control = g.control
        /\ t.events = [g.events EXCEPT ![n] = @ + 1]
    <3>1. [g.events EXCEPT ![n] = @ + 1] \in [Nick -> Nat]
      BY <1>1 DEF Gc
    <3> QED
      BY <1>1, <2>1, <3>1 DEF Gc
  <2>3. Good(t) /\ Told(t, w)
    BY <1>1, <2>2 DEF Good, Listed, Found, HasRow, Told, ToldOf
  <2>4. \A m \in Nick : t.events[m] = 0 => g.events[m] = 0
    BY <1>1, <2>2 DEF Gc
  <2> QED
    BY <2>2, <2>3, <2>4 DEF LingersIn
<1> QED
  BY <1>2, <1>3, <1>4

-----------------------------------------------------------------------------
(* What is on the way.                                                     *)

\* Once there is more on the way, all that was on the way still is
LEMMA MoreSeen ==
    ASSUME NEW u \in Seq(Stanza), NEW v \in Seq(Stanza), Paired(u), Paired(v)
    PROVE  /\ u \o v \in Seq(Stanza) /\ Paired(u \o v)
           /\ \A n : Seen(u, n) => Seen(u \o v, n)
<1> DEFINE w == u \o v
<1>1. /\ w \in Seq(Stanza) /\ Len(w) = Len(u) + Len(v) /\ Len(u) \in Nat /\ Len(v) \in Nat
      /\ DOMAIN w = 1 .. Len(w) /\ DOMAIN u = 1 .. Len(u) /\ DOMAIN v = 1 .. Len(v)
  OBVIOUS
<1>2. \A i \in 1 .. Len(w) : w[i] = IF i <= Len(u) THEN u[i] ELSE v[i - Len(u)]
  OBVIOUS
<1> HIDE DEF w
<1>3. \A n : Seen(u, n) => Seen(w, n)
  BY <1>1, <1>2 DEF Seen
<1>4. ASSUME NEW i \in DOMAIN w, w[i].kind = "unavailable", w[i].new # None
      PROVE  /\ w[i].new # w[i].nick
             /\ i + 1 \in DOMAIN w
             /\ w[i + 1].kind = "available" /\ w[i + 1].nick = w[i].new
  <2>1. CASE i <= Len(u)
    <3>1. i \in DOMAIN u /\ w[i] = u[i]
      BY <1>1, <1>2, <2>1
    <3>2. /\ u[i].new # u[i].nick
          /\ i + 1 \in DOMAIN u
          /\ u[i + 1].kind = "available" /\ u[i + 1].nick = u[i].new
      BY <1>4, <3>1 DEF Paired
    <3>3. i + 1 \in DOMAIN w /\ w[i + 1] = u[i + 1]
      BY <1>1, <1>2, <3>2
    <3> QED
      BY <3>1, <3>2, <3>3
  <2>2. CASE ~(i <= Len(u))
    <3> DEFINE j == i - Len(u)
    <3>1. j \in DOMAIN v /\ w[i] = v[j] /\ i \in Nat
      BY <1>1, <1>2, <2>2
    <3>2. /\ v[j].new # v[j].nick
          /\ j + 1 \in DOMAIN v
          /\ v[j + 1].kind = "available" /\ v[j + 1].nick = v[j].new
      BY <1>4, <3>1 DEF Paired
    <3>3. i + 1 \in DOMAIN w /\ ~(i + 1 <= Len(u)) /\ (i + 1) - Len(u) = j + 1
      BY <1>1, <2>2, <3>1, <3>2
    <3>4. w[i + 1] = v[j + 1]
      BY <1>1, <1>2, <3>3
    <3> QED
      BY <3>1, <3>2, <3>3, <3>4
  <2> QED
    BY <2>1, <2>2
<1> QED
  BY <1>1, <1>3, <1>4 DEF Paired, w

LEMMA TailSeen ==
    ASSUME NEW w \in Seq(Stanza), w # <<>>, Paired(w)
    PROVE  /\ Head(w) \in Stanza /\ Tail(w) \in Seq(Stanza) /\ Paired(Tail(w))
           /\ \A n : Seen(w, n) => \/ Seen(Tail(w), n)
                                   \/ Head(w).kind = "available" /\ Head(w).nick = n
           /\ Head(w).kind = "unavailable" /\ Head(w).new # None =>
                  Head(w).new # Head(w).nick /\ Seen(Tail(w), Head(w).new)
<1> DEFINE v == Tail(w)
<1>1. /\ Len(w) \in Nat \ {0} /\ DOMAIN w = 1 .. Len(w) /\ Head(w) = w[1] /\ w[1] \in Stanza
      /\ v \in Seq(Stanza) /\ Len(v) = Len(w) - 1 /\ DOMAIN v = 1 .. Len(v)
  OBVIOUS
<1>2. \A i \in 1 .. Len(v) : v[i] = w[i + 1]
  OBVIOUS
<1> HIDE DEF v
<1>3. ASSUME NEW i \in DOMAIN w, i # 1
      PROVE  i - 1 \in DOMAIN v /\ v[i - 1] = w[i]
  <2>1. i - 1 \in 1 .. Len(v) /\ (i - 1) + 1 = i
    BY <1>1, <1>3
  <2> QED
    BY <1>1, <1>2, <2>1
<1>4. ASSUME NEW n, Seen(w, n)
      PROVE  Seen(v, n) \/ (Head(w).kind = "available" /\ Head(w).nick = n)
  <2>1. PICK i \in DOMAIN w : w[i].kind = "available" /\ w[i].nick = n
    BY <1>4 DEF Seen
  <2>2. CASE i = 1
    BY <1>1, <2>1, <2>2
  <2>3. CASE i # 1
    BY <1>3, <2>1, <2>3 DEF Seen
  <2> QED
    BY <2>2, <2>3
<1>5. ASSUME NEW i \in DOMAIN v, v[i].kind = "unavailable", v[i].new # None
      PROVE  /\ v[i].new # v[i].nick
             /\ i + 1 \in DOMAIN v
             /\ v[i + 1].kind = "available" /\ v[i + 1].nick = v[i].new
  <2> DEFINE j == i + 1
  <2>1. j \in DOMAIN w /\ v[i] = w[j] /\ i \in Nat
    BY <1>1, <1>2
  <2>2. /\ w[j].new # w[j].nick
        /\ j + 1 \in DOMAIN w
        /\ w[j + 1].kind = "available" /\ w[j + 1].nick = w[j].new
    BY <1>5, <2>1 DEF Paired
  <2>3. j + 1 # 1 /\ (j + 1) - 1 = i + 1
    BY <2>1
  <2>4. i + 1 \in DOMAIN v /\ v[i + 1] = w[j + 1]
    BY <1>3, <2>2, <2>3
  <2> QED
    BY <2>1, <2>2, <2>4
<1>6. ASSUME Head(w).kind = "unavailable", Head(w).new # None
      PROVE  Head(w).new # Head(w).nick /\ Seen(v, Head(w).new)
  <2>1. 1 \in DOMAIN w
    BY <1>1
  <2>2. /\ w[1].new # w[1].nick
        /\ 1 + 1 \in DOMAIN w
        /\ w[1 + 1].kind = "available" /\ w[1 + 1].nick = w[1].new
    BY <1>1, <1>6, <2>1 DEF Paired
  <2>3. 1 \in DOMAIN v /\ v[1] = w[1 + 1]
    BY <1>3, <2>2
  <2> QED
    BY <1>1, <2>2, <2>3 DEF Seen
<1> QED
  BY <1>1, <1>4, <1>5, <1>6 DEF Paired, v

LEMMA HandleGood ==
    ASSUME NEW g, Good(g), NEW w \in Seq(Stanza), w # <<>>, Paired(w), Told(g, w),
           NEW t, t = Handle(g, Head(w))
    PROVE  /\ Good(t) /\ Told(t, Tail(w))
           /\ \A n \in Nick : LingersIn(t, Tail(w), n) => LingersIn(g, w, n)
<1> DEFINE st == Head(w)
           v == Tail(w)
<1>1. /\ st \in Stanza
      /\ \A n : Seen(w, n) => Seen(v, n) \/ (st.kind = "available" /\ st.nick = n)
      /\ st.kind = "unavailable" /\ st.new # None => st.new # st.nick /\ Seen(v, st.new)
  BY TailSeen
<1>2. st.kind \in {"available", "unavailable", "message", "conflict"} /\ st.nick \in Nick
  BY <1>1 DEF Stanza
<1> HIDE DEF st, v
<1>3. CASE ~g.open
  <2>1. t = g
    BY <1>3 DEF Handle, st
  <2>2. \A n \in Nick : g.contact[n] = None
    BY <1>3 DEF Good, Listed
  <2> QED
    BY <2>1, <2>2 DEF Told, ToldOf, LingersIn, v
<1>4. CASE g.open /\ st.kind = "available"
  <2>1. t = Available(g, st)
    BY <1>4 DEF Handle, st
  <2>2. \A m \in Nick \ {st.nick} : ToldOf(g, v, m)
    BY <1>1 DEF Told, ToldOf
  <2>3. /\ Good(t) /\ Told(t, v)
        /\ \A m \in Nick : LingersIn(t, v, m) => m # st.nick /\ LingersIn(g, v, m)
    BY <1>1, <1>4, <2>1, <2>2, AvailableGood
  <2>4. \A m \in Nick : m # st.nick /\ LingersIn(g, v, m) => LingersIn(g, w, m)
    BY <1>1 DEF LingersIn
  <2> QED
    BY <2>3, <2>4 DEF v
<1>5. CASE g.open /\ st.kind # "available"
  <2>1. Told(g, v) /\ \A m \in Nick : LingersIn(g, v, m) => LingersIn(g, w, m)
    BY <1>1, <1>5 DEF Told, ToldOf, LingersIn
  <2>2. /\ Good(t) /\ Told(t, v)
        /\ \A m \in Nick : LingersIn(t, v, m) => LingersIn(g, v, m)
    <3>1. CASE st.kind = "unavailable"
      <4>1. t = Unavailable(g, st)
        BY <1>5, <3>1 DEF Handle, st
      <4> QED
        BY <1>1, <1>5, <2>1, <3>1, <4>1, UnavailableGood
    <3>2. CASE st.kind = "message"
      <4>1. t = Message(g, st)
        BY <1>5, <3>2 DEF Handle, st
      <4> QED
        BY <1>1, <2>1, <4>1, MessageGood
    <3>3. CASE st.kind = "conflict"
      <4>1. t = [g EXCEPT !.dialog = TRUE]
        BY <1>5, <3>3 DEF Handle, st
      <4>2. /\ t \in Gc /\ t.open = g.open /\ t.contact = g.contact /\ t.rows = g.rows
            /\ t.events = g.events /\ t.chat = g.chat /\ t.table = g.table
            /\ t.control = g.control
        BY <4>1 DEF Good, Gc
      <4> QED
        BY <2>1, <4>2, SMTT(30) DEF Good, Listed, Found, HasRow, Told, ToldOf, LingersIn
    <3> QED
      BY <1>2, <1>5, <3>1, <3>2, <3>3
  <2> QED
    BY <2>1, <2>2 DEF v
<1> QED
  BY <1>2, <1>3, <1>4, <1>5

-----------------------------------------------------------------------------
(* Steps.                                                                  *)

\* What NobodyLingers says of a step
Reads == \A n \in Nick : Lingers(n)' => Lingers(n) \/ Dropped(n)

\* What a step makes of the rest of the state
Typed ==
    /\ room' \in [Nick -> Occupant \cup {None}]
    /\ toRoom' \in Seq(Request)
    /\ online' \in BOOLEAN /\ acts' \in 0 .. MaxActs

LEMMA LingersIs ==
    \A n : /\ Lingers(n) <=> LingersIn(gc, toGajim, n)
           /\ Lingers(n)' <=> LingersIn(gc', toGajim', n)
  BY DEF Lingers, LingersIn, Seen

\* The room says more, and Gajim does nothing
LEMMA Says ==
    ASSUME Whole, Typed, Alike(gc, gc'), NEW v \in Seq(Stanza), Paired(v),
           toGajim' \in {toGajim, toGajim \o v}
    PROVE  Whole' /\ Reads
<1>1. /\ toGajim \in Seq(Stanza) /\ Paired(toGajim) /\ Good(gc) /\ Told(gc, toGajim)
      /\ gc \in Gc
  BY DEF Whole, TypeOK
<1>2. /\ toGajim' \in Seq(Stanza) /\ Paired(toGajim')
      /\ \A n : Seen(toGajim, n) => Seen(toGajim', n)
  BY <1>1, MoreSeen
<1>3. Told(gc', toGajim')
  BY <1>1, <1>2 DEF Told, ToldOf, Alike, SameChats
<1>4. Reads
  BY <1>2, LingersIs DEF Reads, LingersIn, Alike, SameChats
<1>5. TypeOK'
  BY <1>1, <1>2 DEF Typed, TypeOK, Alike
<1>6. Good(gc')
  BY <1>1 DEF Good, Listed, Found, HasRow, Alike, SameChats
<1> QED
  BY <1>2, <1>3, <1>5, <1>4, <1>6 DEF Whole

\* Gajim does something, and the room says nothing
LEMMA Does ==
    ASSUME Whole, Typed, toGajim' = toGajim, Good(gc'), Told(gc', toGajim),
           \A n \in Nick : LingersIn(gc', toGajim, n) => LingersIn(gc, toGajim, n) \/ Dropped(n)
    PROVE  Whole' /\ Reads
<1>1. Reads
  BY LingersIs DEF Reads
<1>2. TypeOK'
  BY DEF Whole, TypeOK, Typed, Good
<1> QED
  BY <1>1, <1>2 DEF Whole

\* The tab in front changes last
LEMMA ActiveGood ==
    ASSUME NEW g, Good(g), NEW w, Told(g, w), NEW c \in Chats \cup {None},
           NEW t, t = [g EXCEPT !.active = c]
    PROVE  /\ Good(t) /\ Told(t, w) /\ t.chat = g.chat
           /\ \A n \in Nick : LingersIn(t, w, n) => LingersIn(g, w, n)
<1>1. g \in Gc
  BY DEF Good
<1>2. t \in Gc
  BY <1>1 DEF Gc
<1>3. /\ t.open = g.open /\ t.contact = g.contact /\ t.rows = g.rows /\ t.events = g.events
      /\ t.chat = g.chat /\ t.table = g.table /\ t.control = g.control
  BY <1>1 DEF Gc
<1> QED
  BY <1>2, <1>3, RestGood

LEMMA ElsewhereIsDropped ==
    ASSUME NEW n \in Nick, Elsewhere(gc, n)
    PROVE  Dropped(n)
  BY DEF Elsewhere, Dropped

-----------------------------------------------------------------------------
(* The server.                                                             *)

LEMMA Occupied ==
    ASSUME TypeOK, NEW n \in Nick, room[n] # None
    PROVE  room[n] \in Occupant
  BY DEF TypeOK

LEMMA PresenceIs ==
    ASSUME NEW n \in Nick, NEW o \in Occupant
    PROVE  /\ Presence(n, o) \in Stanza
           /\ Presence(n, o).kind = "available" /\ Presence(n, o).nick = n
           /\ \A kind \in {"conflict", "message"} :
                 /\ [Presence(n, o) EXCEPT !.kind = kind] \in Stanza
                 /\ [Presence(n, o) EXCEPT !.kind = kind].kind = kind
  BY DEF Presence, Stanza, Occupant

LEMMA LeftIs ==
    ASSUME NEW n \in Nick, NEW o \in Occupant, NEW m \in Nick \cup {None}
    PROVE  /\ Left(n, o, m) \in Stanza /\ Left(n, o, m).kind = "unavailable"
           /\ Left(n, o, m).nick = n /\ Left(n, o, m).new = m
  BY DEF Left, Stanza, Occupant

LEMMA OneIsPaired ==
    ASSUME NEW st \in Stanza, st.kind = "unavailable" => st.new = None
    PROVE  <<st>> \in Seq(Stanza) /\ Paired(<<st>>)
<1>1. <<st>> \in Seq(Stanza) /\ DOMAIN <<st>> = {1} /\ <<st>>[1] = st
  OBVIOUS
<1> QED
  BY <1>1 DEF Paired

LEMMA RenameIsPaired ==
    ASSUME NEW n \in Nick, NEW m \in Nick, n # m, NEW o \in Occupant
    PROVE  LET v == <<Left(n, o, m), Presence(m, o)>> IN v \in Seq(Stanza) /\ Paired(v)
<1> DEFINE l == Left(n, o, m)
           p == Presence(m, o)
<1>1. l \in Stanza /\ l.nick = n /\ l.new = m
  BY LeftIs
<1>0. p \in Stanza /\ p.kind = "available" /\ p.nick = m
  BY PresenceIs
<1> HIDE DEF l, p
<1>2. /\ <<l, p>> \in Seq(Stanza) /\ DOMAIN <<l, p>> = 1 .. 2
      /\ <<l, p>>[1] = l /\ <<l, p>>[2] = p
  BY <1>0, <1>1
<1>3. Paired(<<l, p>>)
  BY <1>0, <1>1, <1>2 DEF Paired
<1> QED
  BY <1>2, <1>3 DEF l, p

LEMMA SequenceExists ==
    ASSUME NEW S, IsFiniteSet(S)
    PROVE  SetToSeq(S) \in Seq(S)
<1>1. Cardinality(S) \in Nat /\ ExistsBijection(1 .. Cardinality(S), S)
  BY FS_CardinalityType
<1>2. \E f \in [1 .. Cardinality(S) -> S] : IsInjective(f)
  BY <1>1 DEF ExistsBijection, Bijection, Injection, IsInjective
<1>3. SetToSeq(S) \in [1 .. Cardinality(S) -> S]
  BY <1>2 DEF SetToSeq
<1> QED
  BY <1>1, <1>3

\* Who is in the room is told to one who enters
LEMMA OthersArePaired ==
    ASSUME TypeOK
    PROVE  LET v == SetToSeq({Presence(m, room[m]) : m \in {m \in Nick : room[m] # None}})
           IN  v \in Seq(Stanza) /\ Paired(v)
<1> DEFINE N == {m \in Nick : room[m] # None}
           S == {Presence(m, room[m]) : m \in N}
           v == SetToSeq(S)
<1>1. \A s \in S : s \in Stanza /\ s.kind = "available"
  <2>1. ASSUME NEW m \in N
        PROVE  Presence(m, room[m]) \in Stanza /\ Presence(m, room[m]).kind = "available"
    <3>1. m \in Nick /\ room[m] \in Occupant
      BY <2>1, Occupied
    <3> QED
      BY <3>1, PresenceIs, ZenonT(40)
  <2> QED
    BY <2>1
<1>2. IsFiniteSet(S)
  <2>1. IsFiniteSet(N)
    BY GroupChatAssumption, FS_Subset
  <2>2. IsFiniteSet({Presence(m, room[m]) : m \in N})
    <3> DEFINE f == [m \in N |-> Presence(m, room[m])]
    <3>1. f \in Surjection(N, S)
      BY DEF Surjection
    <3> HIDE DEF f, S
    <3>2. IsFiniteSet(S)
      BY <2>1, <3>1, FS_Surjection
    <3> QED
      BY <3>2 DEF S
  <2> QED
    BY <2>2
<1> HIDE DEF S
<1>3. v \in Seq(S)
  BY <1>2, SequenceExists
<1> HIDE DEF v
<1>4. v \in Seq(Stanza) /\ \A i \in DOMAIN v : v[i].kind = "available"
  BY <1>1, <1>3
<1>5. Paired(v)
  BY <1>4 DEF Paired
<1> QED
  BY <1>4, <1>5 DEF v, S

LEMMA ServeGood ==
    ASSUME Whole, Serve
    PROVE  Whole' /\ Reads
<1> DEFINE q == Head(toRoom)
           n == q.nick
           o == [who |-> "me", role |-> Role[Len(Role)]]
           others == SetToSeq({Presence(m, room[m]) : m \in {m \in Nick : room[m] # None}})
<1>1. /\ TypeOK /\ room \in [Nick -> Occupant \cup {None}] /\ toRoom \in Seq(Request)
      /\ toGajim \in Seq(Stanza) /\ Paired(toGajim) /\ toRoom # <<>>
  BY DEF Whole, TypeOK, Serve
<1>2. /\ q \in Request /\ Tail(toRoom) \in Seq(Request)
  BY <1>1
<1>3. n \in Nick \cup {None} /\ (q.join => n \in Nick)
  BY <1>2 DEF Request
<1>4. o \in Occupant
  BY GroupChatAssumption DEF Occupant, Roles
<1>5. others \in Seq(Stanza) /\ Paired(others)
  BY <1>1, OthersArePaired
<1>6. /\ toRoom' = Tail(toRoom) /\ Alike(gc, gc') /\ online' \in BOOLEAN /\ acts' \in 0 .. MaxActs
  BY <1>1 DEF Serve, TypeOK, Alike, SameChats
<1> HIDE DEF others
<1>7. \/ /\ InRoom = {} /\ ~q.join
         /\ UNCHANGED <<room, toGajim>>
      \/ /\ InRoom = {} /\ q.join /\ room[n] = None
         /\ room' = [room EXCEPT ![n] = o]
         /\ toGajim' = (toGajim \o others) \o <<Presence(n, o)>>
      \/ /\ n # None /\ room[n] # None /\ room[n].who # "me"
         /\ q.join \/ InRoom # {}
         /\ toGajim' = Append(toGajim, [Presence(n, room[n]) EXCEPT !.kind = "conflict"])
         /\ UNCHANGED room
      \/ \E m \in InRoom :
            \/ /\ n = None
               /\ Tell(<<Left(m, room[m], None)>>)
               /\ room' = [room EXCEPT ![m] = None]
            \/ /\ n = m
               /\ Tell(<<Presence(m, room[m])>>)
               /\ UNCHANGED room
            \/ /\ n # None /\ room[n] = None
               /\ Tell(<<Left(m, room[m], n), Presence(n, room[m])>>)
               /\ room' = [room EXCEPT ![m] = None, ![n] = room[m]]
  BY DEF Serve, others
<1> HIDE DEF n, o
<1>8. CASE InRoom = {} /\ ~q.join /\ UNCHANGED <<room, toGajim>>
  <2>1. <<>> \in Seq(Stanza) /\ Paired(<<>>)
    BY DEF Paired
  <2> QED
    BY <1>1, <1>2, <1>6, <1>8, <2>1, Says DEF Typed
<1>9. CASE /\ InRoom = {} /\ q.join /\ room[n] = None
           /\ room' = [room EXCEPT ![n] = o]
           /\ toGajim' = (toGajim \o others) \o <<Presence(n, o)>>
  <2> DEFINE v == others \o <<Presence(n, o)>>
  <2>1. n \in Nick
    BY <1>3, <1>9
  <2>2. Presence(n, o) \in Stanza /\ Presence(n, o).kind = "available"
    BY <1>4, <2>1, PresenceIs
  <2>3. <<Presence(n, o)>> \in Seq(Stanza) /\ Paired(<<Presence(n, o)>>)
    BY <2>2, OneIsPaired
  <2>4. v \in Seq(Stanza) /\ Paired(v)
    BY <1>5, <2>3, MoreSeen
  <2>5. toGajim' = toGajim \o v
    BY <1>1, <1>5, <1>9, <2>3
  <2>6. Typed
    BY <1>1, <1>2, <1>4, <1>6, <1>9 DEF Typed
  <2> HIDE DEF v
  <2> QED
    BY <1>6, <2>4, <2>5, <2>6, Says
<1>10. CASE /\ n # None /\ room[n] # None /\ room[n].who # "me"
            /\ toGajim' = Append(toGajim, [Presence(n, room[n]) EXCEPT !.kind = "conflict"])
            /\ UNCHANGED room
  <2> DEFINE st == [Presence(n, room[n]) EXCEPT !.kind = "conflict"]
  <2>1. n \in Nick /\ room[n] \in Occupant
    BY <1>1, <1>3, <1>10, Occupied
  <2>2. st \in Stanza /\ st.kind = "conflict"
    BY <2>1, PresenceIs
  <2>3. toGajim' = Append(toGajim, st)
    BY <1>10
  <2> HIDE DEF st
  <2>4. <<st>> \in Seq(Stanza) /\ Paired(<<st>>)
    BY <2>2, OneIsPaired
  <2>5. toGajim' = toGajim \o <<st>>
    BY <1>1, <2>2, <2>3
  <2>6. Typed
    BY <1>1, <1>2, <1>6, <1>10 DEF Typed
  <2> QED
    BY <1>6, <2>4, <2>5, <2>6, Says
<1>11. ASSUME NEW m \in InRoom,
              \/ /\ n = None
                 /\ Tell(<<Left(m, room[m], None)>>)
                 /\ room' = [room EXCEPT ![m] = None]
              \/ /\ n = m
                 /\ Tell(<<Presence(m, room[m])>>)
                 /\ UNCHANGED room
              \/ /\ n # None /\ room[n] = None
                 /\ Tell(<<Left(m, room[m], n), Presence(n, room[m])>>)
                 /\ room' = [room EXCEPT ![m] = None, ![n] = room[m]]
       PROVE  Whole' /\ Reads
  <2>1. m \in Nick /\ room[m] # None
    BY <1>11 DEF InRoom
  <2>2. room[m] \in Occupant
    BY <1>1, <2>1, Occupied
  <2>3. Typed
    BY <1>1, <1>2, <1>6, <1>3, <1>11, <2>1, <2>2 DEF Typed
  <2>4. PICK v \in Seq(Stanza) : Paired(v) /\ Tell(v)
    <3>1. CASE n = None /\ Tell(<<Left(m, room[m], None)>>)
      <4>1. Left(m, room[m], None) \in Stanza /\ Left(m, room[m], None).new = None
        BY <2>1, <2>2, LeftIs
      <4> QED
        BY <3>1, <4>1, OneIsPaired
    <3>2. CASE n = m /\ Tell(<<Presence(m, room[m])>>)
      <4>1. Presence(m, room[m]) \in Stanza /\ Presence(m, room[m]).kind = "available"
        BY <2>1, <2>2, PresenceIs, ZenonT(40)
      <4> QED
        BY <3>2, <4>1, OneIsPaired
    <3>3. CASE n # None /\ room[n] = None /\ Tell(<<Left(m, room[m], n), Presence(n, room[m])>>)
      <4>1. n \in Nick /\ m # n
        BY <1>3, <2>1, <3>3
      <4> QED
        BY <2>1, <2>2, <3>3, <4>1, RenameIsPaired
    <3> QED
      BY <1>11, <3>1, <3>2, <3>3
  <2>5. toGajim' \in {toGajim, toGajim \o v}
    BY <2>4 DEF Tell
  <2> QED
    BY <1>6, <2>3, <2>4, <2>5, Says
<1> QED
  BY <1>7, <1>8, <1>9, <1>10, <1>11

LEMMA OthersGood ==
    ASSUME Whole, Enter \/ Exit \/ Rename \/ SetRole \/ Kick \/ Say
    PROVE  Whole' /\ Reads
<1>0. Alike(gc, gc')
  <2>1. gc \in Gc
    BY DEF Whole, TypeOK
  <2>2. gc' = gc \/ \E b \in BOOLEAN : gc' = [gc EXCEPT !.astray = b]
    <3>1. CASE Rename
      <4>1. PICK m \in Nick : gc' = [gc EXCEPT !.astray = @ \/ m = gc.new_nick]
        BY <3>1 DEF Rename
      <4>2. (gc.astray \/ m = gc.new_nick) \in BOOLEAN
        BY <2>1 DEF Gc
      <4> QED
        BY <4>1, <4>2
    <3>2. CASE Kick
      <4>1. gc' = [gc EXCEPT !.astray = @ \/ gc.new_nick # None]
        BY <3>2 DEF Kick
      <4>2. (gc.astray \/ gc.new_nick # None) \in BOOLEAN
        BY <2>1 DEF Gc
      <4> QED
        BY <4>1, <4>2
    <3>3. CASE Enter \/ Exit \/ SetRole \/ Say
      BY <3>3 DEF Enter, Exit, SetRole, Say
    <3> QED
      BY <3>1, <3>2, <3>3
  <2> QED
    BY <2>1, <2>2 DEF Alike, SameChats, Gc
<1>1. /\ TypeOK /\ room \in [Nick -> Occupant \cup {None}] /\ toRoom \in Seq(Request)
      /\ toGajim \in Seq(Stanza) /\ Paired(toGajim)
      /\ toRoom' = toRoom /\ online' \in BOOLEAN /\ acts' \in 0 .. MaxActs
  BY GroupChatAssumption DEF Whole, TypeOK, Act, Enter, Exit, Rename, SetRole, Kick, Say
<1>2. ASSUME NEW v \in Seq(Stanza), Paired(v), Tell(v),
             room' \in [Nick -> Occupant \cup {None}]
      PROVE  Whole' /\ Reads
  BY <1>0, <1>1, <1>2, Says DEF Typed, Tell
<1>3. CASE Enter
  <2>1. PICK n \in Nick, r \in Roles :
            /\ room' = [room EXCEPT ![n] = [who |-> "other", role |-> r]]
            /\ Tell(<<Presence(n, [who |-> "other", role |-> r])>>)
    BY <1>3 DEF Enter
  <2> DEFINE o == [who |-> "other", role |-> r]
  <2>2. o \in Occupant
    BY DEF Occupant
  <2>3. room' = [room EXCEPT ![n] = o] /\ Tell(<<Presence(n, o)>>)
    BY <2>1
  <2> HIDE DEF o
  <2>4. Presence(n, o) \in Stanza /\ Presence(n, o).kind = "available"
    BY <2>2, PresenceIs
  <2> QED
    BY <1>1, <1>2, <2>2, <2>3, <2>4, OneIsPaired
<1>4. CASE Exit \/ Kick
  <2>1. PICK n \in Nick : /\ room[n] # None /\ room' = [room EXCEPT ![n] = None]
                          /\ Tell(<<Left(n, room[n], None)>>)
    BY <1>4 DEF Exit, Kick, Others, InRoom
  <2>2. room[n] \in Occupant
    BY <1>1, <2>1, Occupied
  <2>3. Left(n, room[n], None) \in Stanza /\ Left(n, room[n], None).new = None
    BY <2>2, LeftIs
  <2> QED
    BY <1>1, <1>2, <2>1, <2>3, OneIsPaired
<1>5. CASE Rename
  <2>1. PICK n \in Nick, m \in Nick :
            /\ room[n] # None /\ room[m] = None
            /\ room' = [room EXCEPT ![n] = None, ![m] = room[n]]
            /\ Tell(<<Left(n, room[n], m), Presence(m, room[n])>>)
    BY <1>5 DEF Rename, Others
  <2>2. n # m /\ room[n] \in Occupant
    BY <1>1, <2>1, Occupied
  <2>3. LET v == <<Left(n, room[n], m), Presence(m, room[n])>> IN v \in Seq(Stanza) /\ Paired(v)
    BY <2>2, RenameIsPaired
  <2> QED
    BY <1>1, <1>2, <2>1, <2>2, <2>3
<1>6. CASE SetRole
  <2>1. PICK n \in Nick, r \in Roles :
            /\ room[n] # None /\ room' = [room EXCEPT ![n].role = r]
            /\ Tell(<<Presence(n, room'[n])>>)
    BY <1>6 DEF SetRole
  <2>2. room[n] \in Occupant
    BY <1>1, <2>1, Occupied
  <2>3. [room[n] EXCEPT !.role = r] \in Occupant
    BY <2>2 DEF Occupant
  <2>4. room'[n] = [room[n] EXCEPT !.role = r]
    BY <1>1, <2>1
  <2>5. room' \in [Nick -> Occupant \cup {None}] /\ room'[n] \in Occupant
    BY <1>1, <2>1, <2>3, <2>4
  <2>6. Presence(n, room'[n]) \in Stanza /\ Presence(n, room'[n]).kind = "available"
    BY <2>5, PresenceIs
  <2> QED
    BY <1>2, <2>1, <2>5, <2>6, OneIsPaired
<1>7. CASE Say
  <2>1. PICK n \in Nick :
            /\ room[n] # None /\ room' = room
            /\ Tell(<<[Presence(n, room[n]) EXCEPT !.kind = "message"]>>)
    BY <1>7 DEF Say, Others
  <2>2. room[n] \in Occupant
    BY <1>1, <2>1, Occupied
  <2> DEFINE st == [Presence(n, room[n]) EXCEPT !.kind = "message"]
  <2>3. st \in Stanza /\ st.kind = "message"
    BY <2>2, PresenceIs
  <2>4. Tell(<<st>>)
    BY <2>1
  <2> HIDE DEF st
  <2> QED
    BY <1>1, <1>2, <2>1, <2>3, <2>4, OneIsPaired
<1> QED
  BY <1>3, <1>4, <1>5, <1>6, <1>7

-----------------------------------------------------------------------------
(* Gajim.                                                                  *)

LEMMA ArriveGood ==
    ASSUME Whole, Arrive
    PROVE  Whole' /\ Reads
<1>1. /\ Good(gc) /\ toGajim \in Seq(Stanza) /\ toGajim # <<>> /\ Paired(toGajim)
      /\ Told(gc, toGajim) /\ gc' = Handle(gc, Head(toGajim)) /\ toGajim' = Tail(toGajim)
  BY DEF Whole, TypeOK, Arrive
<1>2. /\ Good(gc') /\ Told(gc', toGajim')
      /\ \A n \in Nick : LingersIn(gc', toGajim', n) => LingersIn(gc, toGajim, n)
  BY <1>1, HandleGood
<1>3. toGajim' \in Seq(Stanza) /\ Paired(toGajim')
  BY <1>1, TailSeen
<1>4. TypeOK'
  BY <1>2, <1>3 DEF Whole, TypeOK, Arrive, Good
<1>5. Reads
  BY <1>2, LingersIs DEF Reads
<1> QED
  BY <1>2, <1>3, <1>4, <1>5 DEF Whole

LEMMA SendTyped ==
    ASSUME TypeOK, NEW q \in Request, Send(q)
    PROVE  toRoom' \in Seq(Request)
  BY DEF TypeOK, Send

LEMMA ActTyped ==
    ASSUME TypeOK, Act
    PROVE  acts' \in 0 .. MaxActs
  BY GroupChatAssumption DEF TypeOK, Act

\* What neither shows nor reads anything: the fields of the window
LEMMA FieldsGood ==
    ASSUME Whole, Typed, toGajim' = toGajim, gc' \in Gc,
           gc.open => gc'.open, gc'.contact = gc.contact, gc'.rows = gc.rows,
           gc'.events = gc.events, gc'.chat = gc.chat, gc'.table = gc.table,
           gc'.control = gc.control
    PROVE  Whole' /\ Reads
<1>1. Good(gc) /\ Told(gc, toGajim)
  BY DEF Whole
<1>2. /\ Good(gc') /\ Told(gc', toGajim)
      /\ \A n \in Nick : LingersIn(gc', toGajim, n) => LingersIn(gc, toGajim, n)
  BY <1>1, RestGood
<1> QED
  BY <1>2, Does

LEMMA JoinRoomGood ==
    ASSUME Whole, JoinRoom
    PROVE  Whole' /\ Reads
<1>1. TypeOK /\ gc \in Gc
  BY DEF Whole, TypeOK
<1>2. PICK n \in Mine :
          /\ gc' = IF gc.open THEN [gc EXCEPT !.astray = @ \/ n # gc.nick]
                   ELSE [gc EXCEPT !.open = TRUE, !.nick = n, !.new_nick = None,
                                   !.dialog = FALSE, !.astray = @ \/ Astray(n)]
          /\ Join(n)
  BY DEF JoinRoom
<1>3. n \in Nick /\ [nick |-> n, join |-> TRUE] \in Request
  BY GroupChatAssumption DEF Request
<1>4. Typed
  BY <1>1, <1>2, <1>3, SendTyped, ActTyped DEF JoinRoom, Join, TypeOK, Typed
<1>5. (gc.astray \/ Astray(n)) \in BOOLEAN /\ (gc.astray \/ n # gc.nick) \in BOOLEAN
  BY <1>1 DEF Gc, Astray
<1>6. gc' \in Gc
  BY <1>1, <1>2, <1>3, <1>5 DEF Gc
<1>7. /\ gc.open => gc'.open
      /\ gc'.contact = gc.contact /\ gc'.rows = gc.rows /\ gc'.events = gc.events
      /\ gc'.chat = gc.chat /\ gc'.table = gc.table /\ gc'.control = gc.control
  BY <1>1, <1>2 DEF Gc
<1> QED
  BY <1>4, <1>6, <1>7, FieldsGood DEF JoinRoom

LEMMA ChangeStatusGood ==
    ASSUME Whole, ChangeStatus
    PROVE  Whole' /\ Reads
<1>1. TypeOK /\ gc \in Gc
  BY DEF Whole, TypeOK
<1>2. [nick |-> gc.nick, join |-> ~gc.connected] \in Request
  BY <1>1 DEF Request, Gc
<1>3. Typed
  BY <1>1, <1>2, SendTyped, ActTyped DEF ChangeStatus, TypeOK, Typed
<1>4. gc' = [gc EXCEPT !.astray = @ \/ gc.new_nick # None]
  BY DEF ChangeStatus
<1>5. (gc.astray \/ gc.new_nick # None) \in BOOLEAN
  BY <1>1 DEF Gc
<1>6. gc' \in Gc
  BY <1>1, <1>4, <1>5 DEF Gc
<1>7. /\ gc.open => gc'.open
      /\ gc'.contact = gc.contact /\ gc'.rows = gc.rows /\ gc'.events = gc.events
      /\ gc'.chat = gc.chat /\ gc'.table = gc.table /\ gc'.control = gc.control
  BY <1>1, <1>4 DEF Gc
<1> QED
  BY <1>3, <1>6, <1>7, FieldsGood DEF ChangeStatus

LEMMA LeaveRoomGood ==
    ASSUME Whole, LeaveRoom
    PROVE  Whole' /\ Reads
<1> DEFINE h == GotDisconnected(gc)
<1>1. TypeOK /\ Good(gc) /\ gc \in Gc
  BY DEF Whole, TypeOK
<1>2. Good(h) /\ SameChats(gc, h) /\ h.contact = [n \in Nick |-> None] /\ h \in Gc
  BY <1>1, GotDisconnectedGood DEF Good
<1>3. gc' = [h EXCEPT !.open = FALSE, !.astray = @ \/ gc.new_nick # None]
  BY DEF LeaveRoom
<1> HIDE DEF h
<1>4. (h.astray \/ gc.new_nick # None) \in BOOLEAN
  BY <1>2 DEF Gc
<1>5. gc' \in Gc
  BY <1>2, <1>3, <1>4 DEF Gc
<1>6. /\ gc'.contact = h.contact /\ gc'.rows = h.rows /\ gc'.events = h.events
      /\ gc'.chat = h.chat /\ gc'.table = h.table /\ gc'.control = h.control
  BY <1>2, <1>3 DEF Gc
<1>7. \A n \in Nick : gc'.contact[n] = None
  BY <1>2, <1>6
<1>8. Good(gc')
  BY <1>2, <1>5, <1>6, <1>7 DEF Good, Listed, Found
<1>9. Told(gc', toGajim) /\ \A n \in Nick : ~LingersIn(gc', toGajim, n)
  BY <1>7 DEF Told, ToldOf, LingersIn
<1>10. Typed
  <2>1. [nick |-> None, join |-> FALSE] \in Request
    BY DEF Request
  <2> QED
    BY <1>1, <2>1, SendTyped, ActTyped DEF LeaveRoom, TypeOK, Typed
<1> QED
  BY <1>8, <1>9, <1>10, Does DEF LeaveRoom

LEMMA DialogGood ==
    ASSUME Whole, ChangeNick \/ AnswerDialog
    PROVE  Whole' /\ Reads
<1>1. TypeOK /\ gc \in Gc
  BY DEF Whole, TypeOK
<1>2. CASE ChangeNick
  <2>1. gc' = [gc EXCEPT !.dialog = TRUE]
    BY <1>2 DEF ChangeNick
  <2>2. Typed
    BY <1>1, <1>2, ActTyped DEF ChangeNick, TypeOK, Typed
  <2>3. gc' \in Gc
    BY <1>1, <2>1 DEF Gc
  <2>4. /\ gc.open => gc'.open
        /\ gc'.contact = gc.contact /\ gc'.rows = gc.rows /\ gc'.events = gc.events
        /\ gc'.chat = gc.chat /\ gc'.table = gc.table /\ gc'.control = gc.control
    BY <1>1, <2>1 DEF Gc
  <2> QED
    BY <1>2, <2>2, <2>3, <2>4, FieldsGood DEF ChangeNick
<1>3. ASSUME AnswerDialog, NEW n \in Mine, Join(n),
             gc' = [gc EXCEPT !.dialog = FALSE, !.astray = @ \/ ~gc.open \/ Astray(n),
                              !.new_nick = IF gc.connected THEN n ELSE @,
                              !.nick = IF gc.connected THEN @ ELSE n]
      PROVE  Whole' /\ Reads
  <2>1. n \in Nick /\ [nick |-> n, join |-> TRUE] \in Request
    BY GroupChatAssumption DEF Request
  <2>2. Typed
    BY <1>1, <1>3, <2>1, SendTyped, ActTyped DEF AnswerDialog, Join, TypeOK, Typed
  <2>3. (gc.astray \/ ~gc.open \/ Astray(n)) \in BOOLEAN
    BY <1>1 DEF Gc, Astray
  <2>4. gc' \in Gc
    BY <1>1, <1>3, <2>1, <2>3 DEF Gc
  <2>5. /\ gc.open => gc'.open
        /\ gc'.contact = gc.contact /\ gc'.rows = gc.rows /\ gc'.events = gc.events
        /\ gc'.chat = gc.chat /\ gc'.table = gc.table /\ gc'.control = gc.control
    BY <1>1, <1>3 DEF Gc
  <2> QED
    BY <1>3, <2>2, <2>4, <2>5, FieldsGood DEF AnswerDialog
<1>4. ASSUME AnswerDialog, UNCHANGED toRoom,
             gc' = [gc EXCEPT !.dialog = FALSE, !.new_nick = None,
                              !.astray = @ \/ gc.new_nick # None]
      PROVE  Whole' /\ Reads
  <2>1. Typed
    BY <1>1, <1>4, ActTyped DEF AnswerDialog, TypeOK, Typed
  <2>2. (gc.astray \/ gc.new_nick # None) \in BOOLEAN
    BY <1>1 DEF Gc
  <2>3. gc' \in Gc
    BY <1>1, <1>4, <2>2 DEF Gc
  <2>4. /\ gc.open => gc'.open
        /\ gc'.contact = gc.contact /\ gc'.rows = gc.rows /\ gc'.events = gc.events
        /\ gc'.chat = gc.chat /\ gc'.table = gc.table /\ gc'.control = gc.control
    BY <1>1, <1>4 DEF Gc
  <2> QED
    BY <1>4, <2>1, <2>3, <2>4, FieldsGood DEF AnswerDialog
<1> QED
  BY <1>2, <1>3, <1>4 DEF AnswerDialog

\* A window is opened or read, and brought to the front
LEMMA OpensGood ==
    ASSUME Whole, Typed, toGajim' = toGajim, NEW n \in Nick,
           NEW show \in {"online", "offline"}, gc.contact[n] # None => show = gc.contact[n].show,
           NEW g \in NewPrivateChat(gc, n, show), gc' = [g EXCEPT !.active = g.control[n]]
    PROVE  Whole' /\ Reads
<1>1. Good(gc) /\ Told(gc, toGajim)
  BY DEF Whole
<1>2. /\ Good(g) /\ Told(g, toGajim)
      /\ \A m \in Nick : LingersIn(g, toGajim, m) => LingersIn(gc, toGajim, m) \/ Elsewhere(gc, m)
  BY <1>1, NewPrivateChatGood
<1>3. g.control[n] \in Chats \cup {None}
  BY <1>2, Chatting
<1>4. /\ Good(gc') /\ Told(gc', toGajim)
      /\ \A m \in Nick : LingersIn(gc', toGajim, m) => LingersIn(g, toGajim, m)
  BY <1>2, <1>3, ActiveGood
<1> QED
  BY <1>2, <1>4, Does, ElsewhereIsDropped

\* A window is brought to the front
LEMMA RaisesGood ==
    ASSUME Whole, Typed, toGajim' = toGajim, NEW c \in Chats \cup {None},
           gc' = [gc EXCEPT !.active = c]
    PROVE  Whole' /\ Reads
<1>1. Good(gc) /\ Told(gc, toGajim)
  BY DEF Whole
<1>2. /\ Good(gc') /\ Told(gc', toGajim)
      /\ \A m \in Nick : LingersIn(gc', toGajim, m) => LingersIn(gc, toGajim, m)
  BY <1>1, ActiveGood
<1> QED
  BY <1>2, Does

LEMMA ActivateGood ==
    ASSUME Whole, NEW n \in Nick, ActivateRow(n)
    PROVE  Whole' /\ Reads
<1>1. TypeOK /\ Good(gc)
  BY DEF Whole
<1>2. Typed
  BY <1>1, ActTyped DEF ActivateRow, TypeOK, Typed
<1>3. CASE gc.table[n] # None /\ gc' = [gc EXCEPT !.active = gc.table[n]]
  BY <1>1, <1>2, <1>3, Chatting, RaisesGood DEF ActivateRow
<1>4. ASSUME NEW g \in NewPrivateChat(gc, n, gc.contact[n].show),
             gc' = [g EXCEPT !.active = g.control[n]]
      PROVE  Whole' /\ Reads
  <2>1. gc.contact[n] \in Contact
    BY <1>1, Chatting DEF ActivateRow
  <2>2. gc.contact[n].show \in {"online", "offline"}
    BY <2>1 DEF Contact
  <2>3. toGajim' = toGajim
    BY DEF ActivateRow
  <2> QED
    BY <1>2, <1>4, <2>2, <2>3, OpensGood
<1> QED
  BY <1>3, <1>4 DEF ActivateRow

LEMMA TrayGood ==
    ASSUME Whole, Tray
    PROVE  Whole' /\ Reads
<1>1. TypeOK /\ Good(gc)
  BY DEF Whole
<1>2. Typed
  BY <1>1, ActTyped DEF Tray, TypeOK, Typed
<1> DEFINE show(n) == IF gc.contact[n] = None THEN "offline" ELSE gc.contact[n].show
<1>3. PICK n \in Nick :
          \E g \in IF gc.control[n] # None THEN {gc}
                   ELSE IF gc.open THEN NewPrivateChat(gc, n, show(n)) ELSE {} :
              gc' = [g EXCEPT !.active = g.control[n]]
  BY DEF Tray
<1>4. show(n) \in {"online", "offline"} /\ (gc.contact[n] # None => show(n) = gc.contact[n].show)
  BY <1>1, Chatting DEF Contact
<1>5. toGajim' = toGajim
  BY DEF Tray
<1> HIDE DEF show
<1>6. CASE gc' = [gc EXCEPT !.active = gc.control[n]]
  BY <1>1, <1>2, <1>5, <1>6, Chatting, RaisesGood
<1>7. ASSUME NEW g \in NewPrivateChat(gc, n, show(n)), gc' = [g EXCEPT !.active = g.control[n]]
      PROVE  Whole' /\ Reads
  BY <1>2, <1>4, <1>5, <1>7, OpensGood
<1> QED
  BY <1>3, <1>6, <1>7

LEMMA CloseGood ==
    ASSUME Whole, Close
    PROVE  Whole' /\ Reads
<1>1. TypeOK /\ Good(gc) /\ Told(gc, toGajim)
  BY DEF Whole
<1>2. Typed /\ toGajim' = toGajim
  BY <1>1, ActTyped DEF Close, TypeOK, Typed
<1>3. PICK c \in Chats : gc.chat[c] # None /\ gc' = CloseChat(gc, c)
  BY DEF Close
<1>4. /\ Good(gc') /\ Told(gc', toGajim) /\ gc'.chat[c] = None
      /\ \A n \in Nick : LingersIn(gc', toGajim, n) =>
             \/ LingersIn(gc, toGajim, n)
             \/ n = gc.chat[c].nick /\ gc.events[n] > 0
  BY <1>1, <1>3, CloseChatGood
<1>5. \A n \in Nick : n = gc.chat[c].nick /\ gc.events[n] > 0 => Dropped(n)
  BY <1>3, <1>4 DEF Dropped
<1> QED
  BY <1>2, <1>4, <1>5, Does

LEMMA LoseGood ==
    ASSUME Whole, Lose
    PROVE  Whole' /\ Reads
<1>1. TypeOK /\ Good(gc) /\ gc \in Gc
  BY DEF Whole, TypeOK
<1>2. toRoom' = <<>> /\ toGajim' = <<>> /\ online' = FALSE
  BY DEF Lose
<1>3. /\ Good(gc') /\ \A n \in Nick : gc'.contact[n] = None
  <2>1. CASE gc.open
    <3>1. gc' = GotDisconnected(gc)
      BY <2>1 DEF Lose
    <3> QED
      BY <1>1, <3>1, GotDisconnectedGood
  <2>2. CASE ~gc.open
    <3>1. gc' = gc
      BY <2>2 DEF Lose
    <3> QED
      BY <1>1, <2>2, <3>1 DEF Good, Listed
  <2> QED
    BY <2>1, <2>2
<1>4. room' \in [Nick -> Occupant \cup {None}]
  <2>1. PICK o \in {None} \cup {[room[n] EXCEPT !.who = "ghost"] : n \in InRoom} :
            room' = [n \in Nick |-> IF n \in InRoom THEN o ELSE room[n]]
    BY DEF Lose
  <2>2. \A n \in InRoom : [room[n] EXCEPT !.who = "ghost"] \in Occupant
    BY <1>1, Occupied DEF InRoom, Occupant
  <2>3. o \in Occupant \cup {None} /\ \A n \in Nick : room[n] \in Occupant \cup {None}
    BY <1>1, <2>1, <2>2 DEF TypeOK
  <2> QED
    BY <2>1, <2>3
<1>5. acts' \in 0 .. MaxActs
  BY <1>1, ActTyped DEF Lose
<1>6. TypeOK'
  <2>0. online' \in BOOLEAN
    BY <1>2
  <2>1. toRoom' \in Seq(Request) /\ toGajim' \in Seq(Stanza)
    <3>1. <<>> \in Seq(Request) /\ <<>> \in Seq(Stanza)
      OBVIOUS
    <3> QED
      BY <1>2, <3>1, Zenon
  <2>2. gc' \in Gc
    BY <1>3 DEF Good
  <2> QED
    BY <1>4, <1>5, <2>0, <2>1, <2>2 DEF TypeOK
<1>7. Told(gc', toGajim') /\ \A n \in Nick : ~LingersIn(gc', toGajim', n)
  BY <1>3 DEF Told, ToldOf, LingersIn
<1>8. Paired(toGajim')
  BY <1>2 DEF Paired
<1>9. Reads
  BY <1>7, LingersIs DEF Reads
<1> QED
  BY <1>3, <1>6, <1>7, <1>8, <1>9 DEF Whole

LEMMA SignInGood ==
    ASSUME Whole, SignIn
    PROVE  Whole' /\ Reads
<1>1. TypeOK /\ gc \in Gc /\ gc' = gc /\ toGajim' = toGajim
  BY DEF Whole, TypeOK, SignIn
<1>2. toRoom' \in Seq(Request)
  <2>1. [nick |-> gc.nick, join |-> TRUE] \in Request
    BY <1>1 DEF Request, Gc
  <2> QED
    BY <2>1 DEF SignIn
<1>3. Typed
  BY <1>1, <1>2 DEF SignIn, TypeOK, Typed
<1> QED
  BY <1>1, <1>3, FieldsGood

-----------------------------------------------------------------------------
(* The theorems.                                                           *)

LEMMA InitGood == Init => Whole
<1> SUFFICES ASSUME Init PROVE Whole
  OBVIOUS
<1>1. PICK n \in Mine :
          gc = [open |-> FALSE, nick |-> n, new_nick |-> None, connected |-> FALSE,
                dialog |-> FALSE, astray |-> FALSE, rows |-> NoRow,
                contact |-> [m \in Nick |-> None], events |-> [m \in Nick |-> 0],
                chat |-> [c \in Chats |-> None], table |-> [m \in Nick |-> None],
                control |-> [m \in Nick |-> None], active |-> None]
  BY DEF Init
<1>2. gc \in Gc
  BY <1>1, GroupChatAssumption DEF Gc, NoRow
<1>3. room \in [Nick -> Occupant \cup {None}]
  <2>1. [who : {"other"}, role : Roles] \subseteq Occupant
    BY DEF Occupant
  <2> QED
    BY <2>1 DEF Init
<1>4. TypeOK
  BY <1>2, <1>3, GroupChatAssumption DEF Init, TypeOK
<1>5. Good(gc) /\ Told(gc, toGajim)
  BY <1>1, <1>2 DEF Good, Listed, Found, Told, ToldOf
<1>6. Paired(toGajim)
  BY DEF Init, Paired
<1> QED
  BY <1>4, <1>5, <1>6 DEF Whole

LEMMA NextGood == Whole /\ [Next]_vars => Whole' /\ (Reads \/ UNCHANGED vars)
<1> SUFFICES ASSUME Whole, [Next]_vars PROVE Whole' /\ (Reads \/ UNCHANGED vars)
  OBVIOUS
<1>1. CASE UNCHANGED vars
  BY <1>1 DEF vars, Whole, TypeOK
<1>2. CASE Serve
  BY <1>2, ServeGood
<1>3. CASE Enter \/ Exit \/ Rename \/ SetRole \/ Kick \/ Say
  BY <1>3, OthersGood
<1>4. CASE Arrive
  BY <1>4, ArriveGood
<1>5. CASE JoinRoom
  BY <1>5, JoinRoomGood
<1>6. CASE ChangeStatus
  BY <1>6, ChangeStatusGood
<1>7. CASE LeaveRoom
  BY <1>7, LeaveRoomGood
<1>8. CASE ChangeNick \/ AnswerDialog
  BY <1>8, DialogGood
<1>9. CASE Activate
  BY <1>9, ActivateGood DEF Activate
<1>10. CASE Tray
  BY <1>10, TrayGood
<1>11. CASE Close
  BY <1>11, CloseGood
<1>12. CASE Lose
  BY <1>12, LoseGood
<1>13. CASE SignIn
  BY <1>13, SignInGood
<1> QED
  BY <1>1, <1>2, <1>3, <1>4, <1>5, <1>6, <1>7, <1>8, <1>9, <1>10, <1>11, <1>12, <1>13 DEF Next

\* Contacts have rows, the tables of windows lead to the chats they are about,
\* and a change of a name is told in two stanzas that follow each other: what
\* the handlers of the room take for granted.
THEOREM AlwaysWhole == Spec => []Whole
<1>1. Init => Whole
  BY InitGood
<1>2. Whole /\ [Next]_vars => Whole'
  BY NextGood
<1> QED
  BY <1>1, <1>2, PTL DEF Spec

\* The type of the room: in particular a row is only removed that is there, and
\* no handler looks at the contact or the chat of somebody who has none.
THEOREM TypeCorrect == Spec => []TypeOK
<1>1. Whole => TypeOK
  BY DEF Whole
<1> QED
  BY <1>1, AlwaysWhole, PTL

\* Who is gone and of whom nothing waits to be read leaves the list, whatever
\* names are exchanged and whenever the connection is lost: see NobodyLingers.
THEOREM NobodyLingersAlways == Spec => NobodyLingers
<1>1. Whole /\ [Next]_vars => [\A n \in Nick : Lingers(n)' => Lingers(n) \/ Dropped(n)]_vars
  BY NextGood DEF Reads
<1> QED
  BY <1>1, AlwaysWhole, PTL DEF Spec, NobodyLingers

-----------------------------------------------------------------------------
(* What the window knows.  On the way are the stanzas w to Gajim and the   *)
(* requests R to the room rm: the last of those that are about somebody    *)
(* decides, and if there is none, then the window does.                    *)

NoneOf(w, M) == \A i \in DOMAIN w : w[i] \notin M

\* The last of M in w, if any, is in Q
Ends(w, M, Q) ==
    \A i \in DOMAIN w :
        w[i] \in M /\ (\A j \in DOMAIN w : j > i => w[j] \notin M) => w[i] \in Q

\* One of E is in w, with none of B before it and none of A after it
Splits(w, E, B, A) ==
    \E i \in DOMAIN w : /\ w[i] \in E
                        /\ \A j \in DOMAIN w : j < i => w[j] \notin B
                        /\ \A j \in DOMAIN w : j > i => w[j] \notin A

MeIn(rm) == {n \in Nick : rm[n] # None /\ rm[n].who = "me"}

\* The user asked for another name
Asked(g) == g.new_nick # None /\ g.new_nick # g.nick

OfKind(k) == {e \in Stanza : e.kind = k}
Presences == OfKind("available") \cup OfKind("unavailable")
Own(g) == {e \in Presences : e.nick = g.nick}

\* The end of the user's presence
Resets(g) == {e \in OfKind("unavailable") : ~Asked(g) /\ e.nick = g.nick /\ e.new = None}

\* The user's change of the name, what never comes before it, or in the absence
\* of one, and what never comes after it
Turn(g) ==
    {e \in OfKind("unavailable") : Asked(g) /\ e.nick = g.nick /\ e.new = g.new_nick}
Before(g) ==
    {e \in OfKind("unavailable") :
        \/ e.new = g.nick
        \/ e.nick = g.nick /\ (e.new # None \/ Asked(g))
        \/ Asked(g) /\ e.new = g.new_nick}
After(g) == {e \in OfKind("unavailable") : g.new_nick \in {e.nick, e.new}}

\* What says something of x, and what says that x has the state o in the room
About(e, x) == \/ e.kind = "available" /\ e.nick = x
               \/ e.kind = "unavailable" /\ x \in {e.nick, e.new}
Marks(g, x) == Resets(g) \cup {e \in Stanza : About(e, x)}
Fits(o) ==
    {e \in Stanza : IF e.kind = "available" THEN o # None /\ o.role = e.role ELSE o = None}

Leaving == {q \in Request : q.nick = None}
Joining == {q \in Request : q.join}

\* Nobody is listed
Bare(g) == /\ ~g.connected
           /\ \A n \in Nick : g.contact[n] = None /\ ~HasRow(g, n)

\* OneRow and RoomIsShown, of one name
Clean(g, x) ==
    \A r \in Roles :
        g.rows[x][r] = IF g.contact[x] # None /\ g.contact[x].role = r THEN 1 ELSE 0
Right(c, o) ==
    IF o = None THEN c = None \/ c.show = "offline" ELSE c = [show |-> "online", role |-> o.role]

\* Who is listed has a row of that role
Filed(g) == \A n \in Nick : g.contact[n] # None => g.rows[n][g.contact[n].role] > 0

\* The window of one who is there says so
Opened(g, n) ==
    g.contact[n] # None /\ g.contact[n].show = "online" /\ g.table[n] # None
    => g.chat[g.table[n]].show = "online"

Neat(g) == Filed(g) /\ \A n \in Nick : Opened(g, n)

\* t differs from g in nothing that the room is about
Keeps(g, t) ==
    /\ t.nick = g.nick /\ t.new_nick = g.new_nick /\ t.open = g.open
    /\ t.connected = g.connected /\ t.astray = g.astray

\* The names after the stanza st, which changes the name if it has the one that
\* was asked for
Renamed(g, st, nick, new_nick) ==
    IF st.new # None /\ st.new = g.new_nick
    THEN nick = st.new /\ new_nick = None
    ELSE nick = g.nick /\ new_nick = g.new_nick

\* t is g after st said that somebody is gone, of a window with the name nick
Settled(g, st, nick, t) ==
    IF st.new = None /\ st.nick = nick THEN Bare(t)
    ELSE /\ t.connected <=> g.connected \/ (st.new # None /\ st.new = nick)
         /\ t.contact[st.nick] = None \/ t.contact[st.nick].show = "offline"
         /\ \A m \in Nick \ {st.nick, st.new} :
               t.contact[m] = g.contact[m] /\ t.rows[m] = g.rows[m]

\* A lost connection has nothing on the way, and a closed window is about to
\* leave the room, or has left it
Away(g, w, R, rm, on) ==
    /\ ~on => w = <<>> /\ R = <<>> /\ MeIn(rm) = {} /\ Bare(g)
    /\ ~g.open => /\ Bare(g) /\ g.new_nick = None
                  /\ Ends(R, Leaving \cup Joining, Leaving)
                  /\ NoneOf(R, Leaving \cup Joining) => MeIn(rm) = {}

\* Whether the user is in the room
Known(g, w, R, rm) ==
    /\ Ends(w, Own(g), OfKind(IF MeIn(rm) = {} THEN "unavailable" ELSE "available"))
    /\ NoneOf(w, Own(g)) =>
          /\ g.connected => MeIn(rm) # {}
          /\ g.open /\ MeIn(rm) # {} /\ NoneOf(R, Leaving) => g.connected

\* The user has the name that the window takes for it, and may be about to ask
\* for another; or the server has given the other one
Same(g, w, R, rm) ==
    /\ MeIn(rm) \subseteq {g.nick} /\ NoneOf(w, Before(g)) /\ Known(g, w, R, rm)
    /\ \/ \A k \in DOMAIN R : R[k].nick \in {None, g.nick}
       \/ /\ R = <<[nick |-> g.new_nick, join |-> TRUE]>>
          /\ Asked(g) /\ g.connected /\ MeIn(rm) = {g.nick}
Other(g, w, R, rm) ==
    /\ Asked(g) /\ g.connected /\ MeIn(rm) = {g.new_nick} /\ R = <<>>
    /\ Splits(w, Turn(g), Before(g), After(g))

\* Nothing is shown of a room that the user is not in
Empty(g, w, rm) ==
    MeIn(rm) = {} => /\ Ends(w, Presences, Resets(g))
                     /\ NoneOf(w, Presences) => Bare(g)

ShownOf(g, w, x, o) ==
    /\ Ends(w, Marks(g, x), Fits(o))
    /\ NoneOf(w, Marks(g, x)) /\ Clean(g, x) => Right(g.contact[x], o)
Shown(g, w, R, rm) ==
    g.open /\ MeIn(rm) # {} /\ NoneOf(R, Leaving) =>
        \A x \in Nick : ShownOf(g, w, x, rm[x])

Tracked(g, w, R, rm, on) ==
    /\ Away(g, w, R, rm, on)
    /\ HasRow(g, g.nick) => g.connected
    /\ Asked(g) => NoneOf(R, Leaving)
    /\ Same(g, w, R, rm) \/ Other(g, w, R, rm)
    /\ Empty(g, w, rm)
    /\ Shown(g, w, R, rm)

-----------------------------------------------------------------------------
(* Sequences.                                                              *)

LEMMA EmptyEnds ==
    ASSUME NEW M, NEW Q
    PROVE  NoneOf(<<>>, M) /\ Ends(<<>>, M, Q)
  BY DEF NoneOf, Ends

LEMMA MoreEnds ==
    ASSUME NEW S, NEW w \in Seq(S), NEW v \in Seq(S), NEW M, NEW Q,
           \A i \in DOMAIN v : v[i] \in M => v[i] \in Q,
           NoneOf(v, M) => Ends(w, M, Q)
    PROVE  Ends(w \o v, M, Q)
<1> DEFINE u == w \o v
<1>1. /\ Len(w) \in Nat /\ Len(v) \in Nat /\ Len(u) = Len(w) + Len(v)
      /\ DOMAIN w = 1 .. Len(w) /\ DOMAIN v = 1 .. Len(v) /\ DOMAIN u = 1 .. Len(u)
  OBVIOUS
<1>2. /\ \A i \in DOMAIN w : i \in DOMAIN u /\ u[i] = w[i]
      /\ \A i \in DOMAIN v : i + Len(w) \in DOMAIN u /\ u[i + Len(w)] = v[i]
      /\ \A i \in DOMAIN u : i \in DOMAIN w \/ i - Len(w) \in DOMAIN v
  OBVIOUS
<1>3. \A i \in DOMAIN u, j \in DOMAIN v : i \in DOMAIN w => j + Len(w) > i
  BY <1>1
<1>4. \A i \in DOMAIN u : (i - Len(w)) + Len(w) = i
  BY <1>1
<1> HIDE DEF u
<1>5. SUFFICES ASSUME NEW i \in DOMAIN u, u[i] \in M,
                      \A j \in DOMAIN u : j > i => u[j] \notin M
               PROVE  u[i] \in Q
  BY DEF Ends, u
<1>6. CASE i \in DOMAIN w
  <2>1. NoneOf(v, M)
    BY <1>2, <1>3, <1>5, <1>6 DEF NoneOf
  <2>2. w[i] \in M /\ \A j \in DOMAIN w : j > i => w[j] \notin M
    BY <1>2, <1>5, <1>6
  <2>3. w[i] \in Q
    BY <1>6, <2>1, <2>2 DEF Ends
  <2> QED
    BY <1>2, <1>6, <2>3
<1>7. CASE i - Len(w) \in DOMAIN v
  BY <1>2, <1>4, <1>5, <1>7
<1> QED
  BY <1>2, <1>6, <1>7

LEMMA MoreNone ==
    ASSUME NEW S, NEW w \in Seq(S), NEW v \in Seq(S), NEW M
    PROVE  NoneOf(w \o v, M) <=> NoneOf(w, M) /\ NoneOf(v, M)
<1> DEFINE u == w \o v
<1>2. /\ \A i \in DOMAIN w : i \in DOMAIN u /\ u[i] = w[i]
      /\ \A i \in DOMAIN v : i + Len(w) \in DOMAIN u /\ u[i + Len(w)] = v[i]
      /\ \A i \in DOMAIN u : i \in DOMAIN w \/ i - Len(w) \in DOMAIN v
  OBVIOUS
<1>4. \A i \in DOMAIN u : (i - Len(w)) + Len(w) = i
  OBVIOUS
<1> HIDE DEF u
<1>5. \A i \in DOMAIN u : u[i] \in {w[j] : j \in DOMAIN w} \cup {v[j] : j \in DOMAIN v}
  BY <1>2, <1>4
<1> QED
  BY <1>2, <1>5 DEF NoneOf, u

\* One more
LEMMA OneMore ==
    ASSUME NEW S, NEW w \in Seq(S), NEW e \in S, NEW M, NEW Q,
           IF e \in M THEN e \in Q ELSE Ends(w, M, Q)
    PROVE  Ends(w \o <<e>>, M, Q)
<1>1. <<e>> \in Seq(S) /\ DOMAIN <<e>> = {1} /\ <<e>>[1] = e
  OBVIOUS
<1>2. NoneOf(<<e>>, M) <=> e \notin M
  BY <1>1 DEF NoneOf
<1> QED
  BY <1>1, <1>2, MoreEnds

LEMMA OneMoreNone ==
    ASSUME NEW S, NEW w \in Seq(S), NEW e \in S, NEW M
    PROVE  NoneOf(w \o <<e>>, M) <=> NoneOf(w, M) /\ e \notin M
<1>1. <<e>> \in Seq(S) /\ DOMAIN <<e>> = {1} /\ <<e>>[1] = e
  OBVIOUS
<1>2. NoneOf(<<e>>, M) <=> e \notin M
  BY <1>1 DEF NoneOf
<1> QED
  BY <1>1, <1>2, MoreNone

LEMMA TailAt ==
    ASSUME NEW S, NEW w \in Seq(S), w # <<>>
    PROVE  /\ Head(w) = w[1] /\ 1 \in DOMAIN w /\ Head(w) \in S /\ Tail(w) \in Seq(S)
           /\ DOMAIN w \subseteq Nat /\ \A i \in DOMAIN w : i >= 1
           /\ \A i \in DOMAIN Tail(w) : i + 1 \in DOMAIN w /\ Tail(w)[i] = w[i + 1] /\ i \in Nat \ {0}
           /\ \A i \in DOMAIN w : i # 1 => i - 1 \in DOMAIN Tail(w) /\ Tail(w)[i - 1] = w[i]
<1> DEFINE v == Tail(w)
<1>1. /\ Len(w) \in Nat \ {0} /\ DOMAIN w = 1 .. Len(w) /\ Head(w) = w[1] /\ w[1] \in S
      /\ v \in Seq(S) /\ Len(v) = Len(w) - 1 /\ DOMAIN v = 1 .. Len(v)
  OBVIOUS
<1>2. \A i \in 1 .. Len(v) : v[i] = w[i + 1]
  OBVIOUS
<1> HIDE DEF v
<1>3. ASSUME NEW i \in DOMAIN w, i # 1
      PROVE  i - 1 \in DOMAIN v /\ v[i - 1] = w[i]
  <2>1. i - 1 \in 1 .. Len(v) /\ (i - 1) + 1 = i
    BY <1>1, <1>3
  <2> QED
    BY <1>1, <1>2, <2>1
<1>4. \A i \in DOMAIN v : i + 1 \in DOMAIN w /\ v[i] = w[i + 1] /\ i \in Nat \ {0}
  BY <1>1, <1>2
<1>5. 1 \in DOMAIN w /\ DOMAIN w \subseteq Nat /\ \A i \in DOMAIN w : i >= 1
  BY <1>1
<1> QED
  BY <1>1, <1>3, <1>4, <1>5 DEF v

LEMMA LessEnds ==
    ASSUME NEW S, NEW w \in Seq(S), w # <<>>, NEW M, NEW Q, Ends(w, M, Q)
    PROVE  /\ Ends(Tail(w), M, Q)
           /\ Head(w) \in M /\ NoneOf(Tail(w), M) => Head(w) \in Q
<1> DEFINE v == Tail(w)
<1>1. /\ Head(w) = w[1] /\ 1 \in DOMAIN w
      /\ DOMAIN w \subseteq Nat
      /\ \A i \in DOMAIN v : i + 1 \in DOMAIN w /\ v[i] = w[i + 1] /\ i \in Nat
      /\ \A i \in DOMAIN w : i # 1 => i - 1 \in DOMAIN v /\ v[i - 1] = w[i]
  BY TailAt
<1> HIDE DEF v
<1>2. ASSUME NEW i \in DOMAIN v, v[i] \in M, \A j \in DOMAIN v : j > i => v[j] \notin M
      PROVE  v[i] \in Q
  <2>1. i + 1 \in DOMAIN w /\ v[i] = w[i + 1] /\ i \in Nat
    BY <1>1
  <2>2. ASSUME NEW j \in DOMAIN w, j > i + 1 PROVE w[j] \notin M
    <3>1. j \in Nat /\ j # 1 /\ j - 1 > i
      BY <1>1, <2>1, <2>2
    <3> QED
      BY <1>1, <1>2, <3>1
  <2> QED
    BY <1>2, <2>1, <2>2 DEF Ends
<1>3. ASSUME Head(w) \in M, NoneOf(v, M) PROVE Head(w) \in Q
  <2>1. ASSUME NEW j \in DOMAIN w, j > 1 PROVE w[j] \notin M
    <3>1. j # 1
      BY <2>1
    <3> QED
      BY <1>1, <1>3, <3>1 DEF NoneOf
  <2> QED
    BY <1>1, <1>3, <2>1 DEF Ends
<1> QED
  BY <1>2, <1>3 DEF Ends, v

LEMMA LessNone ==
    ASSUME NEW S, NEW w \in Seq(S), w # <<>>, NEW M
    PROVE  NoneOf(w, M) <=> Head(w) \notin M /\ NoneOf(Tail(w), M)
<1> DEFINE v == Tail(w)
<1>1. /\ Head(w) = w[1] /\ 1 \in DOMAIN w
      /\ \A i \in DOMAIN v : i + 1 \in DOMAIN w /\ v[i] = w[i + 1]
      /\ \A i \in DOMAIN w : i # 1 => i - 1 \in DOMAIN v /\ v[i - 1] = w[i]
  BY TailAt
<1> HIDE DEF v
<1> QED
  BY <1>1 DEF NoneOf, v

\* Sets that do not differ on what is in w
LEMMA SameEnds ==
    ASSUME NEW w, NEW M, NEW N, NEW Q, NEW P, \A i \in DOMAIN w : w[i] \in M <=> w[i] \in N,
           \A i \in DOMAIN w : w[i] \in M /\ w[i] \in Q => w[i] \in P
    PROVE  (Ends(w, M, Q) => Ends(w, N, P)) /\ (NoneOf(w, M) <=> NoneOf(w, N))
  BY DEF Ends, NoneOf

LEMMA MoreSplits ==
    ASSUME NEW S, NEW w \in Seq(S), NEW e \in S, NEW E, NEW B, NEW A,
           \/ Splits(w, E, B, A) /\ e \notin A
           \/ NoneOf(w, B) /\ e \in E
    PROVE  Splits(w \o <<e>>, E, B, A)
<1> DEFINE u == w \o <<e>>
           k == Len(w) + 1
<1>1. /\ k \in DOMAIN u /\ u[k] = e /\ DOMAIN w \subseteq DOMAIN u
      /\ \A i \in DOMAIN w : u[i] = w[i]
      /\ \A i \in DOMAIN u : i \in DOMAIN w \/ i = k
      /\ \A i \in DOMAIN w : i < k
      /\ k \notin DOMAIN w
      /\ \A i \in DOMAIN u : i <= k
      /\ DOMAIN u \subseteq Nat /\ k \in Nat
  OBVIOUS
<1> HIDE DEF u, k
<1>2. CASE Splits(w, E, B, A) /\ e \notin A
  <2>1. PICK i \in DOMAIN w : /\ w[i] \in E
                              /\ \A j \in DOMAIN w : j < i => w[j] \notin B
                              /\ \A j \in DOMAIN w : j > i => w[j] \notin A
    BY <1>2 DEF Splits
  <2>2. i \in DOMAIN u /\ u[i] \in E /\ i < k
    BY <1>1, <2>1
  <2>3. ASSUME NEW j \in DOMAIN u PROVE (j < i => u[j] \notin B) /\ (j > i => u[j] \notin A)
    <3>1. CASE j \in DOMAIN w
      BY <1>1, <2>1, <3>1
    <3>2. CASE j = k
      BY <1>1, <1>2, <2>2, <3>2
    <3> QED
      BY <1>1, <3>1, <3>2
  <2> QED
    BY <2>2, <2>3 DEF Splits, u
<1>3. CASE NoneOf(w, B) /\ e \in E
  <2>1. ASSUME NEW j \in DOMAIN u PROVE (j < k => u[j] \notin B) /\ ~(j > k)
    BY <1>1, <1>3 DEF NoneOf
  <2> QED
    BY <1>1, <1>3, <2>1 DEF Splits, u
<1> QED
  BY <1>2, <1>3

LEMMA LessSplits ==
    ASSUME NEW S, NEW w \in Seq(S), NEW E, NEW B, NEW A, E \subseteq B, Splits(w, E, B, A)
    PROVE  /\ w # <<>>
           /\ IF Head(w) \in E THEN NoneOf(Tail(w), A)
              ELSE Head(w) \notin B /\ Splits(Tail(w), E, B, A)
<1>1. PICK i \in DOMAIN w : /\ w[i] \in E
                            /\ \A j \in DOMAIN w : j < i => w[j] \notin B
                            /\ \A j \in DOMAIN w : j > i => w[j] \notin A
  BY DEF Splits
<1>2. w # <<>>
  BY <1>1
<1> DEFINE v == Tail(w)
<1>3. /\ Head(w) = w[1] /\ 1 \in DOMAIN w
      /\ DOMAIN w \subseteq Nat /\ \A j \in DOMAIN w : j >= 1
      /\ \A j \in DOMAIN v : j + 1 \in DOMAIN w /\ v[j] = w[j + 1] /\ j \in Nat \ {0}
      /\ \A j \in DOMAIN w : j # 1 => j - 1 \in DOMAIN v /\ v[j - 1] = w[j]
  BY <1>2, TailAt
<1> HIDE DEF v
<1>4. CASE i = 1
  <2>1. Head(w) \in E
    BY <1>1, <1>3, <1>4
  <2>2. ASSUME NEW j \in DOMAIN v PROVE v[j] \notin A
    <3>1. j + 1 > 1 /\ j + 1 \in DOMAIN w /\ v[j] = w[j + 1]
      BY <1>3
    <3> QED
      BY <1>1, <1>4, <3>1
  <2> QED
    BY <1>2, <2>1, <2>2 DEF NoneOf, v
<1>5. CASE i # 1
  <2>1. i > 1 /\ Head(w) \notin B /\ Head(w) \notin E
    BY <1>1, <1>3, <1>5, SMTT(30)
  <2>2. i - 1 \in DOMAIN v /\ v[i - 1] \in E
    BY <1>1, <1>3, <1>5, SMTT(30)
  <2>3. ASSUME NEW j \in DOMAIN v
        PROVE  (j < i - 1 => v[j] \notin B) /\ (j > i - 1 => v[j] \notin A)
    <3>1. j + 1 \in DOMAIN w /\ v[j] = w[j + 1] /\ j \in Nat /\ i \in Nat
      BY <1>3
    <3>2. (j < i - 1 => j + 1 < i) /\ (j > i - 1 => j + 1 > i)
      BY <3>1
    <3> QED
      BY <1>1, <3>1, <3>2
  <2> QED
    BY <1>2, <2>1, <2>2, <2>3 DEF Splits, v
<1> QED
  BY <1>4, <1>5

LEMMA TwoMore ==
    ASSUME NEW S, NEW w \in Seq(S), NEW d \in S, NEW e \in S
    PROVE  w \o <<d, e>> = (w \o <<d>>) \o <<e>>
<1> DEFINE a == w \o <<d, e>>
           b == w \o <<d>>
           c == b \o <<e>>
<1>1. b \in Seq(S) /\ Len(b) = Len(w) + 1 /\ Len(w) \in Nat
  OBVIOUS
<1>2. \A i \in 1 .. Len(b) : b[i] = IF i <= Len(w) THEN w[i] ELSE d
  BY <1>1
<1>3. a \in Seq(S) /\ Len(a) = Len(w) + 2
  OBVIOUS
<1>4. \A i \in 1 .. Len(a) :
          a[i] = IF i <= Len(w) THEN w[i] ELSE IF i = Len(w) + 1 THEN d ELSE e
  BY <1>1, <1>3
<1> HIDE DEF b
<1>5. c \in Seq(S) /\ Len(c) = Len(b) + 1
  BY <1>1
<1>6. \A i \in 1 .. Len(c) : c[i] = IF i <= Len(b) THEN b[i] ELSE e
  BY <1>1, <1>5
<1> HIDE DEF a, c
<1>7. Len(a) = Len(c) /\ \A i \in 1 .. Len(a) : a[i] = c[i]
  BY <1>1, <1>2, <1>3, <1>4, <1>5, <1>6
<1>8. a \in [1 .. Len(a) -> S] /\ c \in [1 .. Len(c) -> S]
  BY <1>3, <1>5
<1>9. a = c
  BY <1>7, <1>8
<1> QED
  BY <1>9 DEF a, b, c

LEMMA LastOf ==
    ASSUME NEW S, NEW w \in Seq(S), NEW M, ~NoneOf(w, M)
    PROVE  \E i \in DOMAIN w : w[i] \in M /\ \A j \in DOMAIN w : j > i => w[j] \notin M
<1> DEFINE L == Len(w)
           T == {L - i : i \in {j \in DOMAIN w : w[j] \in M}}
<1>1. L \in Nat /\ DOMAIN w = 1 .. L
  OBVIOUS
<1> HIDE DEF L
<1>2. T \subseteq Nat /\ T # {}
  BY <1>1 DEF NoneOf
<1>3. PICK k \in T : \A m \in T : k <= m
  <2> HIDE DEF T
  <2> QED
    BY <1>2, LeastExists
<1>4. PICK i \in DOMAIN w : w[i] \in M /\ k = L - i
  BY <1>3
<1>5. ASSUME NEW j \in DOMAIN w, j > i, w[j] \in M PROVE FALSE
  <2>1. L - j \in T /\ ~(L - i <= L - j)
    BY <1>1, <1>4, <1>5
  <2> QED
    BY <1>3, <1>4, <2>1
<1> QED
  BY <1>4, <1>5

-----------------------------------------------------------------------------
(* The room tells more, and serves requests.                               *)

LEMMA NamesAre ==
    ASSUME NEW g \in Gc
    PROVE  /\ g.nick \in Nick /\ g.nick # None /\ g.new_nick \in Nick \cup {None}
           /\ Resets(g) \subseteq Presences /\ Turn(g) \subseteq Before(g)
           /\ \A x : Resets(g) \subseteq Marks(g, x)
           /\ \A x : Marks(g, x) \subseteq Presences
<1>1. g.nick \in Nick /\ g.nick # None /\ g.new_nick \in Nick \cup {None}
  BY NamesAssumption DEF Gc
<1>2. Resets(g) \subseteq Presences
  BY DEF Resets, Presences
<1>3. \A x : Resets(g) \subseteq Marks(g, x) /\ Marks(g, x) \subseteq Presences
  BY <1>2 DEF Marks, About, Presences, OfKind
<1>4. Turn(g) \subseteq Before(g)
  BY <1>1 DEF Turn, Before, Asked, OfKind
<1> QED
  BY <1>1, <1>2, <1>3, <1>4

LEMMA ShownMore ==
    ASSUME NEW g \in Gc, NEW w \in Seq(Stanza), NEW x, NEW o, NEW p, NEW st \in Stanza,
           ShownOf(g, w, x, o),
           IF st \in Marks(g, x) THEN st \in Fits(p) ELSE p = o
    PROVE  ShownOf(g, w \o <<st>>, x, p)
<1>1. Ends(w \o <<st>>, Marks(g, x), Fits(p))
  BY OneMore DEF ShownOf
<1>2. NoneOf(w \o <<st>>, Marks(g, x)) => NoneOf(w, Marks(g, x)) /\ st \notin Marks(g, x)
  BY OneMoreNone
<1> QED
  BY <1>1, <1>2 DEF ShownOf

\* What the other occupants do, while the user is there
LEMMA Hears ==
    ASSUME NEW g \in Gc, NEW w \in Seq(Stanza), NEW R, NEW rm, NEW rn, NEW on,
           Tracked(g, w, R, rm, on), NEW b \in MeIn(rm), MeIn(rn) = MeIn(rm),
           NEW st \in Stanza,
           st.kind = "unavailable" =>
               st.nick # b /\ st.new # b /\ (st.new # None => st.new # g.new_nick),
           \A x \in Nick : IF About(st, x) THEN st \in Fits(rn[x]) ELSE rn[x] = rm[x]
    PROVE  Tracked(g, w \o <<st>>, R, rn, on)
<1> DEFINE u == w \o <<st>>
<1>1. /\ g.nick \in Nick /\ g.nick # None /\ on /\ MeIn(rm) # {}
  BY NamesAre DEF Tracked, Away
<1> HIDE DEF u
<1>2. ASSUME Same(g, w, R, rm) PROVE Same(g, u, R, rn)
  <2>1. b = g.nick /\ MeIn(rm) = {g.nick}
    BY <1>2 DEF Same
  <2>2. st \notin Before(g) /\ (st \in Own(g) => st \in OfKind("available"))
    BY <2>1 DEF Before, Own, Presences, OfKind, Asked
  <2>3. NoneOf(u, Before(g))
    BY <1>2, <2>2, OneMoreNone DEF Same, u
  <2>4. Ends(u, Own(g), OfKind("available"))
    BY <1>1, <1>2, <2>2, OneMore DEF Same, Known, u
  <2>5. NoneOf(u, Own(g)) => NoneOf(w, Own(g))
    BY OneMoreNone DEF u
  <2>6. Known(g, u, R, rn)
    BY <1>1, <1>2, <2>4, <2>5 DEF Same, Known
  <2> QED
    BY <1>2, <2>3, <2>6 DEF Same
<1>3. ASSUME Other(g, w, R, rm) PROVE Other(g, u, R, rn)
  <2>1. b = g.new_nick /\ g.new_nick # None
    BY <1>3 DEF Other, Asked
  <2>2. st \notin After(g)
    BY <2>1 DEF After, OfKind
  <2>3. Splits(u, Turn(g), Before(g), After(g))
    BY <1>3, <2>2, MoreSplits DEF Other, u
  <2> QED
    BY <1>3, <2>3 DEF Other
<1>4. Same(g, u, R, rn) \/ Other(g, u, R, rn)
  BY <1>2, <1>3 DEF Tracked
<1>5. st \notin Resets(g)
  <2>1. Same(g, w, R, rm) => b = g.nick
    BY DEF Same
  <2>2. Other(g, w, R, rm) => Asked(g)
    BY DEF Other
  <2> QED
    BY <2>1, <2>2 DEF Tracked, Resets, OfKind
<1>6. Shown(g, u, R, rn)
  <2> SUFFICES ASSUME g.open, NoneOf(R, Leaving), NEW x \in Nick
               PROVE  ShownOf(g, u, x, rn[x])
    BY DEF Shown
  <2>1. ShownOf(g, w, x, rm[x])
    BY <1>1 DEF Tracked, Shown
  <2>2. IF st \in Marks(g, x) THEN st \in Fits(rn[x]) ELSE rn[x] = rm[x]
    BY <1>5 DEF Marks
  <2> QED
    BY <2>1, <2>2, ShownMore DEF u
<1>7. Away(g, u, R, rn, on) /\ Empty(g, u, rn)
  BY <1>1 DEF Tracked, Away, Empty
<1> QED
  BY <1>4, <1>6, <1>7 DEF Tracked, u

\* What is no presence says nothing of who is there
LEMMA Ignores ==
    ASSUME NEW g \in Gc, NEW w \in Seq(Stanza), NEW R, NEW rm, NEW on, on,
           Tracked(g, w, R, rm, on), NEW st \in Stanza, st \notin Presences
    PROVE  Tracked(g, w \o <<st>>, R, rm, on)
<1> DEFINE u == w \o <<st>>
<1>1. ASSUME NEW M, M \subseteq Presences, NEW Q
      PROVE  (Ends(w, M, Q) => Ends(u, M, Q)) /\ (NoneOf(u, M) <=> NoneOf(w, M))
  BY <1>1, OneMore, OneMoreNone
<1>2. /\ Own(g) \subseteq Presences /\ Before(g) \subseteq Presences
      /\ st \notin After(g) /\ \A x \in Nick : Marks(g, x) \subseteq Presences
  BY NamesAre DEF Own, Before, After, Presences, OfKind
<1> HIDE DEF u
<1>3. Same(g, w, R, rm) => Same(g, u, R, rm)
  BY <1>1, <1>2 DEF Same, Known
<1>4. Other(g, w, R, rm) => Other(g, u, R, rm)
  BY <1>2, MoreSplits DEF Other, u
<1>5. Shown(g, w, R, rm) => Shown(g, u, R, rm)
  BY <1>1, <1>2 DEF Shown, ShownOf
<1>6. Empty(g, w, rm) => Empty(g, u, rm)
  BY <1>1 DEF Empty
<1>7. Away(g, w, R, rm, on) => Away(g, u, R, rm, on)
  BY DEF Away
<1> QED
  BY <1>3, <1>4, <1>5, <1>6, <1>7 DEF Tracked, u

\* A request is served that does not change who is there
LEMMA Served ==
    ASSUME NEW g \in Gc, NEW w \in Seq(Stanza), NEW R \in Seq(Request), R # <<>>, NEW rm, NEW on,
           Tracked(g, w, R, rm, on), Head(R).nick # None \/ MeIn(rm) = {}
    PROVE  /\ Tracked(g, w, Tail(R), rm, on)
           /\ Head(R).join /\ ~g.open => ~NoneOf(Tail(R), Leaving \cup Joining)
<1> DEFINE T == Tail(R)
           q == Head(R)
<1>1. /\ T \in Seq(Request) /\ q \in Request
      /\ \A k \in DOMAIN T : k + 1 \in DOMAIN R /\ T[k] = R[k + 1]
  BY TailAt
<1>2. \A M : NoneOf(R, M) <=> q \notin M /\ NoneOf(T, M)
  BY LessNone
<1>3. q \in Leaving <=> q.nick = None
  BY <1>1 DEF Leaving
<1>4. q.join => q \in Joining /\ q \notin Leaving
  BY <1>1, NamesAssumption DEF Leaving, Joining, Request
<1> DEFINE M == Leaving \cup Joining
<1>5. Ends(R, M, Leaving) => Ends(T, M, Leaving) /\ (q \in M /\ NoneOf(T, M) => q \in Leaving)
  BY LessEnds
<1>6. Same(g, w, R, rm) => Same(g, w, T, rm)
  <2>1. Known(g, w, R, rm) => Known(g, w, T, rm)
    BY <1>2, <1>3 DEF Known
  <2>2. ASSUME \/ \A k \in DOMAIN R : R[k].nick \in {None, g.nick}
               \/ R = <<[nick |-> g.new_nick, join |-> TRUE]>>
        PROVE  \A k \in DOMAIN T : T[k].nick \in {None, g.nick}
    <3>1. CASE \A k \in DOMAIN R : R[k].nick \in {None, g.nick}
      BY <1>1, <3>1
    <3>2. CASE R = <<[nick |-> g.new_nick, join |-> TRUE]>>
      <4>1. T = <<>>
        BY <3>2
      <4> QED
        BY <4>1
    <3> QED
      BY <2>2, <3>1, <3>2
  <2> HIDE DEF T
  <2> QED
    BY <2>1, <2>2 DEF Same
<1>7. ~Other(g, w, R, rm)
  BY DEF Other
<1> HIDE DEF T, q
<1>8. Away(g, w, T, rm, on)
  <2>1. on
    BY DEF Tracked, Away
  <2>2. ASSUME ~g.open PROVE NoneOf(T, M) => MeIn(rm) = {}
    <3>1. CASE q \in M
      BY <1>3, <1>5, <2>2, <3>1 DEF Tracked, Away, q
    <3>2. CASE q \notin M
      BY <1>2, <2>2, <3>2 DEF Tracked, Away
    <3> QED
      BY <3>1, <3>2
  <2> QED
    BY <1>5, <2>1, <2>2 DEF Tracked, Away
<1>9. Shown(g, w, T, rm)
  BY <1>2, <1>3 DEF Tracked, Shown, q
<1>10. Tracked(g, w, T, rm, on)
  BY <1>2, <1>6, <1>7, <1>8, <1>9 DEF Tracked
<1>11. q.join /\ ~g.open => ~NoneOf(T, M)
  BY <1>4, <1>5 DEF Tracked, Away
<1> QED
  BY <1>10, <1>11 DEF T, q

\* The user is gone, not under way to another name: kicked, or after leaving
LEMMA Goes ==
    ASSUME NEW g \in Gc, NEW w \in Seq(Stanza), NEW R, NEW rm, NEW rn, NEW on,
           Tracked(g, w, R, rm, on), ~Asked(g), MeIn(rm) # {}, MeIn(rn) = {},
           NEW st \in Stanza, st.kind = "unavailable", st.nick \in MeIn(rm), st.new = None
    PROVE  Tracked(g, w \o <<st>>, R, rn, on)
<1> DEFINE u == w \o <<st>>
<1>1. /\ on /\ Same(g, w, R, rm) /\ st.nick = g.nick /\ g.nick # None
      /\ NoneOf(w, Before(g))
  BY NamesAre DEF Tracked, Away, Other, Same
<1>2. /\ st \in Resets(g) /\ st \in Presences /\ st \in Own(g) /\ st \in OfKind("unavailable")
      /\ st \notin Before(g)
  BY <1>1 DEF Resets, Presences, Own, Before, OfKind
<1>3. /\ NoneOf(u, Before(g)) /\ ~NoneOf(u, Own(g)) /\ ~NoneOf(u, Presences)
      /\ Ends(u, Own(g), OfKind("unavailable")) /\ Ends(u, Presences, Resets(g))
  BY <1>1, <1>2, OneMore, OneMoreNone
<1> HIDE DEF u
<1>4. \A k \in DOMAIN R : R[k].nick \in {None, g.nick}
  BY <1>1 DEF Same
<1>5. Same(g, u, R, rn)
  BY <1>3, <1>4 DEF Same, Known
<1>6. Away(g, u, R, rn, on) /\ Empty(g, u, rn) /\ Shown(g, u, R, rn)
  BY <1>1, <1>3 DEF Tracked, Away, Empty, Shown
<1> QED
  BY <1>5, <1>6 DEF Tracked, u

\* The user is let in, and told who is there
LEMMA Enters ==
    ASSUME NEW g \in Gc, NEW w \in Seq(Stanza), NEW R, NEW rm, NEW rn, NEW on, on,
           Tracked(g, w, R, rm, on), MeIn(rm) = {}, MeIn(rn) = {g.nick},
           \A x \in Nick : rm[x] = None \/ rn[x] = rm[x],
           ~g.open => ~NoneOf(R, Leaving \cup Joining),
           NEW v \in Seq(Stanza),
           \A i \in DOMAIN v : /\ v[i].kind = "available" /\ v[i].nick \in Nick
                               /\ v[i] \in Fits(rn[v[i].nick]),
           \A x \in Nick : rn[x] # None => \E i \in DOMAIN v : v[i].nick = x
    PROVE  Tracked(g, w \o v, R, rn, on)
<1> DEFINE u == w \o v
<1>1. /\ g.nick \in Nick /\ rn[g.nick] # None
      /\ \A x : Resets(g) \subseteq Marks(g, x) /\ Marks(g, x) \subseteq Presences
  BY NamesAre DEF MeIn
<1>2. /\ Same(g, w, R, rm) /\ NoneOf(w, Before(g))
      /\ \A k \in DOMAIN R : R[k].nick \in {None, g.nick}
  BY <1>1 DEF Tracked, Same, Other
<1>3. \A i \in DOMAIN v : v[i] \in Stanza /\ v[i] \notin Before(g)
  BY DEF Before, OfKind
<1>4. NoneOf(u, Before(g))
  BY <1>2, <1>3, MoreNone DEF NoneOf
<1>5. ~NoneOf(v, Own(g))
  <2>1. PICK i \in DOMAIN v : v[i].nick = g.nick
    BY <1>1
  <2> QED
    BY <1>3, <2>1 DEF NoneOf, Own, Presences, OfKind
<1>6. Ends(u, Own(g), OfKind("available"))
  BY <1>3, <1>5, MoreEnds DEF OfKind
<1>7. ~NoneOf(u, Own(g))
  BY <1>5, MoreNone
<1> HIDE DEF u
<1>8. Same(g, u, R, rn)
  BY <1>2, <1>4, <1>6, <1>7 DEF Same, Known
<1>9. ASSUME NEW x \in Nick PROVE ShownOf(g, u, x, rn[x])
  <2> DEFINE M == Marks(g, x)
  <2>1. \A i \in DOMAIN v : v[i] \in M <=> v[i].nick = x
    BY <1>3 DEF Marks, About, Resets, OfKind
  <2>2. \A i \in DOMAIN v : v[i] \in M => v[i] \in Fits(rn[x])
    BY <2>1
  <2>3. ASSUME NoneOf(v, M)
        PROVE  Ends(w, M, Fits(rn[x])) /\ (NoneOf(w, M) => Right(g.contact[x], rn[x]))
    <3>1. rn[x] = None
      BY <2>1, <2>3 DEF NoneOf
    <3>2. Resets(g) \subseteq Fits(None)
      BY DEF Resets, Fits, OfKind
    <3>3. CASE NoneOf(w, Presences)
      <4>1. NoneOf(w, M)
        BY <1>1, <3>3 DEF NoneOf
      <4>2. Bare(g)
        BY <3>3 DEF Tracked, Empty
      <4> QED
        BY <3>1, <4>1, <4>2 DEF Ends, NoneOf, Bare, Right
    <3>4. CASE ~NoneOf(w, Presences)
      <4>1. PICK m \in DOMAIN w : /\ w[m] \in Presences
                                  /\ \A j \in DOMAIN w : j > m => w[j] \notin Presences
        BY <3>4, LastOf
      <4>2. w[m] \in Resets(g)
        BY <4>1 DEF Tracked, Empty, Ends
      <4>3. w[m] \in M /\ w[m] \in Fits(None)
        BY <1>1, <3>2, <4>2
      <4>4. ASSUME NEW i \in DOMAIN w, w[i] \in M,
                   \A j \in DOMAIN w : j > i => w[j] \notin M
            PROVE  i = m
        <5>1. ~(m > i)
          BY <4>3, <4>4
        <5>2. ~(i > m)
          BY <1>1, <4>1, <4>4
        <5>3. i \in Nat /\ m \in Nat
          OBVIOUS
        <5> QED
          BY <5>1, <5>2, <5>3
      <4>5. Ends(w, M, Fits(None))
        BY <4>3, <4>4 DEF Ends
      <4>6. ~NoneOf(w, M)
        BY <4>3 DEF NoneOf
      <4> QED
        BY <3>1, <4>5, <4>6
    <3> QED
      BY <3>3, <3>4
  <2> HIDE DEF M
  <2>4. Ends(u, M, Fits(rn[x]))
    BY <2>2, <2>3, MoreEnds DEF u
  <2>5. NoneOf(u, M) => NoneOf(w, M) /\ NoneOf(v, M)
    BY MoreNone DEF u
  <2> QED
    BY <2>3, <2>4, <2>5 DEF ShownOf, M
<1>10. Away(g, u, R, rn, on) /\ Empty(g, u, rn) /\ Shown(g, u, R, rn)
  BY <1>9 DEF Tracked, Away, Empty, Shown
<1> QED
  BY <1>8, <1>10 DEF Tracked, u

\* The user gets the name that was asked for
LEMMA Turns ==
    ASSUME NEW g \in Gc, NEW w \in Seq(Stanza), NEW R, NEW rm, NEW rn, NEW on,
           Tracked(g, w, R, rm, on), Asked(g), g.connected, MeIn(rm) = {g.nick},
           MeIn(rn) = {g.new_nick}, rn[g.nick] = None,
           \A x \in Nick \ {g.nick, g.new_nick} : rn[x] = rm[x],
           NEW l \in Stanza, l.kind = "unavailable", l.nick = g.nick, l.new = g.new_nick,
           NEW p \in Stanza, p.kind = "available", p.nick = g.new_nick,
           p \in Fits(rn[g.new_nick]), rm[g.new_nick] = None
    PROVE  Tracked(g, (w \o <<l>>) \o <<p>>, <<>>, rn, on)
<1> DEFINE u == w \o <<l>>
           v == u \o <<p>>
<1>1. /\ on /\ g.nick \in Nick /\ g.new_nick \in Nick /\ g.nick # g.new_nick
      /\ NoneOf(w, Before(g))
  BY NamesAre DEF Tracked, Away, Same, Other, Asked
<1>2. u \in Seq(Stanza)
  OBVIOUS
<1>3. Splits(u, Turn(g), Before(g), After(g))
  <2>1. l \in Turn(g)
    BY DEF Turn, OfKind
  <2> QED
    BY <1>1, <2>1, MoreSplits
<1>4. Splits(v, Turn(g), Before(g), After(g))
  <2>1. p \notin After(g)
    BY DEF After, OfKind
  <2> HIDE DEF u
  <2> QED
    BY <1>2, <1>3, <2>1, MoreSplits
<1> HIDE DEF v
<1>5. Other(g, v, <<>>, rn)
  BY <1>4 DEF Other
<1>6. ASSUME g.open, NEW x \in Nick PROVE ShownOf(g, v, x, rn[x])
  <2> DEFINE o == IF x \in {g.nick, g.new_nick} THEN None ELSE rm[x]
  <2>1. NoneOf(R, Leaving)
    BY DEF Tracked
  <2>2. ShownOf(g, w, x, rm[x])
    BY <1>6, <2>1 DEF Tracked, Shown
  <2>3. l \notin Resets(g) /\ p \notin Resets(g)
    BY DEF Resets
  <2>4. IF l \in Marks(g, x) THEN l \in Fits(o) ELSE o = rm[x]
    BY <2>3 DEF Marks, About, Fits
  <2>5. ShownOf(g, u, x, o)
    BY <2>2, <2>4, ShownMore
  <2>6. IF p \in Marks(g, x) THEN p \in Fits(rn[x]) ELSE rn[x] = o
    BY <1>1, <2>3 DEF Marks, About
  <2> HIDE DEF o, u
  <2> QED
    BY <1>2, <2>5, <2>6, ShownMore DEF v
<1>7. NoneOf(<<>>, Leaving)
  BY EmptyEnds
<1>8. Away(g, v, <<>>, rn, on) /\ Empty(g, v, rn) /\ Shown(g, v, <<>>, rn)
  <2>1. g.open
    BY DEF Tracked, Away, Asked
  <2> QED
    BY <1>1, <1>6, <2>1 DEF Away, Empty, Shown
<1> QED
  BY <1>5, <1>7, <1>8 DEF Tracked, v, u

\* Nothing of this depends on the rest of the window
LEMMA Twins ==
    ASSUME NEW g, NEW t, t.nick = g.nick, t.new_nick = g.new_nick, t.open = g.open,
           t.connected = g.connected, t.contact = g.contact, t.rows = g.rows,
           NEW w, NEW R, NEW rm, NEW on, Tracked(g, w, R, rm, on)
    PROVE  Tracked(t, w, R, rm, on)
<1>1. Asked(t) <=> Asked(g)
  BY DEF Asked
<1>2. /\ Resets(t) = Resets(g) /\ Turn(t) = Turn(g) /\ Before(t) = Before(g)
      /\ After(t) = After(g) /\ Own(t) = Own(g)
  BY <1>1 DEF Resets, Turn, Before, After, Own
<1>3. \A x : /\ Marks(t, x) = Marks(g, x) /\ (Clean(t, x) <=> Clean(g, x))
             /\ (HasRow(t, x) <=> HasRow(g, x))
  BY <1>2 DEF Marks, Clean, HasRow
<1>4. Bare(t) <=> Bare(g)
  BY <1>3 DEF Bare
<1>5. Away(g, w, R, rm, on) => Away(t, w, R, rm, on)
  BY <1>4 DEF Away
<1>6. Same(g, w, R, rm) => Same(t, w, R, rm)
  BY <1>1, <1>2 DEF Same, Known
<1>7. Other(g, w, R, rm) => Other(t, w, R, rm)
  BY <1>1, <1>2 DEF Other
<1>8. Empty(g, w, rm) => Empty(t, w, rm)
  BY <1>2, <1>4 DEF Empty
<1>9. Shown(g, w, R, rm) => Shown(t, w, R, rm)
  BY <1>3 DEF Shown, ShownOf
<1> QED
  BY <1>1, <1>3, <1>5, <1>6, <1>7, <1>8, <1>9 DEF Tracked

\* Nor on what goes on in a room that the user is not in
LEMMA Unseen ==
    ASSUME NEW g, NEW w, NEW R, NEW rm, NEW rn, NEW on, Tracked(g, w, R, rm, on),
           MeIn(rm) = {}, MeIn(rn) = {}
    PROVE  Tracked(g, w, R, rn, on)
<1>1. Same(g, w, R, rm) => Same(g, w, R, rn)
  BY DEF Same, Known
<1>2. ~Other(g, w, R, rm)
  BY DEF Other
<1> QED
  BY <1>1, <1>2 DEF Tracked, Away, Empty, Shown

LEMMA PresenceSays ==
    ASSUME NEW n \in Nick, NEW o \in Occupant
    PROVE  /\ Presence(n, o) \in Stanza /\ Presence(n, o).kind = "available"
           /\ Presence(n, o).nick = n
           /\ Presence(n, o) \in Fits(o) /\ \A x : About(Presence(n, o), x) <=> x = n
           /\ \A kind \in {"conflict", "message"} :
                 /\ [Presence(n, o) EXCEPT !.kind = kind] \in Stanza
                 /\ [Presence(n, o) EXCEPT !.kind = kind].kind = kind
                 /\ [Presence(n, o) EXCEPT !.kind = kind] \notin Presences
<1>1. /\ o # None /\ Presence(n, o).role = o.role
      /\ Presence(n, o) \in Stanza /\ Presence(n, o).kind = "available"
      /\ Presence(n, o).nick = n
  BY PresenceIs, NamesAssumption DEF Presence
<1>2. Presence(n, o) \in Fits(o) /\ \A x : About(Presence(n, o), x) <=> x = n
  BY <1>1 DEF Fits, About
<1>3. ASSUME NEW kind \in {"conflict", "message"}
      PROVE  /\ [Presence(n, o) EXCEPT !.kind = kind] \in Stanza
             /\ [Presence(n, o) EXCEPT !.kind = kind].kind = kind
             /\ [Presence(n, o) EXCEPT !.kind = kind] \notin Presences
  <2>1. /\ [Presence(n, o) EXCEPT !.kind = kind] \in Stanza
        /\ [Presence(n, o) EXCEPT !.kind = kind].kind = kind
    BY DEF Presence, Stanza, Occupant
  <2> QED
    BY <2>1 DEF Presences, OfKind
<1> QED
  BY <1>1, <1>2, <1>3

LEMMA LeftSays ==
    ASSUME NEW n \in Nick, NEW o \in Occupant, NEW m \in Nick \cup {None}
    PROVE  /\ Left(n, o, m) \in Stanza /\ Left(n, o, m).kind = "unavailable"
           /\ Left(n, o, m).nick = n /\ Left(n, o, m).new = m
           /\ Left(n, o, m) \in Fits(None)
           /\ \A x : About(Left(n, o, m), x) <=> x \in {n, m}
  BY LeftIs DEF Fits, About

\* What the room is to Gajim
InTheRoom == Tracked(gc, toGajim, toRoom, room, online)

LEMMA OthersTracked ==
    ASSUME Whole, InTheRoom, ~gc'.astray, Enter \/ Exit \/ Rename \/ SetRole \/ Say
    PROVE  ~gc.astray /\ InTheRoom'
<1>1. /\ gc \in Gc /\ room \in [Nick -> Occupant \cup {None}] /\ toGajim \in Seq(Stanza)
      /\ toRoom' = toRoom /\ online' = online
      /\ Tracked(gc, toGajim, toRoom, room, online)
  BY DEF Whole, TypeOK, InTheRoom, Enter, Exit, Rename, SetRole, Say
<1>2. /\ gc'.nick = gc.nick /\ gc'.new_nick = gc.new_nick /\ gc'.open = gc.open
      /\ gc'.connected = gc.connected /\ gc'.contact = gc.contact /\ gc'.rows = gc.rows
      /\ ~gc.astray
  <2>1. CASE Rename
    <3>1. PICK m \in Nick : gc' = [gc EXCEPT !.astray = @ \/ m = gc.new_nick]
      BY <2>1 DEF Rename
    <3> QED
      BY <1>1, <3>1 DEF Gc
  <2>2. CASE Enter \/ Exit \/ SetRole \/ Say
    BY <2>2 DEF Enter, Exit, SetRole, Say
  <2> QED
    BY <2>1, <2>2
<1>3. SUFFICES Tracked(gc, toGajim', toRoom, room', online)
  BY <1>1, <1>2, Twins DEF InTheRoom
<1>4. InRoom = MeIn(room)
  BY DEF InRoom, MeIn
<1>5. ASSUME MeIn(room) = {}, NEW v, Tell(v), MeIn(room') = MeIn(room)
      PROVE  Tracked(gc, toGajim', toRoom, room', online)
  BY <1>1, <1>4, <1>5, Unseen DEF Tell
<1>6. ASSUME NEW b \in MeIn(room), NEW st \in Stanza, Tell(<<st>>), MeIn(room') = MeIn(room),
             st.kind = "unavailable" =>
                 st.nick # b /\ st.new # b /\ (st.new # None => st.new # gc.new_nick),
             \A x \in Nick : IF About(st, x) THEN st \in Fits(room'[x]) ELSE room'[x] = room[x]
      PROVE  Tracked(gc, toGajim', toRoom, room', online)
  <2>1. toGajim' = toGajim \o <<st>>
    BY <1>4, <1>6 DEF Tell
  <2> QED
    BY <1>1, <1>6, <2>1, Hears
<1>7. CASE Enter
  <2>1. PICK n \in Nick, r \in Roles :
            /\ room[n] = None /\ room' = [room EXCEPT ![n] = [who |-> "other", role |-> r]]
            /\ Tell(<<Presence(n, [who |-> "other", role |-> r])>>)
    BY <1>7 DEF Enter
  <2> DEFINE o == [who |-> "other", role |-> r]
  <2>2. o \in Occupant /\ o.who # "me"
    BY DEF Occupant
  <2>3. room' = [room EXCEPT ![n] = o] /\ Tell(<<Presence(n, o)>>)
    BY <2>1
  <2> HIDE DEF o
  <2>4. room'[n] = o /\ \A x \in Nick \ {n} : room'[x] = room[x]
    BY <1>1, <2>3
  <2>5. MeIn(room') = MeIn(room)
    BY <2>1, <2>2, <2>4 DEF MeIn
  <2>6. /\ Presence(n, o) \in Stanza /\ Presence(n, o).kind = "available"
        /\ Presence(n, o) \in Fits(o) /\ \A x : About(Presence(n, o), x) <=> x = n
    BY <2>2, PresenceSays, ZenonT(40)
  <2> QED
    BY <1>5, <1>6, <2>3, <2>4, <2>5, <2>6
<1>8. CASE Exit
  <2>1. PICK n \in Nick : /\ room[n] # None /\ room[n].who # "me"
                          /\ room' = [room EXCEPT ![n] = None]
                          /\ Tell(<<Left(n, room[n], None)>>)
    BY <1>8 DEF Exit, Others
  <2>2. room'[n] = None /\ \A x \in Nick \ {n} : room'[x] = room[x]
    BY <1>1, <2>1
  <2>3. MeIn(room') = MeIn(room) /\ n \notin MeIn(room) /\ None \notin MeIn(room)
    BY <2>1, <2>2, NamesAssumption DEF MeIn
  <2>4. room[n] \in Occupant
    BY <1>1, <2>1
  <2> DEFINE st == Left(n, room[n], None)
  <2>5. /\ st \in Stanza /\ st.nick = n /\ st.new = None /\ st \in Fits(None)
        /\ \A x : About(st, x) <=> x \in {n, None}
    BY <2>4, LeftSays
  <2>6. Tell(<<st>>)
    BY <2>1
  <2> HIDE DEF st
  <2>7. \A x \in Nick : IF About(st, x) THEN st \in Fits(room'[x]) ELSE room'[x] = room[x]
    BY <2>2, <2>5, NamesAssumption
  <2> QED
    BY <1>5, <1>6, <2>3, <2>5, <2>6, <2>7
<1>9. CASE SetRole
  <2>1. PICK n \in Nick, r \in Roles :
            /\ room[n] # None /\ room' = [room EXCEPT ![n].role = r]
            /\ Tell(<<Presence(n, room'[n])>>)
    BY <1>9 DEF SetRole
  <2>2. room[n] \in Occupant /\ room'[n] = [room[n] EXCEPT !.role = r]
    BY <1>1, <2>1
  <2>3. room'[n] \in Occupant /\ room'[n].who = room[n].who
    BY <2>2 DEF Occupant
  <2>4. room'[n] # None /\ \A x \in Nick \ {n} : room'[x] = room[x]
    BY <1>1, <2>1, <2>3, NamesAssumption
  <2>5. MeIn(room') = MeIn(room)
    BY <2>1, <2>3, <2>4 DEF MeIn
  <2> DEFINE st == Presence(n, room'[n])
  <2>6. /\ st \in Stanza /\ st.kind = "available" /\ st \in Fits(room'[n])
        /\ \A x : About(st, x) <=> x = n
    BY <2>3, PresenceSays
  <2>7. Tell(<<st>>)
    BY <2>1
  <2> HIDE DEF st
  <2> QED
    BY <1>5, <1>6, <2>4, <2>5, <2>6, <2>7
<1>10. CASE Say
  <2>1. PICK n \in Nick :
            /\ room[n] # None /\ room' = room
            /\ Tell(<<[Presence(n, room[n]) EXCEPT !.kind = "message"]>>)
    BY <1>10 DEF Say, Others
  <2>2. room[n] \in Occupant
    BY <1>1, <2>1
  <2> DEFINE st == [Presence(n, room[n]) EXCEPT !.kind = "message"]
  <2>3. st \in Stanza /\ st.kind = "message"
    BY <2>2, PresenceSays, ZenonT(40)
  <2>4. Tell(<<st>>) /\ MeIn(room') = MeIn(room)
    BY <2>1
  <2>5. \A x : ~About(st, x)
    BY <2>3 DEF About
  <2> HIDE DEF st
  <2> QED
    BY <1>5, <1>6, <2>1, <2>3, <2>4, <2>5
<1>11. CASE Rename
  <2>1. PICK n \in Nick, m \in Nick :
            /\ room[n] # None /\ room[n].who # "me" /\ room[m] = None
            /\ room' = [room EXCEPT ![n] = None, ![m] = room[n]]
            /\ Tell(<<Left(n, room[n], m), Presence(m, room[n])>>)
            /\ gc' = [gc EXCEPT !.astray = @ \/ m = gc.new_nick]
    BY <1>11 DEF Rename, Others
  <2> DEFINE o == room[n]
             mid == [room EXCEPT ![n] = None]
             l == Left(n, o, m)
             p == Presence(m, o)
  <2>2. o \in Occupant /\ o # None /\ o.who # "me" /\ n # m /\ m # gc.new_nick
    BY <1>1, <2>1 DEF Gc
  <2>3. /\ mid[n] = None /\ \A x \in Nick \ {n} : mid[x] = room[x]
        /\ room'[n] = None /\ room'[m] = o /\ \A x \in Nick \ {m} : room'[x] = mid[x]
    BY <1>1, <2>1, <2>2
  <2>4. /\ l \in Stanza /\ l.nick = n /\ l.new = m /\ l \in Fits(None)
        /\ \A x : About(l, x) <=> x \in {n, m}
    BY <2>2, LeftSays
  <2>5. /\ p \in Stanza /\ p.kind = "available" /\ p \in Fits(o)
        /\ \A x : About(p, x) <=> x = m
    BY <2>2, PresenceSays, ZenonT(40)
  <2>6. Tell(<<l, p>>)
    BY <2>1
  <2> HIDE DEF o, mid, l, p
  <2>7. MeIn(mid) = MeIn(room) /\ MeIn(room') = MeIn(room) /\ n \notin MeIn(room) /\ m \notin MeIn(room)
    BY <2>1, <2>2, <2>3 DEF MeIn
  <2>8. CASE MeIn(room) = {}
    BY <1>5, <2>6, <2>7, <2>8
  <2>9. ASSUME NEW b \in MeIn(room) PROVE Tracked(gc, toGajim', toRoom, room', online)
    <3>1. toGajim' = (toGajim \o <<l>>) \o <<p>>
      <4>1. toGajim' = toGajim \o <<l, p>>
        BY <1>4, <2>6, <2>9 DEF Tell
      <4> QED
        BY <1>1, <2>4, <2>5, <4>1, TwoMore, SMTT(30)
    <3>2. \A x \in Nick : IF About(l, x) THEN l \in Fits(mid[x]) ELSE mid[x] = room[x]
      BY <2>1, <2>2, <2>3, <2>4
    <3>3. Tracked(gc, toGajim \o <<l>>, toRoom, mid, online)
      BY <1>1, <2>2, <2>4, <2>7, <2>9, <3>2, Hears
    <3>4. \A x \in Nick : IF About(p, x) THEN p \in Fits(room'[x]) ELSE room'[x] = mid[x]
      BY <2>3, <2>5
    <3>5. toGajim \o <<l>> \in Seq(Stanza)
      BY <1>1, <2>4
    <3> QED
      BY <1>1, <2>5, <2>7, <2>9, <3>1, <3>3, <3>4, <3>5, Hears
  <2> QED
    BY <2>8, <2>9
<1> QED
  BY <1>7, <1>8, <1>9, <1>10, <1>11


LEMMA SequenceHasAll ==
    ASSUME NEW S, IsFiniteSet(S)
    PROVE  /\ SetToSeq(S) \in Seq(S)
           /\ \A s \in S : \E i \in DOMAIN SetToSeq(S) : SetToSeq(S)[i] = s
<1> DEFINE k == Cardinality(S)
           v == SetToSeq(S)
<1>1. k \in Nat /\ ExistsBijection(1 .. k, S)
  BY FS_CardinalityType
<1>2. \E f \in [1 .. k -> S] : IsInjective(f)
  BY <1>1 DEF ExistsBijection, Bijection, Injection, IsInjective
<1>3. v \in [1 .. k -> S] /\ IsInjective(v)
  BY <1>2 DEF SetToSeq
<1> HIDE DEF k, v
<1>4. IsFiniteSet(1 .. k) /\ Cardinality(1 .. k) = k
  BY <1>1, FS_Interval
<1>5. v \in Injection(1 .. k, S)
  BY <1>3 DEF Injection
<1>6. v \in Surjection(1 .. k, S)
  BY <1>4, <1>5, FS_Injection DEF k
<1>7. \A s \in S : \E i \in 1 .. k : v[i] = s
  BY <1>6 DEF Surjection
<1>8. v \in Seq(S) /\ DOMAIN v = 1 .. k
  BY <1>1, <1>3
<1> QED
  BY <1>7, <1>8 DEF v

\* Who enters is told of everybody in the room
LEMMA OthersAreTold ==
    ASSUME TypeOK,
           NEW v, v = SetToSeq({Presence(m, room[m]) : m \in {m \in Nick : room[m] # None}})
    PROVE  /\ v \in Seq(Stanza)
           /\ \A i \in DOMAIN v : \E m \in Nick : room[m] # None /\ v[i] = Presence(m, room[m])
           /\ \A m \in Nick : room[m] # None => \E i \in DOMAIN v : v[i] = Presence(m, room[m])
<1> DEFINE N == {m \in Nick : room[m] # None}
           S == {Presence(m, room[m]) : m \in N}
<1>1. \A m \in N : m \in Nick /\ room[m] # None /\ Presence(m, room[m]) \in Stanza
  BY Occupied, PresenceIs
<1>2. \A s \in S : s \in Stanza /\ \E m \in Nick : room[m] # None /\ s = Presence(m, room[m])
  BY <1>1
<1>3. IsFiniteSet(S)
  <2>1. IsFiniteSet(N)
    BY GroupChatAssumption, FS_Subset
  <2> DEFINE f == [m \in N |-> Presence(m, room[m])]
  <2>2. f \in Surjection(N, S)
    BY DEF Surjection
  <2> HIDE DEF f, S
  <2> QED
    BY <2>1, <2>2, FS_Surjection
<1>4. \A m \in Nick : room[m] # None => Presence(m, room[m]) \in S
  OBVIOUS
<1>5. v = SetToSeq(S)
  OBVIOUS
<1> HIDE DEF S
<1>6. v \in Seq(S) /\ \A s \in S : \E i \in DOMAIN v : v[i] = s
  BY <1>3, <1>5, SequenceHasAll
<1>7. \A i \in DOMAIN v : v[i] \in S
  BY <1>6
<1>8. v \in Seq(Stanza)
  BY <1>2, <1>6
<1> QED
  BY <1>2, <1>4, <1>6, <1>7, <1>8

LEMMA PresenceTells ==
    ASSUME NEW n \in Nick, NEW o \in Occupant, NEW p, p = Presence(n, o)
    PROVE  /\ p \in Stanza /\ p.kind = "available" /\ p.nick = n /\ p \in Fits(o)
           /\ \A x : About(p, x) <=> x = n
  BY PresenceSays, ZenonT(40)

LEMMA KickTracked ==
    ASSUME Whole, InTheRoom, ~gc'.astray, Kick
    PROVE  ~gc.astray /\ InTheRoom'
<1>1. /\ gc \in Gc /\ room \in [Nick -> Occupant \cup {None}] /\ toGajim \in Seq(Stanza)
      /\ toRoom' = toRoom /\ online' = online
      /\ Tracked(gc, toGajim, toRoom, room, online)
      /\ gc' = [gc EXCEPT !.astray = @ \/ gc.new_nick # None]
  BY DEF Whole, TypeOK, InTheRoom, Kick
<1>2. /\ gc'.nick = gc.nick /\ gc'.new_nick = gc.new_nick /\ gc'.open = gc.open
      /\ gc'.connected = gc.connected /\ gc'.contact = gc.contact /\ gc'.rows = gc.rows
      /\ ~gc.astray /\ gc.new_nick = None
  BY <1>1 DEF Gc
<1>3. PICK n \in InRoom : room' = [room EXCEPT ![n] = None] /\ Tell(<<Left(n, room[n], None)>>)
  BY DEF Kick
<1>4. InRoom = MeIn(room) /\ n \in Nick /\ room[n] # None
  BY DEF InRoom, MeIn
<1>5. ~Asked(gc)
  BY <1>2 DEF Asked
<1>6. MeIn(room) \subseteq {gc.nick}
  BY <1>1, <1>5 DEF Tracked, Same, Other
<1>7. MeIn(room') = {}
  BY <1>1, <1>3, <1>4, <1>6 DEF MeIn
<1> DEFINE st == Left(n, room[n], None)
<1>8. /\ st \in Stanza /\ st.kind = "unavailable" /\ st.nick = n /\ st.new = None
  BY <1>1, <1>4, LeftSays
<1>9. toGajim' = toGajim \o <<st>>
  BY <1>3 DEF Tell
<1> HIDE DEF st
<1>10. Tracked(gc, toGajim', toRoom, room', online)
  BY <1>1, <1>3, <1>4, <1>5, <1>7, <1>8, <1>9, Goes
<1> QED
  BY <1>1, <1>2, <1>10, Twins DEF InTheRoom

LEMMA ServeTracked ==
    ASSUME Whole, InTheRoom, Serve
    PROVE  gc' = gc /\ InTheRoom'
<1> DEFINE q == Head(toRoom)
           n == q.nick
           o == [who |-> "me", role |-> Role[Len(Role)]]
           others == SetToSeq({Presence(m, room[m]) : m \in {m \in Nick : room[m] # None}})
           T == Tail(toRoom)
<1>1. /\ TypeOK /\ room \in [Nick -> Occupant \cup {None}] /\ toRoom \in Seq(Request)
      /\ toGajim \in Seq(Stanza) /\ toRoom # <<>> /\ gc \in Gc
      /\ toRoom' = T /\ gc' = gc /\ online' = online
      /\ Tracked(gc, toGajim, toRoom, room, online)
  BY DEF Whole, TypeOK, Serve, InTheRoom
<1>2. q \in Request /\ 1 \in DOMAIN toRoom /\ toRoom[1] = q
  BY <1>1, TailAt
<1>3. n \in Nick \cup {None} /\ (q.join => n \in Nick)
  BY <1>2 DEF Request
<1>4. o \in Occupant /\ o # None /\ o.who = "me"
  BY GroupChatAssumption, NamesAssumption DEF Occupant, Roles
<1>5. /\ others \in Seq(Stanza)
      /\ \A i \in DOMAIN others : \E m \in Nick : room[m] # None /\ others[i] = Presence(m, room[m])
      /\ \A m \in Nick : room[m] # None => \E i \in DOMAIN others : others[i] = Presence(m, room[m])
  BY <1>1, OthersAreTold
<1>6. InRoom = MeIn(room) /\ online
  BY <1>1 DEF InRoom, MeIn, Tracked, Away
<1> HIDE DEF others
<1>7. \/ /\ InRoom = {} /\ ~q.join
         /\ UNCHANGED <<room, toGajim>>
      \/ /\ InRoom = {} /\ q.join /\ room[n] = None
         /\ room' = [room EXCEPT ![n] = o]
         /\ toGajim' = (toGajim \o others) \o <<Presence(n, o)>>
      \/ /\ n # None /\ room[n] # None /\ room[n].who # "me"
         /\ q.join \/ InRoom # {}
         /\ toGajim' = Append(toGajim, [Presence(n, room[n]) EXCEPT !.kind = "conflict"])
         /\ UNCHANGED room
      \/ \E m \in InRoom :
            \/ /\ n = None
               /\ Tell(<<Left(m, room[m], None)>>)
               /\ room' = [room EXCEPT ![m] = None]
            \/ /\ n = m
               /\ Tell(<<Presence(m, room[m])>>)
               /\ UNCHANGED room
            \/ /\ n # None /\ room[n] = None
               /\ Tell(<<Left(m, room[m], n), Presence(n, room[m])>>)
               /\ room' = [room EXCEPT ![m] = None, ![n] = room[m]]
  BY DEF Serve, others
<1>8. Same(gc, toGajim, toRoom, room)
  BY <1>1 DEF Tracked, Other
<1>9. /\ MeIn(room) \subseteq {gc.nick}
      /\ \/ n \in {None, gc.nick}
         \/ /\ toRoom = <<[nick |-> gc.new_nick, join |-> TRUE]>>
            /\ Asked(gc) /\ gc.connected /\ MeIn(room) = {gc.nick} /\ n = gc.new_nick
  BY <1>2, <1>8 DEF Same
<1> HIDE DEF n, o, T
<1> SUFFICES Tracked(gc, toGajim', T, room', online)
  BY <1>1 DEF InTheRoom
\* The request for presences of one who is not in the room
<1>10. CASE InRoom = {} /\ ~q.join /\ UNCHANGED <<room, toGajim>>
  BY <1>1, <1>6, <1>10, Served DEF T
\* The user is let in
<1>11. CASE /\ InRoom = {} /\ q.join /\ room[n] = None
            /\ room' = [room EXCEPT ![n] = o]
            /\ toGajim' = (toGajim \o others) \o <<Presence(n, o)>>
  <2> DEFINE p == Presence(n, o)
             v == others \o <<p>>
  <2>1. n = gc.nick /\ n \in Nick
    BY <1>3, <1>6, <1>9, <1>11, NamesAssumption
  <2>2. p \in Stanza /\ p.kind = "available" /\ p.nick = n /\ p \in Fits(o)
    BY <1>4, <2>1, PresenceTells
  <2>3. toGajim' = (toGajim \o others) \o <<p>>
    BY <1>11
  <2> HIDE DEF p, q
  <2>4. room'[n] = o /\ \A x \in Nick \ {n} : room'[x] = room[x]
    BY <1>1, <1>11, <2>1
  <2>5. MeIn(room') = {gc.nick} /\ MeIn(room) = {}
    BY <1>4, <1>6, <1>11, <2>1, <2>4 DEF MeIn
  <2>6. /\ v \in Seq(Stanza) /\ <<p>> \in Seq(Stanza)
        /\ \A i \in DOMAIN others : i \in DOMAIN v /\ v[i] = others[i]
        /\ \A i \in DOMAIN v : v[i] = p \/ (i \in DOMAIN others /\ v[i] = others[i])
        /\ \E i \in DOMAIN v : v[i] = p
    <3>1. v \in Seq(Stanza) /\ <<p>> \in Seq(Stanza) /\ Len(v) = Len(others) + 1 /\ Len(others) \in Nat
      BY <1>5, <2>2
    <3>2. \A i \in 1 .. Len(v) : v[i] = IF i <= Len(others) THEN others[i] ELSE p
      BY <1>5, <2>2, <3>1
    <3>3. DOMAIN v = 1 .. Len(v) /\ DOMAIN others = 1 .. Len(others)
      BY <1>5, <3>1
    <3> HIDE DEF v
    <3>4. Len(v) \in DOMAIN v /\ v[Len(v)] = p
      BY <3>1, <3>2, <3>3
    <3> QED
      BY <3>1, <3>2, <3>3, <3>4
  <2>7. toGajim' = toGajim \o v
    BY <1>1, <1>5, <2>3, <2>6, SMTT(30)
  <2> HIDE DEF v
  <2>8. \A i \in DOMAIN v : /\ v[i].kind = "available" /\ v[i].nick \in Nick
                            /\ v[i] \in Fits(room'[v[i].nick])
    <3> SUFFICES ASSUME NEW i \in DOMAIN v
                 PROVE  /\ v[i].kind = "available" /\ v[i].nick \in Nick
                        /\ v[i] \in Fits(room'[v[i].nick])
      OBVIOUS
    <3>1. CASE v[i] = p
      BY <2>1, <2>2, <2>4, <3>1
    <3>2. ASSUME NEW m \in Nick, room[m] # None, v[i] = Presence(m, room[m])
          PROVE  /\ v[i].kind = "available" /\ v[i].nick \in Nick
                 /\ v[i] \in Fits(room'[v[i].nick])
      <4>0. room[m] \in Occupant
        BY <1>1, <3>2
      <4>1. /\ v[i].kind = "available" /\ v[i].nick = m /\ v[i] \in Fits(room[m])
        BY <3>2, <4>0, PresenceTells
      <4>2. room'[m] = room[m]
        BY <1>11, <2>4, <3>2
      <4> QED
        BY <4>1, <4>2
    <3> QED
      BY <1>5, <2>6, <3>1, <3>2
  <2>9. \A x \in Nick : room'[x] # None => \E i \in DOMAIN v : v[i].nick = x
    <3> SUFFICES ASSUME NEW x \in Nick, room'[x] # None
                 PROVE  \E i \in DOMAIN v : v[i].nick = x
      OBVIOUS
    <3>1. CASE x = n
      BY <2>2, <2>6, <3>1
    <3>2. CASE x # n
      <4>1. room[x] # None /\ room[x] \in Occupant
        BY <1>1, <2>4, <3>2, Occupied
      <4>2. PICK i \in DOMAIN others : others[i] = Presence(x, room[x])
        BY <1>5, <4>1
      <4>3. Presence(x, room[x]).nick = x
        BY <4>1, PresenceSays
      <4> QED
        BY <2>6, <4>2, <4>3
    <3> QED
      BY <3>1, <3>2
  <2>10. \A x \in Nick : room[x] = None \/ room'[x] = room[x]
    BY <1>11, <2>4
  <2>11. /\ Tracked(gc, toGajim, T, room, online)
         /\ ~gc.open => ~NoneOf(T, Leaving \cup Joining)
    BY <1>1, <1>11, <2>5, Served DEF T, q
  <2> QED
    BY <1>1, <1>6, <2>5, <2>6, <2>7, <2>8, <2>9, <2>10, <2>11, Enters
\* Another has the name
<1>12. CASE /\ n # None /\ room[n] # None /\ room[n].who # "me"
            /\ toGajim' = Append(toGajim, [Presence(n, room[n]) EXCEPT !.kind = "conflict"])
            /\ UNCHANGED room
  <2> DEFINE st == [Presence(n, room[n]) EXCEPT !.kind = "conflict"]
  <2>1. n \in Nick /\ room[n] \in Occupant
    BY <1>1, <1>3, <1>12, Occupied
  <2>2. st \in Stanza /\ st \notin Presences
    BY <2>1, PresenceSays
  <2>3. toGajim' = Append(toGajim, st)
    BY <1>12
  <2> HIDE DEF st
  <2>4. toGajim' = toGajim \o <<st>>
    BY <1>1, <2>2, <2>3
  <2>5. Tracked(gc, toGajim, T, room, online)
    BY <1>1, <1>12, Served DEF T, n
  <2>6. room' = room /\ toGajim \in Seq(Stanza) /\ gc \in Gc
    BY <1>1, <1>12
  <2> QED
    BY <1>6, <2>2, <2>4, <2>5, <2>6, Ignores
<1>13. ASSUME NEW m \in InRoom, n = None, Tell(<<Left(m, room[m], None)>>),
              room' = [room EXCEPT ![m] = None]
       PROVE  Tracked(gc, toGajim', T, room', online)
  <2>1. m \in Nick /\ room[m] \in Occupant /\ m \in MeIn(room)
    BY <1>1, <1>6, <1>13, Occupied DEF InRoom
  <2> DEFINE st == Left(m, room[m], None)
  <2>2. /\ st \in Stanza /\ st.kind = "unavailable" /\ st.nick = m /\ st.new = None
    BY <2>1, LeftSays
  <2>3. toGajim' = toGajim \o <<st>>
    BY <1>13 DEF Tell
  <2> HIDE DEF st
  <2>4. MeIn(room') = {}
    BY <1>1, <1>9, <1>13, <2>1 DEF MeIn
  <2>5. ~Asked(gc)
    <3>1. q \in Leaving
      BY <1>2, <1>13 DEF Leaving, n
    <3>2. ~NoneOf(toRoom, Leaving)
      BY <1>2, <3>1 DEF NoneOf
    <3> QED
      BY <1>1, <3>2 DEF Tracked
  <2>6. Tracked(gc, toGajim', toRoom, room', online)
    BY <1>1, <2>1, <2>2, <2>3, <2>4, <2>5, Goes
  <2>7. toGajim' \in Seq(Stanza)
    BY <1>1, <2>2, <2>3
  <2> QED
    BY <1>1, <2>4, <2>6, <2>7, Served DEF T
\* The request of one who is in the room, under that name
<1>14. ASSUME NEW m \in InRoom, n = m, Tell(<<Presence(m, room[m])>>), UNCHANGED room
       PROVE  Tracked(gc, toGajim', T, room', online)
  <2>1. m \in Nick /\ room[m] \in Occupant /\ m \in MeIn(room) /\ m # None
    BY <1>1, <1>6, <1>14, Occupied, NamesAssumption DEF InRoom
  <2> DEFINE st == Presence(m, room[m])
  <2>2. /\ st \in Stanza /\ st.kind = "available" /\ st \in Fits(room[m])
        /\ \A x : About(st, x) <=> x = m
    BY <2>1, PresenceTells
  <2>3. toGajim' = toGajim \o <<st>>
    BY <1>14 DEF Tell
  <2> HIDE DEF st
  <2>4. Tracked(gc, toGajim, T, room, online)
    BY <1>1, <1>14, <2>1, Served DEF T, n
  <2>5. Tracked(gc, toGajim', T, room, online)
    BY <1>1, <2>1, <2>2, <2>3, <2>4, Hears
  <2> QED
    BY <1>14, <2>5
\* The change of the name
<1>15. ASSUME NEW m \in InRoom, n # None, room[n] = None,
              Tell(<<Left(m, room[m], n), Presence(n, room[m])>>),
              room' = [room EXCEPT ![m] = None, ![n] = room[m]]
       PROVE  Tracked(gc, toGajim', T, room', online)
  <2> DEFINE o2 == room[m]
             l == Left(m, o2, n)
             p == Presence(n, o2)
  <2>1. /\ m \in Nick /\ o2 \in Occupant /\ o2 # None /\ o2.who = "me" /\ n \in Nick /\ m # n
    BY <1>1, <1>3, <1>15, Occupied DEF InRoom
  <2>2. m = gc.nick /\ n = gc.new_nick /\ Asked(gc) /\ gc.connected /\ MeIn(room) = {gc.nick}
        /\ toRoom = <<[nick |-> gc.new_nick, join |-> TRUE]>>
    BY <1>6, <1>9, <1>15, <2>1
  <2>3. T = <<>>
    BY <2>2 DEF T
  <2>4. l \in Stanza /\ l.kind = "unavailable" /\ l.nick = m /\ l.new = n
    BY <2>1, LeftSays
  <2>5. p \in Stanza /\ p.kind = "available" /\ p.nick = n /\ p \in Fits(o2)
    BY <2>1, PresenceTells
  <2>6. toGajim' = toGajim \o <<l, p>> /\ toGajim \in Seq(Stanza)
    BY <1>1, <1>15 DEF Tell
  <2>11. room' = [room EXCEPT ![m] = None, ![n] = o2]
    BY <1>15
  <2> HIDE DEF o2, l, p
  <2>7. room'[n] = o2 /\ room'[m] = None /\ \A x \in Nick \ {n, m} : room'[x] = room[x]
    BY <1>1, <2>1, <2>11
  <2>8. MeIn(room') = {n}
    BY <2>1, <2>2, <2>7 DEF MeIn
  <2>9. toGajim' = (toGajim \o <<l>>) \o <<p>>
    BY <2>4, <2>5, <2>6, TwoMore, SMTT(30)
  <2>10. Tracked(gc, (toGajim \o <<l>>) \o <<p>>, <<>>, room', online)
    <3>1. /\ gc \in Gc /\ Tracked(gc, toGajim, toRoom, room, online)
          /\ MeIn(room') = {gc.new_nick} /\ room'[gc.nick] = None /\ room[gc.new_nick] = None
          /\ \A x \in Nick \ {gc.nick, gc.new_nick} : room'[x] = room[x]
          /\ l.nick = gc.nick /\ l.new = gc.new_nick /\ p.nick = gc.new_nick
          /\ p \in Fits(room'[gc.new_nick])
      BY <1>1, <1>15, <2>2, <2>4, <2>5, <2>7, <2>8
    <3> QED
      BY <2>2, <2>4, <2>5, <2>6, <3>1, Turns
  <2> QED
    BY <2>3, <2>9, <2>10
<1> QED
  BY <1>7, <1>10, <1>11, <1>12, <1>13, <1>14, <1>15

-----------------------------------------------------------------------------
(* What the handlers do to the tree, and to the windows.                   *)

LEMMA AddContactKeeps ==
    ASSUME NEW g \in Gc, Filed(g), NEW n \in Nick, NEW show \in {"online", "offline"},
           NEW role \in Roles, NEW t, t = AddContact(g, n, show, role)
    PROVE  /\ Filed(t)
           /\ t.nick = g.nick /\ t.new_nick = g.new_nick /\ t.open = g.open
           /\ t.astray = g.astray /\ (t.connected <=> g.connected \/ n = g.nick)
           /\ \A m \in Nick \ {n} : t.rows[m] = g.rows[m]
<1>1. /\ t.nick = g.nick /\ t.new_nick = g.new_nick /\ t.open = g.open
      /\ t.astray = g.astray /\ t.connected = (g.connected \/ n = g.nick)
  BY DEF AddContact, Gc
<1>2. /\ g.rows \in [Nick -> [Roles -> Nat]] /\ t.rows = [g.rows EXCEPT ![n][role] = @ + 1]
      /\ g.contact \in [Nick -> Contact \cup {None}]
  BY DEF AddContact, Gc
<1>3. /\ \A m \in Nick \ {n} : t.rows[m] = g.rows[m]
      /\ t.rows[n] = [g.rows[n] EXCEPT ![role] = @ + 1]
      /\ g.rows[n] \in [Roles -> Nat]
  BY <1>2
<1>4. t.rows[n][role] > 0 /\ \A r \in Roles : t.rows[n][r] >= g.rows[n][r]
  BY <1>3
<1> DEFINE new == [show |-> show, role |-> role]
<1>5. t.contact = [g.contact EXCEPT ![n] = IF @ = None THEN new ELSE @]
  BY DEF AddContact, Gc
<1>6. new # None /\ new.role = role
  BY NamesAssumption DEF Contact
<1> HIDE DEF new
<1>7. ASSUME NEW m \in Nick, t.contact[m] # None PROVE t.rows[m][t.contact[m].role] > 0
  <2>1. CASE m # n
    BY <1>2, <1>3, <1>5, <1>7, <2>1 DEF Filed
  <2>2. CASE m = n /\ g.contact[n] = None
    BY <1>2, <1>4, <1>5, <1>6, <2>2
  <2>3. CASE m = n /\ g.contact[n] # None
    <3>1. t.contact[m] = g.contact[n] /\ g.contact[n].role \in Roles
      BY <1>2, <1>5, <2>3 DEF Contact
    <3>2. g.rows[n][g.contact[n].role] > 0 /\ g.rows[n][g.contact[n].role] \in Nat
      BY <1>3, <2>3, <3>1 DEF Filed
    <3>3. t.rows[n][g.contact[n].role] \in Nat
      BY <1>3, <3>1
    <3> QED
      BY <1>4, <2>3, <3>1, <3>2, <3>3
  <2> QED
    BY <2>1, <2>2, <2>3
<1> QED
  BY <1>1, <1>3, <1>7 DEF Filed

LEMMA RemoveContactKeeps ==
    ASSUME NEW g, Good(g), Filed(g), NEW n \in Nick, NEW t, t = RemoveContact(g, n)
    PROVE  /\ Filed(t) /\ Keeps(g, t)
           /\ \A m \in Nick \ {n} : t.rows[m] = g.rows[m] /\ t.contact[m] = g.contact[m]
           /\ t.contact[n] = None
           /\ \A m \in Nick : HasRow(t, m) => HasRow(g, m)
           /\ g.contact[n] # None /\ Clean(t, n) => Clean(g, n)
<1>1. g \in Gc /\ Listed(g) /\ g.contact \in [Nick -> Contact \cup {None}]
  BY DEF Good, Gc
<1>2. CASE ~HasRow(g, n)
  <2>1. t = g /\ g.contact[n] = None
    BY <1>1, <1>2 DEF RemoveContact, Listed
  <2> QED
    BY <2>1 DEF Keeps
<1>3. CASE HasRow(g, n)
  <2> DEFINE r == FirstRole(g, n)
  <2>1. r \in Roles /\ g.rows[n][r] > 0
    BY <1>1, <1>3, FirstRoleIs
  <2> HIDE DEF r
  <2>2. t = [g EXCEPT !.rows[n][r] = @ - 1, !.contact[n] = None]
    BY <1>3 DEF RemoveContact, r
  <2>3. g.rows \in [Nick -> [Roles -> Nat]] /\ g.rows[n] \in [Roles -> Nat]
    BY <1>1 DEF Gc
  <2>4. Keeps(g, t)
    BY <1>1, <2>2 DEF Keeps, Gc
  <2>5. t.rows = [g.rows EXCEPT ![n][r] = @ - 1] /\ t.contact = [g.contact EXCEPT ![n] = None]
    BY <1>1, <2>2 DEF Gc
  <2>6. /\ \A m \in Nick \ {n} : t.rows[m] = g.rows[m] /\ t.contact[m] = g.contact[m]
        /\ t.contact[n] = None /\ t.rows[n] = [g.rows[n] EXCEPT ![r] = @ - 1]
    BY <1>1, <2>3, <2>5
  <2>7. Filed(t)
    BY <2>6 DEF Filed
  <2>8. \A q \in Roles : t.rows[n][q] = IF q = r THEN g.rows[n][r] - 1 ELSE g.rows[n][q]
    BY <2>3, <2>6
  <2>9. \A m \in Nick : HasRow(t, m) => HasRow(g, m)
    BY <1>3, <2>6 DEF HasRow
  <2>10. ASSUME g.contact[n] # None, Clean(t, n) PROVE Clean(g, n)
    <3>1. \A q \in Roles : t.rows[n][q] = 0
      BY <2>6, <2>10 DEF Clean
    <3>2. g.rows[n][r] = 1 /\ \A q \in Roles : q # r => g.rows[n][q] = 0
      BY <2>1, <2>3, <2>8, <3>1
    <3>3. g.contact[n].role \in Roles /\ g.rows[n][g.contact[n].role] > 0
      BY <1>1, <2>10 DEF Filed, Contact
    <3>4. g.contact[n].role = r
      BY <3>2, <3>3
    <3> QED
      BY <2>10, <3>2, <3>4 DEF Clean
  <2> QED
    BY <2>4, <2>6, <2>7, <2>9, <2>10
<1> QED
  BY <1>2, <1>3

LEMMA GotDisconnectedKeeps ==
    ASSUME NEW g \in Gc, NEW t, t = GotDisconnected(g)
    PROVE  /\ Bare(t) /\ Neat(t)
           /\ t.nick = g.nick /\ t.new_nick = g.new_nick /\ t.open = g.open
           /\ t.astray = g.astray
<1>1. /\ t.nick = g.nick /\ t.new_nick = g.new_nick /\ t.open = g.open
      /\ t.astray = g.astray /\ t.connected = FALSE
      /\ t.contact = [n \in Nick |-> None] /\ t.rows = NoRow
  BY DEF GotDisconnected, Gc
<1>2. \A n \in Nick : t.contact[n] = None /\ \A r \in Roles : t.rows[n][r] = 0
  BY <1>1 DEF NoRow
<1> QED
  BY <1>1, <1>2 DEF Bare, Neat, Filed, Opened, HasRow

ContactSays(g, n, show) == [g EXCEPT !.contact[n].show = show]

LEMMA ContactSaysKeeps ==
    ASSUME NEW g, Good(g), Filed(g), NEW n \in Nick, g.contact[n] # None,
           NEW show \in {"online", "offline"},
           NEW t, t = ContactSays(g, n, show)
    PROVE  /\ Filed(t) /\ Keeps(g, t) /\ t.rows = g.rows
           /\ t.contact[n] \in Contact
           /\ t.contact[n].show = show /\ t.contact[n].role = g.contact[n].role
           /\ \A m \in Nick \ {n} : t.contact[m] = g.contact[m]
<1>1. g \in Gc /\ g.contact \in [Nick -> Contact \cup {None}]
  BY DEF Good, Gc
<1>2. /\ t.rows = g.rows /\ t.contact = [g.contact EXCEPT ![n].show = show]
  BY <1>1 DEF Gc, ContactSays
<1>3. Keeps(g, t)
  BY <1>1 DEF Gc, Keeps, ContactSays
<1>4. g.contact[n] \in Contact
  BY <1>1
<1>5. t.contact[n] = [g.contact[n] EXCEPT !.show = show]
  BY <1>1, <1>2
<1>6. /\ t.contact[n] \in Contact
      /\ t.contact[n].show = show /\ t.contact[n].role = g.contact[n].role
  BY <1>4, <1>5 DEF Contact
<1>7. \A m \in Nick \ {n} : t.contact[m] = g.contact[m]
  BY <1>1, <1>2
<1>8. Filed(t)
  BY <1>2, <1>6, <1>7 DEF Filed
<1> QED
  BY <1>2, <1>3, <1>6, <1>7, <1>8

\* Nothing but windows changes
Quietly(g, t) == Keeps(g, t) /\ t.rows = g.rows /\ t.contact = g.contact

LEMMA ChatSaysKeeps ==
    ASSUME NEW g, Good(g), NEW n \in Nick, g.table[n] # None, NEW show \in {"online", "offline"},
           \A m \in Nick \ {n} : Opened(g, m),
           g.contact[n] # None => show = g.contact[n].show,
           NEW t, t = ChatSays(g, n, show)
    PROVE  Quietly(g, t) /\ \A m \in Nick : Opened(t, m)
<1> DEFINE c == g.table[n]
<1>1. /\ g \in Gc /\ Found(g) /\ g.chat \in [Chats -> Chat \cup {None}]
      /\ c \in Chats /\ g.chat[c] \in Chat /\ g.chat[c].nick = n
  BY Chatting DEF Good, Gc, Found
<1> HIDE DEF c
<1>2. t.table = g.table /\ t.chat = [g.chat EXCEPT ![c].show = show]
  BY <1>1 DEF Gc, c, ChatSays
<1>3. Quietly(g, t)
  BY <1>1 DEF Gc, ChatSays, Quietly, Keeps
<1>4. t.chat[c] = [g.chat[c] EXCEPT !.show = show] /\ \A d \in Chats \ {c} : t.chat[d] = g.chat[d]
  BY <1>1, <1>2
<1>5. t.chat[c].show = show
  BY <1>1, <1>4 DEF Chat
<1>6. ASSUME NEW m \in Nick PROVE Opened(t, m)
  <2>1. CASE m = n
    BY <1>2, <1>3, <1>5, <2>1 DEF Opened, Quietly, c
  <2>2. CASE m # n
    <3>1. g.table[m] # None => g.table[m] \in Chats \ {c}
      BY <1>1, <2>2, Chatting DEF Found
    <3> QED
      BY <1>2, <1>3, <1>4, <2>2, <3>1 DEF Opened, Quietly
  <2> QED
    BY <2>1, <2>2
<1> QED
  BY <1>3, <1>6

LEMMA ChangeKeyKeeps ==
    ASSUME NEW g, Good(g), NEW old \in Nick, NEW new \in Nick, old # new,
           g.table[old] # None, g.contact[new] # None,
           \A m \in Nick \ {old} : Opened(g, m),
           NEW t, t = ChangeKey(g, old, new)
    PROVE  Quietly(g, t) /\ \A m \in Nick : Opened(t, m)
<1> DEFINE c == g.table[old]
           show == g.contact[new].show
<1>1. /\ g \in Gc /\ Found(g) /\ c \in Chats /\ g.chat[c] \in Chat
      /\ g.chat[c].nick = old /\ g.chat \in [Chats -> Chat \cup {None}]
  BY Chatting DEF Good, Found, Gc
<1>2. /\ t.chat = [g.chat EXCEPT ![c].nick = new, ![c].show = show]
      /\ t.table = [g.table EXCEPT ![new] = c, ![old] = None]
  BY <1>1 DEF ChangeKey, Gc
<1>3. Quietly(g, t)
  BY <1>1 DEF ChangeKey, Gc, Quietly, Keeps
<1> HIDE DEF c, show
<1>4. /\ \A d \in Chats \ {c} : t.chat[d] = g.chat[d]
      /\ t.chat[c] = [g.chat[c] EXCEPT !.nick = new, !.show = show]
  BY <1>1, <1>2
<1>5. t.chat[c].show = show
  BY <1>1, <1>4 DEF Chat
<1>6. \A m \in Nick : t.table[m] = IF m = new THEN c ELSE IF m = old THEN None ELSE g.table[m]
  BY <1>1, <1>2 DEF Gc
<1>7. ASSUME NEW m \in Nick PROVE Opened(t, m)
  <2>1. CASE m = old
    BY <1>6, <2>1 DEF Opened
  <2>2. CASE m = new
    BY <1>3, <1>5, <1>6, <2>2 DEF Opened, Quietly, show
  <2>3. CASE m \in Nick \ {old, new}
    <3>1. g.table[m] # None => g.table[m] \in Chats \ {c}
      BY <1>1, <2>3, Chatting DEF Found
    <3> QED
      BY <1>3, <1>4, <1>6, <2>3, <3>1 DEF Opened, Quietly
  <2> QED
    BY <2>1, <2>2, <2>3
<1> QED
  BY <1>3, <1>7

LEMMA SetSessionKeeps ==
    ASSUME NEW g, Good(g), NEW c \in Chats, g.chat[c] # None, NEW n \in Nick,
           NEW t, t = SetSession(g, c, n)
    PROVE  /\ Quietly(g, t) /\ t.table = g.table
           /\ \A d \in Chats : g.chat[d] # None => t.chat[d].show = g.chat[d].show
           /\ \A m \in Nick : Opened(g, m) => Opened(t, m)
<1>1. g \in Gc /\ Found(g) /\ g.chat[c] \in Chat /\ g.chat \in [Chats -> Chat \cup {None}]
  BY Chatting DEF Good, Gc
<1>2. Quietly(g, t)
  BY <1>1 DEF SetSession, Gc, Quietly, Keeps
<1>3. t.table = g.table /\ t.chat = [g.chat EXCEPT ![c].session = n]
  BY <1>1 DEF SetSession, Gc
<1>4. \A d \in Chats : t.chat[d] = IF d = c THEN [g.chat[c] EXCEPT !.session = n] ELSE g.chat[d]
  BY <1>1, <1>3
<1>5. \A d \in Chats : g.chat[d] # None => t.chat[d].show = g.chat[d].show
  BY <1>1, <1>4 DEF Chat
<1>6. ASSUME NEW m \in Nick, Opened(g, m) PROVE Opened(t, m)
  <2>1. g.table[m] # None => g.table[m] \in Chats /\ g.chat[g.table[m]] # None
    BY <1>1, Chatting DEF Found
  <2> QED
    BY <1>2, <1>3, <1>5, <1>6, <2>1 DEF Opened, Quietly
<1> QED
  BY <1>2, <1>3, <1>5, <1>6

LEMMA AvailableKeeps ==
    ASSUME NEW g, Good(g), g.open, Neat(g), HasRow(g, g.nick) => g.connected,
           NEW st \in Stanza, NEW t, t = Available(g, st)
    PROVE  /\ Neat(t)
           /\ t.nick = g.nick /\ t.new_nick = g.new_nick /\ t.open = g.open
           /\ t.astray = g.astray /\ (t.connected <=> g.connected \/ st.nick = g.nick)
           /\ \A m \in Nick \ {st.nick} : t.contact[m] = g.contact[m] /\ t.rows[m] = g.rows[m]
           /\ \/ t.contact[st.nick] = [show |-> "online", role |-> st.role]
              \/ t.contact[st.nick] = None /\ HasRow(t, st.nick)
<1> DEFINE n == st.nick
           g1 == IF ~HasRow(g, n) THEN AddContact(g, n, "online", st.role)
                 ELSE IF g.contact[n].role # st.role
                 THEN AddContact(RemoveContact(g, n), n, "online", st.role)
                 ELSE [g EXCEPT !.contact[n].show = "online"]
           c == g.table[n]
           new == [show |-> "online", role |-> st.role]
           Has(h) == /\ Filed(h) /\ (\A m \in Nick \ {n} : Opened(h, m))
                     /\ h.nick = g.nick /\ h.new_nick = g.new_nick /\ h.open = g.open
                     /\ h.astray = g.astray /\ (h.connected <=> g.connected \/ n = g.nick)
                     /\ \A m \in Nick \ {n} : h.contact[m] = g.contact[m] /\ h.rows[m] = g.rows[m]
                     /\ h.contact[n] = new
<1>1. n \in Nick /\ st.role \in Roles /\ g \in Gc /\ Filed(g) /\ \A m \in Nick : Opened(g, m)
  BY DEF Stanza, Good, Neat
<1> HIDE DEF g1
<1>2. new \in Contact /\ new # None /\ new.show = "online"
  BY <1>1, NamesAssumption DEF Contact
<1>3. CASE HasRow(g, n) /\ g.contact[n] = None
  <2>1. t = g
    BY <1>3 DEF Available
  <2> QED
    BY <1>3, <2>1
<1>4. CASE ~(HasRow(g, n) /\ g.contact[n] = None)
  <2>1. Good(g1) /\ SameChats(g, g1) /\ Has(g1)
    <3> DEFINE Added(h) == /\ Good(h) /\ SameChats(g, h) /\ Filed(h) /\ Keeps(g, h)
                           /\ h.contact[n] = None
                           /\ \A m \in Nick \ {n} :
                                 h.contact[m] = g.contact[m] /\ h.rows[m] = g.rows[m]
    <3>1. ASSUME NEW h, Added(h), g1 = AddContact(h, n, "online", st.role)
          PROVE  Good(g1) /\ SameChats(g, g1) /\ Has(g1)
      <4>1. h \in Gc /\ h.open /\ h.contact \in [Nick -> Contact \cup {None}]
        BY <3>1 DEF Good, SameChats, Gc
      <4>2. Good(g1)
        BY <1>1, <3>1, <4>1, AddContactGood
      <4>3. SameChats(h, g1) /\ g1.contact = [h.contact EXCEPT ![n] = IF @ = None THEN new ELSE @]
        BY <1>1, <3>1, <4>1, AddContactIs
      <4>4. /\ g1.contact[n] = new /\ \A m \in Nick \ {n} : g1.contact[m] = g.contact[m]
            /\ SameChats(g, g1)
        BY <1>1, <3>1, <4>1, <4>3 DEF SameChats
      <4>5. /\ Filed(g1) /\ g1.nick = h.nick /\ g1.new_nick = h.new_nick /\ g1.open = h.open
            /\ g1.astray = h.astray /\ (g1.connected <=> h.connected \/ n = h.nick)
            /\ \A m \in Nick \ {n} : g1.rows[m] = h.rows[m]
        <5>1. /\ h \in Gc /\ Filed(h) /\ n \in Nick /\ "online" \in {"online", "offline"}
              /\ st.role \in Roles /\ g1 = AddContact(h, n, "online", st.role)
          BY <1>1, <3>1, <4>1
        <5> QED
          BY <5>1, AddContactKeeps
      <4>6. \A m \in Nick \ {n} : Opened(g1, m)
        BY <1>1, <4>4 DEF Opened, SameChats
      <4> QED
        BY <3>1, <4>2, <4>4, <4>5, <4>6 DEF Keeps
    <3>2. CASE ~HasRow(g, n)
      <4>1. Added(g)
        BY <1>1, <3>2 DEF Good, Listed, SameChats, Keeps
      <4>2. g1 = AddContact(g, n, "online", st.role)
        BY <3>2 DEF g1
      <4> HIDE DEF Added, Has
      <4> QED
        BY <3>1, <4>1, <4>2
    <3>3. CASE HasRow(g, n) /\ g.contact[n].role # st.role
      <4> DEFINE h == RemoveContact(g, n)
      <4>1. g1 = AddContact(h, n, "online", st.role)
        BY <3>3 DEF g1
      <4> HIDE DEF h
      <4>2. Good(h) /\ SameChats(g, h)
        BY <1>1, RemoveContactGood DEF h
      <4>3. Added(h)
        BY <1>1, <4>2, RemoveContactKeeps DEF h
      <4> HIDE DEF Added, Has
      <4> QED
        BY <3>1, <4>1, <4>3
    <3>4. CASE HasRow(g, n) /\ ~(g.contact[n].role # st.role)
      <4>1. g1 = [g EXCEPT !.contact[n].show = "online"] /\ g.contact[n] # None
        BY <1>4, <3>4 DEF g1
      <4>2. Good(g1) /\ SameChats(g, g1)
        BY <1>1, <4>1, ContactSaysGood
      <4>3. /\ Filed(g1) /\ Keeps(g, g1) /\ g1.rows = g.rows
            /\ g1.contact[n] \in Contact
            /\ g1.contact[n].show = "online" /\ g1.contact[n].role = g.contact[n].role
            /\ \A m \in Nick \ {n} : g1.contact[m] = g.contact[m]
        <5>1. /\ Good(g) /\ Filed(g) /\ n \in Nick /\ g.contact[n] # None
              /\ "online" \in {"online", "offline"} /\ g1 = ContactSays(g, n, "online")
          BY <1>1, <4>1 DEF ContactSays
        <5> QED
          BY <5>1, ContactSaysKeeps
      <4>4. g1.contact[n] = new /\ (g1.connected <=> g.connected \/ n = g.nick)
        BY <3>4, <4>3 DEF Keeps, Contact
      <4>5. \A m \in Nick \ {n} : Opened(g1, m)
        BY <1>1, <4>2, <4>3 DEF Opened, SameChats
      <4> QED
        BY <4>2, <4>3, <4>4, <4>5 DEF Keeps
    <3> QED
      BY <3>2, <3>3, <3>4
  <2>2. CASE c = None
    <3>1. t = g1
      BY <1>4, <2>2 DEF Available, g1
    <3>2. Opened(g1, n)
      BY <2>1, <2>2 DEF Opened, SameChats
    <3> QED
      BY <2>1, <3>1, <3>2 DEF Neat
  <2>3. CASE c # None
    <3>1. t = [g1 EXCEPT !.chat[c].show = "online"]
      BY <1>4, <2>3 DEF Available, g1
    <3>2. /\ g1.table[n] # None /\ t = ChatSays(g1, n, "online")
          /\ "online" \in {"online", "offline"}
          /\ g1.contact[n] # None => "online" = g1.contact[n].show
      BY <1>2, <2>1, <2>3, <3>1 DEF ChatSays, SameChats
    <3>3. Quietly(g1, t) /\ \A m \in Nick : Opened(t, m)
      BY <1>1, <2>1, <3>2, ChatSaysKeeps
    <3>4. Filed(t)
      BY <2>1, <3>3 DEF Filed, Quietly
    <3> QED
      BY <2>1, <3>3, <3>4 DEF Neat, Quietly, Keeps
  <2> QED
    BY <2>2, <2>3
<1> QED
  BY <1>3, <1>4

\* Who is told to be gone; the name may become that of the user
LEMMA UnavailableKeeps ==
    ASSUME NEW g, Good(g), g.open, Neat(g), NEW st \in Stanza,
           st.new # None => st.new # st.nick,
           NEW t, t = Unavailable(g, st), ~t.astray,
           NEW nick, NEW new_nick,
           Renamed(g, st, nick, new_nick)
    PROVE  /\ Neat(t) /\ ~g.astray
           /\ t.nick = nick /\ t.new_nick = new_nick /\ t.open = g.open
           /\ Settled(g, st, nick, t)
<1> USE DEF Renamed, Settled
<1> DEFINE n == st.nick
           g2 == IF st.new = None THEN g
                 ELSE AddContact(TakeNick(g, st), st.new, "offline", st.role)
           g3 == IF g2.events[n] = 0 THEN RemoveContact(g2, n)
                 ELSE [g2 EXCEPT !.contact[n].show = "offline"]
           g4 == IF st.new = None /\ n = g3.nick THEN GotDisconnected(g3) ELSE g3
           c == g4.table[n]
           Named(h) == h.nick = nick /\ h.new_nick = new_nick /\ h.open = g.open
           Apart(h) == \A m \in Nick \ {n, st.new} :
                           h.contact[m] = g.contact[m] /\ h.rows[m] = g.rows[m]
           Is(h) == h.connected <=> g.connected \/ (st.new # None /\ st.new = nick)
           Gone(h) == h.contact[n] = None \/ h.contact[n].show = "offline"
           Has(h) == IF st.new = None /\ n = nick THEN Bare(h)
                     ELSE Is(h) /\ Gone(h) /\ Apart(h)
<1>1. /\ n \in Nick /\ st.role \in Roles /\ st.new \in Nick \cup {None} /\ g \in Gc
      /\ Filed(g) /\ \A m \in Nick : Opened(g, m)
  BY DEF Stanza, Good, Neat
<1>2. t = IF g2.events[n] # 0 /\ g2.contact[n] = None
          THEN [g2 EXCEPT !.astray = @ \/ n = g2.nick]
          ELSE IF c = None THEN g4
          ELSE IF st.new # None THEN ChangeKey(g4, n, st.new)
          ELSE [g4 EXCEPT !.chat[c].show = "offline"]
  BY DEF Unavailable
<1> HIDE DEF g2, Named, Apart, Is, Gone
<1>3. /\ Good(g2) /\ SameChats(g, g2) /\ g2.astray = g.astray
      /\ Neat(g2) /\ Named(g2) /\ Apart(g2) /\ Is(g2)
      /\ st.new # None => g2.contact[st.new] # None
  <2>1. CASE st.new = None
    <3>1. g2 = g /\ nick = g.nick /\ new_nick = g.new_nick
      BY <2>1 DEF g2
    <3> QED
      BY <2>1, <3>1 DEF SameChats, Named, Apart, Is
  <2>2. CASE st.new # None
    <3> DEFINE h == TakeNick(g, st)
    <3>1. Good(h) /\ SameChats(g, h) /\ h.contact = g.contact
      BY <2>2, TakeNickGood
    <3>2. /\ h.nick = nick /\ h.new_nick = new_nick /\ h.open = g.open
          /\ h.connected = g.connected /\ h.astray = g.astray /\ h.rows = g.rows
      BY <1>1, <2>2 DEF TakeNick, Gc
    <3> HIDE DEF h
    <3>3. g2 = AddContact(h, st.new, "offline", st.role)
      BY <2>2 DEF g2, h
    <3>4. h \in Gc /\ h.open /\ st.new \in Nick /\ Filed(h)
      BY <1>1, <2>2, <3>1, <3>2 DEF Good, Filed
    <3>5. Good(g2)
      BY <1>1, <3>1, <3>3, <3>4, AddContactGood
    <3>6. /\ SameChats(h, g2)
          /\ g2.contact = [h.contact EXCEPT ![st.new] =
                             IF @ = None THEN [show |-> "offline", role |-> st.role] ELSE @]
      BY <1>1, <3>3, <3>4, AddContactIs
    <3>7. /\ Filed(g2) /\ g2.nick = h.nick /\ g2.new_nick = h.new_nick /\ g2.open = h.open
          /\ g2.astray = h.astray /\ (g2.connected <=> h.connected \/ st.new = h.nick)
          /\ \A m \in Nick \ {st.new} : g2.rows[m] = h.rows[m]
      <4>1. /\ h \in Gc /\ Filed(h) /\ st.new \in Nick /\ "offline" \in {"online", "offline"}
            /\ st.role \in Roles /\ g2 = AddContact(h, st.new, "offline", st.role)
        BY <1>1, <3>3, <3>4
      <4> QED
        BY <4>1, AddContactKeeps
    <3>8. SameChats(g, g2)
      BY <3>1, <3>6 DEF SameChats
    <3>9. \A m \in Nick \ {st.new} : g2.contact[m] = g.contact[m]
      BY <3>1, <3>4, <3>6 DEF Gc
    <3>10. /\ g2.contact[st.new] # None
           /\ g2.contact[st.new] = g.contact[st.new] \/ g2.contact[st.new].show = "offline"
      <4>1. [show |-> "offline", role |-> st.role] # None
        BY <1>1, NamesAssumption DEF Contact
      <4> QED
        BY <3>1, <3>4, <3>6, <4>1 DEF Gc
    <3>11. ASSUME NEW m \in Nick PROVE Opened(g2, m)
      BY <1>1, <3>8, <3>9, <3>10 DEF Opened, SameChats
    <3>12. Named(g2) /\ Apart(g2) /\ Is(g2)
      BY <2>2, <3>2, <3>7, <3>9 DEF Named, Apart, Is
    <3> QED
      BY <3>2, <3>5, <3>7, <3>8, <3>10, <3>11, <3>12 DEF Neat
  <2> QED
    BY <2>1, <2>2
<1>4. CASE g2.events[n] # 0 /\ g2.contact[n] = None
  <2>1. t = [g2 EXCEPT !.astray = @ \/ n = g2.nick] /\ g2 \in Gc
    BY <1>2, <1>3, <1>4 DEF Good
  <2>2. (g2.astray \/ n = g2.nick) \in BOOLEAN
    BY <2>1 DEF Gc
  <2>3. /\ t.nick = g2.nick /\ t.new_nick = g2.new_nick /\ t.open = g2.open
        /\ t.connected = g2.connected /\ t.contact = g2.contact /\ t.rows = g2.rows
        /\ t.table = g2.table /\ t.chat = g2.chat /\ t.astray = (g2.astray \/ n = g2.nick)
    BY <2>1, <2>2 DEF Gc
  <2>4. ~g2.astray /\ n # nick
    BY <1>3, <2>3 DEF Named
  <2>5. Neat(t)
    BY <1>3, <2>3 DEF Neat, Filed, Opened
  <2>6. Named(t) /\ Apart(t) /\ Is(t) /\ Gone(t)
    BY <1>3, <1>4, <2>3 DEF Named, Apart, Is, Gone
  <2> QED
    BY <1>3, <2>4, <2>5, <2>6 DEF Named, Apart, Is, Gone
<1>5. CASE ~(g2.events[n] # 0 /\ g2.contact[n] = None)
  <2> HIDE DEF g3
  <2>1. /\ Good(g3) /\ SameChats(g2, g3) /\ Filed(g3) /\ Keeps(g2, g3)
        /\ Gone(g3)
        /\ \A m \in Nick \ {n} : g3.contact[m] = g2.contact[m] /\ g3.rows[m] = g2.rows[m]
    <3>1. CASE g2.events[n] = 0
      <4>1. g3 = RemoveContact(g2, n) /\ Filed(g2)
        BY <1>3, <3>1 DEF g3, Neat
      <4>2. Good(g3) /\ SameChats(g2, g3)
        BY <1>1, <1>3, <4>1, RemoveContactGood
      <4>3. /\ Filed(g3) /\ Keeps(g2, g3) /\ g3.contact[n] = None
            /\ \A m \in Nick \ {n} : g3.rows[m] = g2.rows[m] /\ g3.contact[m] = g2.contact[m]
        BY <1>1, <1>3, <4>1, RemoveContactKeeps
      <4> QED
        BY <4>2, <4>3 DEF Gone
    <3>2. CASE g2.events[n] # 0
      <4>1. g3 = [g2 EXCEPT !.contact[n].show = "offline"] /\ g2.contact[n] # None /\ Filed(g2)
        BY <1>3, <1>5, <3>2 DEF g3, Neat
      <4>2. Good(g3) /\ SameChats(g2, g3) /\ g3.contact[n].show = "offline"
        BY <1>1, <1>3, <4>1, ContactSaysGood
      <4>3. /\ Filed(g3) /\ Keeps(g2, g3) /\ g3.rows = g2.rows
            /\ \A m \in Nick \ {n} : g3.contact[m] = g2.contact[m]
        <5>1. /\ Good(g2) /\ Filed(g2) /\ n \in Nick /\ g2.contact[n] # None
              /\ "offline" \in {"online", "offline"} /\ g3 = ContactSays(g2, n, "offline")
          BY <1>1, <1>3, <4>1 DEF ContactSays
        <5> QED
          BY <5>1, ContactSaysKeeps
      <4> QED
        BY <4>2, <4>3 DEF Gone
    <3> QED
      BY <3>1, <3>2
  <2>2. /\ Named(g3) /\ Apart(g3) /\ Is(g3) /\ g3.astray = g.astray
        /\ \A m \in Nick \ {n} : Opened(g3, m)
    <3>1. \A m \in Nick \ {n} : Opened(g3, m)
      BY <1>3, <2>1 DEF Neat, Opened, SameChats
    <3>2. Named(g3) /\ Is(g3) /\ g3.astray = g.astray
      BY <1>3, <2>1 DEF Named, Is, Keeps
    <3>3. Apart(g3)
      BY <1>3, <2>1 DEF Apart
    <3> QED
      BY <3>1, <3>2, <3>3
  <2> HIDE DEF g4
  <2>3. /\ Good(g4) /\ SameChats(g2, g4) /\ Filed(g4) /\ Gone(g4) /\ Named(g4) /\ Has(g4)
        /\ \A m \in Nick \ {n} : Opened(g4, m)
        /\ g4.astray = g.astray
        /\ st.new # None => g4 = g3
    <3>1. CASE st.new = None /\ n = g3.nick
      <4>1. g4 = GotDisconnected(g3) /\ g3 \in Gc /\ n = nick
        BY <2>1, <2>2, <3>1 DEF g4, Good, Named
      <4>2. Good(g4) /\ SameChats(g3, g4)
        BY <2>1, <4>1, GotDisconnectedGood
      <4>3. /\ Bare(g4) /\ Neat(g4)
            /\ g4.nick = g3.nick /\ g4.new_nick = g3.new_nick /\ g4.open = g3.open
            /\ g4.astray = g3.astray
        BY <4>1, GotDisconnectedKeeps
      <4>4. Named(g4) /\ Has(g4) /\ Gone(g4) /\ Filed(g4) /\ \A m \in Nick \ {n} : Opened(g4, m)
        BY <1>1, <2>2, <3>1, <4>1, <4>3 DEF Named, Gone, Bare, Neat
      <4> QED
        BY <2>1, <2>2, <3>1, <4>2, <4>3, <4>4 DEF SameChats
    <3>2. CASE ~(st.new = None /\ n = g3.nick)
      <4>1. g4 = g3 /\ ~(st.new = None /\ n = nick)
        BY <2>2, <3>2 DEF g4, Named
      <4> QED
        BY <2>1, <2>2, <4>1
    <3> QED
      BY <3>1, <3>2
  <2> HIDE DEF Has
  <2>4. ASSUME Quietly(g4, t), \A m \in Nick : Opened(t, m)
        PROVE  Neat(t) /\ Named(t) /\ Has(t) /\ ~g.astray
    <3>1. Named(t) /\ ~g.astray /\ Filed(t)
      BY <2>3, <2>4 DEF Quietly, Keeps, Named, Filed
    <3>2. Has(t)
      BY <2>3, <2>4 DEF Has, Quietly, Keeps, Bare, HasRow, Is, Gone, Apart
    <3> QED
      BY <2>4, <3>1, <3>2 DEF Neat
  <2>5. Neat(t) /\ Named(t) /\ Has(t) /\ ~g.astray
    <3>1. CASE c = None
      <4>1. t = g4
        BY <1>2, <1>5, <3>1
      <4>2. Opened(g4, n)
        BY <3>1 DEF Opened
      <4> QED
        BY <2>3, <2>4, <4>1, <4>2 DEF Quietly, Keeps
    <3>2. CASE c # None /\ st.new # None
      <4>1. t = ChangeKey(g4, n, st.new)
        BY <1>2, <1>5, <3>2
      <4>2. st.new \in Nick /\ st.new # n /\ g4.contact[st.new] # None
        BY <1>1, <1>3, <2>1, <2>3, <3>2
      <4> QED
        BY <1>1, <2>3, <2>4, <3>2, <4>1, <4>2, ChangeKeyKeeps
    <3>3. CASE c # None /\ st.new = None
      <4>1. /\ "offline" \in {"online", "offline"} /\ g4.table[n] # None
            /\ g4.contact[n] # None => "offline" = g4.contact[n].show
            /\ t = ChatSays(g4, n, "offline")
        BY <1>2, <1>5, <2>3, <3>3 DEF ChatSays, Gone
      <4> QED
        BY <1>1, <2>3, <2>4, <4>1, ChatSaysKeeps
    <3> QED
      BY <3>1, <3>2, <3>3
  <2> QED
    BY <2>5 DEF Named, Has, Apart, Is, Gone
<1> QED
  BY <1>4, <1>5

LEMMA MessageKeeps ==
    ASSUME NEW g, Good(g), Neat(g), NEW st \in Stanza, NEW t, t = Message(g, st)
    PROVE  Neat(t) /\ Quietly(g, t)
<1> DEFINE n == st.nick
           c == g.table[n]
<1>1. n \in Nick /\ g \in Gc /\ Found(g) /\ Filed(g) /\ \A m \in Nick : Opened(g, m)
  BY DEF Stanza, Good, Neat
<1>2. CASE g.control[n] # None
  BY <1>2 DEF Message, Quietly, Keeps
<1>3. CASE g.control[n] = None /\ c # None
  <2>1. t = SetSession(g, c, n) /\ c \in Chats /\ g.chat[c] # None
    BY <1>1, <1>3, Chatting DEF Message, Found
  <2>2. Quietly(g, t) /\ \A m \in Nick : Opened(t, m)
    BY <1>1, <2>1, SetSessionKeeps
  <2>3. Filed(t)
    BY <1>1, <2>2 DEF Quietly, Filed
  <2> QED
    BY <2>2, <2>3 DEF Neat
<1>4. CASE g.control[n] = None /\ c = None
  <2>1. t = [g EXCEPT !.events[n] = @ + 1]
    BY <1>4 DEF Message
  <2>2. Quietly(g, t) /\ t.chat = g.chat /\ t.table = g.table
    BY <1>1, <2>1 DEF Gc, Quietly, Keeps
  <2>3. Filed(t) /\ \A m \in Nick : Opened(t, m)
    BY <1>1, <2>2 DEF Quietly, Filed, Opened
  <2> QED
    BY <2>2, <2>3 DEF Neat
<1> QED
  BY <1>2, <1>3, <1>4

-----------------------------------------------------------------------------
(* A stanza arrives.                                                       *)

LEMMA LessOf ==
    ASSUME NEW w \in Seq(Stanza), w # <<>>
    PROVE  /\ \A M, Q : Ends(w, M, Q) =>
                 /\ Ends(Tail(w), M, Q)
                 /\ Head(w) \in M /\ NoneOf(Tail(w), M) => Head(w) \in Q
           /\ \A M : NoneOf(w, M) <=> Head(w) \notin M /\ NoneOf(Tail(w), M)
  BY LessEnds, LessNone

\* What is no presence, or comes to a window that is closed, changes nothing
LEMMA Passes ==
    ASSUME NEW g \in Gc, NEW w \in Seq(Stanza), w # <<>>, NEW R, NEW rm, NEW on,
           Tracked(g, w, R, rm, on), Head(w) \notin Presences \/ ~g.open
    PROVE  Tracked(g, Tail(w), R, rm, on)
<1> DEFINE v == Tail(w)
           st == Head(w)
<1>1. /\ \A M, Q : Ends(w, M, Q) => Ends(v, M, Q)
      /\ \A M : NoneOf(w, M) <=> st \notin M /\ NoneOf(v, M)
  BY LessOf
<1> HIDE DEF v, st
<1>2. on /\ (~g.open => Bare(g) /\ ~g.connected /\ ~Asked(g))
  BY DEF Tracked, Away, Bare, Asked
<1>3. ASSUME g.open
      PROVE  /\ st \notin Own(g) /\ st \notin Turn(g) /\ st \notin Presences
             /\ \A x \in Nick : st \notin Marks(g, x)
  BY <1>3, NamesAre DEF Own, Turn, Presences, OfKind, st
<1>4. Same(g, w, R, rm) => Same(g, v, R, rm)
  BY <1>1, <1>2, <1>3 DEF Same, Known
<1>5. ASSUME Other(g, w, R, rm) PROVE Other(g, v, R, rm)
  <2>1. g.open /\ Turn(g) \subseteq Before(g)
    BY <1>2, <1>5, NamesAre DEF Other
  <2>2. Splits(v, Turn(g), Before(g), After(g))
    BY <1>3, <1>5, <2>1, LessSplits DEF Other, v, st
  <2> QED
    BY <1>5, <2>2 DEF Other
<1>6. Empty(g, v, rm)
  BY <1>1, <1>2, <1>3 DEF Tracked, Empty
<1>7. Shown(g, v, R, rm)
  BY <1>1, <1>3 DEF Tracked, Shown, ShownOf
<1> QED
  BY <1>2, <1>4, <1>5, <1>6, <1>7 DEF Tracked, Away, v

\* The sets of stanzas depend on the names only
LEMMA NamedAlike ==
    ASSUME NEW g, NEW t, t.nick = g.nick, t.new_nick = g.new_nick
    PROVE  /\ Asked(t) <=> Asked(g)
           /\ Resets(t) = Resets(g) /\ Turn(t) = Turn(g) /\ Before(t) = Before(g)
           /\ After(t) = After(g) /\ Own(t) = Own(g)
           /\ \A x : Marks(t, x) = Marks(g, x)
<1>1. Asked(t) <=> Asked(g)
  BY DEF Asked
<1>2. Resets(t) = Resets(g)
  BY <1>1 DEF Resets
<1> QED
  BY <1>1, <1>2 DEF Turn, Before, After, Own, Marks

LEMMA AvailableTracked ==
    ASSUME NEW g \in Gc, g.open, NEW w \in Seq(Stanza), w # <<>>, NEW R, NEW rm, NEW on,
           Tracked(g, w, R, rm, on),
           NEW st \in Stanza, st = Head(w), st.kind = "available",
           NEW t, t.nick = g.nick, t.new_nick = g.new_nick, t.open = g.open,
           t.connected <=> g.connected \/ st.nick = g.nick,
           \A m \in Nick \ {st.nick} : t.contact[m] = g.contact[m] /\ t.rows[m] = g.rows[m],
           \/ t.contact[st.nick] = [show |-> "online", role |-> st.role]
           \/ t.contact[st.nick] = None /\ HasRow(t, st.nick)
    PROVE  Tracked(t, Tail(w), R, rm, on)
<1> DEFINE v == Tail(w)
           n == st.nick
<1>1. /\ \A M, Q : Ends(w, M, Q) =>
             Ends(v, M, Q) /\ (st \in M /\ NoneOf(v, M) => st \in Q)
      /\ \A M : NoneOf(w, M) <=> st \notin M /\ NoneOf(v, M)
  BY LessOf
<1> HIDE DEF v
<1>2. on
  BY DEF Tracked, Away
<1>3. /\ Asked(t) <=> Asked(g)
      /\ Resets(t) = Resets(g) /\ Turn(t) = Turn(g) /\ Before(t) = Before(g)
      /\ After(t) = After(g) /\ Own(t) = Own(g)
      /\ \A x : Marks(t, x) = Marks(g, x)
  BY NamedAlike
<1>4. /\ n \in Nick /\ g.nick \in Nick
      /\ st \in Presences /\ st \notin Resets(g) /\ st \notin Turn(g)
      /\ st \notin OfKind("unavailable") /\ (st \in Own(g) <=> n = g.nick)
      /\ \A x : st \in Marks(g, x) <=> x = n
  BY NamesAre DEF Stanza, Presences, Resets, Turn, Own, OfKind, Marks, About
<1>5. HasRow(t, t.nick) => t.connected
  BY <1>4 DEF Tracked, HasRow
<1>6. ASSUME Same(g, w, R, rm) PROVE Same(t, v, R, rm)
  <2>1. Ends(v, Own(g), OfKind(IF MeIn(rm) = {} THEN "unavailable" ELSE "available"))
    BY <1>1, <1>6 DEF Same, Known
  <2>2. ASSUME NoneOf(v, Own(g))
        PROVE  /\ t.connected => MeIn(rm) # {}
               /\ t.open /\ MeIn(rm) # {} /\ NoneOf(R, Leaving) => t.connected
    <3>1. CASE n = g.nick
      <4>1. MeIn(rm) # {}
        BY <1>1, <1>4, <1>6, <2>2, <3>1 DEF Same, Known
      <4> QED
        BY <3>1, <4>1
    <3>2. CASE n # g.nick
      BY <1>1, <1>4, <1>6, <2>2, <3>2 DEF Same, Known
    <3> QED
      BY <3>1, <3>2
  <2>3. Known(t, v, R, rm)
    BY <1>3, <2>1, <2>2 DEF Known
  <2>4. NoneOf(v, Before(t))
    BY <1>1, <1>3, <1>6 DEF Same
  <2> QED
    BY <1>3, <1>6, <2>3, <2>4 DEF Same
<1>7. ASSUME Other(g, w, R, rm) PROVE Other(t, v, R, rm)
  <2>1. Turn(g) \subseteq Before(g)
    BY NamesAre
  <2>2. Splits(v, Turn(g), Before(g), After(g))
    BY <1>4, <1>7, <2>1, LessSplits DEF Other, v
  <2> QED
    BY <1>3, <1>7, <2>2 DEF Other
<1>8. Empty(t, v, rm)
  BY <1>1, <1>3, <1>4 DEF Tracked, Empty
<1>9. ASSUME g.open, MeIn(rm) # {}, NoneOf(R, Leaving), NEW x \in Nick
      PROVE  ShownOf(t, v, x, rm[x])
  <2>1. ShownOf(g, w, x, rm[x])
    BY <1>9 DEF Tracked, Shown
  <2>2. Ends(v, Marks(g, x), Fits(rm[x]))
    BY <1>1, <2>1 DEF ShownOf
  <2>3. ASSUME NoneOf(v, Marks(g, x)), Clean(t, x) PROVE Right(t.contact[x], rm[x])
    <3>1. CASE x # n
      <4>1. NoneOf(w, Marks(g, x)) /\ Clean(g, x)
        BY <1>1, <1>4, <2>3, <3>1 DEF Clean
      <4> QED
        BY <2>1, <3>1, <4>1 DEF ShownOf
    <3>2. CASE x = n
      <4>1. st \in Fits(rm[n])
        BY <1>1, <1>4, <2>1, <2>3, <3>2 DEF ShownOf
      <4>2. rm[n] # None /\ rm[n].role = st.role
        BY <4>1 DEF Fits
      <4>3. ~(t.contact[n] = None /\ HasRow(t, n))
        BY <2>3, <3>2 DEF Clean, HasRow
      <4> QED
        BY <3>2, <4>2, <4>3 DEF Right
    <3> QED
      BY <3>1, <3>2
  <2> QED
    BY <1>3, <2>2, <2>3 DEF ShownOf
<1>10. Shown(t, v, R, rm)
  BY <1>9 DEF Shown
<1> QED
  BY <1>2, <1>3, <1>5, <1>6, <1>7, <1>8, <1>10 DEF Tracked, Away, v

\* The end of the user's presence
LEMMA LeavesTracked ==
    ASSUME NEW g \in Gc, g.open, NEW w \in Seq(Stanza), w # <<>>, NEW R, NEW rm, NEW on,
           Tracked(g, w, R, rm, on),
           NEW st \in Stanza, st = Head(w), st.kind = "unavailable",
           st.new = None, st.nick = g.nick,
           NEW t, t.nick = g.nick, t.new_nick = g.new_nick, t.open = g.open, Bare(t)
    PROVE  Tracked(t, Tail(w), R, rm, on)
<1> DEFINE v == Tail(w)
<1>1. /\ \A M, Q : Ends(w, M, Q) =>
             Ends(v, M, Q) /\ (st \in M /\ NoneOf(v, M) => st \in Q)
      /\ \A M : NoneOf(w, M) <=> st \notin M /\ NoneOf(v, M)
  BY LessOf
<1>2. on /\ g.nick \in Nick
  BY NamesAre DEF Tracked, Away
<1>3. /\ Asked(t) <=> Asked(g)
      /\ Resets(t) = Resets(g) /\ Before(t) = Before(g) /\ Own(t) = Own(g)
      /\ \A x : Marks(t, x) = Marks(g, x)
  BY NamedAlike
<1>4. ~Asked(g) /\ Same(g, w, R, rm)
  <2>1. Asked(g) => st \in Before(g) /\ st \notin Turn(g)
    BY DEF Before, Turn, OfKind, Asked
  <2>2. Same(g, w, R, rm) => st \notin Before(g)
    BY <1>1 DEF Same
  <2>3. Other(g, w, R, rm) => st \notin Before(g) \/ st \in Turn(g)
    BY NamesAre, LessSplits DEF Other
  <2>4. Other(g, w, R, rm) => Asked(g)
    BY DEF Other
  <2> QED
    BY <2>1, <2>2, <2>3, <2>4 DEF Tracked
<1> HIDE DEF v
<1>5. /\ st \in Own(g) /\ st \in Resets(g) /\ st \notin OfKind("available")
      /\ \A x : st \in Marks(g, x)
  BY <1>4 DEF Own, Resets, Marks, Presences, OfKind
<1>6. Same(t, v, R, rm)
  <2>1. NoneOf(v, Own(g)) => MeIn(rm) = {}
    BY <1>1, <1>4, <1>5 DEF Same, Known
  <2>2. ~t.connected
    BY DEF Bare
  <2>3. Known(t, v, R, rm)
    BY <1>1, <1>3, <1>4, <2>1, <2>2 DEF Same, Known
  <2> QED
    BY <1>1, <1>3, <1>4, <2>3 DEF Same
<1>7. Empty(t, v, rm)
  BY <1>1, <1>3 DEF Tracked, Empty
<1>8. ASSUME MeIn(rm) # {}, NoneOf(R, Leaving), NEW x \in Nick
      PROVE  ShownOf(t, v, x, rm[x])
  <2>1. ShownOf(g, w, x, rm[x])
    BY <1>8 DEF Tracked, Shown
  <2>2. Ends(v, Marks(g, x), Fits(rm[x]))
    BY <1>1, <2>1 DEF ShownOf
  <2>3. NoneOf(v, Marks(g, x)) => st \in Fits(rm[x])
    BY <1>1, <1>5, <2>1 DEF ShownOf
  <2>4. st \in Fits(rm[x]) => rm[x] = None
    BY DEF Fits
  <2>5. t.contact[x] = None
    BY DEF Bare
  <2> QED
    BY <1>3, <2>2, <2>3, <2>4, <2>5 DEF ShownOf, Right
<1>9. Shown(t, v, R, rm)
  BY <1>8 DEF Shown
<1>10. ~HasRow(t, t.nick)
  BY <1>2 DEF Bare
<1> QED
  BY <1>2, <1>3, <1>4, <1>6, <1>7, <1>9, <1>10 DEF Tracked, Away, v

\* Another is gone, or gets another name
LEMMA GoneTracked ==
    ASSUME NEW g \in Gc, g.open, NEW w \in Seq(Stanza), w # <<>>, NEW R, NEW rm, NEW on,
           Tracked(g, w, R, rm, on),
           NEW st \in Stanza, st = Head(w), st.kind = "unavailable",
           st.nick # g.nick, st.new # g.nick,
           st.new # None => Seen(Tail(w), st.new),
           NEW t, t.nick = g.nick, t.new_nick = g.new_nick, t.open = g.open,
           Settled(g, st, g.nick, t)
    PROVE  Tracked(t, Tail(w), R, rm, on)
<1> DEFINE v == Tail(w)
           n == st.nick
<1>0. /\ t.connected <=> g.connected
      /\ t.contact[n] = None \/ t.contact[n].show = "offline"
      /\ \A m \in Nick \ {n, st.new} : t.contact[m] = g.contact[m] /\ t.rows[m] = g.rows[m]
  BY DEF Settled
<1>1. /\ \A M, Q : Ends(w, M, Q) =>
             Ends(v, M, Q) /\ (st \in M /\ NoneOf(v, M) => st \in Q)
      /\ \A M : NoneOf(w, M) <=> st \notin M /\ NoneOf(v, M)
  BY LessOf
<1> HIDE DEF v
<1>2. on
  BY DEF Tracked, Away
<1>3. /\ Asked(t) <=> Asked(g)
      /\ Resets(t) = Resets(g) /\ Turn(t) = Turn(g) /\ Before(t) = Before(g)
      /\ After(t) = After(g) /\ Own(t) = Own(g)
      /\ \A x : Marks(t, x) = Marks(g, x)
  BY NamedAlike
<1>4. /\ n \in Nick /\ g.nick \in Nick /\ st.new \in Nick \cup {None}
      /\ st \in Presences /\ st \notin Resets(g) /\ st \notin Turn(g) /\ st \notin Own(g)
      /\ \A x : st \in Marks(g, x) <=> x \in {n, st.new}
  BY NamesAre DEF Stanza, Presences, Resets, Turn, Own, OfKind, Marks, About
<1>5. HasRow(t, t.nick) => t.connected
  BY <1>0, <1>4 DEF Tracked, HasRow
<1>6. Same(g, w, R, rm) => Same(t, v, R, rm)
  BY <1>0, <1>1, <1>3, <1>4 DEF Same, Known
<1>7. ASSUME Other(g, w, R, rm) PROVE Other(t, v, R, rm)
  <2>1. Turn(g) \subseteq Before(g)
    BY NamesAre
  <2>2. Splits(v, Turn(g), Before(g), After(g))
    BY <1>4, <1>7, <2>1, LessSplits DEF Other, v
  <2> QED
    BY <1>0, <1>3, <1>7, <2>2 DEF Other
<1>8. Empty(t, v, rm)
  BY <1>1, <1>3, <1>4 DEF Tracked, Empty
<1>9. ASSUME g.open, MeIn(rm) # {}, NoneOf(R, Leaving), NEW x \in Nick
      PROVE  ShownOf(t, v, x, rm[x])
  <2>1. ShownOf(g, w, x, rm[x])
    BY <1>9 DEF Tracked, Shown
  <2>2. Ends(v, Marks(g, x), Fits(rm[x]))
    BY <1>1, <2>1 DEF ShownOf
  <2>3. ASSUME NoneOf(v, Marks(g, x)), Clean(t, x) PROVE Right(t.contact[x], rm[x])
    <3>1. CASE x \notin {n, st.new}
      <4>1. NoneOf(w, Marks(g, x)) /\ Clean(g, x)
        BY <1>0, <1>1, <1>4, <2>3, <3>1 DEF Clean
      <4> QED
        BY <1>0, <2>1, <3>1, <4>1 DEF ShownOf
    <3>2. CASE x = n
      <4>1. st \in Fits(rm[n])
        BY <1>1, <1>4, <2>1, <2>3, <3>2 DEF ShownOf
      <4>2. rm[n] = None
        BY <4>1 DEF Fits
      <4> QED
        BY <1>0, <3>2, <4>2 DEF Right
    <3>3. CASE x = st.new
      <4>1. st.new # None
        BY <3>3, NamesAssumption
      <4>2. Seen(v, st.new) /\ v \in Seq(Stanza)
        BY <4>1, TailAt DEF v
      <4> QED
        BY <2>3, <3>3, <4>2 DEF Seen, NoneOf, Marks, About
    <3> QED
      BY <3>1, <3>2, <3>3
  <2> QED
    BY <1>3, <2>2, <2>3 DEF ShownOf
<1>10. Shown(t, v, R, rm)
  BY <1>9 DEF Shown
<1> QED
  BY <1>2, <1>3, <1>5, <1>6, <1>7, <1>8, <1>10 DEF Tracked, Away, v

\* The user's change of the name
LEMMA TurnTracked ==
    ASSUME NEW g \in Gc, g.open, NEW w \in Seq(Stanza), w # <<>>, NEW R, NEW rm, NEW on,
           Tracked(g, w, R, rm, on), Asked(g), Other(g, w, R, rm),
           NEW st \in Stanza, st = Head(w), st \in Turn(g),
           Seen(Tail(w), st.new),
           NEW t, t.nick = g.new_nick, t.new_nick = None, t.open = g.open,
           Settled(g, st, g.new_nick, t)
    PROVE  Tracked(t, Tail(w), R, rm, on)
<1> DEFINE v == Tail(w)
           n == st.nick
           new == g.new_nick
           A == {e \in Stanza : e.kind = "available" /\ e.nick = new}
<1>1. /\ \A M, Q : Ends(w, M, Q) =>
             Ends(v, M, Q) /\ (st \in M /\ NoneOf(v, M) => st \in Q)
      /\ \A M : NoneOf(w, M) <=> st \notin M /\ NoneOf(v, M)
  BY LessOf
<1>2. on /\ new \in Nick /\ new # None
  BY NamesAre DEF Tracked, Away, Asked
<1>3. st.kind = "unavailable" /\ n = g.nick /\ st.new = new /\ ~NoneOf(v, A)
  <2>1. st.kind = "unavailable" /\ n = g.nick /\ st.new = new
    BY DEF Turn, OfKind
  <2>2. v \in Seq(Stanza) /\ Seen(v, new)
    BY <2>1, TailAt
  <2> HIDE DEF v
  <2> QED
    BY <2>1, <2>2 DEF Seen, NoneOf
<1>0. /\ t.connected
      /\ t.contact[n] = None \/ t.contact[n].show = "offline"
      /\ \A m \in Nick \ {n, new} : t.contact[m] = g.contact[m] /\ t.rows[m] = g.rows[m]
  BY <1>2, <1>3, NamesAre DEF Settled, Asked
<1>4. MeIn(rm) = {new} /\ R = <<>> /\ NoneOf(v, After(g))
  BY NamesAre, LessSplits DEF Other
<1>5. v \in Seq(Stanza)
  BY TailAt
<1> HIDE DEF v, A
<1>6. ~Asked(t)
  BY DEF Asked
<1>7. /\ Before(t) \subseteq After(g) /\ Resets(t) \subseteq After(g) /\ Resets(g) = {}
      /\ A \subseteq Own(t)
      /\ \A e \in Own(t) : e \in After(g) \/ e \in OfKind("available")
  BY <1>2, <1>6 DEF Before, After, Resets, Own, OfKind, Presences, Asked, A
<1>8. Same(t, v, R, rm)
  <2>1. NoneOf(v, Before(t))
    BY <1>4, <1>7 DEF NoneOf
  <2>2. Ends(v, Own(t), OfKind("available"))
    BY <1>4, <1>7 DEF NoneOf, Ends
  <2>3. ~NoneOf(v, Own(t))
    BY <1>3, <1>7 DEF NoneOf
  <2>4. Known(t, v, R, rm)
    BY <1>0, <1>4, <2>2, <2>3 DEF Known
  <2>5. \A k \in DOMAIN R : R[k].nick \in {None, t.nick}
    BY <1>4
  <2> QED
    BY <1>4, <2>1, <2>4, <2>5 DEF Same
<1>9. NoneOf(R, Leaving)
  BY <1>4, EmptyEnds
<1>10. ASSUME NEW x \in Nick PROVE ShownOf(t, v, x, rm[x])
  <2>1. ShownOf(g, w, x, rm[x])
    BY <1>4, <1>9 DEF Tracked, Shown
  <2>2. Ends(v, Marks(g, x), Fits(rm[x]))
    BY <1>1, <2>1 DEF ShownOf
  <2>3. \A i \in DOMAIN v : v[i] \in Marks(g, x) <=> v[i] \in Marks(t, x)
    BY <1>4, <1>7 DEF NoneOf, Marks
  <2>4. /\ Ends(v, Marks(t, x), Fits(rm[x]))
        /\ NoneOf(v, Marks(t, x)) <=> NoneOf(v, Marks(g, x))
    BY <2>2, <2>3, SameEnds
  <2>5. ASSUME NoneOf(v, Marks(g, x)), Clean(t, x) PROVE Right(t.contact[x], rm[x])
    <3>1. st \in Marks(g, x) <=> x \in {n, new}
      BY <1>3, <1>7 DEF Marks, About
    <3>2. CASE x \notin {n, new}
      <4>1. NoneOf(w, Marks(g, x)) /\ Clean(g, x)
        BY <1>0, <1>1, <1>3, <2>5, <3>1, <3>2 DEF Clean
      <4> QED
        BY <1>0, <1>3, <2>1, <3>2, <4>1 DEF ShownOf
    <3>3. CASE x = n
      <4>1. st \in Fits(rm[n])
        BY <1>1, <2>1, <2>5, <3>1, <3>3 DEF ShownOf
      <4>2. rm[n] = None
        BY <1>3, <4>1 DEF Fits
      <4> QED
        BY <1>0, <3>3, <4>2 DEF Right
    <3>4. CASE x = new
      BY <1>3, <2>5, <3>4 DEF NoneOf, Marks, About, A
    <3> QED
      BY <3>2, <3>3, <3>4
  <2> QED
    BY <2>4, <2>5 DEF ShownOf
<1>11. Shown(t, v, R, rm) /\ Empty(t, v, rm)
  BY <1>4, <1>10 DEF Shown, Empty
<1> QED
  BY <1>0, <1>2, <1>6, <1>8, <1>11 DEF Tracked, Away, v

\* What a stanza that comes first is not
LEMMA FirstIs ==
    ASSUME NEW g \in Gc, NEW w \in Seq(Stanza), w # <<>>, NEW R, NEW rm, NEW on,
           Tracked(g, w, R, rm, on)
    PROVE  \/ Head(w) \notin Before(g)
           \/ Asked(g) /\ Other(g, w, R, rm) /\ Head(w) \in Turn(g)
<1>1. Same(g, w, R, rm) => Head(w) \notin Before(g)
  BY LessOf DEF Same
<1>2. Other(g, w, R, rm) => Asked(g) /\ (Head(w) \notin Before(g) \/ Head(w) \in Turn(g))
  BY NamesAre, LessSplits DEF Other
<1> QED
  BY <1>1, <1>2 DEF Tracked

LEMMA UnavailableTracked ==
    ASSUME NEW g, Good(g), g.open, Neat(g), NEW w \in Seq(Stanza), w # <<>>, Paired(w),
           NEW R, NEW rm, NEW on, Tracked(g, w, R, rm, on),
           NEW st \in Stanza, st = Head(w), st.kind = "unavailable",
           NEW t, t = Unavailable(g, st), ~t.astray
    PROVE  ~g.astray /\ Neat(t) /\ Tracked(t, Tail(w), R, rm, on)
<1> DEFINE v == Tail(w)
           nick == IF st.new # None /\ st.new = g.new_nick THEN st.new ELSE g.nick
           new_nick == IF st.new # None /\ st.new = g.new_nick THEN None ELSE g.new_nick
<1>1. g \in Gc /\ g.nick \in Nick /\ g.nick # None
  BY NamesAre DEF Good
<1>2. st.new # None => st.new # st.nick /\ Seen(v, st.new)
  BY TailSeen
<1> HIDE DEF v
<1>3. Renamed(g, st, nick, new_nick)
  BY DEF Renamed
<1> HIDE DEF nick, new_nick
<1>4. /\ Neat(t) /\ ~g.astray
      /\ t.nick = nick /\ t.new_nick = new_nick /\ t.open = g.open
      /\ Settled(g, st, nick, t)
  <2>1. /\ Good(g) /\ g.open /\ Neat(g) /\ (st.new # None => st.new # st.nick)
        /\ st \in Stanza /\ t = Unavailable(g, st) /\ ~t.astray
        /\ Renamed(g, st, nick, new_nick)
    BY <1>2, <1>3
  <2>2. Neat(t) /\ Settled(g, st, nick, t)
    BY <2>1, UnavailableKeeps
  <2>3. ~g.astray
    BY <2>1, UnavailableKeeps
  <2>4. t.nick = nick
    BY <2>1, UnavailableKeeps
  <2>5. t.new_nick = new_nick
    BY <2>1, UnavailableKeeps
  <2>6. t.open = g.open
    BY <2>1, UnavailableKeeps
  <2> QED
    BY <2>2, <2>3, <2>4, <2>5, <2>6
<1>5. ASSUME st.nick # g.nick, st.new # g.nick, nick = g.nick, new_nick = g.new_nick
      PROVE  Tracked(t, v, R, rm, on)
  <2>1. /\ t.nick = g.nick /\ t.new_nick = g.new_nick /\ t.open = g.open
        /\ Settled(g, st, g.nick, t)
    BY <1>4, <1>5
  <2>2. st.new # None => Seen(Tail(w), st.new)
    BY <1>2 DEF v
  <2>3. Tracked(t, Tail(w), R, rm, on)
    BY <1>1, <1>5, <2>1, <2>2, GoneTracked
  <2> QED
    BY <2>3 DEF v
<1>6. CASE st.new = None
  <2>1. nick = g.nick /\ new_nick = g.new_nick
    BY <1>3, <1>6 DEF Renamed
  <2>2. CASE st.nick = g.nick
    <3>1. Bare(t) /\ t.nick = g.nick /\ t.new_nick = g.new_nick /\ t.open = g.open
      BY <1>4, <1>6, <2>1, <2>2 DEF Settled
    <3> QED
      BY <1>1, <1>4, <1>6, <2>2, <3>1, LeavesTracked
  <2>3. CASE st.nick # g.nick
    BY <1>1, <1>4, <1>5, <1>6, <2>1, <2>3 DEF v
  <2> QED
    BY <2>2, <2>3
<1>7. CASE st.new # None /\ st.new # g.new_nick
  <2>1. nick = g.nick /\ new_nick = g.new_nick
    BY <1>3, <1>7 DEF Renamed
  <2>2. st \notin Turn(g)
    BY <1>7 DEF Turn
  <2>3. st \notin Before(g)
    BY <1>1, <2>2, FirstIs
  <2>4. st.nick # g.nick /\ st.new # g.nick
    BY <1>7, <2>3 DEF Before, OfKind
  <2> QED
    BY <1>4, <1>5, <2>1, <2>4 DEF v
<1>8. CASE st.new # None /\ st.new = g.new_nick
  <2>1. nick = st.new /\ new_nick = None
    BY <1>3, <1>8 DEF Renamed
  <2>2. st \in Before(g)
    BY <1>8 DEF Before, OfKind, Asked
  <2>3. Asked(g) /\ Other(g, w, R, rm) /\ st \in Turn(g)
    BY <1>1, <2>2, FirstIs
  <2>4. /\ t.nick = g.new_nick /\ t.new_nick = None /\ t.open = g.open
        /\ Settled(g, st, g.new_nick, t)
    BY <1>4, <1>8, <2>1
  <2>5. Seen(Tail(w), st.new)
    BY <1>2, <1>8 DEF v
  <2>6. Tracked(t, Tail(w), R, rm, on)
    BY <1>1, <2>3, <2>4, <2>5, TurnTracked
  <2> QED
    BY <1>4, <2>6
<1> QED
  BY <1>6, <1>7, <1>8

LEMMA ArriveTracked ==
    ASSUME Whole, Neat(gc), InTheRoom, Arrive, ~gc'.astray
    PROVE  ~gc.astray /\ Neat(gc') /\ InTheRoom'
<1> DEFINE w == toGajim
           st == Head(w)
           v == Tail(w)
           t == gc'
<1>1. /\ Good(gc) /\ gc \in Gc /\ w \in Seq(Stanza) /\ w # <<>> /\ Paired(w)
      /\ t = Handle(gc, st) /\ toGajim' = v /\ room' = room /\ toRoom' = toRoom
      /\ online' = online /\ Tracked(gc, w, toRoom, room, online)
  BY DEF Whole, TypeOK, Arrive, InTheRoom
<1>2. st \in Stanza
  BY <1>1, TailAt
<1>3. st.kind \in {"available", "unavailable", "message", "conflict"}
  BY <1>2 DEF Stanza
<1> SUFFICES ~gc.astray /\ Neat(t) /\ Tracked(t, v, toRoom, room, online)
  BY <1>1 DEF InTheRoom
<1> HIDE DEF w, v, st, t
<1>4. v = Tail(w) /\ st = Head(w) /\ ~t.astray
  BY DEF v, st, w, t
<1>5. ASSUME Neat(t), Quietly(gc, t), st \notin Presences \/ ~gc.open
      PROVE  ~gc.astray /\ Neat(t) /\ Tracked(t, v, toRoom, room, online)
  <2>1. Tracked(gc, v, toRoom, room, online)
    BY <1>1, <1>4, <1>5, Passes
  <2> QED
    BY <1>4, <1>5, <2>1, Twins DEF Quietly, Keeps
<1>6. CASE ~gc.open
  <2>1. t = gc
    BY <1>1, <1>6 DEF Handle
  <2> QED
    BY <1>5, <1>6, <2>1 DEF Quietly, Keeps
<1>7. CASE gc.open /\ st.kind = "available"
  <2>1. t = Available(gc, st)
    BY <1>1, <1>7 DEF Handle
  <2>2. HasRow(gc, gc.nick) => gc.connected
    BY <1>1 DEF Tracked
  <2>3. /\ Neat(t)
        /\ t.nick = gc.nick /\ t.new_nick = gc.new_nick /\ t.open = gc.open
        /\ t.astray = gc.astray /\ (t.connected <=> gc.connected \/ st.nick = gc.nick)
        /\ \A m \in Nick \ {st.nick} : t.contact[m] = gc.contact[m] /\ t.rows[m] = gc.rows[m]
        /\ \/ t.contact[st.nick] = [show |-> "online", role |-> st.role]
           \/ t.contact[st.nick] = None /\ HasRow(t, st.nick)
    BY <1>1, <1>2, <1>7, <2>1, <2>2, AvailableKeeps
  <2>4. Tracked(t, v, toRoom, room, online)
    BY <1>1, <1>2, <1>4, <1>7, <2>3, AvailableTracked, ZenonT(40)
  <2> QED
    BY <1>4, <2>3, <2>4
<1>8. CASE gc.open /\ st.kind = "unavailable"
  <2>1. t = Unavailable(gc, st)
    BY <1>1, <1>8 DEF Handle
  <2> QED
    BY <1>1, <1>2, <1>4, <1>8, <2>1, UnavailableTracked
<1>9. CASE gc.open /\ st.kind = "message"
  <2>1. t = Message(gc, st)
    BY <1>1, <1>9 DEF Handle
  <2>2. Neat(t) /\ Quietly(gc, t)
    BY <1>1, <1>2, <2>1, MessageKeeps
  <2>3. st \notin Presences
    BY <1>9 DEF Presences, OfKind
  <2> QED
    BY <1>5, <2>2, <2>3
<1>10. CASE gc.open /\ st.kind = "conflict"
  <2>1. t = [gc EXCEPT !.dialog = TRUE]
    BY <1>1, <1>10 DEF Handle
  <2>2. Quietly(gc, t) /\ t.table = gc.table /\ t.chat = gc.chat
    BY <1>1, <2>1 DEF Gc, Quietly, Keeps
  <2>3. Neat(t)
    BY <2>2 DEF Neat, Filed, Opened, Quietly
  <2>4. st \notin Presences
    BY <1>10 DEF Presences, OfKind
  <2> QED
    BY <1>5, <2>2, <2>3, <2>4
<1> QED
  BY <1>3, <1>6, <1>7, <1>8, <1>9, <1>10

-----------------------------------------------------------------------------
(* What the user does, and the connection.                                 *)

\* Before the user joins, or after the connection is lost
LEMMA Fresh ==
    ASSUME NEW g \in Gc, Bare(g), g.open \/ g.new_nick = None, NEW rm, MeIn(rm) = {},
           NEW R, NEW on,
           \/ R = <<>>
           \/ on /\ g.open /\ \E q \in Request : R = <<q>> /\ q.nick = g.nick
    PROVE  Tracked(g, <<>>, R, rm, on)
<1>1. \A M, Q : NoneOf(<<>>, M) /\ Ends(<<>>, M, Q)
  BY EmptyEnds
<1>2. g.nick \in Nick /\ g.nick # None /\ ~g.connected /\ ~HasRow(g, g.nick)
  BY NamesAre DEF Bare
<1>3. \A k \in DOMAIN R : R[k].nick = g.nick
  OBVIOUS
<1>4. NoneOf(R, Leaving)
  BY <1>2, <1>3 DEF NoneOf, Leaving
<1>5. Away(g, <<>>, R, rm, on)
  BY <1>1 DEF Away
<1>6. Same(g, <<>>, R, rm)
  BY <1>1, <1>2, <1>3 DEF Same, Known
<1>7. Empty(g, <<>>, rm) /\ Shown(g, <<>>, R, rm)
  BY <1>1 DEF Empty, Shown
<1> QED
  BY <1>2, <1>4, <1>5, <1>6, <1>7 DEF Tracked

\* A request of the name that the window has, of a user who changes nothing
LEMMA Requests ==
    ASSUME NEW g \in Gc, g.open, NEW w, NEW R \in Seq(Request), NEW rm, NEW on, on,
           Tracked(g, w, R, rm, on), ~Asked(g) \/ ~g.connected,
           NEW q \in Request, q.nick = g.nick
    PROVE  Tracked(g, w, R \o <<q>>, rm, on)
<1> DEFINE S == R \o <<q>>
<1>1. g.nick \in Nick /\ g.nick # None
  BY NamesAre
<1>2. NoneOf(S, Leaving) <=> NoneOf(R, Leaving)
  BY <1>1, OneMoreNone DEF Leaving
<1>3. \A k \in DOMAIN S : S[k] = q \/ (k \in DOMAIN R /\ S[k] = R[k])
  OBVIOUS
<1> HIDE DEF S
<1>4. Same(g, w, R, rm) /\ \A k \in DOMAIN R : R[k].nick \in {None, g.nick}
  BY DEF Tracked, Same, Other
<1>5. Same(g, w, S, rm)
  BY <1>2, <1>3, <1>4 DEF Same, Known
<1>6. Away(g, w, S, rm, on)
  BY DEF Away
<1>7. Shown(g, w, S, rm)
  BY <1>2 DEF Tracked, Shown
<1> QED
  BY <1>2, <1>5, <1>6, <1>7 DEF Tracked, S

\* A closed window has asked to leave a room that the user is in
LEMMA ClosedLeaves ==
    ASSUME NEW g, ~g.open, NEW w, NEW R \in Seq(Request), NEW rm, NEW on,
           Tracked(g, w, R, rm, on), MeIn(rm) # {}
    PROVE  ~NoneOf(R, Leaving)
<1>1. /\ Ends(R, Leaving \cup Joining, Leaving) /\ ~NoneOf(R, Leaving \cup Joining)
  BY DEF Tracked, Away
<1>2. PICK i \in DOMAIN R : /\ R[i] \in Leaving \cup Joining
                            /\ \A j \in DOMAIN R : j > i => R[j] \notin Leaving \cup Joining
  BY <1>1, LastOf
<1>3. R[i] \in Leaving
  BY <1>1, <1>2 DEF Ends
<1> QED
  BY <1>3 DEF NoneOf

\* The window opens again, before all of the last time has arrived
LEMMA Reopens ==
    ASSUME NEW g \in Gc, ~g.open, NEW w, NEW R \in Seq(Request), NEW rm, NEW on, on,
           Tracked(g, w, R, rm, on),
           NEW q \in Request, q.nick = g.nick, q.join,
           NEW t \in Gc, t.nick = g.nick, t.new_nick = g.new_nick, t.open,
           t.connected = g.connected, t.contact = g.contact, t.rows = g.rows
    PROVE  Tracked(t, w, R \o <<q>>, rm, on)
<1> DEFINE S == R \o <<q>>
<1>1. g.nick \in Nick /\ g.nick # None
  BY NamesAre
<1>2. NoneOf(S, Leaving) => NoneOf(R, Leaving)
  BY OneMoreNone
<1>3. \A k \in DOMAIN S : S[k] = q \/ (k \in DOMAIN R /\ S[k] = R[k])
  OBVIOUS
<1> HIDE DEF S
<1>4. Bare(g) /\ ~g.connected /\ ~Asked(g) /\ ~HasRow(g, g.nick)
  BY <1>1 DEF Tracked, Away, Bare, Asked
<1>5. /\ Asked(t) <=> Asked(g)
      /\ Resets(t) = Resets(g) /\ Before(t) = Before(g) /\ Own(t) = Own(g)
  BY NamedAlike
<1>6. Bare(t) /\ ~HasRow(t, t.nick)
  BY <1>4 DEF Bare, HasRow
<1>7. NoneOf(S, Leaving) => MeIn(rm) = {}
  BY <1>2, ClosedLeaves
<1>8. Same(g, w, R, rm) /\ \A k \in DOMAIN R : R[k].nick \in {None, g.nick}
  BY <1>4 DEF Tracked, Same, Other
<1>9. Same(t, w, S, rm)
  BY <1>3, <1>4, <1>5, <1>7, <1>8 DEF Same, Known
<1>10. Empty(t, w, rm) /\ Shown(t, w, S, rm)
  BY <1>5, <1>6, <1>7 DEF Tracked, Empty, Shown
<1>11. Away(t, w, S, rm, on)
  BY DEF Away
<1> QED
  BY <1>4, <1>5, <1>6, <1>9, <1>10, <1>11 DEF Tracked, S

\* The window closes
LEMMA Closes ==
    ASSUME NEW g \in Gc, NEW w, NEW R \in Seq(Request), NEW rm, NEW on, on,
           Tracked(g, w, R, rm, on), g.new_nick = None,
           NEW q \in Request, q.nick = None,
           NEW t \in Gc, t.nick = g.nick, t.new_nick = None, ~t.open, Bare(t)
    PROVE  Tracked(t, w, R \o <<q>>, rm, on)
<1> DEFINE S == R \o <<q>>
<1>1. g.nick \in Nick /\ g.nick # None
  BY NamesAre
<1>2. q \in Leaving
  BY DEF Leaving
<1>3. Ends(S, Leaving \cup Joining, Leaving) /\ ~NoneOf(S, Leaving \cup Joining)
  BY <1>2, OneMore, OneMoreNone
<1>4. \A k \in DOMAIN S : S[k] = q \/ (k \in DOMAIN R /\ S[k] = R[k])
  OBVIOUS
<1> HIDE DEF S
<1>5. ~Asked(g) /\ ~Asked(t) /\ ~t.connected /\ ~HasRow(t, t.nick)
  BY <1>1 DEF Asked, Bare
<1>6. Resets(t) = Resets(g) /\ Before(t) = Before(g) /\ Own(t) = Own(g)
  BY NamedAlike
<1>7. Same(g, w, R, rm) /\ \A k \in DOMAIN R : R[k].nick \in {None, g.nick}
  BY <1>5 DEF Tracked, Same, Other
<1>8. Same(t, w, S, rm)
  BY <1>4, <1>5, <1>6, <1>7 DEF Same, Known
<1>9. Empty(t, w, rm) /\ Shown(t, w, S, rm)
  BY <1>6 DEF Tracked, Empty, Shown
<1>10. Away(t, w, S, rm, on)
  BY <1>3 DEF Away
<1> QED
  BY <1>5, <1>8, <1>9, <1>10 DEF Tracked, S

\* The user asks for another name, with nothing on the way
LEMMA Asks ==
    ASSUME NEW g \in Gc, g.open, g.connected, NEW rm, NEW on,
           Tracked(g, <<>>, <<>>, rm, on),
           NEW n \in Nick, NEW q, q = [nick |-> n, join |-> TRUE],
           NEW t \in Gc, t.nick = g.nick, t.new_nick = n, t.open, t.connected,
           t.contact = g.contact, t.rows = g.rows
    PROVE  Tracked(t, <<>>, <<q>>, rm, on)
<1>1. g.nick \in Nick /\ g.nick # None /\ n # None
  BY NamesAre, NamesAssumption
<1>2. \A M, Q : NoneOf(<<>>, M) /\ Ends(<<>>, M, Q)
  BY EmptyEnds
<1>3. ~Other(g, <<>>, <<>>, rm)
  <2>1. <<>> \in Seq(Stanza) /\ Turn(g) \subseteq Before(g)
    BY NamesAre
  <2>2. ~Splits(<<>>, Turn(g), Before(g), After(g))
    BY DEF Splits
  <2> QED
    BY <2>2 DEF Other
<1>4. MeIn(rm) = {g.nick} /\ on
  <2>1. Same(g, <<>>, <<>>, rm) /\ on
    BY <1>3 DEF Tracked, Away, Bare
  <2> QED
    BY <1>2, <2>1 DEF Same, Known
<1>5. NoneOf(<<q>>, Leaving)
  BY <1>1 DEF NoneOf, Leaving
<1>6. Same(t, <<>>, <<q>>, rm)
  <2>1. MeIn(rm) \subseteq {t.nick} /\ NoneOf(<<>>, Before(t)) /\ Known(t, <<>>, <<q>>, rm)
    BY <1>2, <1>4 DEF Known
  <2>2. CASE n = g.nick
    <3>1. \A k \in DOMAIN <<q>> : <<q>>[k].nick \in {None, t.nick}
      BY <2>2
    <3> QED
      BY <2>1, <3>1 DEF Same
  <2>3. CASE n # g.nick
    <3>1. <<q>> = <<[nick |-> t.new_nick, join |-> TRUE]>> /\ Asked(t)
      BY <1>1, <2>3 DEF Asked
    <3> QED
      BY <1>4, <2>1, <3>1 DEF Same
  <2> QED
    BY <2>2, <2>3
<1>7. Shown(t, <<>>, <<q>>, rm)
  <2>1. ASSUME NEW x \in Nick PROVE ShownOf(t, <<>>, x, rm[x])
    <3>1. ShownOf(g, <<>>, x, rm[x])
      BY <1>2, <1>4 DEF Tracked, Shown
    <3>2. Clean(t, x) => Right(t.contact[x], rm[x])
      BY <1>2, <3>1 DEF ShownOf, Clean
    <3> QED
      BY <1>2, <3>2 DEF ShownOf
  <2> QED
    BY <2>1 DEF Shown
<1>8. Empty(t, <<>>, rm) /\ Away(t, <<>>, <<q>>, rm, on)
  BY <1>4 DEF Empty, Away
<1> QED
  BY <1>5, <1>6, <1>7, <1>8 DEF Tracked

\* A window forgets one who is gone
LEMMA Forgets ==
    ASSUME NEW g \in Gc, NEW w, NEW R, NEW rm, NEW on, Tracked(g, w, R, rm, on),
           NEW n \in Nick, g.contact[n] # None, g.contact[n].show = "offline",
           NEW t \in Gc, Keeps(g, t), t.contact[n] = None, Clean(t, n) => Clean(g, n),
           \A m \in Nick \ {n} : t.rows[m] = g.rows[m] /\ t.contact[m] = g.contact[m],
           \A m \in Nick : HasRow(t, m) => HasRow(g, m)
    PROVE  Tracked(t, w, R, rm, on)
<1>1. /\ t.nick = g.nick /\ t.new_nick = g.new_nick /\ t.open = g.open
      /\ t.connected = g.connected /\ g.nick \in Nick
  BY NamesAre DEF Keeps
<1>2. /\ Asked(t) <=> Asked(g)
      /\ Resets(t) = Resets(g) /\ Turn(t) = Turn(g) /\ Before(t) = Before(g)
      /\ After(t) = After(g) /\ Own(t) = Own(g)
      /\ \A x : Marks(t, x) = Marks(g, x)
  BY <1>1, NamedAlike
<1>3. ~Bare(g)
  BY DEF Bare
<1>4. on /\ g.open
  BY <1>3 DEF Tracked, Away
<1>5. Same(g, w, R, rm) => Same(t, w, R, rm)
  BY <1>1, <1>2 DEF Same, Known
<1>6. Other(g, w, R, rm) => Other(t, w, R, rm)
  BY <1>1, <1>2 DEF Other
<1>7. Empty(t, w, rm)
  BY <1>2, <1>3 DEF Tracked, Empty
<1>8. ASSUME MeIn(rm) # {}, NoneOf(R, Leaving), NEW x \in Nick
      PROVE  ShownOf(t, w, x, rm[x])
  <2>1. ShownOf(g, w, x, rm[x])
    BY <1>4, <1>8 DEF Tracked, Shown
  <2>2. CASE x # n
    <3>1. Clean(t, x) => Clean(g, x)
      BY <2>2 DEF Clean
    <3> QED
      BY <1>2, <2>1, <2>2, <3>1 DEF ShownOf
  <2>3. CASE x = n
    <3>1. Right(g.contact[n], rm[n]) => rm[n] = None
      BY DEF Right
    <3> QED
      BY <1>2, <2>1, <2>3, <3>1 DEF ShownOf, Right
  <2> QED
    BY <2>2, <2>3
<1>9. Shown(t, w, R, rm)
  BY <1>8 DEF Shown
<1> QED
  BY <1>1, <1>2, <1>4, <1>5, <1>6, <1>7, <1>9 DEF Tracked, Away

\* To ask for the name that the window has is not to change it
LEMMA AsksAgain ==
    ASSUME NEW g \in Gc, g.open, NEW w, NEW R, NEW rm, NEW on,
           Tracked(g, w, R, rm, on), g.new_nick = None,
           NEW t \in Gc, t.nick = g.nick, t.new_nick = g.nick, t.open,
           t.connected = g.connected, t.contact = g.contact, t.rows = g.rows
    PROVE  Tracked(t, w, R, rm, on)
<1>1. g.nick \in Nick /\ g.nick # None
  BY NamesAre
<1>2. ~Asked(g) /\ ~Asked(t)
  BY DEF Asked
<1>3. /\ Resets(t) = Resets(g) /\ Own(t) = Own(g)
      /\ \A x : Marks(t, x) = Marks(g, x)
      /\ Before(t) = Before(g)
  BY <1>2 DEF Resets, Own, Marks, Before
<1>4. \A x : (Clean(t, x) <=> Clean(g, x)) /\ (HasRow(t, x) <=> HasRow(g, x))
  BY DEF Clean, HasRow
<1>5. Bare(t) <=> Bare(g)
  BY <1>4 DEF Bare
<1>6. Same(t, w, R, rm)
  BY <1>2, <1>3 DEF Tracked, Same, Other, Known
<1>7. Empty(t, w, rm) /\ Away(t, w, R, rm, on)
  BY <1>3, <1>5 DEF Tracked, Empty, Away
<1>8. Shown(t, w, R, rm)
  BY <1>3, <1>4 DEF Tracked, Shown, ShownOf
<1> QED
  BY <1>2, <1>4, <1>6, <1>7, <1>8 DEF Tracked

\* What waited for a window is read in it, and one who is gone leaves the list
LEMMA ReadQueueTracked ==
    ASSUME NEW g, Good(g), Neat(g), NEW c \in Chats, g.chat[c] # None,
           NEW w, NEW R, NEW rm, NEW on, Tracked(g, w, R, rm, on),
           NEW t, t = ReadQueue(g, c), ~t.astray
    PROVE  ~g.astray /\ Neat(t) /\ Tracked(t, w, R, rm, on)
<1> DEFINE n == g.chat[c].nick
           h == SetSession(g, c, n)
           gone == g.chat[c].show = "offline" /\ g.contact[n] # None
           s == [h EXCEPT !.events[n] = 0,
                          !.astray = @ \/ (gone /\ g.table[n] # c)]
<1>1. /\ g \in Gc /\ g.chat[c] \in Chat /\ n \in Nick /\ g.events[n] \in Nat
      /\ Filed(g) /\ \A m \in Nick : Opened(g, m)
  BY Chatting DEF Good, Neat
<1>2. CASE g.events[n] = 0
  <2>1. t = g
    BY <1>2 DEF ReadQueue
  <2> QED
    BY <2>1
<1>3. CASE g.events[n] # 0
  <2>1. /\ Good(h) /\ Quietly(g, h) /\ h.table = g.table /\ h.open = g.open
        /\ \A m \in Nick : Opened(h, m)
    <3>1. /\ Good(h)
          /\ h.open = g.open /\ h.contact = g.contact /\ h.rows = g.rows
          /\ h.events = g.events /\ h.table = g.table
          /\ h.chat = [g.chat EXCEPT ![c].session = n]
      BY <1>1, SetSessionGood
    <3>2. Quietly(g, h) /\ h.table = g.table
      BY <1>1, SetSessionKeeps
    <3>3. \A m \in Nick : Opened(g, m) => Opened(h, m)
      BY <1>1, SetSessionKeeps
    <3> QED
      BY <1>1, <3>1, <3>2, <3>3
  <2>2. t = IF gone THEN RemoveContact(s, n) ELSE s
    BY <1>3 DEF ReadQueue
  <2>3. h \in Gc
    BY <2>1 DEF Good
  <2> HIDE DEF h
  <2>4. (h.astray \/ (gone /\ g.table[n] # c)) \in BOOLEAN
    BY <2>3 DEF Gc
  <2>5. /\ s \in Gc /\ s.contact = h.contact /\ s.rows = h.rows /\ s.open = h.open
        /\ s.nick = h.nick /\ s.new_nick = h.new_nick /\ s.connected = h.connected
        /\ s.table = h.table /\ s.chat = h.chat /\ s.control = h.control
        /\ s.astray <=> h.astray \/ (gone /\ g.table[n] # c)
    BY <1>1, <2>3, <2>4 DEF Gc
  <2> HIDE DEF s
  <2>6. Good(s) /\ \A m \in Nick : Opened(s, m)
    BY <2>1, <2>5 DEF Good, Listed, Found, HasRow, Opened
  <2>7. /\ s.contact = g.contact /\ s.rows = g.rows /\ s.nick = g.nick
        /\ s.new_nick = g.new_nick /\ s.open = g.open /\ s.connected = g.connected
    BY <2>1, <2>5 DEF Quietly, Keeps
  <2>8. Filed(s) /\ Tracked(s, w, R, rm, on)
    BY <1>1, <2>7, Twins DEF Filed
  <2>9. CASE ~gone
    <3>1. t = s /\ (h.astray <=> g.astray)
      BY <2>1, <2>2, <2>9 DEF Quietly, Keeps
    <3> QED
      BY <2>5, <2>6, <2>8, <3>1 DEF Neat
  <2>10. CASE gone
    <3>1. /\ Filed(t) /\ Keeps(s, t) /\ t.contact[n] = None
          /\ \A m \in Nick \ {n} : t.rows[m] = s.rows[m] /\ t.contact[m] = s.contact[m]
          /\ \A m \in Nick : HasRow(t, m) => HasRow(s, m)
          /\ s.contact[n] # None /\ Clean(t, n) => Clean(s, n)
      BY <1>1, <2>2, <2>6, <2>8, <2>10, RemoveContactKeeps
    <3>2. Good(t) /\ SameChats(s, t)
      BY <1>1, <2>2, <2>6, <2>10, RemoveContactGood, ZenonT(40)
    <3>3. ~s.astray /\ ~g.astray /\ g.table[n] = c
      BY <2>1, <2>5, <2>10, <3>1 DEF Quietly, Keeps
    <3>4. s.contact[n] # None /\ s.contact[n].show = "offline"
      <4>1. g.contact[n] \in Contact
        BY <1>1, <2>10, Chatting
      <4>2. g.contact[n].show # "online"
        BY <1>1, <2>10, <3>3, NamesAssumption DEF Opened
      <4> QED
        BY <2>7, <2>10, <4>1, <4>2 DEF Contact
    <3>5. Tracked(t, w, R, rm, on)
      <4>1. t \in Gc /\ (Clean(t, n) => Clean(s, n))
        BY <3>1, <3>2, <3>4 DEF Good
      <4> QED
        BY <1>1, <2>5, <2>8, <3>1, <3>4, <4>1, Forgets
    <3>6. ASSUME NEW m \in Nick PROVE Opened(t, m)
      BY <2>6, <3>1, <3>2, <3>6 DEF Opened, SameChats
    <3> QED
      BY <3>1, <3>3, <3>5, <3>6 DEF Neat
  <2> QED
    BY <2>9, <2>10
<1> QED
  BY <1>2, <1>3

LEMMA NewPrivateChatTracked ==
    ASSUME NEW g, Good(g), Neat(g), NEW n \in Nick,
           NEW show \in {"online", "offline"}, g.contact[n] # None => show = g.contact[n].show,
           NEW w, NEW R, NEW rm, NEW on, Tracked(g, w, R, rm, on),
           NEW t \in NewPrivateChat(g, n, show), ~t.astray
    PROVE  ~g.astray /\ Neat(t) /\ Tracked(t, w, R, rm, on)
<1>1. CASE g.control[n] # None
  <2> DEFINE c == g.control[n]
  <2>1. t = ReadQueue(g, c) /\ c \in Chats /\ g.chat[c] # None
    BY <1>1, Chatting DEF NewPrivateChat, Good, Found
  <2> QED
    BY <2>1, ReadQueueTracked
<1>2. CASE g.control[n] = None
  <2>1. PICK c \in Chats :
            /\ g.chat[c] = None
            /\ t = ReadQueue([g EXCEPT
                      !.chat[c] = [nick |-> n, session |-> n, show |-> show],
                      !.table[n] = c, !.control[n] = c], c)
    BY <1>2 DEF NewPrivateChat
  <2> DEFINE new == [nick |-> n, session |-> n, show |-> show]
             h == [g EXCEPT !.chat[c] = new, !.table[n] = c, !.control[n] = c]
  <2>2. new \in Chat /\ new.nick = n /\ new.session = n /\ new.show = show
    BY DEF Chat
  <2>3. new # None
    BY <2>2, NamesAssumption
  <2> HIDE DEF new
  <2>4. g \in Gc /\ Listed(g) /\ Found(g) /\ Filed(g) /\ \A m \in Nick : Opened(g, m)
    BY DEF Good, Neat
  <2>5. h \in Gc
    BY <2>2, <2>4 DEF Gc
  <2>6. /\ h.open = g.open /\ h.contact = g.contact /\ h.rows = g.rows
        /\ h.nick = g.nick /\ h.new_nick = g.new_nick /\ h.connected = g.connected
        /\ h.astray = g.astray
        /\ h.chat = [g.chat EXCEPT ![c] = new]
        /\ h.table = [g.table EXCEPT ![n] = c]
        /\ h.control = [g.control EXCEPT ![n] = c]
    BY <2>4 DEF Gc
  <2>7. t = ReadQueue(h, c)
    BY <2>1 DEF new
  <2> HIDE DEF h
  <2>8. /\ h.chat[c] = new /\ h.table[n] = c /\ h.control[n] = c
        /\ \A d \in Chats : g.chat[d] # None => h.chat[d] = g.chat[d]
        /\ \A m \in Nick \ {n} : h.table[m] = g.table[m] /\ h.control[m] = g.control[m]
    BY <2>1, <2>4, <2>6 DEF Gc
  <2>9. ASSUME NEW m \in Nick, h.table[m] # None
        PROVE  h.chat[h.table[m]] # None /\ h.chat[h.table[m]].nick = m
    BY <2>2, <2>3, <2>4, <2>8, <2>9, Chatting DEF Found
  <2>10. ASSUME NEW m \in Nick, h.control[m] # None
         PROVE  h.chat[h.control[m]] # None /\ h.chat[h.control[m]].session = m
    BY <2>2, <2>3, <2>4, <2>8, <2>10, Chatting DEF Found
  <2>11. Good(h) /\ h.chat[c] # None
    BY <2>3, <2>4, <2>5, <2>6, <2>8, <2>9, <2>10 DEF Good, Listed, Found, HasRow
  <2>12. ASSUME NEW m \in Nick PROVE Opened(h, m)
    <3>1. CASE m = n
      BY <2>2, <2>6, <2>8, <3>1 DEF Opened
    <3>2. CASE m # n
      BY <2>4, <2>6, <2>8, <3>2, Chatting DEF Opened, Found
    <3> QED
      BY <3>1, <3>2
  <2>13. Neat(h)
    BY <2>4, <2>6, <2>12 DEF Neat, Filed
  <2>14. Tracked(h, w, R, rm, on)
    BY <2>6, Twins
  <2> QED
    BY <2>6, <2>7, <2>11, <2>13, <2>14, ReadQueueTracked
<1> QED
  BY <1>1, <1>2

\* Nothing changes but the windows, and which of them is in front
LEMMA WindowsTracked ==
    ASSUME NEW g, Neat(g), NEW t, t.rows = g.rows, t.contact = g.contact, Keeps(g, t),
           \A m \in Nick : Opened(g, m) => Opened(t, m),
           NEW w, NEW R, NEW rm, NEW on, Tracked(g, w, R, rm, on)
    PROVE  Neat(t) /\ Tracked(t, w, R, rm, on)
<1>1. Neat(t)
  BY DEF Neat, Filed
<1>2. Tracked(t, w, R, rm, on)
  BY Twins DEF Keeps
<1> QED
  BY <1>1, <1>2

LEMMA CloseChatTracked ==
    ASSUME NEW g, Good(g), Neat(g), NEW c \in Chats, g.chat[c] # None,
           NEW w, NEW R, NEW rm, NEW on, Tracked(g, w, R, rm, on),
           NEW t, t = CloseChat(g, c)
    PROVE  (t.astray <=> g.astray) /\ Neat(t) /\ Tracked(t, w, R, rm, on)
<1> DEFINE n == g.chat[c].nick
<1>1. g \in Gc /\ Found(g) /\ n \in Nick
  BY Chatting DEF Good
<1>2. /\ t.open = g.open /\ t.contact = g.contact /\ t.rows = g.rows
      /\ t.nick = g.nick /\ t.new_nick = g.new_nick /\ t.connected = g.connected
      /\ t.astray = g.astray
      /\ t.chat = [g.chat EXCEPT ![c] = None]
      /\ t.table = [g.table EXCEPT ![n] = None]
  BY <1>1 DEF CloseChat, Gc
<1>3. ASSUME NEW m \in Nick, Opened(g, m) PROVE Opened(t, m)
  <2>1. t.table[m] # None => /\ m # n /\ t.table[m] = g.table[m] /\ g.table[m] \in Chats \ {c}
    BY <1>1, <1>2, Chatting DEF Gc, Found
  <2> QED
    BY <1>1, <1>2, <1>3, <2>1 DEF Opened, Gc
<1> QED
  BY <1>2, <1>3, WindowsTracked DEF Keeps

LEMMA SendIs ==
    ASSUME toRoom \in Seq(Request), NEW q \in Request, Send(q)
    PROVE  toRoom' = IF online THEN toRoom \o <<q>> ELSE toRoom
<1>1. Append(toRoom, q) = toRoom \o <<q>>
  OBVIOUS
<1> QED
  BY <1>1 DEF Send

LEMMA JoinRoomTracked ==
    ASSUME Whole, Neat(gc), InTheRoom, JoinRoom, ~gc'.astray
    PROVE  ~gc.astray /\ Neat(gc') /\ InTheRoom'
<1>1. /\ TypeOK /\ gc \in Gc /\ toGajim \in Seq(Stanza) /\ toRoom \in Seq(Request)
      /\ Tracked(gc, toGajim, toRoom, room, online) /\ online
      /\ toGajim' = toGajim /\ room' = room /\ online' = online
  BY DEF Whole, TypeOK, InTheRoom, JoinRoom
<1>2. PICK n \in Mine :
          /\ gc.open => ~gc.connected
          /\ gc' = IF gc.open THEN [gc EXCEPT !.astray = @ \/ n # gc.nick]
                   ELSE [gc EXCEPT !.open = TRUE, !.nick = n, !.new_nick = None,
                                   !.dialog = FALSE, !.astray = @ \/ Astray(n)]
          /\ Join(n)
  BY DEF JoinRoom
<1> DEFINE q == [nick |-> n, join |-> TRUE]
<1>3. n \in Nick /\ q \in Request /\ q.nick = n /\ q.join
  BY GroupChatAssumption DEF Request
<1>4. toRoom' = toRoom \o <<q>>
  <2>1. Send(q)
    BY <1>2 DEF Join
  <2> HIDE DEF q
  <2> QED
    BY <1>1, <1>3, <2>1, SendIs
<1> HIDE DEF q
<1>5. (gc.astray \/ Astray(n)) \in BOOLEAN /\ (gc.astray \/ n # gc.nick) \in BOOLEAN
  BY <1>1 DEF Gc, Astray
<1>6. gc' \in Gc
  BY <1>1, <1>2, <1>3, <1>5 DEF Gc
<1>7. /\ gc'.contact = gc.contact /\ gc'.rows = gc.rows
      /\ gc'.chat = gc.chat /\ gc'.table = gc.table /\ gc'.connected = gc.connected
      /\ gc'.nick = (IF gc.open THEN gc.nick ELSE n) /\ gc'.open
      /\ gc'.new_nick = IF gc.open THEN gc.new_nick ELSE None
      /\ IF gc.open THEN gc'.astray <=> gc.astray \/ n # gc.nick
         ELSE gc'.astray <=> gc.astray \/ Astray(n)
  BY <1>1, <1>2, <1>5 DEF Gc
<1>8. Neat(gc') /\ ~gc.astray
  BY <1>7 DEF Neat, Filed, Opened
<1>9. CASE gc.open
  <2>1. q.nick = gc.nick /\ ~gc.connected
    BY <1>2, <1>3, <1>7, <1>9
  <2>2. Tracked(gc, toGajim, toRoom \o <<q>>, room, online)
    BY <1>1, <1>3, <1>9, <2>1, Requests
  <2>3. Tracked(gc', toGajim, toRoom \o <<q>>, room, online)
    BY <1>7, <1>9, <2>2, Twins
  <2> QED
    BY <1>1, <1>4, <1>8, <2>3 DEF InTheRoom
<1>10. CASE ~gc.open
  <2>1. gc.new_nick = None /\ Bare(gc)
    BY <1>1, <1>10 DEF Tracked, Away
  <2>2. CASE n = gc.nick
    <3>1. gc'.nick = gc.nick /\ gc'.new_nick = gc.new_nick
      BY <1>7, <1>10, <2>1, <2>2
    <3>2. Tracked(gc', toGajim, toRoom \o <<q>>, room, online)
      BY <1>1, <1>3, <1>6, <1>7, <1>10, <2>2, <3>1, Reopens
    <3> QED
      BY <1>1, <1>4, <1>8, <3>2 DEF InTheRoom
  <2>3. CASE n # gc.nick
    <3>1. toRoom = <<>> /\ toGajim = <<>>
      BY <1>7, <1>10, <2>3 DEF Astray, Quiet
    <3>2. MeIn(room) = {}
      BY <1>1, <1>10, <3>1, EmptyEnds DEF Tracked, Away
    <3>3. Bare(gc') /\ gc'.nick = n /\ gc'.open
      BY <1>7, <1>10, <2>1 DEF Bare, HasRow
    <3>4. toRoom' = <<q>>
      BY <1>3, <1>4, <3>1
    <3>5. Tracked(gc', <<>>, toRoom', room, online)
      BY <1>1, <1>3, <1>6, <3>2, <3>3, <3>4, Fresh
    <3> QED
      BY <1>1, <1>8, <3>1, <3>5 DEF InTheRoom
  <2> QED
    BY <2>2, <2>3
<1> QED
  BY <1>9, <1>10

LEMMA ChangeStatusTracked ==
    ASSUME Whole, Neat(gc), InTheRoom, ChangeStatus, ~gc'.astray
    PROVE  ~gc.astray /\ Neat(gc') /\ InTheRoom'
<1>1. /\ TypeOK /\ gc \in Gc /\ toRoom \in Seq(Request)
      /\ Tracked(gc, toGajim, toRoom, room, online) /\ online /\ gc.open
      /\ toGajim' = toGajim /\ room' = room /\ online' = online
      /\ gc' = [gc EXCEPT !.astray = @ \/ gc.new_nick # None]
  BY DEF Whole, TypeOK, InTheRoom, ChangeStatus
<1> DEFINE q == [nick |-> gc.nick, join |-> ~gc.connected]
<1>2. q \in Request /\ q.nick = gc.nick
  BY <1>1 DEF Request, Gc
<1>3. toRoom' = toRoom \o <<q>>
  <2>1. Send(q)
    BY DEF ChangeStatus
  <2> HIDE DEF q
  <2> QED
    BY <1>1, <1>2, <2>1, SendIs
<1> HIDE DEF q
<1>4. (gc.astray \/ gc.new_nick # None) \in BOOLEAN
  BY <1>1 DEF Gc
<1>5. /\ gc'.contact = gc.contact /\ gc'.rows = gc.rows /\ gc'.open = gc.open
      /\ gc'.chat = gc.chat /\ gc'.table = gc.table /\ gc'.connected = gc.connected
      /\ gc'.nick = gc.nick /\ gc'.new_nick = gc.new_nick
      /\ gc'.astray <=> gc.astray \/ gc.new_nick # None
  BY <1>1, <1>4 DEF Gc
<1>6. ~gc.astray /\ gc.new_nick = None /\ Neat(gc')
  BY <1>5 DEF Neat, Filed, Opened
<1>7. ~Asked(gc)
  BY <1>6 DEF Asked
<1>8. Tracked(gc, toGajim, toRoom \o <<q>>, room, online)
  BY <1>1, <1>2, <1>7, Requests
<1>9. Tracked(gc', toGajim, toRoom \o <<q>>, room, online)
  BY <1>5, <1>8, Twins
<1> QED
  BY <1>1, <1>3, <1>6, <1>9 DEF InTheRoom

LEMMA LeaveRoomTracked ==
    ASSUME Whole, Neat(gc), InTheRoom, LeaveRoom, ~gc'.astray
    PROVE  ~gc.astray /\ Neat(gc') /\ InTheRoom'
<1> DEFINE h == GotDisconnected(gc)
           q == [nick |-> None, join |-> FALSE]
<1>1. /\ TypeOK /\ Good(gc) /\ gc \in Gc /\ toRoom \in Seq(Request)
      /\ Tracked(gc, toGajim, toRoom, room, online) /\ online \in BOOLEAN
      /\ toGajim' = toGajim /\ room' = room /\ online' = online
      /\ gc' = [h EXCEPT !.open = FALSE, !.astray = @ \/ gc.new_nick # None]
  BY DEF Whole, TypeOK, InTheRoom, LeaveRoom
<1>2. q \in Request /\ q.nick = None
  BY DEF Request
<1>3. toRoom' = IF online THEN toRoom \o <<q>> ELSE toRoom
  <2>1. Send(q)
    BY DEF LeaveRoom
  <2> HIDE DEF q
  <2> QED
    BY <1>1, <1>2, <2>1, SendIs
<1>4. h \in Gc
  BY <1>1, GotDisconnectedGood DEF Good
<1>5. /\ Bare(h) /\ Neat(h) /\ h.nick = gc.nick /\ h.new_nick = gc.new_nick
      /\ h.astray = gc.astray
  BY <1>1, GotDisconnectedKeeps
<1> HIDE DEF h, q
<1>6. (h.astray \/ gc.new_nick # None) \in BOOLEAN
  BY <1>4 DEF Gc
<1>7. /\ gc'.contact = h.contact /\ gc'.rows = h.rows /\ ~gc'.open /\ gc' \in Gc
      /\ gc'.chat = h.chat /\ gc'.table = h.table /\ gc'.connected = h.connected
      /\ gc'.nick = h.nick /\ gc'.new_nick = h.new_nick
      /\ gc'.astray <=> h.astray \/ gc.new_nick # None
  BY <1>1, <1>4, <1>6 DEF Gc
<1>8. ~gc.astray /\ gc.new_nick = None /\ gc'.new_nick = None
  BY <1>5, <1>7
<1>9. Neat(gc') /\ Bare(gc') /\ gc'.nick = gc.nick
  BY <1>5, <1>7 DEF Neat, Filed, Opened, Bare, HasRow
<1>10. CASE online
  <2>1. Tracked(gc', toGajim, toRoom \o <<q>>, room, online)
    BY <1>1, <1>2, <1>7, <1>8, <1>9, <1>10, Closes
  <2> QED
    BY <1>1, <1>3, <1>8, <1>9, <1>10, <2>1 DEF InTheRoom
<1>11. CASE ~online
  <2>1. toRoom = <<>> /\ toGajim = <<>> /\ MeIn(room) = {}
    BY <1>1, <1>11 DEF Tracked, Away
  <2>2. Tracked(gc', <<>>, <<>>, room, online)
    BY <1>7, <1>8, <1>9, <2>1, Fresh
  <2> QED
    BY <1>1, <1>3, <1>8, <1>9, <1>11, <2>1, <2>2 DEF InTheRoom
<1> QED
  BY <1>1, <1>10, <1>11

LEMMA DialogTracked ==
    ASSUME Whole, Neat(gc), InTheRoom, ChangeNick \/ AnswerDialog, ~gc'.astray
    PROVE  ~gc.astray /\ Neat(gc') /\ InTheRoom'
<1>1. /\ TypeOK /\ gc \in Gc /\ toGajim \in Seq(Stanza) /\ toRoom \in Seq(Request)
      /\ Tracked(gc, toGajim, toRoom, room, online) /\ online \in BOOLEAN
      /\ toGajim' = toGajim /\ room' = room /\ online' = online
  BY DEF Whole, TypeOK, InTheRoom, ChangeNick, AnswerDialog
<1>2. ASSUME toRoom' = toRoom, gc'.nick = gc.nick, gc'.new_nick = gc.new_nick,
             gc'.open = gc.open, gc'.connected = gc.connected, gc'.contact = gc.contact,
             gc'.rows = gc.rows, gc'.chat = gc.chat, gc'.table = gc.table
      PROVE  Neat(gc') /\ InTheRoom'
  <2>1. Neat(gc')
    BY <1>2 DEF Neat, Filed, Opened
  <2>2. Tracked(gc', toGajim, toRoom, room, online)
    BY <1>1, <1>2, Twins
  <2> QED
    BY <1>1, <1>2, <2>1, <2>2 DEF InTheRoom
<1>3. CASE ChangeNick
  <2>1. gc' = [gc EXCEPT !.dialog = TRUE] /\ toRoom' = toRoom
    BY <1>3 DEF ChangeNick
  <2>2. /\ gc'.nick = gc.nick /\ gc'.new_nick = gc.new_nick /\ gc'.astray = gc.astray
        /\ gc'.open = gc.open /\ gc'.connected = gc.connected /\ gc'.contact = gc.contact
        /\ gc'.rows = gc.rows /\ gc'.chat = gc.chat /\ gc'.table = gc.table
    BY <1>1, <2>1 DEF Gc
  <2> QED
    BY <1>2, <2>1, <2>2
<1>4. CASE /\ gc' = [gc EXCEPT !.dialog = FALSE, !.new_nick = None,
                               !.astray = @ \/ gc.new_nick # None]
           /\ toRoom' = toRoom
  <2>1. (gc.astray \/ gc.new_nick # None) \in BOOLEAN
    BY <1>1 DEF Gc
  <2>2. /\ gc'.nick = gc.nick /\ gc'.new_nick = None
        /\ gc'.astray <=> gc.astray \/ gc.new_nick # None
        /\ gc'.open = gc.open /\ gc'.connected = gc.connected /\ gc'.contact = gc.contact
        /\ gc'.rows = gc.rows /\ gc'.chat = gc.chat /\ gc'.table = gc.table
    BY <1>1, <1>4, <2>1 DEF Gc
  <2> QED
    BY <1>2, <1>4, <2>2
<1>5. ASSUME NEW n \in Mine, Join(n),
             gc' = [gc EXCEPT !.dialog = FALSE, !.astray = @ \/ ~gc.open \/ Astray(n),
                              !.new_nick = IF gc.connected THEN n ELSE @,
                              !.nick = IF gc.connected THEN @ ELSE n]
      PROVE  ~gc.astray /\ Neat(gc') /\ InTheRoom'
  <2> DEFINE q == [nick |-> n, join |-> TRUE]
  <2>1. n \in Nick /\ q \in Request /\ q.nick = n /\ q.join
    BY GroupChatAssumption DEF Request
  <2>2. toRoom' = IF online THEN toRoom \o <<q>> ELSE toRoom
    <3>1. Send(q)
      BY <1>5 DEF Join
    <3> HIDE DEF q
    <3> QED
      BY <1>1, <2>1, <3>1, SendIs
  <2>3. (gc.astray \/ ~gc.open \/ Astray(n)) \in BOOLEAN
    BY <1>1 DEF Gc, Astray
  <2>4. gc' \in Gc
    BY <1>1, <1>5, <2>1, <2>3 DEF Gc
  <2>5. /\ gc'.contact = gc.contact /\ gc'.rows = gc.rows /\ gc'.open = gc.open
        /\ gc'.chat = gc.chat /\ gc'.table = gc.table /\ gc'.connected = gc.connected
        /\ gc'.nick = (IF gc.connected THEN gc.nick ELSE n)
        /\ gc'.new_nick = (IF gc.connected THEN n ELSE gc.new_nick)
        /\ gc'.astray <=> gc.astray \/ ~gc.open \/ Astray(n)
    BY <1>1, <1>5, <2>3 DEF Gc
  <2>6. Neat(gc') /\ ~gc.astray /\ gc.open
        /\ \/ toRoom = <<>> /\ toGajim = <<>>
           \/ n = gc.nick /\ gc.new_nick = None
    BY <2>5 DEF Neat, Filed, Opened, Astray, Quiet
  <2>7. ~online => /\ toRoom = <<>> /\ toGajim = <<>> /\ MeIn(room) = {}
                   /\ Bare(gc) /\ ~gc.connected
    BY <1>1 DEF Tracked, Away, Bare
  <2>8. CASE toRoom = <<>> /\ toGajim = <<>> /\ gc.connected
    <3>1. online /\ toRoom' = <<q>>
      <4> HIDE DEF q
      <4> QED
        BY <2>1, <2>2, <2>7, <2>8
    <3>2. gc'.nick = gc.nick /\ gc'.new_nick = n /\ gc'.open /\ gc'.connected
      BY <2>5, <2>6, <2>8
    <3>3. Tracked(gc', <<>>, <<q>>, room, online)
      BY <1>1, <2>1, <2>4, <2>5, <2>6, <2>8, <3>2, Asks
    <3> QED
      BY <1>1, <2>6, <2>8, <3>1, <3>3 DEF InTheRoom
  <2>9. CASE toRoom = <<>> /\ toGajim = <<>> /\ ~gc.connected
    <3>1. \A M, Q : NoneOf(<<>>, M) /\ Ends(<<>>, M, Q)
      BY EmptyEnds
    <3>2. MeIn(room) = {}
      BY <1>1, <2>6, <2>9, <3>1 DEF Tracked, Same, Other, Known
    <3>3. Bare(gc)
      BY <1>1, <2>9, <3>1, <3>2 DEF Tracked, Empty
    <3>4. Bare(gc') /\ gc'.open /\ gc'.nick = n
      BY <2>5, <2>6, <2>9, <3>3 DEF Bare, HasRow
    <3>5. toRoom' = <<>> \/ (online /\ toRoom' = <<q>>)
      <4> HIDE DEF q
      <4> QED
        BY <1>1, <2>1, <2>2, <2>9
    <3>6. Tracked(gc', <<>>, toRoom', room, online)
      BY <2>1, <2>4, <3>2, <3>4, <3>5, Fresh
    <3> QED
      BY <1>1, <2>6, <2>9, <3>6 DEF InTheRoom
  <2>10. CASE n = gc.nick /\ gc.new_nick = None /\ online
    <3>1. ~Asked(gc) /\ q.nick = gc.nick /\ toRoom' = toRoom \o <<q>>
      BY <2>1, <2>2, <2>10 DEF Asked
    <3> HIDE DEF q
    <3>2. Tracked(gc, toGajim, toRoom \o <<q>>, room, online)
      BY <1>1, <2>1, <2>6, <2>10, <3>1, Requests
    <3>3. Tracked(gc', toGajim, toRoom \o <<q>>, room, online)
      <4>1. CASE ~gc.connected
        <5>1. gc'.nick = gc.nick /\ gc'.new_nick = gc.new_nick
          BY <2>5, <2>10, <4>1
        <5> QED
          BY <2>5, <3>2, <5>1, Twins
      <4>2. CASE gc.connected
        <5>1. gc'.nick = gc.nick /\ gc'.new_nick = gc.nick
          BY <2>5, <2>10, <4>2
        <5> QED
          BY <1>1, <2>4, <2>5, <2>6, <2>10, <3>2, <5>1, AsksAgain
      <4> QED
        BY <4>1, <4>2
    <3> QED
      BY <1>1, <2>6, <3>1, <3>3 DEF InTheRoom
  <2> QED
    BY <2>6, <2>7, <2>8, <2>9, <2>10
<1>6. \/ ChangeNick
      \/ \E n \in Mine :
             /\ Join(n)
             /\ gc' = [gc EXCEPT !.dialog = FALSE, !.astray = @ \/ ~gc.open \/ Astray(n),
                                 !.new_nick = IF gc.connected THEN n ELSE @,
                                 !.nick = IF gc.connected THEN @ ELSE n]
      \/ /\ gc' = [gc EXCEPT !.dialog = FALSE, !.new_nick = None,
                             !.astray = @ \/ gc.new_nick # None]
         /\ toRoom' = toRoom
  BY DEF AnswerDialog
<1> QED
  BY <1>3, <1>4, <1>5, <1>6

LEMMA RaisesTracked ==
    ASSUME Whole, Neat(gc), NEW c, NEW w, NEW R, NEW rm, NEW on, Tracked(gc, w, R, rm, on),
           NEW t, t = [gc EXCEPT !.active = c], ~t.astray
    PROVE  ~gc.astray /\ Neat(t) /\ Tracked(t, w, R, rm, on)
<1>1. gc \in Gc
  BY DEF Whole, TypeOK
<1>2. /\ t.open = gc.open /\ t.contact = gc.contact /\ t.rows = gc.rows
      /\ t.nick = gc.nick /\ t.new_nick = gc.new_nick /\ t.connected = gc.connected
      /\ t.astray = gc.astray /\ t.chat = gc.chat /\ t.table = gc.table
  BY <1>1 DEF Gc
<1>3. \A m \in Nick : Opened(gc, m) => Opened(t, m)
  BY <1>2 DEF Opened
<1> QED
  BY <1>2, <1>3, WindowsTracked DEF Keeps

LEMMA ChatsTracked ==
    ASSUME Whole, Neat(gc), InTheRoom, Activate \/ Tray \/ Close, ~gc'.astray
    PROVE  ~gc.astray /\ Neat(gc') /\ InTheRoom'
<1>1. /\ Good(gc) /\ gc \in Gc /\ Tracked(gc, toGajim, toRoom, room, online)
      /\ UNCHANGED <<toGajim, toRoom, room, online>>
  BY DEF Whole, TypeOK, InTheRoom, Activate, ActivateRow, Tray, Close
<1> SUFFICES ~gc.astray /\ Neat(gc') /\ Tracked(gc', toGajim, toRoom, room, online)
  BY <1>1 DEF InTheRoom
<1>2. ASSUME NEW n \in Nick, NEW show \in {"online", "offline"},
             gc.contact[n] # None => show = gc.contact[n].show,
             NEW g \in NewPrivateChat(gc, n, show), gc' = [g EXCEPT !.active = g.control[n]]
      PROVE  ~gc.astray /\ Neat(gc') /\ Tracked(gc', toGajim, toRoom, room, online)
  <2>1. g \in Gc
    BY <1>2, NewPrivateChatGood DEF Whole, Good
  <2> DEFINE c == g.control[n]
  <2>2. gc' = [g EXCEPT !.active = c]
    BY <1>2
  <2> HIDE DEF c
  <2>3. /\ gc'.open = g.open /\ gc'.contact = g.contact /\ gc'.rows = g.rows
        /\ gc'.nick = g.nick /\ gc'.new_nick = g.new_nick /\ gc'.connected = g.connected
        /\ gc'.astray = g.astray /\ gc'.chat = g.chat /\ gc'.table = g.table
    BY <2>1, <2>2 DEF Gc
  <2>4. ~gc.astray /\ Neat(g) /\ Tracked(g, toGajim, toRoom, room, online)
    BY <1>1, <1>2, <2>3, NewPrivateChatTracked
  <2>5. \A m \in Nick : Opened(g, m) => Opened(gc', m)
    BY <2>3 DEF Opened
  <2>6. Keeps(g, gc') /\ gc'.rows = g.rows /\ gc'.contact = g.contact
    BY <2>3 DEF Keeps
  <2>7. Neat(gc') /\ Tracked(gc', toGajim, toRoom, room, online)
    BY <2>4, <2>5, <2>6, WindowsTracked
  <2> QED
    BY <2>4, <2>7
<1>3. CASE Activate
  <2>1. PICK n \in Nick : ActivateRow(n)
    BY <1>3 DEF Activate
  <2>2. CASE gc' = [gc EXCEPT !.active = gc.table[n]]
    BY <1>1, <2>2, RaisesTracked
  <2>3. CASE \E g \in NewPrivateChat(gc, n, gc.contact[n].show) :
                 gc' = [g EXCEPT !.active = g.control[n]]
    <3>1. gc.contact[n].show \in {"online", "offline"}
      <4>1. gc.contact[n] \in Contact
        BY <1>1, <2>1, Chatting DEF ActivateRow
      <4> QED
        BY <4>1 DEF Contact
    <3> QED
      BY <1>2, <2>3, <3>1
  <2> QED
    BY <2>1, <2>2, <2>3 DEF ActivateRow
<1>4. CASE Tray
  <2> DEFINE Show(n) == IF gc.contact[n] = None THEN "offline" ELSE gc.contact[n].show
  <2>1. PICK n \in Nick :
            \E g \in IF gc.control[n] # None THEN {gc}
                     ELSE IF gc.open THEN NewPrivateChat(gc, n, Show(n)) ELSE {} :
               gc' = [g EXCEPT !.active = g.control[n]]
    BY <1>4 DEF Tray
  <2>2. CASE gc' = [gc EXCEPT !.active = gc.control[n]]
    BY <1>1, <2>2, RaisesTracked
  <2>3. CASE \E g \in NewPrivateChat(gc, n, Show(n)) :
                 gc' = [g EXCEPT !.active = g.control[n]]
    <3>1. Show(n) \in {"online", "offline"}
      <4>1. gc.contact[n] # None => gc.contact[n] \in Contact
        BY <1>1, Chatting
      <4> QED
        BY <4>1 DEF Contact
    <3>2. gc.contact[n] # None => Show(n) = gc.contact[n].show
      OBVIOUS
    <3> HIDE DEF Show
    <3> QED
      BY <1>2, <2>3, <3>1, <3>2
  <2> QED
    BY <2>1, <2>2, <2>3
<1>5. CASE Close
  <2>1. PICK c \in Chats : gc.chat[c] # None /\ gc' = CloseChat(gc, c)
    BY <1>5 DEF Close
  <2> QED
    BY <1>1, <2>1, CloseChatTracked
<1> QED
  BY <1>3, <1>4, <1>5

LEMMA LoseTracked ==
    ASSUME Whole, Neat(gc), InTheRoom, Lose, ~gc'.astray
    PROVE  ~gc.astray /\ Neat(gc') /\ InTheRoom'
<1>1. /\ TypeOK /\ Good(gc) /\ gc \in Gc
      /\ Tracked(gc, toGajim, toRoom, room, online)
      /\ toGajim' = <<>> /\ toRoom' = <<>>
      /\ gc' = IF gc.open THEN GotDisconnected(gc) ELSE gc
  BY DEF Whole, TypeOK, InTheRoom, Lose
<1>2. /\ Bare(gc') /\ Neat(gc') /\ gc' \in Gc /\ gc'.astray = gc.astray
      /\ gc'.open \/ gc'.new_nick = None
  <2>1. CASE gc.open
    BY <1>1, <2>1, GotDisconnectedKeeps, GotDisconnectedGood DEF Good
  <2>2. CASE ~gc.open
    BY <1>1, <2>2 DEF Tracked, Away
  <2> QED
    BY <2>1, <2>2
<1>3. MeIn(room') = {}
  <2>1. PICK o \in {None} \cup {[room[n] EXCEPT !.who = "ghost"] : n \in InRoom} :
            room' = [n \in Nick |-> IF n \in InRoom THEN o ELSE room[n]]
    BY DEF Lose
  <2>2. \A n \in InRoom : [room[n] EXCEPT !.who = "ghost"].who # "me"
    BY <1>1, Occupied DEF InRoom, Occupant
  <2>3. o = None \/ o.who # "me"
    BY <2>1, <2>2
  <2> QED
    BY <2>1, <2>3 DEF MeIn, InRoom
<1>4. Tracked(gc', <<>>, <<>>, room', online')
  BY <1>2, <1>3, Fresh
<1> QED
  BY <1>1, <1>2, <1>4 DEF InTheRoom

LEMMA SignInTracked ==
    ASSUME Whole, Neat(gc), InTheRoom, SignIn, ~gc'.astray
    PROVE  ~gc.astray /\ Neat(gc') /\ InTheRoom'
<1>1. /\ gc \in Gc /\ Tracked(gc, toGajim, toRoom, room, online)
      /\ ~online /\ online' = TRUE /\ room' = room /\ toGajim' = toGajim /\ gc' = gc
      /\ toRoom' = IF gc.open THEN <<[nick |-> gc.nick, join |-> TRUE]>> ELSE <<>>
  BY DEF Whole, TypeOK, InTheRoom, SignIn
<1> DEFINE q == [nick |-> gc.nick, join |-> TRUE]
<1>2. q \in Request /\ q.nick = gc.nick
  BY <1>1 DEF Request, Gc
<1>3. toRoom' = IF gc.open THEN <<q>> ELSE <<>>
  BY <1>1
<1> HIDE DEF q
<1>4. /\ toGajim = <<>> /\ MeIn(room) = {} /\ Bare(gc)
      /\ gc.open \/ gc.new_nick = None
  BY <1>1 DEF Tracked, Away
<1>5. Tracked(gc, <<>>, toRoom', room, TRUE)
  BY <1>1, <1>2, <1>3, <1>4, Fresh
<1> QED
  BY <1>1, <1>4, <1>5 DEF InTheRoom

-----------------------------------------------------------------------------
(* What went astray remains so.                                            *)

Strays(g) == "astray" \in DOMAIN g /\ g.astray

LEMMA PartsStray ==
    ASSUME NEW g, Strays(g)
    PROVE  /\ \A n, show, role : Strays(AddContact(g, n, show, role))
           /\ \A n : Strays(RemoveContact(g, n))
           /\ Strays(GotDisconnected(g))
           /\ \A c, n : Strays(SetSession(g, c, n))
           /\ \A old, new : Strays(ChangeKey(g, old, new))
           /\ \A st : Strays(TakeNick(g, st))
           /\ \A c : Strays(CloseChat(g, c))
<1>1. \A n, show, role : Strays(AddContact(g, n, show, role))
  BY DEF Strays, AddContact
<1>2. \A n : Strays(RemoveContact(g, n))
  BY DEF Strays, RemoveContact
<1>3. Strays(GotDisconnected(g))
  BY DEF Strays, GotDisconnected
<1>4. \A c, n : Strays(SetSession(g, c, n))
  BY DEF Strays, SetSession
<1>5. \A old, new : Strays(ChangeKey(g, old, new))
  BY DEF Strays, ChangeKey
<1>6. \A st : Strays(TakeNick(g, st))
  BY DEF Strays, TakeNick
<1>7. \A c : Strays(CloseChat(g, c))
  BY DEF Strays, CloseChat
<1> QED
  BY <1>1, <1>2, <1>3, <1>4, <1>5, <1>6, <1>7

LEMMA ReadQueueStrays ==
    ASSUME NEW g, Strays(g), NEW c
    PROVE  Strays(ReadQueue(g, c))
<1> DEFINE n == g.chat[c].nick
           gone == g.chat[c].show = "offline" /\ g.contact[n] # None
           h == SetSession(g, c, n)
           s == [h EXCEPT !.events[n] = 0, !.astray = @ \/ (gone /\ g.table[n] # c)]
<1>1. ReadQueue(g, c) = IF g.events[n] = 0 THEN g ELSE IF gone THEN RemoveContact(s, n) ELSE s
  BY DEF ReadQueue
<1>2. Strays(h)
  BY PartsStray
<1> HIDE DEF h
<1>3. Strays(s)
  BY <1>2 DEF Strays
<1> HIDE DEF s
<1> QED
  BY <1>1, <1>3, PartsStray

LEMMA NewPrivateChatStrays ==
    ASSUME NEW g, Strays(g), NEW n, NEW show, NEW t \in NewPrivateChat(g, n, show)
    PROVE  Strays(t)
<1>1. CASE g.control[n] # None
  BY <1>1, ReadQueueStrays DEF NewPrivateChat
<1>2. CASE g.control[n] = None
  <2>1. PICK c \in Chats :
            t = ReadQueue([g EXCEPT
                      !.chat[c] = [nick |-> n, session |-> n, show |-> show],
                      !.table[n] = c, !.control[n] = c], c)
    BY <1>2 DEF NewPrivateChat
  <2> DEFINE h == [g EXCEPT !.chat[c] = [nick |-> n, session |-> n, show |-> show],
                            !.table[n] = c, !.control[n] = c]
  <2>2. Strays(h)
    BY DEF Strays
  <2> HIDE DEF h
  <2> QED
    BY <2>1, <2>2, ReadQueueStrays DEF h
<1> QED
  BY <1>1, <1>2

LEMMA AvailableStrays ==
    ASSUME NEW g, Strays(g), NEW st
    PROVE  Strays(Available(g, st))
<1> DEFINE n == st.nick
           g1 == IF ~HasRow(g, n) THEN AddContact(g, n, "online", st.role)
                 ELSE IF g.contact[n].role # st.role
                 THEN AddContact(RemoveContact(g, n), n, "online", st.role)
                 ELSE [g EXCEPT !.contact[n].show = "online"]
           c == g.table[n]
<1>1. Available(g, st) =
          IF HasRow(g, n) /\ g.contact[n] = None THEN g
          ELSE IF c = None THEN g1 ELSE [g1 EXCEPT !.chat[c].show = "online"]
  BY DEF Available
<1>2. Strays(g1)
  <2>1. Strays([g EXCEPT !.contact[n].show = "online"])
    BY DEF Strays
  <2>2. \A h : Strays(h) => Strays(AddContact(h, n, "online", st.role))
    BY PartsStray
  <2>3. Strays(RemoveContact(g, n))
    BY PartsStray
  <2> QED
    BY <2>1, <2>2, <2>3
<1> HIDE DEF g1
<1>3. Strays([g1 EXCEPT !.chat[c].show = "online"])
  BY <1>2 DEF Strays
<1> QED
  BY <1>1, <1>2, <1>3

LEMMA UnavailableStrays ==
    ASSUME NEW g, Strays(g), NEW st
    PROVE  Strays(Unavailable(g, st))
<1> DEFINE n == st.nick
           g2 == IF st.new = None THEN g
                 ELSE AddContact(TakeNick(g, st), st.new, "offline", st.role)
           g3 == IF g2.events[n] = 0 THEN RemoveContact(g2, n)
                 ELSE [g2 EXCEPT !.contact[n].show = "offline"]
           g4 == IF st.new = None /\ n = g3.nick THEN GotDisconnected(g3) ELSE g3
           c == g4.table[n]
<1>1. Unavailable(g, st) =
          IF g2.events[n] # 0 /\ g2.contact[n] = None
          THEN [g2 EXCEPT !.astray = @ \/ n = g2.nick]
          ELSE IF c = None THEN g4
          ELSE IF st.new # None THEN ChangeKey(g4, n, st.new)
          ELSE [g4 EXCEPT !.chat[c].show = "offline"]
  BY DEF Unavailable
<1>2. Strays(g2)
  <2>1. Strays(TakeNick(g, st))
    BY PartsStray
  <2>2. \A h : Strays(h) => Strays(AddContact(h, st.new, "offline", st.role))
    BY PartsStray
  <2> QED
    BY <2>1, <2>2
<1> HIDE DEF g2
<1>3. Strays([g2 EXCEPT !.astray = @ \/ n = g2.nick])
  BY <1>2 DEF Strays
<1>4. Strays(g3)
  <2>1. Strays([g2 EXCEPT !.contact[n].show = "offline"])
    BY <1>2 DEF Strays
  <2>2. Strays(RemoveContact(g2, n))
    BY <1>2, PartsStray
  <2> QED
    BY <2>1, <2>2
<1> HIDE DEF g3
<1>5. Strays(g4)
  BY <1>4, PartsStray
<1> HIDE DEF g4
<1>6. Strays([g4 EXCEPT !.chat[c].show = "offline"])
  BY <1>5 DEF Strays
<1>7. Strays(ChangeKey(g4, n, st.new))
  BY <1>5, PartsStray
<1> QED
  BY <1>1, <1>3, <1>5, <1>6, <1>7

LEMMA HandleStrays ==
    ASSUME NEW g, Strays(g), NEW st \in Stanza
    PROVE  Strays(Handle(g, st))
<1>1. Strays(Message(g, st))
  <2>1. Strays([g EXCEPT !.events[st.nick] = @ + 1])
    BY DEF Strays
  <2> QED
    BY <2>1, PartsStray DEF Message
<1>2. Strays([g EXCEPT !.dialog = TRUE])
  BY DEF Strays
<1>3. st.kind \in {"available", "unavailable", "message", "conflict"}
  BY DEF Stanza
<1> QED
  BY <1>1, <1>2, <1>3, AvailableStrays, UnavailableStrays DEF Handle

LEMMA AstrayStays ==
    ASSUME TypeOK, gc.astray, [Next]_vars
    PROVE  gc'.astray
<1>1. Strays(gc) /\ gc \in Gc
  BY DEF TypeOK, Gc, Strays
<1> SUFFICES Strays(gc')
  BY DEF Strays
<1>2. CASE gc' = gc
  BY <1>1, <1>2
<1>3. CASE Arrive
  <2>1. Head(toGajim) \in Stanza
    BY <1>3 DEF TypeOK, Arrive
  <2> QED
    BY <1>1, <1>3, <2>1, HandleStrays DEF Arrive
<1>4. CASE Rename
  BY <1>1, <1>4 DEF Rename, Strays
<1>5. CASE Kick
  BY <1>1, <1>5 DEF Kick, Strays
<1>6. CASE JoinRoom
  <2>1. PICK n \in Mine :
          gc' = IF gc.open THEN [gc EXCEPT !.astray = @ \/ n # gc.nick]
                ELSE [gc EXCEPT !.open = TRUE, !.nick = n, !.new_nick = None,
                                !.dialog = FALSE, !.astray = @ \/ Astray(n)]
    BY <1>6 DEF JoinRoom
  <2> QED
    BY <1>1, <2>1 DEF Strays
<1>7. CASE ChangeStatus
  BY <1>1, <1>7 DEF ChangeStatus, Strays
<1>8. CASE LeaveRoom
  <2>1. Strays(GotDisconnected(gc))
    BY <1>1, PartsStray
  <2> QED
    BY <1>8, <2>1 DEF LeaveRoom, Strays
<1>9. CASE ChangeNick
  BY <1>1, <1>9 DEF ChangeNick, Strays
<1>10. CASE AnswerDialog
  BY <1>1, <1>10 DEF AnswerDialog, Strays
<1>11. ASSUME NEW g, Strays(g), NEW c PROVE Strays([g EXCEPT !.active = c])
  BY <1>11 DEF Strays
<1>12. CASE Activate
  <2>1. PICK n \in Nick :
            \/ gc' = [gc EXCEPT !.active = gc.table[n]]
            \/ \E g \in NewPrivateChat(gc, n, gc.contact[n].show) :
                   gc' = [g EXCEPT !.active = g.control[n]]
    BY <1>12 DEF Activate, ActivateRow
  <2> QED
    BY <1>1, <1>11, <2>1, NewPrivateChatStrays, SMTT(30)
<1>13. CASE Tray
  <2>1. PICK n \in Nick :
            \E show : \E g \in {gc} \cup NewPrivateChat(gc, n, show) :
               gc' = [g EXCEPT !.active = g.control[n]]
    BY <1>13 DEF Tray
  <2> QED
    BY <1>1, <1>11, <2>1, NewPrivateChatStrays
<1>14. CASE Close
  BY <1>1, <1>14, PartsStray DEF Close
<1>15. CASE Lose
  BY <1>1, <1>15, PartsStray DEF Lose
<1> QED
  BY <1>2, <1>3, <1>4, <1>5, <1>6, <1>7, <1>8, <1>9, <1>10, <1>12, <1>13, <1>14, <1>15
     DEF Next, Serve, Enter, Exit, SetRole, Say, SignIn, vars

-----------------------------------------------------------------------------
(* The window and the room, unless something went astray.                  *)

Sure == gc.astray \/ (Neat(gc) /\ InTheRoom)

LEMMA InitSure == Init => Sure
<1> SUFFICES ASSUME Init PROVE Neat(gc) /\ InTheRoom
  BY DEF Sure
<1>1. PICK n \in Mine :
          gc = [open |-> FALSE, nick |-> n, new_nick |-> None, connected |-> FALSE,
                dialog |-> FALSE, astray |-> FALSE, rows |-> NoRow,
                contact |-> [m \in Nick |-> None], events |-> [m \in Nick |-> 0],
                chat |-> [c \in Chats |-> None], table |-> [m \in Nick |-> None],
                control |-> [m \in Nick |-> None], active |-> None]
  BY DEF Init
<1>2. gc \in Gc
  BY InitGood DEF Whole, TypeOK
<1>3. Neat(gc) /\ Bare(gc) /\ gc.new_nick = None
  BY <1>1 DEF Neat, Filed, Opened, Bare, HasRow, NoRow
<1>4. MeIn(room) = {} /\ toRoom = <<>> /\ toGajim = <<>>
  <2>1. \A m \in Nick : room[m] = None \/ room[m].who = "other"
    BY DEF Init
  <2> QED
    BY <2>1 DEF MeIn, Init
<1>5. Tracked(gc, <<>>, <<>>, room, online)
  BY <1>2, <1>3, <1>4, Fresh
<1> QED
  BY <1>3, <1>4, <1>5 DEF InTheRoom

\* What goes on between the server and the other occupants leaves the windows
LEMMA NeatStays ==
    ASSUME TypeOK, Neat(gc), Enter \/ Exit \/ Rename \/ SetRole \/ Kick \/ Say
    PROVE  Neat(gc')
<1>1. gc \in Gc
  BY DEF TypeOK
<1>2. \/ gc' = gc
      \/ \E b \in BOOLEAN : gc' = [gc EXCEPT !.astray = b]
  <2>1. \A m : (gc.astray \/ m = gc.new_nick) \in BOOLEAN
    BY <1>1 DEF Gc
  <2>2. (gc.astray \/ gc.new_nick # None) \in BOOLEAN
    BY <1>1 DEF Gc
  <2>3. CASE Rename
    BY <2>1, <2>3 DEF Rename
  <2>4. CASE Kick
    BY <2>2, <2>4 DEF Kick
  <2> QED
    BY <2>3, <2>4 DEF Enter, Exit, SetRole, Say
<1>3. /\ gc'.rows = gc.rows /\ gc'.contact = gc.contact /\ gc'.table = gc.table
      /\ gc'.chat = gc.chat
  BY <1>1, <1>2 DEF Gc
<1> QED
  BY <1>3 DEF Neat, Filed, Opened

LEMMA NextSure == Whole /\ Sure /\ [Next]_vars => Sure'
<1> SUFFICES ASSUME Whole, Sure, [Next]_vars, ~gc'.astray
             PROVE  Neat(gc') /\ InTheRoom'
  BY DEF Sure
<1>1. TypeOK
  BY DEF Whole
<1>2. ASSUME gc.astray PROVE FALSE
  BY <1>1, <1>2, AstrayStays
<1>3. Neat(gc) /\ InTheRoom
  BY <1>2 DEF Sure
<1>4. CASE UNCHANGED vars
  BY <1>3, <1>4 DEF vars, InTheRoom
<1>5. CASE Serve
  BY <1>3, <1>5, ServeTracked
<1>6. CASE Enter \/ Exit \/ Rename \/ SetRole \/ Say
  BY <1>1, <1>3, <1>6, NeatStays, OthersTracked
<1>7. CASE Kick
  BY <1>1, <1>3, <1>7, NeatStays, KickTracked
<1>8. CASE Arrive
  BY <1>3, <1>8, ArriveTracked
<1>9. CASE JoinRoom
  BY <1>3, <1>9, JoinRoomTracked
<1>10. CASE ChangeStatus
  BY <1>3, <1>10, ChangeStatusTracked
<1>11. CASE LeaveRoom
  BY <1>3, <1>11, LeaveRoomTracked
<1>12. CASE ChangeNick \/ AnswerDialog
  BY <1>3, <1>12, DialogTracked
<1>13. CASE Activate \/ Tray \/ Close
  BY <1>3, <1>13, ChatsTracked
<1>14. CASE Lose
  BY <1>3, <1>14, LoseTracked
<1>15. CASE SignIn
  BY <1>3, <1>15, SignInTracked
<1> QED
  BY <1>4, <1>5, <1>6, <1>7, <1>8, <1>9, <1>10, <1>11, <1>12, <1>13, <1>14, <1>15 DEF Next

\* With nothing on the way the window is the room
LEMMA SureKnows == Whole /\ Sure => KnowsItself /\ RoomIsShown
<1> SUFFICES ASSUME Whole, Sure, Quiet, ~InDoubt
             PROVE  KnowsItself /\ RoomIsShown
  BY DEF KnowsItself, RoomIsShown
<1>1. /\ gc \in Gc /\ gc.new_nick = None /\ ~gc.astray /\ toGajim = <<>> /\ toRoom = <<>>
      /\ Tracked(gc, <<>>, <<>>, room, online)
  BY DEF Whole, TypeOK, Sure, InTheRoom, InDoubt, Quiet
<1>2. \A M, Q : NoneOf(<<>>, M) /\ Ends(<<>>, M, Q)
  BY EmptyEnds
<1>3. InRoom = MeIn(room)
  BY DEF InRoom, MeIn
<1>4. ~Asked(gc)
  BY <1>1 DEF Asked
<1>5. Same(gc, <<>>, <<>>, room)
  BY <1>1, <1>4 DEF Tracked, Other
<1>6. /\ MeIn(room) \subseteq {gc.nick}
      /\ gc.connected => MeIn(room) # {}
      /\ gc.open /\ MeIn(room) # {} => gc.connected
  BY <1>2, <1>5 DEF Same, Known
<1>7. KnowsItself
  BY <1>3, <1>6 DEF KnowsItself
<1>8. ASSUME gc.connected, OneRow, NEW n \in Nick
      PROVE  IF room[n] = None
             THEN gc.contact[n] = None \/ gc.contact[n].show = "offline"
             ELSE gc.contact[n] = [show |-> "online", role |-> room[n].role]
  <2>1. gc.open /\ MeIn(room) # {}
    BY <1>1, <1>6, <1>8 DEF Tracked, Away, Bare
  <2>2. ShownOf(gc, <<>>, n, room[n])
    BY <1>1, <1>2, <2>1 DEF Tracked, Shown
  <2>3. Clean(gc, n)
    BY <1>8 DEF OneRow, Clean
  <2> QED
    BY <1>2, <2>2, <2>3 DEF ShownOf, Right
<1>9. RoomIsShown
  BY <1>8 DEF RoomIsShown
<1> QED
  BY <1>7, <1>9

LEMMA AlwaysSure == Spec => [](Whole /\ Sure)
<1>1. Init => Whole /\ Sure
  BY InitGood, InitSure
<1>2. (Whole /\ Sure) /\ [Next]_vars => (Whole /\ Sure)'
  BY NextGood, NextSure
<1> QED
  BY <1>1, <1>2, PTL DEF Spec

\* The window knows whether the user is in the room, and under which name, when
\* all that was sent has arrived: for any number of joins, kicks, changes of the
\* name and lost connections, of the user and of others who take the same names.
THEOREM KnowsItselfAlways == Spec => []KnowsItself
<1>1. Whole /\ Sure => KnowsItself
  BY SureKnows
<1> QED
  BY <1>1, AlwaysSure, PTL

\* The list of occupants, as it is put together from presences that came while
\* the user joined, left or changed the name, is the room: see RoomIsShown.
THEOREM RoomIsShownAlways == Spec => []RoomIsShown
<1>1. Whole /\ Sure => RoomIsShown
  BY SureKnows
<1> QED
  BY <1>1, AlwaysSure, PTL
================================================================================
