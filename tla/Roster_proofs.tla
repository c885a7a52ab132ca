----------------------------- MODULE Roster_proofs -----------------------------
(***************************************************************************)
(* Proofs about Roster, for any resources and groups, any number of        *)
(* messages and anything that the server, other clients and the user do.   *)
(***************************************************************************)
EXTENDS Roster, Loops

-----------------------------------------------------------------------------
(* What operators keep.                                                    *)

\* The type, and what RemoveContact relies on: nobody but it puts off the
\* removal of a row alone
Ok(s) == s \in Gui /\ s.removal # "row"

\* The contact has a row, or none on purpose
Shown(s) == Listed(s) /\ s.removal = None => s.rows # {}

\* RemovalIsFinished, of s: a removal that was put off has something to wait for
Awaits(s) ==
    s.removal # None => (\E k \in Key : s.ev[k] # <<>>) \/ s.chat[Bare] # Closed

\* t differs from s in instances, rows and removal only
Keeps(s, t) ==
    /\ Ok(t) /\ (Awaits(s) => Awaits(t))
    /\ t.ev = s.ev /\ t.chat = s.chat /\ t.control = s.control
    /\ t.known = s.known /\ t.unread = s.unread

-----------------------------------------------------------------------------
(* Instances.                                                              *)

LEMMA MinIs ==
    ASSUME NEW T, T \subseteq Nat, T # {}
    PROVE  Min(T) \in T /\ \A y \in T : Min(T) <= y
<1>1. \E x \in T : \A y \in T : x <= y
  BY LeastExists
<1> QED
  BY <1>1 DEF Min

LEMMA Instances ==
    ASSUME NEW s \in Gui
    PROVE  /\ Len(s.inst) \in Nat /\ DOMAIN s.inst = 1 .. Len(s.inst)
           /\ \A i \in 1 .. Len(s.inst) : s.inst[i] \in Contact
           /\ Listed(s) <=> Len(s.inst) # 0
<1>1. s.inst \in Seq(Contact)
  BY DEF Gui
<1> QED
  BY <1>1 DEF Listed

LEMMA OnlyOne ==
    ASSUME NEW n \in Nat, n # 0, ~(n > 1)
    PROVE  n = 1
OBVIOUS

LEMMA IndexIs ==
    ASSUME NEW s \in Gui, NEW res
    PROVE  /\ IndexOf(s, res) \in 0 .. Len(s.inst)
           /\ IndexOf(s, res) # 0 => s.inst[IndexOf(s, res)].res = res
           /\ IndexOf(s, res) # 0 <=> res \in Resources(s)
<1> DEFINE T == {i \in 1 .. Len(s.inst) : s.inst[i].res = res}
<1>1. IndexOf(s, res) = IF T # {} THEN Min(T) ELSE 0
  BY DEF IndexOf, SelectInSeq
<1>2. T \subseteq Nat /\ (res \in Resources(s) <=> T # {})
  BY Instances DEF Resources
<1>3. CASE T # {}
  <2>1. Min(T) \in T
    <3> HIDE DEF T
    <3> QED
      BY <1>2, <1>3, MinIs
  <2> QED
    BY <1>1, <1>2, <1>3, <2>1, Instances
<1>4. CASE T = {}
  BY <1>1, <1>2, <1>4, Instances
<1> QED
  BY <1>3, <1>4

LEMMA HighestIs ==
    ASSUME NEW s \in Gui, Listed(s)
    PROVE  /\ Highest(s) \in Contact
           /\ \E i \in 1 .. Len(s.inst) : Highest(s) = s.inst[i]
           /\ Highest(s).res \in Resources(s)
<1> DEFINE T == {j \in 1 .. Len(s.inst) :
                    \A i \in DOMAIN s.inst : s.inst[i].prio <= s.inst[j].prio}
           n == IF T # {} THEN Min(T) ELSE 0
<1>1. Highest(s) = s.inst[n]
  BY DEF Highest, SelectInSeq
<1>2. \A i \in 1 .. Len(s.inst) : s.inst[i].prio \in 0 .. 1
  BY Instances DEF Contact, Prio
<1>3. T # {}
  <2>1. CASE \E i \in 1 .. Len(s.inst) : s.inst[i].prio = 1
    BY <1>2, <2>1, Instances
  <2>2. CASE \A i \in 1 .. Len(s.inst) : s.inst[i].prio = 0
    <3>1. 1 \in 1 .. Len(s.inst)
      BY Instances
    <3> QED
      BY <2>2, <3>1, Instances
  <2> QED
    BY <1>2, <2>1, <2>2
<1>4. n \in T
  <2>1. T \subseteq Nat
    OBVIOUS
  <2> HIDE DEF T
  <2> QED
    BY <1>3, <2>1, MinIs
<1>5. n \in 1 .. Len(s.inst)
  BY <1>4
<1> QED
  BY <1>1, <1>5, Instances DEF Resources

LEMMA GroupsShown ==
    ASSUME NEW c \in Contact
    PROVE  /\ ShownGroups(c) # {}
           /\ ShownGroups(c) \subseteq Group \cup {NotInRoster, General, Observers}
BY DEF ShownGroups, Contact

LEMMA AddsRow ==
    ASSUME NEW s, Ok(s), Listed(s)
    PROVE  LET t == AddRow(s)
           IN Keeps(s, t) /\ t.inst = s.inst /\ t.removal = s.removal /\ t.rows # {}
<1>1. Highest(s) \in Contact
  BY HighestIs DEF Ok
<1>2. ShownGroups(Highest(s)) # {}
      /\ ShownGroups(Highest(s)) \subseteq Group \cup {NotInRoster, General, Observers}
  BY <1>1, GroupsShown
<1> QED
  BY <1>2 DEF AddRow, Keeps, Ok, Gui, Awaits

\* e is one of the elements of the sequence
Has(q, e) == \E j \in 1 .. Len(q) : q[j] = e

LEMMA HasAppended ==
    ASSUME NEW S, NEW q \in Seq(S), NEW e \in S
    PROVE  /\ Append(q, e) \in Seq(S) /\ Has(Append(q, e), e)
           /\ \A d : Has(q, d) => Has(Append(q, e), d)
<1>1. Len(Append(q, e)) = Len(q) + 1 /\ Append(q, e)[Len(q) + 1] = e /\ Len(q) \in Nat
  OBVIOUS
<1>2. \A j \in 1 .. Len(q) : Append(q, e)[j] = q[j]
  OBVIOUS
<1> QED
  BY <1>1, <1>2 DEF Has

LEMMA RemovedAt ==
    ASSUME NEW S, NEW s \in Seq(S), NEW i \in 1 .. Len(s)
    PROVE  /\ RemoveAt(s, i) \in Seq(S) /\ Len(RemoveAt(s, i)) = Len(s) - 1
           /\ \A j \in 1 .. Len(s) : j # i => Has(RemoveAt(s, i), s[j])
<1> DEFINE a == SubSeq(s, 1, i - 1)
           b == SubSeq(s, i + 1, Len(s))
<1>1. a \in Seq(S) /\ b \in Seq(S) /\ Len(a) = i - 1 /\ Len(b) = Len(s) - i
  OBVIOUS
<1>2. RemoveAt(s, i) = a \o b
  BY DEF RemoveAt
<1>3. /\ \A j \in 1 .. i - 1 : a[j] = s[j]
      /\ \A j \in 1 .. Len(s) - i : b[j] = s[i + j]
  OBVIOUS
<1> HIDE DEF a, b
<1>4. a \o b \in Seq(S) /\ Len(a \o b) = Len(s) - 1 /\ Len(s) \in Nat
  BY <1>1, SMTT(30)
<1>5. ASSUME NEW j \in 1 .. Len(s), j # i PROVE Has(a \o b, s[j])
  <2>1. CASE j < i
    <3>1. j \in 1 .. i - 1 /\ j \in 1 .. Len(a \o b) /\ (a \o b)[j] = a[j]
      BY <1>1, <1>4, <2>1
    <3> QED
      BY <1>3, <3>1 DEF Has
  <2>2. CASE j > i
    <3>1. j - 1 \in 1 .. Len(a \o b) /\ (a \o b)[j - 1] = b[j - i]
      BY <1>1, <1>4, <2>2
    <3>2. j - i \in 1 .. Len(s) - i /\ i + (j - i) = j
      BY <1>4, <2>2
    <3> QED
      BY <1>3, <3>1, <3>2 DEF Has
  <2> QED
    BY <1>5, <2>1, <2>2
<1> QED
  BY <1>2, <1>4, <1>5

LEMMA RemovedFirst ==
    ASSUME NEW S, NEW s \in Seq(S), NEW e
    PROVE  /\ RemoveFirst(s, e) \in Seq(S)
           /\ \A j \in 1 .. Len(s) : s[j] # e => Has(RemoveFirst(s, e), s[j])
<1> DEFINE T == {i \in 1 .. Len(s) : s[i] = e}
           n == SelectInSeq(s, LAMBDA d : d = e)
<1>1. n = IF T # {} THEN Min(T) ELSE 0
  BY DEF SelectInSeq
<1>2. CASE \E i \in 1 .. Len(s) : s[i] = e
  <2>1. T # {} /\ T \subseteq Nat
    BY <1>2
  <2>2. Min(T) \in T
    <3> HIDE DEF T
    <3> QED
      BY <2>1, MinIs
  <2>3. n \in 1 .. Len(s) /\ s[n] = e
    BY <1>1, <2>1, <2>2
  <2>4. RemoveFirst(s, e) = RemoveAt(s, n)
    BY <1>2 DEF RemoveFirst
  <2> HIDE DEF n
  <2> QED
    BY <2>3, <2>4, RemovedAt
<1>3. CASE ~\E i \in 1 .. Len(s) : s[i] = e
  BY <1>3 DEF RemoveFirst, Has
<1> QED
  BY <1>2, <1>3

\* When c is in the list after ListContact: it takes the place of one that is
\* not the only one, or of one that is offline
Lasts(s, c) ==
    \/ ~Listed(s)
    \/ c.res \notin Resources(s)
    \/ Len(s.inst) = 1 /\ s.inst[1].show = "offline"
    \/ Len(s.inst) > 1

LEMMA Lists ==
    ASSUME NEW s, Ok(s), NEW c \in Contact
    PROVE  LET t == ListContact(s, c)
           IN /\ Keeps(s, t) /\ t.rows = s.rows /\ t.removal = s.removal
              /\ Lasts(s, c) => Listed(t)
<1> DEFINE T == {i \in 1 .. Len(s.inst) : s.inst[i].res = c.res}
           n == SelectInSeq(s.inst, LAMBDA d : d.res = c.res)
           rest == RemoveFirstMatch(s.inst, LAMBDA d : d.res = c.res)
           list == IF Len(s.inst) = 1 /\ s.inst[1].show = "offline" THEN <<c>>
                   ELSE IF rest = <<>> /\ s.inst # <<>> THEN <<>>
                   ELSE Append(rest, c)
<1>1. s \in Gui /\ s.inst \in Seq(Contact) /\ Len(s.inst) \in Nat
  BY DEF Ok, Gui
<1>2. n = IF T # {} THEN Min(T) ELSE 0
  BY <1>1 DEF SelectInSeq
<1>3. /\ rest \in Seq(Contact)
      /\ c.res \notin Resources(s) \/ Len(s.inst) > 1 => rest # <<>> \/ s.inst = <<>>
  <2>1. CASE \E i \in 1 .. Len(s.inst) : s.inst[i].res = c.res
    <3>1. T # {} /\ T \subseteq Nat /\ c.res \in Resources(s)
      BY <1>1, <2>1 DEF Resources
    <3>2. Min(T) \in T
      <4> HIDE DEF T
      <4> QED
        BY <3>1, MinIs
    <3>3. n \in 1 .. Len(s.inst)
      BY <1>2, <3>1, <3>2
    <3>4. rest = RemoveAt(s.inst, n)
      BY <1>1, <2>1 DEF RemoveFirstMatch
    <3> HIDE DEF n, rest
    <3>5. rest \in Seq(Contact) /\ Len(rest) = Len(s.inst) - 1
      BY <1>1, <3>3, <3>4, RemovedAt
    <3> QED
      BY <1>1, <3>1, <3>5
  <2>2. CASE ~\E i \in 1 .. Len(s.inst) : s.inst[i].res = c.res
    <3>1. rest = s.inst
      BY <1>1, <2>2 DEF RemoveFirstMatch
    <3> QED
      BY <1>1, <3>1
  <2> QED
    BY <2>1, <2>2
<1>4. ListContact(s, c) = [s EXCEPT !.inst = list]
  BY <1>1 DEF ListContact
<1> HIDE DEF rest
<1>5. list \in Seq(Contact)
  BY <1>1, <1>3
<1>6. Lasts(s, c) => list # <<>>
  BY <1>1, <1>3 DEF Listed, Lasts
<1> HIDE DEF list
<1>7. [s EXCEPT !.inst = list] \in Gui
  BY <1>1, <1>5 DEF Gui
<1>8. [s EXCEPT !.inst = list].inst = list
  BY <1>1 DEF Gui
<1> QED
  BY <1>1, <1>4, <1>6, <1>7, <1>8 DEF Keeps, Ok, Gui, Listed, Awaits

\* What is pending waits at some address
LEMMA PendingIs ==
    ASSUME NEW s \in Gui, Pending(s)
    PROVE  \E k \in Key : s.ev[k] # <<>>
<1>1. PICK k \in Resources(s) \cup {Bare} : s.ev[k] # <<>>
  BY DEF Pending
<1>2. Resources(s) \subseteq Key /\ Bare \in Key
  BY Instances DEF Resources, Contact, Key
<1> QED
  BY <1>1, <1>2

LEMMA RowsGo ==
    ASSUME NEW s, Ok(s), NEW force \in BOOLEAN, NEW backend \in BOOLEAN, force \/ backend
    PROVE  LET t == RemoveContact(s, force, backend)
           IN /\ Keeps(s, t) /\ t.inst \in {s.inst, <<>>}
              /\ backend => Shown(t)
              /\ ~backend => t.inst = s.inst /\ t.removal = s.removal
<1> DEFINE delay == ~force /\ (Pending(s) \/ s.chat[Bare] # Closed)
           s1 == IF delay /\ s.removal = None
                 THEN [s EXCEPT !.removal = "backend"] ELSE s
           t == RemoveContact(s, force, backend)
<1>1. s \in Gui /\ s.removal # "row"
  BY DEF Ok
<1>2. CASE ~Listed(s)
  <2>1. t = s
    BY <1>2 DEF RemoveContact
  <2> QED
    BY <1>1, <1>2, <2>1 DEF Keeps, Ok, Shown
<1>3. Keeps(s, s1) /\ s1.inst = s.inst /\ (delay => s1.removal # None)
      /\ (~delay => s1 = s)
  <2>1. delay => (\E k \in Key : s.ev[k] # <<>>) \/ s.chat[Bare] # Closed
    BY <1>1, PendingIs
  <2> QED
    BY <1>1, <2>1, NamesAssumption DEF Keeps, Ok, Gui, Awaits
<1>4. CASE Listed(s) /\ delay /\ Pending(s)
  <2>1. t = s1 /\ backend
    BY <1>4 DEF RemoveContact
  <2> QED
    BY <1>3, <1>4, <2>1 DEF Shown
<1>5. CASE Listed(s) /\ ~(delay /\ Pending(s))
  <2> DEFINE rows == s1.rows \ ShownGroups(Highest(s))
             inst == IF backend /\ (s.chat[Bare] = Closed \/ force)
                     THEN <<>> ELSE s1.inst
             u == [s1 EXCEPT !.rows = rows, !.inst = inst]
  <2>1. t = u
    BY <1>5 DEF RemoveContact
  <2> HIDE DEF s1
  <2>2. s1 \in Gui /\ s1.removal # "row"
    BY <1>3 DEF Keeps, Ok
  <2>3. inst \in {s.inst, <<>>} /\ inst \in Seq(Contact)
    BY <1>1, <1>3 DEF Gui
  <2>4. (backend => inst = <<>> \/ delay) /\ (~backend => inst = s.inst /\ ~delay)
    BY <1>3
  <2> HIDE DEF inst
  <2>5. rows \subseteq Group \cup {NotInRoster, General, Observers}
    BY <2>2 DEF Gui
  <2> HIDE DEF rows
  <2>6. u \in Gui
    BY <2>2, <2>3, <2>5 DEF Gui
  <2>7. /\ u.inst = inst /\ u.removal = s1.removal /\ u.ev = s1.ev /\ u.chat = s1.chat
        /\ u.control = s1.control /\ u.known = s1.known /\ u.unread = s1.unread
    BY <2>2 DEF Gui
  <2> HIDE DEF u
  <2>8. Keeps(s, t)
    BY <1>3, <2>1, <2>2, <2>6, <2>7 DEF Keeps, Ok, Awaits
  <2> HIDE DEF delay, t
  <2>9. backend => Shown(t)
    BY <1>3, <2>1, <2>4, <2>7 DEF Shown, Listed
  <2> QED
    BY <1>3, <2>1, <2>3, <2>4, <2>7, <2>8, <2>9 DEF t
<1> QED
  BY <1>2, <1>4, <1>5

\* A removal that is forced is not put off
LEMMA NeverDelayed ==
    ASSUME NEW s \in Gui, NEW backend
    PROVE  RemoveContact(s, TRUE, backend).removal = s.removal
BY DEF RemoveContact, Gui

\* A removal that waited, of a contact that is not waited for any more
LEMMA RemovalCancelled ==
    ASSUME NEW s, Ok(s)
    PROVE  LET t == [s EXCEPT !.removal = None]
           IN Keeps(s, t) /\ t.inst = s.inst /\ Awaits(t)
BY NamesAssumption DEF Keeps, Ok, Gui, Awaits

LEMMA KeepsOn ==
    ASSUME NEW s, NEW t, NEW u, Keeps(s, t), Keeps(t, u)
    PROVE  Keeps(s, u)
BY DEF Keeps

LEMMA RemovedAfterAll ==
    ASSUME NEW s, Ok(s), Shown(s)
    PROVE  LET t == EventsRemoved(s) IN Keeps(s, t) /\ Shown(t) /\ Awaits(t)
<1>1. CASE s.removal = None
  BY <1>1 DEF EventsRemoved, Keeps, Awaits
<1>2. CASE s.removal # None
  <2> DEFINE u == [s EXCEPT !.removal = None]
  <2>1. Keeps(s, u) /\ Awaits(u)
    BY RemovalCancelled
  <2>2. EventsRemoved(s) = RemoveContact(u, FALSE, TRUE)
    BY <1>2 DEF EventsRemoved, Ok, Gui
  <2> HIDE DEF u
  <2>3. Ok(u)
    BY <2>1 DEF Keeps
  <2>4. LET t == RemoveContact(u, FALSE, TRUE) IN Keeps(u, t) /\ Shown(t)
    BY <2>3, RowsGo
  <2> QED
    BY <2>1, <2>2, <2>4, KeepsOn DEF Keeps
<1> QED
  BY <1>1, <1>2

LEMMA NewIs ==
    ASSUME NEW show \in {"online", "offline", "other"}, NEW i, i.sub \in Sub,
           i.asked \in BOOLEAN, i.named \in BOOLEAN,
           i.groups \in SUBSET (Group \cup {NotInRoster})
    PROVE  NewContact(show, i) \in Contact
BY DEF NewContact, Contact, Key, Prio

\* A contact that is listed and gets a row
LEMMA ListsWithRow ==
    ASSUME NEW s, Ok(s), NEW c \in Contact, Lasts(s, c)
    PROVE  LET t == AddRow(ListContact(s, c)) IN Keeps(s, t) /\ Listed(t) /\ Shown(t)
<1> DEFINE u == ListContact(s, c)
           t == AddRow(u)
<1>1. Keeps(s, u) /\ Listed(u)
  BY Lists
<1> HIDE DEF u
<1>2. Keeps(u, t) /\ t.inst = u.inst /\ t.rows # {}
  BY <1>1, AddsRow DEF Keeps
<1> QED
  BY <1>1, <1>2, KeepsOn DEF u, Listed, Shown

LEMMA AddsNotInRoster ==
    ASSUME NEW s, Ok(s), NEW res \in Key, ~Listed(s) \/ res \notin Resources(s)
    PROVE  LET t == AddNotInRoster(s, res)
           IN Keeps(s, t) /\ Listed(t) /\ Shown(t)
<1> DEFINE i == [sub |-> "none", asked |-> FALSE, named |-> FALSE,
                 groups |-> {NotInRoster}]
           c == NewContact("other", i)
           d == [c EXCEPT !.res = res]
<1>1. c \in Contact
  <2>1. /\ i.sub \in Sub /\ i.asked \in BOOLEAN /\ i.named \in BOOLEAN
        /\ i.groups \in SUBSET (Group \cup {NotInRoster})
    BY DEF Sub
  <2> HIDE DEF i
  <2> QED
    BY <2>1, NewIs
<1> HIDE DEF c
<1>2. d \in Contact /\ d.res = res
  BY <1>1 DEF Contact
<1> HIDE DEF d
<1>3. Lasts(s, d)
  BY <1>2 DEF Lasts
<1>4. LET t == AddRow(ListContact(s, d)) IN Keeps(s, t) /\ Listed(t) /\ Shown(t)
  BY <1>2, <1>3, ListsWithRow
<1> QED
  BY <1>4 DEF AddNotInRoster, d, c, i

-----------------------------------------------------------------------------
(* Events.                                                                 *)

LEMMA TypeIs ==
    ASSUME NEW S, NEW events \in Seq(S), NEW type
    PROVE  /\ OfType(events, type) \in Seq({e \in S : e.type = type})
           /\ \A i \in 1 .. Len(events) :
                 events[i].type = type => Has(OfType(events, type), events[i])
<1> DEFINE N == Len(events)
           P == Seq({e \in S : e.type = type})
           F == [n \in 1 .. N |-> [x \in P |->
                   IF events[n].type = type THEN Append(x, events[n]) ELSE x]]
           f == CHOOSE f : f = [n \in 0 .. N |->
                   IF n = 0 THEN <<>>
                   ELSE IF events[n].type = type THEN Append(f[n - 1], events[n])
                   ELSE f[n - 1]]
<1>1. N \in Nat /\ <<>> \in P /\ \A n \in 1 .. N : events[n] \in S
  OBVIOUS
<1>2. ASSUME NEW n \in 1 .. N, NEW x \in P
      PROVE  (IF events[n].type = type THEN Append(x, events[n]) ELSE x) \in P
  <2>1. CASE events[n].type = type
    <3>1. events[n] \in {e \in S : e.type = type}
      BY <1>1, <2>1
    <3> QED
      BY <2>1, <3>1
  <2> QED
    BY <2>1
<1> HIDE DEF P
<1>3. Stays(N, P, F)
  BY <1>2 DEF Stays
<1>4. PICK g \in [0 .. N -> P] : Repeats(N, F, <<>>, g)
  <2> HIDE DEF F, N
  <2> QED
    BY <1>1, <1>3, RepeatExists
<1>5. g = [n \in 0 .. N |->
              IF n = 0 THEN <<>>
              ELSE IF events[n].type = type THEN Append(g[n - 1], events[n])
              ELSE g[n - 1]]
  <2>1. \A n \in 0 .. N : g[n] =
              IF n = 0 THEN <<>>
              ELSE IF events[n].type = type THEN Append(g[n - 1], events[n])
              ELSE g[n - 1]
    <3> TAKE n \in 0 .. N
    <3>1. CASE n # 0
      <4>1. n \in 1 .. N /\ n - 1 \in 0 .. N
        BY <1>1, <3>1
      <4>2. g[n - 1] \in P
        BY <4>1
      <4> HIDE DEF N
      <4> QED
        BY <1>4, <3>1, <4>1, <4>2 DEF Repeats
    <3> QED
      BY <1>4, <3>1 DEF Repeats
  <2> HIDE DEF N
  <2> QED
    BY <2>1
<1>6. f = [n \in 0 .. N |->
              IF n = 0 THEN <<>>
              ELSE IF events[n].type = type THEN Append(f[n - 1], events[n])
              ELSE f[n - 1]]
  <2> HIDE DEF N
  <2> QED
    BY <1>5
<1>7. f[0] = <<>> /\ \A n \in 1 .. N : f[n] =
              IF events[n].type = type THEN Append(f[n - 1], events[n]) ELSE f[n - 1]
  <2> HIDE DEF f
  <2>1. f[0] = <<>>
    BY <1>1, <1>6
  <2>2. ASSUME NEW n \in 1 .. N
        PROVE  f[n] = IF events[n].type = type THEN Append(f[n - 1], events[n])
                      ELSE f[n - 1]
    <3>1. n \in 0 .. N /\ n # 0
      BY <1>1
    <3> HIDE DEF N
    <3> QED
      BY <1>6, <3>1
  <2> QED
    BY <2>1, <2>2
<1>8. OfType(events, type) = f[N]
  BY DEF OfType
<1> HIDE DEF f, N
<1>9. \A n \in 1 .. N : f[n - 1] \in P => f[n] \in P
  BY <1>2, <1>7
<1>10. f[N] \in P
  BY <1>1, <1>7, <1>9, LoopStays
<1>11. ASSUME NEW i \in 1 .. N, events[i].type = type PROVE Has(f[N], events[i])
  <2> DEFINE Q == [n \in 0 .. N |-> {x \in P : n >= i => Has(x, events[i])}]
  <2>1. \A n \in 0 .. N : f[n] \in Q[n] <=> f[n] \in P /\ (n >= i => Has(f[n], events[i]))
    OBVIOUS
  <2> HIDE DEF Q
  <2>2. f[0] \in Q[0]
    BY <1>1, <1>7, <2>1
  <2>3. ASSUME NEW n \in 1 .. N, f[n - 1] \in Q[n - 1] PROVE f[n] \in Q[n]
    <3>1. n - 1 \in 0 .. N /\ n \in 0 .. N
      BY <1>1
    <3>2. f[n - 1] \in P /\ (n - 1 >= i => Has(f[n - 1], events[i])) /\ f[n] \in P
      BY <1>9, <2>1, <2>3, <3>1
    <3>3. events[n].type = type =>
              /\ f[n] = Append(f[n - 1], events[n])
              /\ Has(f[n], events[n]) /\ \A d : Has(f[n - 1], d) => Has(f[n], d)
      <4> SUFFICES ASSUME events[n].type = type
                   PROVE  /\ f[n] = Append(f[n - 1], events[n])
                          /\ Has(f[n], events[n])
                          /\ \A d : Has(f[n - 1], d) => Has(f[n], d)
        OBVIOUS
      <4> DEFINE A == {e \in S : e.type = type}
      <4>1. f[n - 1] \in Seq(A) /\ events[n] \in A
        BY <1>1, <3>2 DEF P
      <4>2. f[n] = Append(f[n - 1], events[n])
        BY <1>7
      <4> HIDE DEF A
      <4> QED
        BY <4>1, <4>2, HasAppended
    <3>4. n = i => Has(f[n], events[i])
      BY <1>11, <3>3
    <3>5. n - 1 >= i => Has(f[n], events[i])
      BY <1>7, <3>2, <3>3
    <3>6. n >= i => n = i \/ n - 1 >= i
      BY <1>1
    <3> QED
      BY <2>1, <3>1, <3>2, <3>4, <3>5, <3>6
  <2>4. f[N] \in Q[N]
    BY <1>1, <2>2, <2>3, LoopKeeps
  <2> QED
    BY <1>1, <2>1, <2>4
<1> QED
  BY <1>8, <1>10, <1>11 DEF P, N

\* q has nothing that p does not have
Part(q, p) == \A S : p \in Seq(S) => q \in Seq(S)

LEMMA Wider ==
    ASSUME NEW A, NEW B, A \subseteq B, NEW q \in Seq(A)
    PROVE  q \in Seq(B)
OBVIOUS

LEMMA TypeIsPart ==
    ASSUME NEW events, NEW type
    PROVE  Part(OfType(events, type), events)
<1> SUFFICES ASSUME NEW S, events \in Seq(S)
             PROVE  OfType(events, type) \in Seq(S)
  BY DEF Part
<1> DEFINE A == {e \in S : e.type = type}
<1>1. OfType(events, type) \in Seq(A) /\ A \subseteq S
  BY TypeIs
<1> HIDE DEF A
<1> QED
  BY <1>1, Wider

LEMMA FirstIsPart ==
    ASSUME NEW events, NEW e
    PROVE  Part(RemoveFirst(events, e), events)
BY RemovedFirst DEF Part

\* What is kept of a contact, and a contact that has its rows
Sound(s) == Ok(s) /\ Shown(s)

\* t is s, where q waits at k, and what of it is listed and shown may change
Queued(s, t, k, q) ==
    /\ Sound(t) /\ (Awaits(s) => Awaits(t))
    /\ t.ev = [s.ev EXCEPT ![k] = q]
    /\ t.chat = s.chat /\ t.control = s.control
    /\ t.known = s.known /\ t.unread = s.unread

\* What is unread in t waits there, if it did in s or is new
Recalls(s, t) ==
    \A id \in t.unread : (id \in s.unread => IsQueued(s, id)) => IsQueued(t, id)

LEMMA SameRecalls ==
    ASSUME NEW s, NEW t, t.ev = s.ev, t.unread \subseteq s.unread
    PROVE  Recalls(s, t)
BY DEF Recalls, IsQueued, Waits

LEMMA RecallsOn ==
    ASSUME NEW s, NEW t, NEW u, Recalls(s, t), Recalls(t, u)
    PROVE  Recalls(s, u)
BY DEF Recalls

LEMMA WaitsIs ==
    ASSUME NEW s \in Gui, NEW k \in Key, NEW id
    PROVE  Waits(s, k, id) <=>
               \E e : Has(s.ev[k], e) /\ e.type = "chat" /\ e.id = id
<1>1. s.ev[k] \in Seq(Event)
  BY DEF Gui
<1> QED
  BY <1>1 DEF Waits, Has

\* An address loses no chat message
LEMMA QueuedRecalls ==
    ASSUME NEW s, Sound(s), NEW k \in Key, NEW q, NEW t, Queued(s, t, k, q),
           \A i \in 1 .. Len(s.ev[k]) : s.ev[k][i].type = "chat" => Has(q, s.ev[k][i])
    PROVE  Recalls(s, t)
<1>1. s \in Gui /\ t \in Gui /\ s.ev \in [Key -> Seq(Event)]
  BY DEF Queued, Sound, Ok, Gui
<1>2. \A h \in Key : t.ev[h] = IF h = k THEN q ELSE s.ev[h]
  BY <1>1 DEF Queued
<1>3. \A h \in Key : \A e : Has(s.ev[h], e) /\ e.type = "chat" => Has(t.ev[h], e)
  BY <1>2 DEF Has
<1>4. \A h \in Key : \A id : Waits(s, h, id) => Waits(t, h, id)
  BY <1>1, <1>3, WaitsIs
<1> QED
  BY <1>4 DEF Recalls, IsQueued, Queued

LEMMA Dropped ==
    ASSUME NEW s, Sound(s), NEW k \in Key, NEW q \in Seq(Event)
    PROVE  Queued(s, EventsRemoved([s EXCEPT !.ev[k] = q]), k, q)
<1> DEFINE u == [s EXCEPT !.ev[k] = q]
<1>1. s \in Gui /\ s.ev \in [Key -> Seq(Event)]
  BY DEF Sound, Ok, Gui
<1>2. /\ u.ev = [s.ev EXCEPT ![k] = q] /\ u.inst = s.inst /\ u.rows = s.rows
      /\ u.chat = s.chat /\ u.control = s.control /\ u.known = s.known
      /\ u.removal = s.removal /\ u.unread = s.unread
  BY <1>1 DEF Gui
<1>3. u \in Gui
  BY <1>1 DEF Gui
<1> HIDE DEF u
<1>4. Ok(u) /\ Shown(u)
  BY <1>2, <1>3 DEF Sound, Ok, Shown, Listed
<1>5. /\ Keeps(u, EventsRemoved(u)) /\ Shown(EventsRemoved(u))
      /\ Awaits(EventsRemoved(u))
  BY <1>4, RemovedAfterAll
<1> QED
  BY <1>2, <1>5 DEF Queued, Sound, Keeps, u

LEMMA DropsChats ==
    ASSUME NEW s, Sound(s), NEW k \in Key
    PROVE  /\ OfType(s.ev[k], "normal") \in Seq(Event)
           /\ Queued(s, RemoveChatEvents(s, k), k, OfType(s.ev[k], "normal"))
<1> DEFINE q == OfType(s.ev[k], "normal")
<1>1. s.ev \in [Key -> Seq(Event)]
  BY DEF Sound, Ok, Gui
<1>2. q \in Seq(Event)
  BY <1>1, TypeIsPart DEF Part
<1>3. RemoveChatEvents(s, k) =
          IF q = s.ev[k] THEN s ELSE EventsRemoved([s EXCEPT !.ev[k] = q])
  BY DEF RemoveChatEvents
<1> HIDE DEF q
<1>4. CASE q = s.ev[k]
  <2>1. s.ev = [s.ev EXCEPT ![k] = q]
    BY <1>1, <1>4
  <2> QED
    BY <1>2, <1>3, <1>4, <2>1 DEF Queued, q
<1>5. CASE q # s.ev[k]
  BY <1>2, <1>3, <1>5, Dropped DEF q
<1> QED
  BY <1>4, <1>5

LEMMA DropsEvent ==
    ASSUME NEW s, Sound(s), NEW k \in Key, NEW e
    PROVE  /\ RemoveFirst(s.ev[k], e) \in Seq(Event)
           /\ Queued(s, RemoveEvent(s, k, e), k, RemoveFirst(s.ev[k], e))
<1>1. s.ev \in [Key -> Seq(Event)] /\ s \in Gui
  BY DEF Sound, Ok, Gui
<1>2. RemoveFirst(s.ev[k], e) \in Seq(Event)
  BY <1>1, FirstIsPart DEF Part
<1>3. RemoveEvent(s, k, e) = EventsRemoved([s EXCEPT !.ev[k] = RemoveFirst(s.ev[k], e)])
  BY <1>1 DEF RemoveEvent, Gui
<1> QED
  BY <1>2, <1>3, Dropped

-----------------------------------------------------------------------------
(* Chats and sessions.                                                     *)

\* AttachedIsOpen, of s
Attached(s) == \A t \in Thread : s.control[t] # None => s.chat[s.control[t]] = t

\* Chat messages that wait at a full address are of the session of it, and so
\* is its chat
EventAt(k) == {e \in Event : e.type = "chat" /\ k # Bare => e.session = Of(k)}
Own(s) ==
    /\ \A k \in Key : s.ev[k] \in Seq(EventAt(k))
    /\ \A r \in Res : s.chat[r] \in {Closed, None, Of(r)}

\* No chat message waits for a chat at the bare address that is open
Normal == {e \in Event : e.type = "normal"}
Read(s) == s.chat[Bare] # Closed => s.ev[Bare] \in Seq(Normal)

Wired(s) == Attached(s) /\ Own(s) /\ Read(s)

LEMMA WiredOn ==
    ASSUME NEW s, NEW t, Wired(s), t.ev = s.ev, t.chat = s.chat, t.control = s.control
    PROVE  Wired(t)
BY DEF Wired, Attached, Own, Read

\* What is shown is what it should be, chats are if they were, what is unread goes
\* on waiting, and so does a removal, for something
Fine(s, t) ==
    Sound(t) /\ (Wired(s) => Wired(t)) /\ Recalls(s, t) /\ (Awaits(s) => Awaits(t))

LEMMA FineOn ==
    ASSUME NEW s, NEW t, NEW u, Fine(s, t), Fine(t, u)
    PROVE  Fine(s, u)
BY RecallsOn DEF Fine

LEMMA KeepsFine ==
    ASSUME NEW s, NEW t, Keeps(s, t), Shown(t)
    PROVE  Fine(s, t)
BY WiredOn, SameRecalls DEF Keeps, Sound, Fine

LEMMA SameFine ==
    ASSUME NEW s, Sound(s)
    PROVE  Fine(s, s)
BY SameRecalls DEF Fine

LEMMA QueuedPart ==
    ASSUME NEW s, Sound(s), Wired(s), NEW k \in Key, NEW q, Part(q, s.ev[k]),
           NEW t, Queued(s, t, k, q)
    PROVE  Wired(t)
<1>1. s.ev \in [Key -> Seq(Event)]
  BY DEF Sound, Ok, Gui
<1>2. \A h \in Key : t.ev[h] = IF h = k THEN q ELSE s.ev[h]
  BY <1>1 DEF Queued
<1>3. \A h \in Key : t.ev[h] \in Seq(EventAt(h))
  BY <1>2 DEF Wired, Own, Part
<1>4. Bare \in Key
  BY DEF Key
<1>5. s.ev[Bare] \in Seq(Normal) => t.ev[Bare] \in Seq(Normal)
  BY <1>2, <1>4 DEF Part
<1> QED
  BY <1>3, <1>5 DEF Wired, Attached, Own, Read, Queued

\* An event that is no chat message goes
LEMMA DropsNormal ==
    ASSUME NEW s, Sound(s), NEW k \in Key, NEW e, e.type # "chat"
    PROVE  Fine(s, RemoveEvent(s, k, e))
<1> DEFINE q == RemoveFirst(s.ev[k], e)
           t == RemoveEvent(s, k, e)
<1>1. Queued(s, t, k, q) /\ Part(q, s.ev[k])
  BY DropsEvent, FirstIsPart
<1>2. \A i \in 1 .. Len(s.ev[k]) : s.ev[k][i].type = "chat" => Has(q, s.ev[k][i])
  <2>1. s.ev[k] \in Seq(Event)
    BY DEF Sound, Ok, Gui
  <2> QED
    BY <2>1, RemovedFirst
<1> HIDE DEF q, t
<1>3. Recalls(s, t) /\ (Wired(s) => Wired(t)) /\ Sound(t) /\ (Awaits(s) => Awaits(t))
  BY <1>1, <1>2, QueuedPart, QueuedRecalls DEF Queued
<1> QED
  BY <1>3 DEF Fine, t

\* t is s, where the session of the chat at k may be another one
Rewired(s, t, k) ==
    /\ t \in Gui
    /\ t.inst = s.inst /\ t.rows = s.rows /\ t.removal = s.removal
    /\ t.ev = s.ev /\ t.known = s.known /\ t.unread = s.unread
    /\ \A h \in Key \ {k} : t.chat[h] = s.chat[h]
    /\ Attached(s) => Attached(t)
    /\ Awaits(s) => Awaits(t)

LEMMA SetsSession ==
    ASSUME NEW s \in Gui, NEW k \in Key, NEW t \in Thread \cup {None}
    PROVE  Rewired(s, SetSession(s, k, t), k) /\ SetSession(s, k, t).chat[k] = t
<1> DEFINE c == [u \in Thread |->
                IF u = s.chat[k] THEN None ELSE IF u = t THEN k ELSE s.control[u]]
           x == [s EXCEPT !.chat[k] = t, !.control = c]
<1>1. CASE t # None /\ s.chat[k] = t
  BY <1>1 DEF SetSession, Rewired
<1>2. CASE ~(t # None /\ s.chat[k] = t)
  <2>1. /\ s.chat \in [Key -> Thread \cup {None, Closed}]
        /\ s.control \in [Thread -> Key \cup {None}]
    BY DEF Gui
  <2>2. SetSession(s, k, t) = x
    BY <1>2 DEF SetSession, Gui
  <2>3. c \in [Thread -> Key \cup {None}]
    BY <2>1
  <2>4. \A u \in Thread : c[u] =
            IF u = s.chat[k] THEN None ELSE IF u = t THEN k ELSE s.control[u]
    OBVIOUS
  <2> HIDE DEF c
  <2>5. /\ x.control = c /\ x.chat = [s.chat EXCEPT ![k] = t]
        /\ x.inst = s.inst /\ x.rows = s.rows /\ x.removal = s.removal
        /\ x.ev = s.ev /\ x.known = s.known /\ x.unread = s.unread
    BY DEF Gui
  <2>6. x \in Gui
    BY <2>1, <2>3 DEF Gui
  <2> HIDE DEF x
  <2>7. \A h \in Key : x.chat[h] = IF h = k THEN t ELSE s.chat[h]
    BY <2>1, <2>5
  <2>8. ASSUME Attached(s), NEW u \in Thread, x.control[u] # None
        PROVE  x.chat[x.control[u]] = u
    <3>1. u # s.chat[k] /\ c[u] # None
      BY <2>4, <2>5, <2>8
    <3>2. CASE u = t
      BY <2>4, <2>5, <2>7, <3>1, <3>2
    <3>3. CASE u # t
      <4>1. x.control[u] = s.control[u] /\ s.control[u] \in Key
        BY <2>1, <2>4, <2>5, <2>8, <3>1, <3>3
      <4>2. s.chat[s.control[u]] = u
        BY <2>8, <4>1 DEF Attached
      <4> QED
        BY <2>7, <3>1, <4>1, <4>2
    <3> QED
      BY <3>2, <3>3
  <2>9. Awaits(s) => Awaits(x)
    BY <2>5, <2>7, NamesAssumption DEF Awaits, Key
  <2> QED
    BY <2>2, <2>5, <2>6, <2>7, <2>8, <2>9 DEF Rewired, Attached
<1> QED
  BY <1>1, <1>2

LEMMA RewiredOn ==
    ASSUME NEW k \in Key, NEW s, NEW t, NEW u, Rewired(s, t, k), Rewired(t, u, k)
    PROVE  Rewired(s, u, k)
BY DEF Rewired

\* The session that the chat at k takes is that of its address
Mine(k, t) == k \in Res => t \in {Closed, None, Of(k)}

\* A state before the chat at k reads what waits for it
Reads(s, k) == Attached(s) /\ Own(s) /\ (k # Bare => Read(s))

LEMMA SessionsShown ==
    ASSUME NEW s, Sound(s), NEW k \in Key
    PROVE  LET chats == OfType(s.ev[k], "chat")
               shown[n \in 0 .. Len(chats)] ==
                   IF n = 0 THEN s
                   ELSE SetSession(shown[n - 1], k, chats[n].session)
               t == shown[Len(chats)]
           IN Rewired(s, t, k) /\ (Own(s) => Mine(k, t.chat[k]))
<1> DEFINE chats == OfType(s.ev[k], "chat")
           N == Len(chats)
           Is(x) == Rewired(s, x, k) /\ (Own(s) => Mine(k, x.chat[k]))
           P == {x \in Gui : Is(x)}
           F == [n \in 1 .. N |-> [x \in P |-> SetSession(x, k, chats[n].session)]]
           f == CHOOSE f : f = [n \in 0 .. N |->
                   IF n = 0 THEN s ELSE SetSession(f[n - 1], k, chats[n].session)]
<1>1. s \in Gui /\ s.ev \in [Key -> Seq(Event)]
  BY DEF Sound, Ok, Gui
<1>2. chats \in Seq({e \in Event : e.type = "chat"})
  BY <1>1, TypeIs
<1>3. Own(s) => chats \in Seq({e \in EventAt(k) : e.type = "chat"})
  BY <1>1, TypeIs DEF Own
<1> HIDE DEF chats
<1>4. N \in Nat
  BY <1>2
<1>5. ASSUME NEW n \in 1 .. N
      PROVE  /\ chats[n].session \in Thread \cup {None}
             /\ Own(s) => Mine(k, chats[n].session)
  <2>1. chats[n] \in Event
    BY <1>2
  <2>2. Own(s) => chats[n] \in EventAt(k) /\ chats[n].type = "chat"
    BY <1>3
  <2>3. k \in Res => k # Bare
    BY NamesAssumption
  <2> QED
    BY <2>1, <2>2, <2>3 DEF Event, EventAt, Mine
<1>6. s \in P
  BY <1>1 DEF Rewired, Own, Mine
<1>7. ASSUME NEW n \in 1 .. N, NEW x \in P
      PROVE  SetSession(x, k, chats[n].session) \in P
  <2> DEFINE y == SetSession(x, k, chats[n].session)
  <2>1. Rewired(x, y, k) /\ y.chat[k] = chats[n].session
    BY <1>5, SetsSession
  <2> HIDE DEF y
  <2>2. Rewired(s, y, k)
    BY <2>1, RewiredOn
  <2> QED
    BY <1>5, <2>1, <2>2 DEF Rewired, y
<1> HIDE DEF P
<1>8. Stays(N, P, F)
  BY <1>7 DEF Stays
<1>9. PICK g \in [0 .. N -> P] : Repeats(N, F, s, g)
  <2> HIDE DEF F, N
  <2> QED
    BY <1>4, <1>6, <1>8, RepeatExists
<1>10. g = [n \in 0 .. N |->
               IF n = 0 THEN s ELSE SetSession(g[n - 1], k, chats[n].session)]
  <2>1. \A n \in 0 .. N : g[n] =
               IF n = 0 THEN s ELSE SetSession(g[n - 1], k, chats[n].session)
    <3> TAKE n \in 0 .. N
    <3>1. CASE n # 0
      <4>1. n \in 1 .. N /\ n - 1 \in 0 .. N
        BY <1>4, <3>1
      <4>2. g[n - 1] \in P
        BY <4>1
      <4> HIDE DEF N
      <4> QED
        BY <1>9, <3>1, <4>1, <4>2 DEF Repeats
    <3> QED
      BY <1>9, <3>1 DEF Repeats
  <2> HIDE DEF N
  <2> QED
    BY <2>1
<1>11. f = [n \in 0 .. N |->
               IF n = 0 THEN s ELSE SetSession(f[n - 1], k, chats[n].session)]
  <2> HIDE DEF N
  <2> QED
    BY <1>10
<1> HIDE DEF f
<1>12. f[0] = s
  BY <1>4, <1>11
<1>13. ASSUME NEW n \in 1 .. N
       PROVE  f[n] = SetSession(f[n - 1], k, chats[n].session)
  <2>1. n \in 0 .. N /\ n # 0
    BY <1>4
  <2> HIDE DEF N
  <2> QED
    BY <1>11, <2>1
<1> HIDE DEF N
<1>14. \A n \in 1 .. N : f[n - 1] \in P => f[n] \in P
  BY <1>7, <1>13
<1>15. f[N] \in P
  BY <1>4, <1>6, <1>12, <1>14, LoopStays
<1> QED
  BY <1>15 DEF P, f, N, chats

LEMMA ReadsQueue ==
    ASSUME NEW s, Sound(s), NEW k \in Key
    PROVE  LET t == ReadQueue(s, k)
           IN /\ Sound(t) /\ (Reads(s, k) => Wired(t)) /\ Recalls(s, t)
              /\ Awaits(s) => Awaits(t)
<1> DEFINE chats == OfType(s.ev[k], "chat")
           shown[n \in 0 .. Len(chats)] ==
               IF n = 0 THEN s ELSE SetSession(shown[n - 1], k, chats[n].session)
           x == shown[Len(chats)]
           read == x.unread \ {e.id : e \in ToSet(chats)}
           y == [x EXCEPT !.unread = read]
           t == RemoveChatEvents(y, k)
           q == OfType(s.ev[k], "normal")
<1>1. Rewired(s, x, k) /\ (Own(s) => Mine(k, x.chat[k]))
  BY SessionsShown
<1>2. ReadQueue(s, k) = t
  <2>1. y = [x EXCEPT !.unread = @ \ {e.id : e \in ToSet(chats)}]
    OBVIOUS
  <2> QED
    BY <2>1 DEF ReadQueue
<1> HIDE DEF x
<1>3. x \in Gui
  BY <1>1 DEF Rewired
<1>4. read \subseteq Id
  BY <1>3 DEF Gui
<1>12. \A id \in read : id \in s.unread /\ ~Waits(s, k, id)
  <2> SUFFICES ASSUME NEW id \in read, Waits(s, k, id) PROVE FALSE
    BY <1>1 DEF Rewired
  <2>1. s \in Gui /\ s.ev[k] \in Seq(Event)
    BY DEF Sound, Ok, Gui
  <2>2. PICK e : Has(s.ev[k], e) /\ e.type = "chat" /\ e.id = id
    BY <2>1, WaitsIs
  <2>3. Has(chats, e)
    <3>1. PICK i \in 1 .. Len(s.ev[k]) : s.ev[k][i] = e
      BY <2>2 DEF Has
    <3> QED
      BY <2>1, <2>2, <3>1, TypeIs
  <2>4. chats \in Seq({d \in Event : d.type = "chat"})
    BY <2>1, TypeIs
  <2> HIDE DEF chats
  <2>5. e \in ToSet(chats)
    BY <2>3, <2>4 DEF Has, ToSet
  <2> QED
    BY <2>2, <2>5 DEF read
<1> HIDE DEF read
<1>5. /\ y.unread = read
      /\ y \in Gui
      /\ y.inst = s.inst /\ y.rows = s.rows /\ y.removal = s.removal /\ y.ev = s.ev
      /\ y.chat = x.chat /\ y.control = x.control
  BY <1>1, <1>3, <1>4 DEF Gui, Rewired
<1>14. Awaits(s) => Awaits(y)
  BY <1>1, <1>5 DEF Rewired, Awaits
<1> HIDE DEF y
<1>6. Sound(y)
  BY <1>5 DEF Sound, Ok, Shown, Listed
<1>7. Queued(y, t, k, q)
  BY <1>5, <1>6, DropsChats
<1> HIDE DEF t
<1>8. s.ev \in [Key -> Seq(Event)] /\ Bare \in Key
  BY DEF Sound, Ok, Gui, Key
<1>9. q \in Seq(Normal)
  BY <1>8, TypeIs DEF Normal
<1>10. \A h \in Key : t.ev[h] = IF h = k THEN q ELSE s.ev[h]
  BY <1>5, <1>7, <1>8 DEF Queued
<1>11. ASSUME Reads(s, k) PROVE Wired(t)
  <2>1. Attached(t)
    BY <1>1, <1>5, <1>7, <1>11 DEF Reads, Rewired, Attached, Queued
  <2>2. \A h \in Key : t.ev[h] \in Seq(EventAt(h))
    <3>1. q \in Seq(EventAt(k))
      BY <1>11, TypeIsPart DEF Reads, Own, Part
    <3> QED
      BY <1>10, <1>11, <3>1 DEF Reads, Own
  <2>3. \A r \in Res : t.chat[r] \in {Closed, None, Of(r)}
    <3> TAKE r \in Res
    <3>1. r \in Key
      BY DEF Key
    <3>2. CASE r = k
      BY <1>1, <1>5, <1>7, <1>11, <3>2 DEF Reads, Mine, Queued
    <3>3. CASE r # k
      BY <1>1, <1>5, <1>7, <1>11, <3>1, <3>3 DEF Reads, Own, Rewired, Queued
    <3> QED
      BY <3>2, <3>3
  <2>4. Read(t)
    <3>1. CASE k = Bare
      BY <1>8, <1>9, <1>10, <3>1 DEF Read
    <3>2. CASE k # Bare
      BY <1>1, <1>5, <1>7, <1>8, <1>10, <1>11, <3>2 DEF Reads, Read, Rewired, Queued
    <3> QED
      BY <3>1, <3>2
  <2> QED
    BY <2>1, <2>2, <2>3, <2>4 DEF Wired, Own
<1>13. Recalls(s, t)
  <2>1. \A h \in Key, id \in t.unread : Waits(s, h, id) => Waits(t, h, id)
    <3>1. t.unread = read
      BY <1>5, <1>7 DEF Queued
    <3> QED
      BY <1>10, <1>12, <3>1 DEF Waits
  <2>2. \A id \in t.unread : id \in s.unread
    BY <1>5, <1>7, <1>12 DEF Queued
  <2> QED
    BY <2>1, <2>2 DEF Recalls, IsQueued
<1> QED
  BY <1>2, <1>7, <1>11, <1>13, <1>14 DEF Queued

\* No session but t has its control at k
Free(s, k, t) == \A u \in Thread : u # t => s.control[u] # k

LEMMA OpensChat ==
    ASSUME NEW s, Sound(s), NEW k \in Key, NEW t \in Thread \cup {None}
    PROVE  LET u == NewChat(s, k, t)
           IN /\ Sound(u) /\ Recalls(s, u) /\ (Awaits(s) => Awaits(u))
              /\ Reads(s, k) /\ Free(s, k, t) /\ Mine(k, t) => Wired(u)
<1> DEFINE c == IF t = None THEN s.control ELSE [s.control EXCEPT ![t] = k]
           x == [s EXCEPT !.chat[k] = t, !.control = c]
           u == NewChat(s, k, t)
<1>1. /\ s \in Gui /\ s.ev \in [Key -> Seq(Event)]
      /\ s.chat \in [Key -> Thread \cup {None, Closed}]
      /\ s.control \in [Thread -> Key \cup {None}]
  BY DEF Sound, Ok, Gui
<1>2. u = IF s.ev[k] = <<>> THEN x ELSE ReadQueue(x, k)
  BY <1>1 DEF NewChat, Gui
<1> HIDE DEF u
<1>3. /\ c \in [Thread -> Key \cup {None}]
      /\ \A v \in Thread : c[v] = IF v = t THEN k ELSE s.control[v]
  BY <1>1, NamesAssumption
<1> HIDE DEF c
<1>4. /\ x.chat = [s.chat EXCEPT ![k] = t] /\ x.control = c
      /\ x.inst = s.inst /\ x.rows = s.rows /\ x.removal = s.removal /\ x.ev = s.ev
      /\ x.unread = s.unread
  BY <1>1 DEF Gui
<1>5. x \in Gui
  BY <1>1, <1>3 DEF Gui
<1> HIDE DEF x
<1>6. Sound(x)
  BY <1>4, <1>5 DEF Sound, Ok, Shown, Listed
<1>7. \A h \in Key : x.chat[h] = IF h = k THEN t ELSE s.chat[h]
  BY <1>1, <1>4
<1>8. ASSUME Reads(s, k), Free(s, k, t), Mine(k, t) PROVE Reads(x, k)
  <2>1. Attached(x)
    <3> SUFFICES ASSUME NEW v \in Thread, x.control[v] # None
                 PROVE  x.chat[x.control[v]] = v
      BY DEF Attached
    <3>1. CASE v = t
      BY <1>3, <1>4, <1>7, <3>1
    <3>2. CASE v # t
      <4>1. x.control[v] = s.control[v] /\ s.control[v] \in Key \ {k}
        BY <1>1, <1>3, <1>4, <1>8, <3>2 DEF Free
      <4>2. s.chat[s.control[v]] = v
        BY <1>8, <4>1 DEF Reads, Attached
      <4> QED
        BY <1>7, <4>1, <4>2
    <3> QED
      BY <3>1, <3>2
  <2>2. Own(x)
    <3>1. Res \subseteq Key
      BY DEF Key
    <3> QED
      BY <1>4, <1>7, <1>8, <3>1 DEF Reads, Own, Mine
  <2>3. k # Bare => Read(x)
    <3>1. Bare \in Key
      BY DEF Key
    <3> QED
      BY <1>4, <1>7, <1>8, <3>1 DEF Reads, Read
  <2> QED
    BY <2>1, <2>2, <2>3 DEF Reads
<1>11. Recalls(s, x) /\ (Awaits(s) => Awaits(x))
  <2>1. x.chat[Bare] = Closed => s.chat[Bare] = Closed
    BY <1>7, NamesAssumption DEF Key
  <2> QED
    BY <1>4, <2>1, SameRecalls DEF Awaits
<1>9. CASE s.ev[k] = <<>>
  <2>1. ASSUME k = Bare PROVE Read(x)
    <3>1. x.ev[Bare] = <<>> /\ <<>> \in Seq(Normal)
      BY <1>4, <1>9, <2>1
    <3> QED
      BY <3>1 DEF Read
  <2> QED
    BY <1>2, <1>6, <1>8, <1>9, <1>11, <2>1 DEF Reads, Wired, u
<1>10. CASE s.ev[k] # <<>>
  <2>1. /\ Sound(ReadQueue(x, k)) /\ Recalls(x, ReadQueue(x, k))
        /\ Reads(x, k) => Wired(ReadQueue(x, k))
        /\ Awaits(x) => Awaits(ReadQueue(x, k))
    BY <1>6, ReadsQueue
  <2>2. Recalls(s, ReadQueue(x, k))
    BY <1>11, <2>1, RecallsOn
  <2> QED
    BY <1>2, <1>8, <1>10, <1>11, <2>1, <2>2 DEF u
<1> QED
  BY <1>9, <1>10

\* A chat and its session part
LEMMA Parts ==
    ASSUME NEW s, Sound(s), NEW k \in Key
    PROVE  LET c == [u \in Thread |-> IF u = s.chat[k] THEN None ELSE s.control[u]]
               t == [s EXCEPT !.control = c]
           IN /\ Sound(t) /\ t.chat = s.chat /\ t.ev = s.ev /\ t.unread = s.unread
              /\ Wired(s) => Wired(t) /\ \A u \in Thread : t.control[u] # k
              /\ Awaits(s) => Awaits(t)
<1> DEFINE c == [u \in Thread |-> IF u = s.chat[k] THEN None ELSE s.control[u]]
           t == [s EXCEPT !.control = c]
<1>1. s \in Gui /\ s.control \in [Thread -> Key \cup {None}]
  BY DEF Sound, Ok, Gui
<1>2. /\ c \in [Thread -> Key \cup {None}]
      /\ \A u \in Thread : c[u] = IF u = s.chat[k] THEN None ELSE s.control[u]
  BY <1>1
<1> HIDE DEF c
<1>3. /\ t \in Gui /\ t.control = c /\ t.chat = s.chat /\ t.ev = s.ev
      /\ t.unread = s.unread
      /\ t.inst = s.inst /\ t.rows = s.rows /\ t.removal = s.removal
  BY <1>1, <1>2 DEF Gui
<1> HIDE DEF t
<1>4. Sound(t)
  BY <1>3 DEF Sound, Ok, Shown, Listed
<1>5. ASSUME Wired(s) PROVE Wired(t)
  <2>1. Attached(t)
    BY <1>2, <1>3, <1>5 DEF Wired, Attached
  <2> QED
    BY <1>3, <1>5, <2>1 DEF Wired, Own, Read
<1>6. ASSUME Wired(s), NEW u \in Thread PROVE t.control[u] # k
  BY <1>2, <1>3, <1>6, NamesAssumption DEF Wired, Attached
<1>7. Awaits(s) => Awaits(t)
  BY <1>3 DEF Awaits
<1> QED
  BY <1>3, <1>4, <1>5, <1>6, <1>7 DEF t, c

LEMMA ClosesChat ==
    ASSUME NEW s, Sound(s), NEW k \in Key
    PROVE  LET t == CloseChat(s, k)
           IN /\ Sound(t) /\ (Wired(s) => Wired(t))
              /\ t.unread = s.unread /\ t.chat[k] = Closed
              /\ \A h \in Key \ {k} : t.ev[h] = s.ev[h]
              /\ Awaits(s) => Awaits(t)
<1> DEFINE c == [u \in Thread |-> IF u = s.chat[k] THEN None ELSE s.control[u]]
           s1 == [s EXCEPT !.control = c]
           s2 == RemoveChatEvents(s1, k)
           q == OfType(s1.ev[k], "normal")
           again == s2.removal # None /\ ~Pending(s2)
           s3 == IF again
                 THEN RemoveContact([s2 EXCEPT !.removal = None], TRUE, s2.removal = "backend")
                 ELSE s2
           t == [s3 EXCEPT !.chat[k] = Closed]
<1>1. CloseChat(s, k) = t
  <2>1. s \in Gui
    BY DEF Sound, Ok
  <2>2. s1 = [s EXCEPT !.control =
                 [u \in Thread |-> IF u = s.chat[k] THEN None ELSE @[u]]]
    BY <2>1 DEF Gui
  <2> HIDE DEF s1
  <2> QED
    BY <2>2 DEF CloseChat
<1>2. /\ Sound(s1) /\ s1.chat = s.chat /\ s1.ev = s.ev /\ s1.unread = s.unread
      /\ Wired(s) => Wired(s1) /\ \A u \in Thread : s1.control[u] # k
      /\ Awaits(s) => Awaits(s1)
  BY Parts
<1> HIDE DEF s1
<1>3. Queued(s1, s2, k, q) /\ Part(q, s1.ev[k])
  BY <1>2, DropsChats, TypeIsPart
<1>4. Sound(s2) /\ (Wired(s) => Wired(s2)) /\ s2.control = s1.control
  BY <1>2, <1>3, QueuedPart DEF Queued
<1> HIDE DEF s2, q
<1>15. s3.removal # None => Pending(s2)
  <2>1. CASE again
    <3> DEFINE u == [s2 EXCEPT !.removal = None]
    <3>1. s3 = RemoveContact(u, TRUE, s2.removal = "backend")
      BY <2>1
    <3>2. u.removal = None
      BY <1>4 DEF Sound, Ok, Gui
    <3>4. u \in Gui
      BY <1>4 DEF Sound, Ok, Gui
    <3> HIDE DEF u
    <3>3. RemoveContact(u, TRUE, s2.removal = "backend").removal = None
      BY <3>2, <3>4, NeverDelayed
    <3> QED
      BY <3>1, <3>3
  <2>2. CASE ~again
    BY <2>2
  <2> QED
    BY <2>1, <2>2
<1>5. Keeps(s2, s3) /\ Shown(s3)
  <2>1. CASE again
    <3> DEFINE u == [s2 EXCEPT !.removal = None]
    <3>1. s2.removal = "backend"
      BY <1>4, <2>1 DEF Sound, Ok, Gui
    <3>2. Keeps(s2, u)
      BY <1>4, RemovalCancelled DEF Sound
    <3>3. s3 = RemoveContact(u, TRUE, TRUE)
      BY <2>1, <3>1
    <3> HIDE DEF u, again
    <3>4. Keeps(u, RemoveContact(u, TRUE, TRUE)) /\ Shown(RemoveContact(u, TRUE, TRUE))
      BY <3>2, RowsGo DEF Keeps
    <3> QED
      BY <3>2, <3>3, <3>4, KeepsOn
  <2>2. CASE ~again
    <3>1. s3 = s2
      BY <2>2
    <3> QED
      BY <1>4, <3>1 DEF Sound, Keeps
  <2> QED
    BY <2>1, <2>2
<1> HIDE DEF s3
<1>6. s3 \in Gui /\ s3.removal # "row" /\ s3.chat \in [Key -> Thread \cup {None, Closed}]
  BY <1>5 DEF Keeps, Ok, Gui
<1>7. /\ t \in Gui /\ t.chat = [s3.chat EXCEPT ![k] = Closed]
      /\ t.inst = s3.inst /\ t.rows = s3.rows /\ t.removal = s3.removal
      /\ t.ev = s3.ev /\ t.control = s3.control /\ t.unread = s3.unread
  BY <1>6 DEF Gui
<1> HIDE DEF t
<1>8. Sound(t)
  BY <1>5, <1>6, <1>7 DEF Sound, Ok, Shown, Listed
<1>9. \A h \in Key : t.chat[h] = IF h = k THEN Closed ELSE s2.chat[h]
  BY <1>5, <1>6, <1>7 DEF Keeps
<1>10. t.ev = s2.ev /\ t.control = s2.control
  BY <1>5, <1>7 DEF Keeps
<1>11. ASSUME Wired(s) PROVE Wired(t)
  <2>1. Bare \in Key /\ Res \subseteq Key /\ s2.control \in [Thread -> Key \cup {None}]
    BY <1>4 DEF Key, Sound, Ok, Gui
  <2>2. Attached(t)
    <3> SUFFICES ASSUME NEW u \in Thread, t.control[u] # None
                 PROVE  t.chat[t.control[u]] = u
      BY DEF Attached
    <3>1. s2.control[u] \in Key \ {k} /\ t.control[u] = s2.control[u]
      BY <1>2, <1>4, <1>10, <1>11, <2>1
    <3>2. s2.chat[s2.control[u]] = u
      BY <1>4, <1>10, <1>11 DEF Wired, Attached
    <3> QED
      BY <1>9, <3>1, <3>2
  <2>3. Own(t) /\ Read(t)
    BY <1>4, <1>9, <1>10, <1>11, <2>1 DEF Wired, Own, Read
  <2> QED
    BY <2>2, <2>3 DEF Wired
<1>12. t.unread = s.unread /\ t.chat[k] = Closed
  BY <1>2, <1>3, <1>5, <1>7, <1>9 DEF Keeps, Queued
<1>14. Awaits(s) => Awaits(t)
  <2>1. t.removal # None => \E h \in Key : s2.ev[h] # <<>>
    BY <1>4, <1>7, <1>15, PendingIs DEF Sound, Ok
  <2> QED
    BY <1>10, <2>1 DEF Awaits
<1>13. \A h \in Key \ {k} : t.ev[h] = s.ev[h]
  <2>1. s1.ev \in [Key -> Seq(Event)]
    BY <1>2 DEF Sound, Ok, Gui
  <2> QED
    BY <1>2, <1>3, <1>10, <2>1 DEF Queued
<1> QED
  BY <1>1, <1>8, <1>11, <1>12, <1>13, <1>14

LEMMA Joined ==
    ASSUME NEW s, Sound(s), NEW k \in Res
    PROVE  LET t == ChangeJid(s, k)
           IN /\ Sound(t) /\ t.chat = s.chat /\ t.control = s.control
              /\ Attached(s) /\ Own(s) => Attached(t) /\ Own(t)
              /\ Recalls(s, t) /\ (Awaits(s) => Awaits(t))
<1> DEFINE both == s.ev[Bare] \o s.ev[k]
           joined == [s.ev EXCEPT ![Bare] = both]
           ev == [joined EXCEPT ![k] = <<>>]
           t == [s EXCEPT !.ev = ev]
<1>1. s \in Gui /\ s.ev \in [Key -> Seq(Event)] /\ Bare \in Key /\ k \in Key /\ k # Bare
  BY NamesAssumption DEF Sound, Ok, Gui, Key
<1>2. ChangeJid(s, k) = t
  BY <1>1 DEF ChangeJid, Gui
<1>3. both \in Seq(Event) /\ \A S : s.ev[Bare] \in Seq(S) /\ s.ev[k] \in Seq(S)
                                      => both \in Seq(S)
  BY <1>1
<1>8. \A e : Has(s.ev[Bare], e) \/ Has(s.ev[k], e) => Has(both, e)
  <2> DEFINE a == s.ev[Bare]
             b == s.ev[k]
  <2>1. a \in Seq(Event) /\ b \in Seq(Event)
    BY <1>1
  <2> HIDE DEF a, b
  <2>2. Len(a) \in Nat /\ Len(b) \in Nat /\ Len(a \o b) = Len(a) + Len(b)
    BY <2>1
  <2>3. \A i \in 1 .. Len(a) : i \in 1 .. Len(a \o b) /\ (a \o b)[i] = a[i]
    BY <2>1
  <2>4. \A i \in 1 .. Len(b) :
            /\ Len(a) + i \in 1 .. Len(a \o b) /\ (a \o b)[Len(a) + i] = b[i]
    BY <2>1
  <2>5. \A e : Has(a, e) \/ Has(b, e) => Has(a \o b, e)
    BY <2>3, <2>4 DEF Has
  <2> QED
    BY <2>5 DEF a, b
<1> HIDE DEF both
<1>4. /\ joined \in [Key -> Seq(Event)]
      /\ \A h \in Key : joined[h] = IF h = Bare THEN both ELSE s.ev[h]
  BY <1>1, <1>3
<1> HIDE DEF joined
<1>9. /\ ev \in [Key -> Seq(Event)]
      /\ \A h \in Key : ev[h] = IF h = k THEN <<>> ELSE IF h = Bare THEN both
                                ELSE s.ev[h]
  BY <1>1, <1>4
<1> HIDE DEF ev
<1>5. /\ t \in Gui /\ t.chat = s.chat /\ t.control = s.control /\ t.ev = ev
      /\ t.unread = s.unread
      /\ t.inst = s.inst /\ t.rows = s.rows /\ t.removal = s.removal
  BY <1>1, <1>9 DEF Gui
<1> HIDE DEF t
<1>6. Sound(t)
  BY <1>5 DEF Sound, Ok, Shown, Listed
<1>7. ASSUME Attached(s), Own(s) PROVE Attached(t) /\ Own(t)
  <2>1. Attached(t)
    BY <1>5, <1>7 DEF Attached
  <2>2. \A h \in Key : t.ev[h] \in Seq(EventAt(h))
    <3> TAKE h \in Key
    <3>1. <<>> \in Seq(EventAt(h))
      OBVIOUS
    <3>2. EventAt(Bare) = Event
      BY DEF EventAt
    <3> QED
      BY <1>3, <1>5, <1>7, <1>9, <3>1, <3>2 DEF Own
  <2> QED
    BY <1>5, <1>7, <2>1, <2>2 DEF Own
<1>10. Recalls(s, t)
  <2>1. ASSUME NEW h \in Key, NEW id, Waits(s, h, id)
        PROVE  Waits(t, h, id) \/ Waits(t, Bare, id)
    <3>1. PICK e : Has(s.ev[h], e) /\ e.type = "chat" /\ e.id = id
      BY <1>1, <2>1, WaitsIs
    <3>2. Has(t.ev[h], e) \/ Has(t.ev[Bare], e)
      <4>1. CASE h = k \/ h = Bare
        <5>1. t.ev[Bare] = both
          BY <1>1, <1>5, <1>9
        <5> QED
          BY <1>8, <3>1, <4>1, <5>1
      <4>2. CASE ~(h = k \/ h = Bare)
        <5>1. t.ev[h] = s.ev[h]
          BY <1>5, <1>9, <4>2
        <5> QED
          BY <3>1, <5>1
      <4> QED
        BY <4>1, <4>2
    <3> QED
      BY <1>1, <1>5, <3>1, <3>2, WaitsIs
  <2> QED
    BY <1>1, <1>5, <2>1 DEF Recalls, IsQueued
<1>11. Awaits(s) => Awaits(t)
  <2>1. ASSUME NEW h \in Key, s.ev[h] # <<>> PROVE \E g \in Key : t.ev[g] # <<>>
    <3>1. CASE h = k \/ h = Bare
      <4>1. s.ev[h] \in Seq(Event)
        BY <1>1
      <4>2. 1 \in 1 .. Len(s.ev[h]) /\ Has(s.ev[h], s.ev[h][1])
        BY <2>1, <4>1 DEF Has
      <4>3. Has(both, s.ev[h][1])
        BY <1>8, <3>1, <4>2
      <4>4. both # <<>>
        BY <4>3 DEF Has
      <4> QED
        BY <1>1, <1>5, <1>9, <4>4
    <3>2. CASE ~(h = k \/ h = Bare)
      BY <1>5, <1>9, <2>1, <3>2
    <3> QED
      BY <3>1, <3>2
  <2> QED
    BY <1>5, <2>1 DEF Awaits
<1> QED
  BY <1>2, <1>5, <1>6, <1>7, <1>10, <1>11

LEMMA AddsEvent ==
    ASSUME NEW s, Sound(s), NEW k \in Key, NEW e \in Event
    PROVE  LET t == AddEvent(s, k, e)
           IN /\ Sound(t) /\ t.inst = s.inst /\ t.removal = s.removal
              /\ Recalls(s, t) /\ t.unread = s.unread /\ (Awaits(s) => Awaits(t))
              /\ e.type = "chat" => IsQueued(t, e.id)
              /\ /\ Wired(s) /\ e \in EventAt(k)
                 /\ e.type = "chat" /\ k = Bare => s.chat[Bare] = Closed
                 => Wired(t)
<1> DEFINE q == Append(s.ev[k], e)
           t == [s EXCEPT !.ev[k] = q]
<1>1. s \in Gui /\ s.ev \in [Key -> Seq(Event)]
  BY DEF Sound, Ok, Gui
<1>2. AddEvent(s, k, e) = t
  BY <1>1 DEF AddEvent, Gui
<1>3. q \in Seq(Event)
  BY <1>1
<1>4. \A S : s.ev[k] \in Seq(S) /\ e \in S => q \in Seq(S)
  OBVIOUS
<1>9. Has(q, e) /\ \A i \in 1 .. Len(s.ev[k]) : Has(q, s.ev[k][i])
  <2>1. s.ev[k] \in Seq(Event)
    BY <1>1
  <2>2. \A i \in 1 .. Len(s.ev[k]) : Has(s.ev[k], s.ev[k][i])
    BY DEF Has
  <2> QED
    BY <2>1, <2>2, HasAppended
<1> HIDE DEF q
<1>5. /\ t \in Gui /\ t.chat = s.chat /\ t.control = s.control
      /\ t.ev = [s.ev EXCEPT ![k] = q]
      /\ t.known = s.known /\ t.unread = s.unread
      /\ t.inst = s.inst /\ t.rows = s.rows /\ t.removal = s.removal
  BY <1>1, <1>3 DEF Gui
<1> HIDE DEF t
<1>6. Sound(t)
  BY <1>5 DEF Sound, Ok, Shown, Listed
<1>7. \A h \in Key : t.ev[h] = IF h = k THEN q ELSE s.ev[h]
  BY <1>1, <1>5
<1>8. ASSUME Wired(s), e \in EventAt(k), e.type = "chat" /\ k = Bare => s.chat[Bare] = Closed
      PROVE  Wired(t)
  <2>1. Attached(t)
    BY <1>5, <1>8 DEF Wired, Attached
  <2>2. Own(t)
    BY <1>4, <1>5, <1>7, <1>8 DEF Wired, Own
  <2>3. Read(t)
    <3>1. Bare \in Key /\ (e.type = "normal" \/ e.type = "chat")
      BY DEF Key, Event
    <3>2. e.type = "normal" => e \in Normal
      BY DEF Normal
    <3> QED
      BY <1>4, <1>5, <1>7, <1>8, <3>1, <3>2 DEF Wired, Read
  <2> QED
    BY <2>1, <2>2, <2>3 DEF Wired
<1>12. Awaits(s) => Awaits(t)
  <2>1. q # <<>>
    BY <1>9 DEF Has
  <2>2. t.ev[k] # <<>>
    BY <1>7, <2>1
  <2> QED
    BY <2>2 DEF Awaits
<1>10. Recalls(s, t)
  BY <1>5, <1>6, <1>9, <1>12, QueuedRecalls DEF Queued
<1>11. ASSUME e.type = "chat" PROVE IsQueued(t, e.id)
  <2>1. Has(t.ev[k], e)
    BY <1>7, <1>9
  <2> QED
    BY <1>5, <1>11, <2>1, WaitsIs DEF IsQueued
<1> QED
  BY <1>2, <1>5, <1>6, <1>8, <1>10, <1>11, <1>12

-----------------------------------------------------------------------------
(* A message.                                                              *)

\* The contact has a resource that is there and is not res: a message of res
\* does not come to the bare address
Far(s, res) ==
    Listed(s) /\ Highest(s).res \notin {Bare, res} /\ Highest(s).show # "offline"

LEMMA Messages ==
    ASSUME NEW s, Sound(s), NEW res \in Key, NEW e \in Event, e.session \in Thread
    PROVE  LET t == RosterMessage(s, res, e)
           IN /\ Sound(t) /\ Listed(t) /\ (Awaits(s) => Awaits(t))
              /\ Recalls(s, t) /\ t.unread \subseteq s.unread
              /\ e.type = "chat" /\ e.id \in t.unread => IsQueued(t, e.id)
              /\ /\ Wired(s) /\ res \in Res /\ e.session = Of(res)
                 /\ e.type = "chat" /\ s.control[Of(res)] = None
                    => s.chat[Bare] = Closed \/ Far(s, res)
                 => Wired(t)
<1> DEFINE found == res \in Resources(s) \ {Bare}
           invisible == ~found /\ Listed(s)
                        /\ \/ Len(s.inst) > 1
                           \/ s.inst[1].res # Bare /\ s.inst[1].show # "offline"
           c == [Highest(s) EXCEPT !.res = res, !.prio = 0, !.show = "offline"]
           s1 == IF invisible THEN ListContact(s, c)
                 ELSE IF Listed(s) THEN s ELSE AddNotInRoster(s, Bare)
           of == IF found \/ invisible THEN res
                 ELSE IF Listed(s) THEN Highest(s).res ELSE Bare
           toHighest == s.control[e.session] = None /\ Listed(s) /\ of = Highest(s).res
           key == IF (found \/ invisible) /\ ~toHighest THEN res ELSE Bare
           read == s1.unread \ {e.id}
           t == RosterMessage(s, res, e)
<1>1. s \in Gui /\ s.inst \in Seq(Contact) /\ Bare \in Key
  BY DEF Sound, Ok, Gui, Key
<1>2. Keeps(s, s1) /\ Shown(s1) /\ Listed(s1)
  <2>1. CASE invisible
    <3>1. Highest(s) \in Contact
      BY <1>1, <2>1, HighestIs
    <3>2. c \in Contact /\ c.res = res
      <4> DEFINE h == Highest(s)
                 zero == 0
                 offline == "offline"
                 d == [h EXCEPT !.res = res, !.prio = zero, !.show = offline]
      <4>1. zero \in Prio /\ offline \in {"online", "offline", "other"} /\ h \in Contact
        BY <3>1 DEF Prio
      <4>2. c = d
        OBVIOUS
      <4> HIDE DEF c, h, zero, offline
      <4>3. d \in Contact /\ d.res = res
        BY <4>1 DEF Contact
      <4> QED
        BY <4>2, <4>3
    <3> HIDE DEF c
    <3>3. Lasts(s, c)
      <4>1. CASE Len(s.inst) > 1
        BY <4>1 DEF Lasts
      <4>2. CASE ~(Len(s.inst) > 1)
        <5>1. Len(s.inst) = 1 /\ DOMAIN s.inst = {1} /\ s.inst[1].res # Bare
          <6>1. Len(s.inst) \in Nat /\ Len(s.inst) # 0
            BY <1>1, <2>1, Instances
          <6>2. Len(s.inst) = 1
            BY <4>2, <6>1, OnlyOne, Zenon
          <6>3. DOMAIN s.inst = {1}
            BY <1>1, <6>2
          <6> QED
            BY <2>1, <4>2, <6>2, <6>3
        <5>2. res \notin Resources(s)
          BY <2>1, <5>1 DEF Resources
        <5> QED
          BY <3>2, <5>2 DEF Lasts
      <4> QED
        BY <4>1, <4>2
    <3>4. /\ Keeps(s, ListContact(s, c)) /\ ListContact(s, c).rows = s.rows
          /\ ListContact(s, c).removal = s.removal
          /\ Listed(s) /\ Listed(ListContact(s, c))
      BY <2>1, <3>2, <3>3, Lists DEF Sound
    <3> QED
      BY <2>1, <3>4 DEF Sound, Shown
  <2>2. CASE ~invisible /\ Listed(s)
    <3>1. s1 = s
      BY <2>2
    <3> QED
      BY <2>2, <3>1 DEF Sound, Keeps
  <2>3. CASE ~invisible /\ ~Listed(s)
    <3>1. s1 = AddNotInRoster(s, Bare)
      BY <2>3
    <3> QED
      BY <1>1, <2>3, <3>1, AddsNotInRoster DEF Sound
  <2> QED
    BY <2>1, <2>2, <2>3
<1>3. key \in {res, Bare} /\ key \in Key
  BY <1>1
<1>4. t = IF s.control[e.session] # None /\ e.type = "chat"
          THEN [s1 EXCEPT !.unread = read]
          ELSE AddEvent(s1, key, e)
  BY DEF RosterMessage
<1>5. ASSUME Far(s, res), res \in Res PROVE key = res
  <2>1. found \/ invisible
    <3>1. CASE Len(s.inst) > 1
      BY <1>5, <3>1 DEF Far
    <3>2. CASE ~(Len(s.inst) > 1)
      <4>1. Len(s.inst) = 1
        <5>1. Len(s.inst) \in Nat /\ Len(s.inst) # 0
          BY <1>1, <1>5, Instances DEF Far
        <5> QED
          BY <3>2, <5>1, OnlyOne, Zenon
      <4>2. Highest(s) = s.inst[1]
        BY <1>1, <1>5, <4>1, HighestIs DEF Far
      <4> QED
        BY <1>5, <4>2 DEF Far
    <3> QED
      BY <3>1, <3>2
  <2>2. ~toHighest
    BY <1>5, <2>1 DEF Far
  <2> QED
    BY <2>1, <2>2
<1> HIDE DEF s1, key, t
<1>6. /\ s1 \in Gui /\ Sound(s1) /\ s1.unread = s.unread /\ Recalls(s, s1)
      /\ Awaits(s) => Awaits(s1)
  BY <1>2, SameRecalls DEF Keeps, Sound, Ok
<1>7. CASE s.control[e.session] # None /\ e.type = "chat"
  <2>1. t = [s1 EXCEPT !.unread = read]
    BY <1>4, <1>7
  <2>2. read \subseteq Id /\ read \subseteq s.unread /\ e.id \notin read
    BY <1>6 DEF Gui
  <2> HIDE DEF read
  <2>3. /\ t \in Gui /\ t.unread = read /\ t.chat = s1.chat /\ t.control = s1.control /\ t.ev = s1.ev
        /\ t.inst = s1.inst /\ t.rows = s1.rows /\ t.removal = s1.removal
    BY <1>6, <2>1, <2>2 DEF Gui
  <2>4. Sound(t)
    BY <1>6, <2>3 DEF Sound, Ok, Shown, Listed
  <2>5. Wired(s) => Wired(t)
    BY <1>2, <2>3, WiredOn DEF Keeps
  <2>6. Recalls(s, t) /\ t.unread \subseteq s.unread /\ e.id \notin t.unread /\ Listed(t)
    BY <1>2, <2>2, <2>3, SameRecalls DEF Keeps, Listed
  <2>7. Awaits(s) => Awaits(t)
    BY <1>6, <2>3 DEF Awaits
  <2> QED
    BY <2>4, <2>5, <2>6, <2>7 DEF t
<1>8. CASE ~(s.control[e.session] # None /\ e.type = "chat")
  <2>1. t = AddEvent(s1, key, e)
    BY <1>4, <1>8
  <2>2. /\ Sound(t) /\ t.inst = s1.inst /\ Recalls(s1, t) /\ t.unread = s1.unread
        /\ Awaits(s1) => Awaits(t)
        /\ e.type = "chat" => IsQueued(t, e.id)
    BY <1>3, <1>6, <2>1, AddsEvent
  <2>4. Recalls(s, t) /\ t.unread \subseteq s.unread /\ Listed(t) /\ (Awaits(s) => Awaits(t))
    BY <1>2, <1>6, <2>2, RecallsOn DEF Listed
  <2>3. ASSUME Wired(s), res \in Res, e.session = Of(res),
               e.type = "chat" /\ s.control[Of(res)] = None
               => s.chat[Bare] = Closed \/ Far(s, res)
        PROVE  Wired(t)
    <3>1. Wired(s1) /\ s1.chat = s.chat
      BY <1>2, <2>3, WiredOn DEF Keeps
    <3>2. e \in EventAt(key)
      BY <1>3, <2>3 DEF EventAt
    <3>3. e.type = "chat" /\ key = Bare => s1.chat[Bare] = Closed
      <4>1. res # Bare
        BY <2>3, NamesAssumption
      <4> QED
        BY <1>5, <1>8, <2>3, <3>1, <4>1
    <3> QED
      BY <1>3, <1>6, <2>1, <3>1, <3>2, <3>3, AddsEvent
  <2> QED
    BY <2>2, <2>3, <2>4 DEF t
<1> QED
  BY <1>7, <1>8

LEMMA Receives ==
    ASSUME NEW s, Sound(s), NEW r \in Res, NEW type \in {"chat", "normal"}, NEW id \in Id
    PROVE  Fine(s, Received(s, r, type, id))
<1> DEFINE isHighest == \/ ~Listed(s)
                        \/ Highest(s).res \in {Bare, r}
                        \/ Highest(s).show = "offline"
           key == IF isHighest THEN Bare ELSE r
           known == s.known \cup {Of(r)}
           unread == s.unread \cup IF type = "chat" THEN {id} ELSE {}
           s1 == [s EXCEPT !.known = known, !.unread = unread]
           takes == s.control[Of(r)] = None /\ s.chat[key] # Closed
           x == SetSession(s1, key, Of(r))
           y == [x EXCEPT !.control[Of(r)] = key]
           s2 == IF takes THEN y ELSE s1
           e == [type |-> type, session |-> Of(r), id |-> id]
           t == Received(s, r, type, id)
<1>1. /\ s \in Gui /\ Of(r) \in Thread /\ key \in Key /\ key # None
      /\ Bare \in Key /\ r \in Key /\ r # Bare
  BY NamesAssumption DEF Sound, Ok, Key, Of, Thread
<1>2. t = RosterMessage(s2, r, e)
  BY DEF Received
<1>3. known \subseteq Thread /\ unread \subseteq Id
  BY <1>1 DEF Gui
<1>20. \A i \in unread : i \in s.unread \/ (type = "chat" /\ i = id)
  OBVIOUS
<1> HIDE DEF known, unread, t
<1>4. /\ s1 \in Gui /\ s1.chat = s.chat /\ s1.control = s.control /\ s1.ev = s.ev
      /\ s1.unread = unread
      /\ s1.inst = s.inst /\ s1.rows = s.rows /\ s1.removal = s.removal
  BY <1>1, <1>3 DEF Gui
<1> HIDE DEF s1
<1>5. Sound(s1) /\ (Wired(s) => Wired(s1))
  BY <1>4, WiredOn DEF Sound, Ok, Shown, Listed
<1>6. ~isHighest => Far(s, r)
  BY DEF Far
<1>7. isHighest => key = Bare
  OBVIOUS
<1>8. key = Bare \/ key = r
  OBVIOUS
<1> HIDE DEF isHighest, key
<1>9. Rewired(s1, x, key) /\ x.chat[key] = Of(r)
  BY <1>1, <1>4, SetsSession
<1> HIDE DEF x
<1>10. x \in Gui /\ x.control \in [Thread -> Key \cup {None}]
  BY <1>9 DEF Rewired, Gui
<1>11. /\ y.control = [x.control EXCEPT ![Of(r)] = key] /\ y.unread = x.unread
       /\ y.inst = x.inst /\ y.rows = x.rows /\ y.removal = x.removal
       /\ y.chat = x.chat /\ y.ev = x.ev
  BY <1>10 DEF Gui
<1>12. y \in Gui
  BY <1>1, <1>10 DEF Gui
<1> HIDE DEF y
<1>13. Sound(y) /\ y.inst = s.inst
  BY <1>4, <1>5, <1>9, <1>11, <1>12 DEF Rewired, Sound, Ok, Shown, Listed
<1>22. (Awaits(s) => Awaits(s1)) /\ (Awaits(s) => Awaits(y))
  BY <1>4, <1>9, <1>11 DEF Rewired, Awaits
<1>14. y.control[Of(r)] # None
  BY <1>1, <1>10, <1>11
<1>15. ASSUME Wired(s), takes PROVE Wired(y)
  <2>1. Attached(y)
    <3> SUFFICES ASSUME NEW u \in Thread, y.control[u] # None
                 PROVE  y.chat[y.control[u]] = u
      BY DEF Attached
    <3>1. Attached(x)
      BY <1>5, <1>9, <1>15 DEF Rewired, Wired
    <3>2. CASE u = Of(r)
      BY <1>9, <1>10, <1>11, <3>2
    <3>3. CASE u # Of(r)
      BY <1>10, <1>11, <3>1, <3>3 DEF Attached
    <3> QED
      BY <3>2, <3>3
  <2>2. Own(y)
    <3>1. y.ev = s.ev
      BY <1>4, <1>9, <1>11 DEF Rewired
    <3>2. \A q \in Res : y.chat[q] \in {Closed, None, Of(q)}
      <4> TAKE q \in Res
      <4>1. q \in Key /\ q # Bare
        BY NamesAssumption DEF Key
      <4>2. CASE q = key
        BY <1>8, <1>9, <1>11, <4>1, <4>2
      <4>3. CASE q # key
        BY <1>4, <1>9, <1>11, <1>15, <4>1, <4>3 DEF Rewired, Wired, Own
      <4> QED
        BY <4>2, <4>3
    <3> QED
      BY <1>15, <3>1, <3>2 DEF Wired, Own
  <2>3. Read(y)
    <3>1. y.ev = s.ev /\ (key # Bare => y.chat[Bare] = s.chat[Bare])
      BY <1>1, <1>4, <1>9, <1>11 DEF Rewired
    <3> QED
      BY <1>15, <3>1 DEF Wired, Read
  <2> QED
    BY <2>1, <2>2, <2>3 DEF Wired
<1>16. /\ Sound(s2) /\ (Wired(s) => Wired(s2)) /\ s2.inst = s.inst
       /\ s2.ev = s.ev /\ s2.unread = unread /\ (Awaits(s) => Awaits(s2))
  BY <1>4, <1>5, <1>9, <1>11, <1>13, <1>15, <1>22 DEF Rewired
<1>17. s2.control[Of(r)] = None => s2.chat[Bare] = Closed \/ Far(s2, r)
  <2>1. Far(s, r) => Far(s2, r)
    <3>1. s2.inst = s.inst
      BY <1>16
    <3> HIDE DEF s2
    <3> QED
      BY <3>1 DEF Far, Listed, Highest
  <2>2. CASE takes
    BY <1>14, <2>2
  <2>3. CASE ~takes
    BY <1>4, <1>6, <1>7, <2>1, <2>3
  <2> QED
    BY <2>2, <2>3
<1>18. e \in Event /\ e.session = Of(r) /\ e.type = type /\ e.id = id
  BY <1>1 DEF Event
<1> HIDE DEF s2, e
<1>19. /\ Sound(t) /\ (Wired(s2) => Wired(t)) /\ (Awaits(s2) => Awaits(t))
       /\ Recalls(s2, t) /\ t.unread \subseteq s2.unread
       /\ type = "chat" /\ id \in t.unread => IsQueued(t, id)
  BY <1>1, <1>2, <1>16, <1>17, <1>18, Messages
<1>21. Recalls(s, t)
  BY <1>16, <1>19, <1>20 DEF Recalls, IsQueued, Waits
<1> QED
  BY <1>16, <1>19, <1>21 DEF t, Fine

-----------------------------------------------------------------------------
(* Presence.                                                               *)

\* Other instances, and some where there were some
Relisted(s, t) ==
    /\ Keeps(s, t) /\ t.rows = s.rows /\ t.removal = s.removal
    /\ Listed(t) <=> Listed(s)

LEMMA RelistedFine ==
    ASSUME NEW s, NEW t, Sound(s), Relisted(s, t)
    PROVE  Fine(s, t)
<1>1. Shown(t)
  BY DEF Relisted, Sound, Shown
<1> QED
  BY <1>1, KeepsFine DEF Relisted

LEMMA RelistedOn ==
    ASSUME NEW s, NEW t, NEW u, Relisted(s, t), Relisted(t, u)
    PROVE  Relisted(s, u)
BY KeepsOn DEF Relisted

LEMMA OtherList ==
    ASSUME NEW s, Ok(s), NEW q \in Seq(Contact), q = <<>> <=> s.inst = <<>>
    PROVE  Relisted(s, [s EXCEPT !.inst = q]) /\ [s EXCEPT !.inst = q].inst = q
<1> DEFINE t == [s EXCEPT !.inst = q]
<1>1. s \in Gui
  BY DEF Ok
<1>2. /\ t \in Gui /\ t.inst = q /\ t.rows = s.rows /\ t.removal = s.removal
      /\ t.ev = s.ev /\ t.chat = s.chat /\ t.control = s.control
      /\ t.known = s.known /\ t.unread = s.unread
  BY <1>1 DEF Gui
<1> HIDE DEF t
<1> QED
  BY <1>2 DEF Relisted, Keeps, Ok, Listed, Awaits, t

\* One instance is another
LEMMA OtherInstance ==
    ASSUME NEW s, Ok(s), NEW i \in 1 .. Len(s.inst), NEW c \in Contact
    PROVE  LET t == [s EXCEPT !.inst[i] = c]
           IN Relisted(s, t) /\ t.inst = [s.inst EXCEPT ![i] = c]
<1> DEFINE q == [s.inst EXCEPT ![i] = c]
<1>1. s \in Gui /\ s.inst \in Seq(Contact)
  BY DEF Ok, Gui
<1>2. q \in Seq(Contact) /\ Len(q) = Len(s.inst)
  BY <1>1
<1>3. q = <<>> <=> s.inst = <<>>
  <2>1. q # <<>> /\ s.inst # <<>>
    BY <1>1, <1>2
  <2> QED
    BY <2>1
<1>4. [s EXCEPT !.inst[i] = c] = [s EXCEPT !.inst = q]
  BY <1>1 DEF Gui
<1> HIDE DEF q
<1> QED
  BY <1>2, <1>3, <1>4, OtherList DEF q

LEMMA ChangesStatus ==
    ASSUME NEW s, Ok(s), NEW i \in 1 .. Len(s.inst),
           NEW show \in {"online", "offline", "other"}
    PROVE  Relisted(s, ChangeStatus(s, i, show))
<1> DEFINE c == [s.inst[i] EXCEPT !.show = show]
           s1 == [s EXCEPT !.inst[i] = c]
           q == RemoveAt(s1.inst, i)
           gone == Len(s1.inst) > 1 /\ show = "offline" /\ ~Pending(s)
                   /\ s.chat[s.inst[i].res] = Closed
<1>1. s \in Gui /\ s.inst \in Seq(Contact) /\ s.inst[i] \in Contact
  BY DEF Ok, Gui
<1>2. c \in Contact
  BY <1>1 DEF Contact
<1>3. Relisted(s, s1) /\ s1.inst = [s.inst EXCEPT ![i] = c]
  <2> HIDE DEF c
  <2> QED
    BY <1>2, OtherInstance
<1>4. Len(s1.inst) = Len(s.inst) /\ i \in 1 .. Len(s1.inst) /\ s1.inst \in Seq(Contact)
  BY <1>1, <1>2, <1>3
<1>5. ChangeStatus(s, i, show) = IF gone THEN [s1 EXCEPT !.inst = q] ELSE s1
  <2>1. s1 = [s EXCEPT !.inst[i].show = show]
    BY <1>1 DEF Gui
  <2> HIDE DEF s1
  <2> QED
    BY <1>4, <2>1 DEF ChangeStatus
<1> HIDE DEF s1
<1>6. CASE gone
  <2>1. q \in Seq(Contact) /\ Len(q) = Len(s1.inst) - 1
    BY <1>4, RemovedAt
  <2>2. q # <<>> /\ s1.inst # <<>>
    <3>1. Len(s1.inst) \in Nat /\ Len(s1.inst) > 1
      BY <1>4, <1>6
    <3> HIDE DEF q
    <3> QED
      BY <2>1, <3>1
  <2>3. Relisted(s1, [s1 EXCEPT !.inst = q])
    <3> HIDE DEF q
    <3> QED
      BY <1>3, <2>1, <2>2, OtherList DEF Relisted, Keeps
  <2> QED
    BY <1>3, <1>5, <1>6, <2>3, RelistedOn
<1>7. CASE ~gone
  <2>1. ChangeStatus(s, i, show) = s1
    BY <1>5, <1>7
  <2> QED
    BY <1>3, <2>1
<1> QED
  BY <1>6, <1>7

LEMMA GoneOffline ==
    ASSUME NEW s, Ok(s)
    PROVE  Relisted(s, AllOffline(s))
<1> DEFINE N == Len(s.inst)
           P == {x \in Gui : Relisted(s, x)}
           F == [n \in 1 .. N |-> [x \in P |-> GoesOffline(x, n)]]
           f == CHOOSE f : f = [n \in 0 .. N |->
                   IF n = 0 THEN s ELSE GoesOffline(f[n - 1], n)]
<1>1. s \in Gui /\ s.inst \in Seq(Contact) /\ N \in Nat
  BY DEF Ok, Gui
<1>2. s \in P
  BY <1>1 DEF Relisted, Keeps
<1>3. ASSUME NEW n \in 1 .. N, NEW x \in P PROVE GoesOffline(x, n) \in P
  <2>1. Ok(x) /\ Relisted(s, x)
    BY DEF Relisted, Keeps
  <2>2. CASE n <= Len(x.inst) /\ x.inst[n].show # "offline"
    <3>1. n \in 1 .. Len(x.inst)
      <4>1. x.inst \in Seq(Contact)
        BY <2>1 DEF Ok, Gui
      <4> QED
        BY <2>2, <4>1
    <3>2. Relisted(x, ChangeStatus(x, n, "offline"))
      BY <2>1, <3>1, ChangesStatus
    <3>3. Relisted(s, ChangeStatus(x, n, "offline"))
      BY <2>1, <3>2, RelistedOn
    <3>4. GoesOffline(x, n) = ChangeStatus(x, n, "offline")
      BY <2>2 DEF GoesOffline
    <3> QED
      BY <3>3, <3>4 DEF Relisted, Keeps, Ok
  <2>3. CASE ~(n <= Len(x.inst) /\ x.inst[n].show # "offline")
    BY <2>3 DEF GoesOffline
  <2> QED
    BY <2>2, <2>3
<1> HIDE DEF P, N
<1>4. Stays(N, P, F)
  BY <1>3 DEF Stays
<1>5. PICK g \in [0 .. N -> P] : Repeats(N, F, s, g)
  <2> HIDE DEF F
  <2> QED
    BY <1>1, <1>2, <1>4, RepeatExists
<1>6. g = [n \in 0 .. N |-> IF n = 0 THEN s ELSE GoesOffline(g[n - 1], n)]
  <2>1. \A n \in 0 .. N : g[n] = IF n = 0 THEN s ELSE GoesOffline(g[n - 1], n)
    <3> TAKE n \in 0 .. N
    <3>1. CASE n # 0
      <4>1. n \in 1 .. N /\ n - 1 \in 0 .. N
        BY <1>1, <3>1
      <4>2. g[n - 1] \in P
        BY <4>1
      <4> QED
        BY <1>5, <3>1, <4>1, <4>2 DEF Repeats
    <3> QED
      BY <1>5, <3>1 DEF Repeats
  <2> QED
    BY <2>1
<1>7. f = [n \in 0 .. N |-> IF n = 0 THEN s ELSE GoesOffline(f[n - 1], n)]
  BY <1>6
<1> HIDE DEF f
<1>8. f[0] = s
  BY <1>1, <1>7
<1>9. ASSUME NEW n \in 1 .. N PROVE f[n] = GoesOffline(f[n - 1], n)
  <2>1. n \in 0 .. N /\ n # 0
    BY <1>1
  <2> QED
    BY <1>7, <2>1
<1>10. \A n \in 1 .. N : f[n - 1] \in P => f[n] \in P
  BY <1>3, <1>9
<1>11. f[N] \in P
  BY <1>1, <1>2, <1>8, <1>10, LoopStays
<1>12. AllOffline(s) = f[N]
  BY DEF AllOffline, f, N
<1> QED
  BY <1>11, <1>12 DEF P

\* The instance of r that handle_event_notify makes where it finds none
LEMMA Renames ==
    ASSUME NEW s, Sound(s), Listed(s), NEW r \in Key, r \notin Resources(s)
    PROVE  /\ LET q == Append(s.inst, [s.inst[1] EXCEPT !.res = r])
                  t == AddRow([s EXCEPT !.inst = q])
              IN Keeps(s, t) /\ Shown(t) /\ Listed(t) /\ r \in Resources(t)
           /\ LET t == AddRow([s EXCEPT !.inst[1].res = r])
              IN Keeps(s, t) /\ Shown(t) /\ Listed(t) /\ r \in Resources(t)
<1> DEFINE c == [s.inst[1] EXCEPT !.res = r]
           q == Append(s.inst, c)
           u == [s EXCEPT !.inst = q]
           v == [s EXCEPT !.inst[1] = c]
<1>1. s \in Gui /\ s.inst \in Seq(Contact) /\ 1 \in 1 .. Len(s.inst) /\ Ok(s)
  <2>1. s \in Gui /\ s.inst \in Seq(Contact) /\ Ok(s)
    BY DEF Sound, Ok, Gui
  <2> QED
    BY <2>1 DEF Listed
<1>2. c \in Contact /\ c.res = r
  <2>1. s.inst[1] \in Contact
    BY <1>1
  <2> QED
    BY <2>1 DEF Contact
<1> HIDE DEF c
<1>3. q \in Seq(Contact) /\ q # <<>> /\ Len(q) \in 1 .. Len(q) /\ q[Len(q)] = c
  BY <1>1, <1>2
<1> HIDE DEF q
<1>4. Relisted(s, u) /\ u.inst = q
  BY <1>1, <1>3, OtherList DEF Listed
<1>5. Relisted(s, v) /\ v.inst = [s.inst EXCEPT ![1] = c]
  BY <1>1, <1>2, OtherInstance
<1>6. v = [s EXCEPT !.inst[1].res = r]
  BY <1>1 DEF c, Gui
<1>7. r \in Resources(u)
  BY <1>2, <1>3, <1>4 DEF Resources
<1>8. r \in Resources(v)
  BY <1>1, <1>2, <1>5 DEF Resources
<1> HIDE DEF u, v
<1>9. ASSUME NEW x, Relisted(s, x), r \in Resources(x)
      PROVE  LET t == AddRow(x)
             IN Keeps(s, t) /\ Shown(t) /\ Listed(t) /\ r \in Resources(t)
  <2>1. LET t == AddRow(x) IN Keeps(x, t) /\ t.inst = x.inst /\ t.rows # {}
    BY <1>9, AddsRow DEF Relisted, Keeps
  <2> QED
    BY <1>9, <2>1, KeepsOn DEF Relisted, Shown, Listed, Resources
<1> QED
  BY <1>4, <1>5, <1>6, <1>7, <1>8, <1>9 DEF u, q, c

LEMMA Notifies ==
    ASSUME NEW s, Sound(s), Listed(s), NEW r \in Res,
           NEW show \in {"online", "offline", "other"}, NEW prio \in Prio
    PROVE  Fine(s, Notify(s, r, show, prio))
<1> DEFINE i == IndexOf(s, r)
           another == /\ [j \in DOMAIN s.inst |-> s.inst[j].res] # <<Bare>>
                      /\ ~(Len(s.inst) = 1 /\ s.inst[1].show = "offline")
           s1 == IF i # 0 THEN s
                 ELSE AddRow(IF another
                             THEN [s EXCEPT !.inst = Append(@, [@[1] EXCEPT !.res = r])]
                             ELSE [s EXCEPT !.inst[1].res = r])
           n == IndexOf(s1, r)
           s2 == [s1 EXCEPT !.inst[n].prio = prio]
           m == IndexOf(s2, r)
           s3 == ChangeStatus(s2, m, show)
           moved == (Highest(s).res = r) # (Highest(s3).res = r)
           y == SetSession(s3, Bare, None)
           same == i # 0 /\ Unchanged(s.inst[i], show, prio)
           t == Notify(s, r, show, prio)
<1>1. s \in Gui /\ Ok(s) /\ r \in Key /\ Bare \in Key
  BY DEF Sound, Ok, Key
<1>2. t = IF same THEN s ELSE IF moved /\ s3.chat[Bare] # Closed THEN y ELSE s3
  BY DEF Notify
<1>3. Keeps(s, s1) /\ Shown(s1) /\ Listed(s1) /\ r \in Resources(s1)
  <2>1. CASE i # 0
    <3>1. s1 = s /\ r \in Resources(s)
      BY <1>1, <2>1, IndexIs
    <3> QED
      BY <3>1 DEF Sound, Keeps
  <2>2. CASE i = 0
    <3>1. r \notin Resources(s)
      BY <1>1, <2>2, IndexIs
    <3>2. [s EXCEPT !.inst = Append(@, [@[1] EXCEPT !.res = r])]
          = [s EXCEPT !.inst = Append(s.inst, [s.inst[1] EXCEPT !.res = r])]
      BY <1>1 DEF Gui
    <3>3. CASE another
      BY <1>1, <2>2, <3>1, <3>2, <3>3, Renames
    <3>4. CASE ~another
      BY <1>1, <2>2, <3>1, <3>4, Renames
    <3> QED
      BY <3>3, <3>4
  <2> QED
    BY <2>1, <2>2
<1> HIDE DEF s1, t, same
<1>4. Ok(s1) /\ s1 \in Gui /\ s1.inst \in Seq(Contact)
  BY <1>3 DEF Keeps, Ok, Gui
<1>5. n \in 1 .. Len(s1.inst) /\ s1.inst[n].res = r
  <2>1. n \in 0 .. Len(s1.inst) /\ n # 0 /\ s1.inst[n].res = r
    BY <1>3, <1>4, IndexIs
  <2>2. Len(s1.inst) \in Nat
    BY <1>4
  <2> QED
    BY <2>1, <2>2
<1> HIDE DEF n
<1>6. Relisted(s1, s2) /\ r \in Resources(s2)
  <2> DEFINE c == [s1.inst[n] EXCEPT !.prio = prio]
             v == [s1 EXCEPT !.inst[n] = c]
  <2>1. s1.inst[n] \in Contact
    BY <1>4, <1>5
  <2>2. c \in Contact /\ c.res = r
    BY <1>5, <2>1 DEF Contact
  <2>3. s2 = v
    BY <1>4 DEF Gui
  <2> HIDE DEF c
  <2>4. Relisted(s1, v) /\ v.inst = [s1.inst EXCEPT ![n] = c]
    BY <1>4, <1>5, <2>2, OtherInstance
  <2>5. r \in Resources(v)
    BY <1>4, <1>5, <2>2, <2>4 DEF Resources
  <2> QED
    BY <2>3, <2>4, <2>5
<1> HIDE DEF s2
<1>7. Ok(s2) /\ s2 \in Gui
  BY <1>6 DEF Relisted, Keeps, Ok
<1>8. m \in 1 .. Len(s2.inst)
  <2>1. m \in 0 .. Len(s2.inst) /\ m # 0
    BY <1>6, <1>7, IndexIs
  <2>2. Len(s2.inst) \in Nat
    BY <1>7 DEF Gui
  <2> QED
    BY <2>1, <2>2
<1> HIDE DEF m
<1>9. Relisted(s2, s3)
  BY <1>7, <1>8, ChangesStatus
<1> HIDE DEF s3
<1>10. Relisted(s1, s3)
  BY <1>6, <1>9, RelistedOn
<1>11. Fine(s, s3) /\ s3 \in Gui
  <2>1. Fine(s, s1) /\ Sound(s1)
    BY <1>3, KeepsFine DEF Fine
  <2> QED
    BY <1>10, <2>1, RelistedFine, FineOn DEF Relisted, Keeps, Ok
<1>12. Rewired(s3, y, Bare) /\ y.chat[Bare] = None
  BY <1>1, <1>11, SetsSession
<1> HIDE DEF y, moved
<1>13. Sound(y) /\ Recalls(s3, y) /\ (Awaits(s3) => Awaits(y))
  BY <1>11, <1>12, SameRecalls DEF Fine, Rewired, Sound, Ok, Shown, Listed
<1>15. Recalls(s, y)
  BY <1>11, <1>13, RecallsOn DEF Fine
<1>14. ASSUME Wired(s), s3.chat[Bare] # Closed PROVE Wired(y)
  <2>1. \A q \in Res : q \in Key \ {Bare}
    BY NamesAssumption DEF Key
  <2> QED
    BY <1>11, <1>12, <1>14, <2>1 DEF Fine, Rewired, Wired, Own, Read
<1>16. Recalls(s, s)
  BY DEF Recalls
<1> QED
  BY <1>2, <1>11, <1>13, <1>14, <1>15, <1>16 DEF t, Fine

-----------------------------------------------------------------------------
(* The roster of the server.                                               *)

LEMMA TakesInfo ==
    ASSUME NEW s, Sound(s), NEW i \in Item \cup {Removed}
    PROVE  Fine(s, RosterInfo(s, i))
<1> DEFINE t == RosterInfo(s, i)
<1>1. Ok(s) /\ s \in Gui /\ s.inst \in Seq(Contact)
  BY DEF Sound, Ok, Gui
<1>2. /\ i.sub \in Sub /\ i.asked \in BOOLEAN /\ i.named \in BOOLEAN
      /\ i.groups \in SUBSET Group
  <2>1. CASE i \in Item
    BY <2>1 DEF Item, Sub
  <2>2. CASE i = Removed
    BY <2>2 DEF Removed, Sub
  <2> QED
    BY <2>1, <2>2
<1>3. CASE Useless(i)
  <2>1. t = RemoveContact(s, FALSE, TRUE)
    BY <1>3 DEF RosterInfo
  <2>2. Keeps(s, RemoveContact(s, FALSE, TRUE)) /\ Shown(RemoveContact(s, FALSE, TRUE))
    BY <1>1, RowsGo
  <2> QED
    BY <2>1, <2>2, KeepsFine
<1>4. CASE ~Useless(i) /\ Listed(s)
  <2> DEFINE new(c) == [c EXCEPT !.sub = i.sub, !.asked = i.asked,
                                 !.named = i.named, !.groups = i.groups]
             q == [j \in DOMAIN s.inst |-> new(s.inst[j])]
  <2>1. t = [s EXCEPT !.inst = q]
    BY <1>1, <1>4 DEF RosterInfo, Gui
  <2>2. \A j \in DOMAIN s.inst : new(s.inst[j]) \in Contact
    <3> TAKE j \in DOMAIN s.inst
    <3>1. s.inst[j] \in Contact
      BY <1>1
    <3> QED
      BY <1>2, <3>1 DEF Contact
  <2> HIDE DEF new
  <2>3. q \in Seq(Contact) /\ Len(q) = Len(s.inst)
    BY <1>1, <2>2
  <2>4. q = <<>> <=> s.inst = <<>>
    <3> HIDE DEF q
    <3> QED
      BY <1>1, <2>3
  <2> HIDE DEF q
  <2>5. Relisted(s, t)
    BY <1>1, <2>1, <2>3, <2>4, OtherList
  <2> QED
    BY <2>5, RelistedFine
<1>5. CASE ~Useless(i) /\ ~Listed(s) /\ i.sub # "remove"
  <2> DEFINE c == NewContact("offline", i)
  <2>1. c \in Contact
    BY <1>2, NewIs
  <2>2. Lasts(s, c) /\ t = AddRow(ListContact(s, c))
    BY <1>5 DEF Lasts, RosterInfo
  <2> HIDE DEF c
  <2>3. Keeps(s, t) /\ Shown(t)
    BY <1>1, <2>1, <2>2, ListsWithRow
  <2> QED
    BY <2>3, KeepsFine
<1>6. CASE ~Useless(i) /\ ~Listed(s) /\ i.sub = "remove"
  BY <1>6, SameRecalls DEF RosterInfo, Fine
<1> QED
  BY <1>3, <1>4, <1>5, <1>6

\* What no message of the log changes that waits again
Fired(s, t) ==
    /\ Sound(t) /\ Recalls(s, t) /\ t.unread \subseteq s.unread
    /\ (Listed(t) <=> Listed(s)) /\ (Awaits(s) => Awaits(t))

LEMMA Fires ==
    ASSUME NEW s, Sound(s), NEW id \in Id, NEW unread
    PROVE  LET t == Fire(s, id, unread)
           IN /\ Fired(s, t) /\ (unread = {} => t = s)
              /\ Listed(s) /\ id \in unread /\ id \in t.unread => IsQueued(t, id)
<1> DEFINE known == s.known \cup {Logged(id)}
           c == [s.control EXCEPT ![Logged(id)] = None]
           x == [s EXCEPT !.known = known, !.control = c]
           e == [type |-> "chat", session |-> Logged(id), id |-> id]
<1>1. /\ s \in Gui /\ s.control \in [Thread -> Key \cup {None}]
      /\ Logged(id) \in Thread /\ Bare \in Key
  BY DEF Sound, Ok, Gui, Logged, Thread, Key
<1>2. Fire(s, id, unread) =
         IF id \notin unread \/ ~Listed(s) THEN s ELSE RosterMessage(x, Bare, e)
  <2>1. x = [s EXCEPT !.known = @ \cup {Logged(id)}, !.control[Logged(id)] = None]
    BY <1>1 DEF Gui
  <2> HIDE DEF x, e
  <2> QED
    BY <2>1 DEF Fire, e
<1>3. known \subseteq Thread /\ c \in [Thread -> Key \cup {None}]
  BY <1>1 DEF Gui
<1> HIDE DEF known, c
<1>4. /\ x \in Gui /\ x.inst = s.inst /\ x.rows = s.rows /\ x.removal = s.removal
      /\ x.ev = s.ev /\ x.unread = s.unread /\ x.chat = s.chat
  BY <1>1, <1>3 DEF Gui
<1> HIDE DEF x
<1>5. Sound(x) /\ Recalls(s, x) /\ (Awaits(s) => Awaits(x))
  BY <1>4, SameRecalls DEF Sound, Ok, Shown, Listed, Awaits
<1>6. e \in Event /\ e.session \in Thread /\ e.type = "chat" /\ e.id = id
  BY <1>1 DEF Event
<1> HIDE DEF e
<1> DEFINE t == RosterMessage(x, Bare, e)
<1>7. /\ Sound(t) /\ Listed(t) /\ Recalls(x, t) /\ t.unread \subseteq x.unread
      /\ Awaits(x) => Awaits(t)
      /\ id \in t.unread => IsQueued(t, id)
  BY <1>1, <1>5, <1>6, Messages
<1>8. CASE id \notin unread \/ ~Listed(s)
  <2>1. Fire(s, id, unread) = s
    BY <1>2, <1>8
  <2> QED
    BY <1>8, <2>1, SameRecalls DEF Fired
<1>9. CASE ~(id \notin unread \/ ~Listed(s))
  <2>1. Fire(s, id, unread) = t
    BY <1>2, <1>9
  <2> HIDE DEF t
  <2>2. Recalls(s, t) /\ t.unread \subseteq s.unread /\ (Awaits(s) => Awaits(t))
    BY <1>4, <1>5, <1>7, RecallsOn
  <2> QED
    BY <1>7, <1>9, <2>1, <2>2 DEF Fired
<1> QED
  BY <1>8, <1>9

LEMMA TakesRoster ==
    ASSUME NEW s, Sound(s), NEW i \in Item \cup {None}
    PROVE  LET t == RosterReceived(s, i)
           IN /\ Sound(t) /\ (Wired(s) /\ s.unread = {} => Wired(t)) /\ Recalls(s, t)
              /\ Awaits(s) => Awaits(t)
              /\ Listed(t) => \A id \in t.unread : IsQueued(t, id)
<1> DEFINE c == NewContact("offline", i)
           s1 == IF i = None \/ Useless(i) THEN s
                 ELSE [RemoveContact(s, TRUE, FALSE) EXCEPT !.inst = <<c>>]
           s2 == IF Listed(s1) THEN AddRow(s1) ELSE s1
           N == MaxMessages
           P == {x \in Gui : Fired(s2, x) /\ (s.unread = {} => x = s2)}
           F == [n \in 1 .. N |-> [x \in P |-> Fire(x, n, s.unread)]]
           f == CHOOSE f : f = [n \in 0 .. N |->
                   IF n = 0 THEN s2 ELSE Fire(f[n - 1], n, s.unread)]
<1>1. Ok(s) /\ s \in Gui /\ N \in Nat
  BY RosterAssumption DEF Sound, Ok
<1>2. Keeps(s, s1) /\ (Shown(s1) \/ Listed(s1))
  <2>1. CASE i = None \/ Useless(i)
    <3>1. s1 = s
      BY <2>1
    <3> QED
      BY <3>1 DEF Sound, Keeps
  <2>2. CASE ~(i = None \/ Useless(i))
    <3> DEFINE x == RemoveContact(s, TRUE, FALSE)
               y == [x EXCEPT !.inst = <<c>>]
    <3>1. /\ i.sub \in Sub /\ i.asked \in BOOLEAN /\ i.named \in BOOLEAN
          /\ i.groups \in SUBSET Group
      BY <2>2 DEF Item, Sub
    <3>2. c \in Contact
      BY <3>1, NewIs
    <3>3. Keeps(s, x)
      BY <1>1, RowsGo
    <3>4. s1 = y
      BY <2>2
    <3> HIDE DEF c, x, s1
    <3>5. <<c>> \in Seq(Contact) /\ <<c>> # <<>>
      BY <3>2
    <3>6. x \in Gui
      BY <3>3 DEF Keeps, Ok
    <3>7. /\ y \in Gui /\ y.removal = x.removal /\ y.inst # <<>>
          /\ y.ev = x.ev /\ y.chat = x.chat /\ y.control = x.control
          /\ y.known = x.known /\ y.unread = x.unread
      BY <3>5, <3>6 DEF Gui
    <3> HIDE DEF y
    <3>8. Keeps(s, y) /\ Listed(y)
      BY <3>3, <3>7 DEF Keeps, Ok, Listed, Awaits
    <3> QED
      BY <3>4, <3>8
  <2> QED
    BY <2>1, <2>2
<1> HIDE DEF s1
<1>3. Keeps(s, s2) /\ Shown(s2)
  <2>1. CASE Listed(s1)
    <3>1. Keeps(s1, AddRow(s1)) /\ AddRow(s1).rows # {} /\ s2 = AddRow(s1)
      BY <1>2, <2>1, AddsRow DEF Keeps
    <3> QED
      BY <1>2, <3>1, KeepsOn DEF Shown
  <2>2. CASE ~Listed(s1)
    BY <1>2, <2>2
  <2> QED
    BY <2>1, <2>2
<1>4. RosterReceived(s, i) = f[N]
  BY DEF RosterReceived, f, s1
<1> HIDE DEF s2
<1>5. s2 \in P
  BY <1>3, SameRecalls DEF Fired, Sound, Keeps, Ok
<1>6. ASSUME NEW n \in 1 .. N, NEW x \in P PROVE Fire(x, n, s.unread) \in P
  <2>1. n \in Id
    BY DEF Id
  <2> DEFINE y == Fire(x, n, s.unread)
  <2>2. Fired(x, y) /\ (s.unread = {} => y = x)
    BY <2>1, Fires DEF Fired
  <2> HIDE DEF y
  <2>3. Fired(s2, y)
    BY <2>2, RecallsOn DEF Fired
  <2> QED
    BY <2>2, <2>3 DEF Fired, Sound, Ok, y
<1> HIDE DEF P
<1>16. Id = 1 .. N
  BY DEF Id
<1> HIDE DEF N
<1>7. Stays(N, P, F)
  BY <1>6 DEF Stays
<1>8. PICK g \in [0 .. N -> P] : Repeats(N, F, s2, g)
  <2> HIDE DEF F
  <2> QED
    BY <1>1, <1>5, <1>7, RepeatExists
<1>9. g = [n \in 0 .. N |-> IF n = 0 THEN s2 ELSE Fire(g[n - 1], n, s.unread)]
  <2>1. \A n \in 0 .. N : g[n] = IF n = 0 THEN s2 ELSE Fire(g[n - 1], n, s.unread)
    <3> TAKE n \in 0 .. N
    <3>1. CASE n # 0
      <4>1. n \in 1 .. N /\ n - 1 \in 0 .. N
        BY <1>1, <3>1
      <4>2. g[n - 1] \in P
        BY <4>1
      <4> QED
        BY <1>8, <3>1, <4>1, <4>2 DEF Repeats
    <3> QED
      BY <1>8, <3>1 DEF Repeats
  <2> QED
    BY <2>1
<1>10. f = [n \in 0 .. N |-> IF n = 0 THEN s2 ELSE Fire(f[n - 1], n, s.unread)]
  BY <1>9
<1> HIDE DEF f
<1>11. f[0] = s2
  BY <1>1, <1>10
<1>12. ASSUME NEW n \in 1 .. N PROVE f[n] = Fire(f[n - 1], n, s.unread)
  <2>1. n \in 0 .. N /\ n # 0
    BY <1>1
  <2> QED
    BY <1>10, <2>1
<1>13. \A n \in 1 .. N : f[n - 1] \in P => f[n] \in P
  BY <1>6, <1>12
<1>14. f[N] \in P
  BY <1>1, <1>5, <1>11, <1>13, LoopStays
<1>15. Fired(s2, f[N]) /\ (s.unread = {} => f[N] = s2)
  BY <1>14 DEF P
<1>17. ASSUME NEW id \in 1 .. N, Listed(s2), id \in s.unread, id \in f[N].unread
       PROVE  IsQueued(f[N], id)
  <2> DEFINE Q == [n \in 0 .. N |->
                      {x \in P : n >= id /\ id \in x.unread => IsQueued(x, id)}]
  <2>1. \A n \in 0 .. N : f[n] \in Q[n] <=>
            f[n] \in P /\ (n >= id /\ id \in f[n].unread => IsQueued(f[n], id))
    OBVIOUS
  <2> HIDE DEF Q
  <2>2. f[0] \in Q[0]
    BY <1>1, <1>5, <1>11, <2>1
  <2>3. ASSUME NEW n \in 1 .. N, f[n - 1] \in Q[n - 1] PROVE f[n] \in Q[n]
    <3> DEFINE x == f[n - 1]
               y == f[n]
    <3>1. n - 1 \in 0 .. N /\ n \in 0 .. N
      BY <1>1
    <3>2. x \in P /\ (n - 1 >= id /\ id \in x.unread => IsQueued(x, id)) /\ y \in P
      BY <1>13, <2>1, <2>3, <3>1
    <3>3. n >= id => n = id \/ n - 1 >= id
      BY <1>1
    <3>4. y = Fire(x, n, s.unread) /\ n \in Id
      BY <1>12, <1>16
    <3> HIDE DEF x, y
    <3>5. Sound(x) /\ Listed(x)
      BY <1>17, <3>2 DEF P, Fired
    <3>6. /\ Recalls(x, y) /\ y.unread \subseteq x.unread
          /\ n \in s.unread /\ n \in y.unread => IsQueued(y, n)
      BY <3>4, <3>5, Fires DEF Fired
    <3>7. n >= id /\ id \in y.unread => IsQueued(y, id)
      BY <1>17, <3>2, <3>3, <3>6 DEF Recalls
    <3> QED
      BY <2>1, <3>1, <3>2, <3>7 DEF x, y
  <2>4. f[N] \in Q[N]
    BY <1>1, <2>2, <2>3, LoopKeeps
  <2> QED
    BY <1>1, <1>17, <2>1, <2>4
<1> HIDE DEF f
<1>18. s2.unread = s.unread /\ s2.unread \subseteq Id /\ Fine(s, s2)
  BY <1>3, KeepsFine DEF Keeps, Ok, Gui
<1>19. Recalls(s, f[N])
  BY <1>15, <1>18, RecallsOn DEF Fired, Fine
<1>20. Listed(f[N]) => \A id \in f[N].unread : IsQueued(f[N], id)
  BY <1>15, <1>16, <1>17, <1>18 DEF Fired
<1> QED
  BY <1>4, <1>15, <1>18, <1>19, <1>20 DEF Fired, Fine

LEMMA Subscribes ==
    ASSUME NEW s, Sound(s)
    PROVE  LET t == Subscribed(s)
           IN /\ Fine(s, t)
              /\ Listed(s) => Last(t.inst).groups \in SUBSET Group
<1> DEFINE t == Subscribed(s)
<1>1. Ok(s) /\ s \in Gui /\ s.inst \in Seq(Contact)
  BY DEF Sound, Ok, Gui
<1>2. CASE Listed(s)
  <2> DEFINE c == [s.inst[1] EXCEPT !.res = Bare]
             v == [s EXCEPT !.inst[1] = c]
             s1 == RemoveContact(v, TRUE, FALSE)
             kept(d) == [d EXCEPT !.groups = @ \ {NotInRoster}]
             q == [j \in DOMAIN s1.inst |-> kept(s1.inst[j])]
             w == [s1 EXCEPT !.inst = q]
  <2>1. s.inst[1] \in Contact /\ 1 \in 1 .. Len(s.inst)
    BY <1>1, <1>2 DEF Listed
  <2>2. c \in Contact
    <3>1. Bare \in Key
      BY DEF Key
    <3> QED
      BY <2>1, <3>1 DEF Contact
  <2>3. v = [s EXCEPT !.inst[1].res = Bare]
    BY <1>1 DEF Gui
  <2> HIDE DEF c
  <2>4. Relisted(s, v)
    BY <1>1, <2>1, <2>2, OtherInstance
  <2>5. t = AddRow(w)
    <3>1. t = LET x == RemoveContact([s EXCEPT !.inst[1].res = Bare], TRUE, FALSE)
              IN AddRow([x EXCEPT !.inst = [j \in DOMAIN x.inst |-> kept(x.inst[j])]])
      BY <1>2 DEF Subscribed
    <3> HIDE DEF v, kept
    <3> QED
      BY <2>3, <3>1
  <2> HIDE DEF v
  <2>6. Keeps(v, s1) /\ s1.inst = v.inst
    BY <2>4, RowsGo DEF Relisted, Keeps
  <2> HIDE DEF s1, t
  <2>7. Ok(s1) /\ s1.inst \in Seq(Contact) /\ s1.inst # <<>>
    BY <1>2, <2>4, <2>6 DEF Keeps, Ok, Gui, Relisted, Listed
  <2>8. \A j \in DOMAIN s1.inst : /\ kept(s1.inst[j]) \in Contact
                                  /\ kept(s1.inst[j]).groups \in SUBSET Group
    <3> TAKE j \in DOMAIN s1.inst
    <3>1. s1.inst[j] \in Contact
      BY <2>7
    <3> QED
      BY <3>1 DEF Contact
  <2> HIDE DEF kept
  <2>9. /\ q \in Seq(Contact) /\ Len(q) = Len(s1.inst)
        /\ \A j \in 1 .. Len(q) : q[j].groups \in SUBSET Group
    BY <2>7, <2>8
  <2> HIDE DEF q
  <2>10. q # <<>> /\ Len(q) \in 1 .. Len(q)
    BY <2>7, <2>9
  <2>11. Relisted(s1, w) /\ w.inst = q
    BY <2>7, <2>9, <2>10, OtherList
  <2> HIDE DEF w
  <2>12. Keeps(w, t) /\ t.inst = w.inst /\ t.rows # {}
    BY <2>5, <2>10, <2>11, AddsRow DEF Relisted, Keeps, Listed
  <2>13. Keeps(s, t)
    BY <2>4, <2>6, <2>11, <2>12, KeepsOn DEF Relisted
  <2>14. Last(t.inst).groups \in SUBSET Group
    BY <2>9, <2>10, <2>11, <2>12 DEF Last
  <2> QED
    BY <2>12, <2>13, <2>14, KeepsFine DEF Shown, t
<1>3. CASE ~Listed(s)
  <2> DEFINE i == [Approval EXCEPT !.sub = "subscribe"]
             c == NewContact("online", i)
  <2>1. /\ i.sub \in Sub /\ i.asked \in BOOLEAN /\ i.named \in BOOLEAN
        /\ i.groups \in SUBSET (Group \cup {NotInRoster})
    BY DEF Sub, Approval, Removed
  <2>2. t = AddRow(ListContact(s, c))
    BY <1>3 DEF Subscribed
  <2> HIDE DEF i
  <2>3. c \in Contact
    BY <2>1, NewIs
  <2> HIDE DEF c, t
  <2>4. Keeps(s, t) /\ Shown(t)
    BY <1>1, <1>3, <2>2, <2>3, ListsWithRow DEF Lasts
  <2> QED
    BY <1>3, <2>4, KeepsFine DEF t
<1> QED
  BY <1>2, <1>3

-----------------------------------------------------------------------------
(* What the user does.                                                     *)

LEMMA UserRemoval ==
    ASSUME NEW s, Sound(s), Listed(s), NEW keep \in BOOLEAN
    PROVE  Fine(s, UserRemoves(s, keep))
<1> DEFINE c == Highest(s)
           no == FALSE
           none == {}
           from == "from"
           offline == "offline"
           left == [c EXCEPT !.named = no, !.groups = none, !.sub = from,
                             !.show = offline]
           s1 == RemoveContact(s, FALSE, TRUE)
           n == IndexOf(s1, c.res)
           s2 == IF Listed(s1) THEN [s1 EXCEPT !.inst[n] = left] ELSE s1
           u == AddRow(ListContact(s2, left))
           t == UserRemoves(s, keep)
<1>1. Ok(s) /\ s \in Gui /\ c \in Contact /\ c.res \in Resources(s)
  BY HighestIs DEF Sound, Ok
<1>2. t = IF keep /\ c.sub = "both" THEN u ELSE s1
  BY DEF UserRemoves
<1>3. Keeps(s, s1) /\ Shown(s1) /\ s1.inst \in {s.inst, <<>>}
  BY <1>1, RowsGo
<1> HIDE DEF s1, t, c
<1>4. no \in BOOLEAN /\ none \in SUBSET (Group \cup {NotInRoster}) /\ from \in Sub
      /\ offline \in {"online", "offline", "other"}
  BY DEF Sub
<1>5. offline = "offline"
  OBVIOUS
<1> HIDE DEF no, none, from, offline
<1>6. left \in Contact /\ left.show = "offline"
  BY <1>1, <1>4, <1>5 DEF Contact
<1> HIDE DEF left
<1>7. Keeps(s1, s2) /\ Lasts(s2, left)
  <2>1. CASE Listed(s1)
    <3>1. s1 \in Gui /\ s1.inst \in Seq(Contact) /\ Ok(s1)
      BY <1>3 DEF Keeps, Ok, Gui
    <3>2. c.res \in Resources(s1)
      BY <1>1, <1>3, <2>1 DEF Listed, Resources
    <3>3. n \in 0 .. Len(s1.inst) /\ n # 0
      BY <3>1, <3>2, IndexIs
    <3>4. n \in 1 .. Len(s1.inst)
      BY <3>1, <3>3
    <3> HIDE DEF n
    <3> DEFINE w == [s1 EXCEPT !.inst[n] = left]
    <3>5. s2 = w
      BY <2>1
    <3>6. Relisted(s1, s2) /\ s2.inst = [s1.inst EXCEPT ![n] = left]
      <4>1. Relisted(s1, w) /\ w.inst = [s1.inst EXCEPT ![n] = left]
        BY <1>6, <3>1, <3>4, OtherInstance
      <4> HIDE DEF w, s2
      <4> QED
        BY <3>5, <4>1
    <3> HIDE DEF w, s2
    <3>7. Lasts(s2, left)
      <4>1. Len(s2.inst) = Len(s1.inst) /\ Len(s1.inst) \in Nat /\ Len(s1.inst) # 0
        BY <3>1, <3>4, <3>6
      <4>2. CASE Len(s2.inst) > 1
        BY <4>2 DEF Lasts
      <4>3. CASE ~(Len(s2.inst) > 1)
        <5>1. Len(s2.inst) = 1
          BY <4>1, <4>3, OnlyOne, Zenon
        <5>2. n = 1
          <6>1. Len(s1.inst) = 1 /\ n \in 1 .. 1
            BY <3>4, <4>1, <5>1
          <6> QED
            BY <6>1
        <5>3. s2.inst[1] = left
          BY <3>1, <3>4, <3>6, <5>2
        <5> QED
          BY <1>6, <5>1, <5>3 DEF Lasts
      <4> QED
        BY <4>2, <4>3
    <3> QED
      BY <3>6, <3>7 DEF Relisted
  <2>2. CASE ~Listed(s1)
    <3>1. s2 = s1
      BY <2>2
    <3> QED
      BY <1>3, <2>2, <3>1 DEF Keeps, Lasts
  <2> QED
    BY <2>1, <2>2
<1> HIDE DEF s2
<1>8. Keeps(s2, u) /\ Shown(u)
  BY <1>6, <1>7, ListsWithRow DEF Keeps
<1> HIDE DEF u
<1>9. Keeps(s, t) /\ Shown(t)
  BY <1>2, <1>3, <1>7, <1>8, KeepsOn
<1> QED
  BY <1>9, KeepsFine DEF t

LEMMA AsksFor ==
    ASSUME NEW s, Sound(s), NEW named \in BOOLEAN, NEW groups \in SUBSET Group
    PROVE  Fine(s, Asks(s, named, groups))
<1> DEFINE fresh == [sub |-> "subscribe", asked |-> FALSE, named |-> named,
                     groups |-> groups]
           c == NewContact("other", fresh)
           i == IndexOf(s, Highest(s).res)
           s1 == RemoveContact(s, TRUE, FALSE)
           d == [s.inst[i] EXCEPT !.groups = groups, !.named = @ \/ named]
           w == [s1 EXCEPT !.inst[i] = d]
           t == Asks(s, named, groups)
<1>1. Ok(s) /\ s \in Gui
  BY DEF Sound, Ok
<1>2. t = IF ~Listed(s) THEN AddRow(ListContact(s, c))
          ELSE IF NotInRoster \notin ShownGroups(Highest(s)) THEN s
          ELSE AddRow(w)
  BY DEF Asks
<1> HIDE DEF t
<1>3. CASE ~Listed(s)
  <2>1. /\ fresh.sub \in Sub /\ fresh.asked \in BOOLEAN /\ fresh.named \in BOOLEAN
        /\ fresh.groups \in SUBSET (Group \cup {NotInRoster})
    BY DEF Sub
  <2> HIDE DEF fresh
  <2>2. c \in Contact
    BY <2>1, NewIs
  <2> HIDE DEF c
  <2>3. Lasts(s, c)
    BY <1>3 DEF Lasts
  <2>4. Keeps(s, t) /\ Shown(t)
    BY <1>1, <1>2, <1>3, <2>2, <2>3, ListsWithRow
  <2> QED
    BY <2>4, KeepsFine DEF t
<1>4. CASE Listed(s) /\ NotInRoster \notin ShownGroups(Highest(s))
  BY <1>2, <1>4, SameRecalls DEF t, Fine
<1>5. CASE Listed(s) /\ NotInRoster \in ShownGroups(Highest(s))
  <2>1. i \in 0 .. Len(s.inst) /\ i # 0 /\ Len(s.inst) \in Nat
    BY <1>1, <1>5, HighestIs, IndexIs, Instances
  <2>2. Keeps(s, s1) /\ s1.inst = s.inst
    BY <1>1, RowsGo
  <2> HIDE DEF s1
  <2>3. i \in 1 .. Len(s1.inst) /\ s1 \in Gui /\ s1.inst \in Seq(Contact) /\ Ok(s1)
    BY <2>1, <2>2 DEF Keeps, Ok, Gui
  <2> HIDE DEF i
  <2>4. d \in Contact
    <3> DEFINE b == s.inst[i].named \/ named
    <3>1. s.inst[i] \in Contact
      BY <2>2, <2>3
    <3>2. d = [s.inst[i] EXCEPT !.groups = groups, !.named = b]
      OBVIOUS
    <3>3. b \in BOOLEAN
      OBVIOUS
    <3> HIDE DEF b, d
    <3> QED
      BY <3>1, <3>2, <3>3 DEF Contact
  <2> HIDE DEF d
  <2>5. Relisted(s1, w)
    BY <2>3, <2>4, OtherInstance
  <2> HIDE DEF w
  <2>6. Listed(w) /\ Ok(w)
    BY <1>5, <2>2, <2>5 DEF Relisted, Keeps, Listed
  <2>7. Keeps(w, t) /\ t.inst = w.inst /\ t.rows # {}
    BY <1>2, <1>5, <2>6, AddsRow
  <2>8. Keeps(s, t)
    BY <2>2, <2>5, <2>7, KeepsOn DEF Relisted
  <2> QED
    BY <2>7, <2>8, KeepsFine DEF Shown, t
<1> QED
  BY <1>3, <1>4, <1>5

\* No session has its control at an address without a chat
LEMMA ClosedIsFree ==
    ASSUME NEW s, Attached(s), NEW k \in Key, s.chat[k] = Closed, NEW t
    PROVE  Free(s, k, t)
BY NamesAssumption DEF Attached, Free

LEMMA OpensFirst ==
    ASSUME NEW s, Sound(s), NEW k \in Key, NEW i \in 1 .. Len(s.ev[k])
    PROVE  Fine(s, OpenFirst(s, k, s.ev[k][i]))
<1> DEFINE e == s.ev[k][i]
           t == OpenFirst(s, k, e)
<1>1. e \in Event /\ (Wired(s) => e \in EventAt(k))
  <2>1. s.ev \in [Key -> Seq(Event)]
    BY DEF Sound, Ok, Gui
  <2>2. Wired(s) => s.ev[k] \in Seq(EventAt(k))
    BY DEF Wired, Own
  <2> QED
    BY <2>1, <2>2
<1> HIDE DEF e
<1>2. CASE e.type = "normal"
  <2>1. t = RemoveEvent(s, k, e)
    BY <1>2 DEF OpenFirst
  <2> QED
    BY <1>2, <2>1, DropsNormal DEF t, e
<1>3. CASE e.type # "normal" /\ s.control[e.session] = None /\ s.chat[k] = Closed
  <2>1. t = NewChat(s, k, e.session)
    BY <1>3 DEF OpenFirst
  <2>2. e.type = "chat" /\ e.session \in Thread
    BY <1>1, <1>3 DEF Event
  <2>3. Wired(s) => Reads(s, k) /\ Free(s, k, e.session) /\ Mine(k, e.session)
    <3>1. k \in Res => k # Bare
      BY NamesAssumption
    <3> QED
      BY <1>1, <1>3, <2>2, <3>1, ClosedIsFree DEF Wired, Reads, EventAt, Mine
  <2> HIDE DEF t
  <2>4. Fine(s, t)
    BY <2>1, <2>2, <2>3, OpensChat DEF Fine
  <2> QED
    BY <2>4 DEF t, e
<1>4. CASE e.type # "normal" /\ ~(s.control[e.session] = None /\ s.chat[k] = Closed)
  BY <1>4, SameRecalls DEF OpenFirst, Fine, t, e
<1> QED
  BY <1>2, <1>3, <1>4

LEMMA OpensFromTray ==
    ASSUME NEW s, Sound(s), NEW k \in Key, NEW i \in 1 .. Len(s.ev[k])
    PROVE  Fine(s, OpenFromTray(s, k, s.ev[k][i]))
<1> DEFINE e == s.ev[k][i]
           higher == k # Bare /\ Highest(s).res = k /\ s.chat[Bare] = Closed
           t == OpenFromTray(s, k, e)
<1>1. /\ e \in Event /\ (Wired(s) => e \in EventAt(k))
      /\ s.ev[k] \in Seq(Normal) => e.type = "normal"
  <2>1. s.ev \in [Key -> Seq(Event)]
    BY DEF Sound, Ok, Gui
  <2>2. Wired(s) => s.ev[k] \in Seq(EventAt(k))
    BY DEF Wired, Own
  <2>3. s.ev[k] \in Seq(Normal) => e \in Normal
    OBVIOUS
  <2> QED
    BY <2>1, <2>2, <2>3 DEF Normal
<1>2. Bare \in Key /\ Bare \notin Res /\ (k # Bare => k \in Res)
  BY NamesAssumption DEF Key
<1>3. t = IF e.type = "normal" THEN RemoveEvent(s, k, e)
          ELSE IF s.control[e.session] # None THEN s
          ELSE IF higher THEN NewChat(ChangeJid(s, k), Bare, e.session)
          ELSE NewChat(s, k, e.session)
  BY DEF OpenFromTray
<1> HIDE DEF e, t
<1>4. e.type # "normal" => e.type = "chat" /\ e.session \in Thread
  BY <1>1 DEF Event
<1>5. CASE e.type = "normal"
  BY <1>3, <1>5, DropsNormal DEF t, e
<1>6. CASE e.type # "normal" /\ s.control[e.session] # None
  BY <1>3, <1>6, SameRecalls DEF Fine, t, e
<1>7. CASE e.type # "normal" /\ s.control[e.session] = None /\ higher
  <2> DEFINE x == ChangeJid(s, k)
  <2>1. t = NewChat(x, Bare, e.session)
    BY <1>3, <1>7
  <2>2. /\ Sound(x) /\ x.chat = s.chat /\ x.control = s.control /\ Recalls(s, x)
        /\ Attached(s) /\ Own(s) => Attached(x) /\ Own(x)
        /\ Awaits(s) => Awaits(x)
    BY <1>2, <1>7, Joined
  <2> HIDE DEF x
  <2>3. Wired(s) => /\ Reads(x, Bare) /\ Mine(Bare, e.session)
                    /\ Free(x, Bare, e.session)
    BY <1>2, <1>7, <2>2, ClosedIsFree DEF Wired, Reads, Mine
  <2>4. Fine(s, t)
    <3>1. /\ Sound(t) /\ Recalls(x, t) /\ (Awaits(x) => Awaits(t))
          /\ Wired(s) => Wired(t)
      BY <1>2, <1>4, <1>7, <2>1, <2>2, <2>3, OpensChat
    <3>2. Recalls(s, t)
      BY <2>2, <3>1, RecallsOn
    <3> QED
      BY <2>2, <3>1, <3>2 DEF Fine
  <2> QED
    BY <2>4 DEF t, e
<1>8. CASE e.type # "normal" /\ s.control[e.session] = None /\ ~higher
  <2>1. t = NewChat(s, k, e.session)
    BY <1>3, <1>8
  <2>2. ASSUME Wired(s)
        PROVE  Reads(s, k) /\ Mine(k, e.session) /\ Free(s, k, e.session)
    <3>1. Reads(s, k)
      BY <2>2 DEF Wired, Reads
    <3>2. Mine(k, e.session)
      BY <1>1, <1>2, <1>4, <1>8, <2>2 DEF Mine, EventAt
    <3>3. CASE k = Bare
      <4>1. s.chat[Bare] = Closed
        BY <1>1, <1>8, <2>2, <3>3 DEF Wired, Read
      <4> QED
        BY <2>2, <3>1, <3>2, <3>3, <4>1, ClosedIsFree DEF Wired
    <3>4. CASE k # Bare
      <4>1. e.session = Of(k) /\ s.chat[k] \in {Closed, None, Of(k)}
        BY <1>1, <1>2, <1>4, <1>8, <2>2, <3>4 DEF EventAt, Wired, Own
      <4>2. Free(s, k, e.session)
        <5> SUFFICES ASSUME NEW u \in Thread, u # e.session, s.control[u] = k PROVE FALSE
          BY DEF Free
        <5>1. k # None
          BY NamesAssumption
        <5>2. s.chat[k] = u
          BY <2>2, <5>1 DEF Wired, Attached
        <5> QED
          BY <4>1, <5>2, NamesAssumption
      <4> QED
        BY <3>1, <3>2, <4>2
    <3> QED
      BY <3>3, <3>4
  <2>3. Fine(s, t)
    BY <1>4, <1>8, <2>1, <2>2, OpensChat DEF Fine
  <2> QED
    BY <2>3 DEF t, e
<1> QED
  BY <1>5, <1>6, <1>7, <1>8

LEMMA FirstIs ==
    ASSUME NEW s, Sound(s), Pending(s)
    PROVE  FirstKey(s) \in Key /\ 1 \in 1 .. Len(s.ev[FirstKey(s)])
<1>1. s \in Gui /\ s.ev \in [Key -> Seq(Event)] /\ s.inst \in Seq(Contact) /\ Bare \in Key
  BY DEF Sound, Ok, Gui, Key
<1>2. \A k \in Key : s.ev[k] # <<>> => 1 \in 1 .. Len(s.ev[k])
  <2> TAKE k \in Key
  <2>1. s.ev[k] \in Seq(Event)
    BY <1>1
  <2> QED
    BY <2>1
<1>3. CASE s.ev[Bare] # <<>>
  BY <1>1, <1>2, <1>3 DEF FirstKey
<1>4. CASE s.ev[Bare] = <<>>
  <2> DEFINE T == {i \in 1 .. Len(s.inst) : s.ev[s.inst[i].res] # <<>>}
             n == IF T # {} THEN Min(T) ELSE 0
  <2>1. FirstKey(s) = s.inst[n].res
    BY <1>4 DEF FirstKey, SelectInSeq
  <2>2. T # {} /\ T \subseteq Nat
    <3>1. PICK k \in Resources(s) : s.ev[k] # <<>>
      BY <1>4 DEF Pending
    <3>2. PICK i \in 1 .. Len(s.inst) : s.inst[i].res = k
      BY <1>1 DEF Resources
    <3>3. i \in T
      BY <3>1, <3>2
    <3> QED
      BY <3>3
  <2>3. n \in T
    <3> HIDE DEF T
    <3> QED
      BY <2>2, MinIs
  <2>4. n \in 1 .. Len(s.inst) /\ s.ev[s.inst[n].res] # <<>>
    BY <2>3
  <2> HIDE DEF n
  <2>5. s.inst[n].res \in Key
    <3>1. s.inst[n] \in Contact
      BY <1>1, <2>4
    <3> QED
      BY <3>1 DEF Contact
  <2> QED
    BY <1>2, <2>1, <2>4, <2>5
<1> QED
  BY <1>3, <1>4

LEMMA Taken ==
    ASSUME NEW s, Sound(s), NEW k \in Key, NEW t \in Takes(s, k)
    PROVE  t \in Thread \cup {None} /\ Mine(k, t)
<1>1. s.known \subseteq Thread
  BY DEF Sound, Ok, Gui
<1>2. t = None \/ (t \in Thread /\ (k # Bare => t[1] = k))
  BY <1>1 DEF Takes, Orphans
<1>3. ASSUME t \in Thread, k \in Res, t[1] = k PROVE t = Of(k)
  BY <1>3, NamesAssumption DEF Thread, Of
<1> QED
  BY <1>2, <1>3, NamesAssumption DEF Mine

-----------------------------------------------------------------------------
(* The steps.                                                              *)

\* All but the first conjunct of TypeOK
Around ==
    /\ item \in Item \cup {None}
    /\ pushes \in Seq(Push)
    /\ told \in [Res -> Prio \cup {None}]
    /\ online \in BOOLEAN
    /\ messages \in 0 .. MaxMessages /\ acts \in 0 .. MaxActs

\* What holds of the whole: that sessions and chats fit needs that a connection
\* that is lost does not come back
Whole ==
    /\ Around /\ Sound(gui)
    /\ Awaits(gui)
    /\ ~Reconnects => online /\ Wired(gui)

LEMMA MessageFine ==
    ASSUME Whole, MessageArrives
    PROVE  Fine(gui, gui')
<1>1. PICK r \in Res, type \in {"chat", "normal"} :
          gui' = Received(gui, r, type, messages + 1)
  BY DEF MessageArrives
<1>2. messages + 1 \in Id
  BY RosterAssumption DEF Whole, Around, MessageArrives, Id
<1> DEFINE id == messages + 1
<1> HIDE DEF id
<1>3. id \in Id /\ gui' = Received(gui, r, type, id)
  BY <1>1, <1>2 DEF id
<1>4. Sound(gui)
  BY DEF Whole
<1> QED
  BY <1>3, <1>4, Receives DEF Fine

LEMMA FileFine ==
    ASSUME Whole, FileEvent
    PROVE  Fine(gui, gui')
<1>1. PICK request \in BOOLEAN :
          LET s == IF request /\ ~Listed(gui) THEN AddNotInRoster(gui, Bare) ELSE gui
              s1 == AddEvent(s, Bare, [type |-> "normal", session |-> None,
                                       id |-> messages + 1])
          IN gui' = IF Listed(s1) \/ s.ev[Bare] # <<>> THEN s1
                    ELSE AddNotInRoster(s1, Bare)
  BY DEF FileEvent
<1> DEFINE id == messages + 1
           e == [type |-> "normal", session |-> None, id |-> id]
           s == IF request /\ ~Listed(gui) THEN AddNotInRoster(gui, Bare) ELSE gui
           s1 == AddEvent(s, Bare, e)
<1>2. id \in Id
  BY RosterAssumption DEF Whole, Around, FileEvent, Id
<1>3. gui' = IF Listed(s1) \/ s.ev[Bare] # <<>> THEN s1 ELSE AddNotInRoster(s1, Bare)
  BY <1>1
<1> HIDE DEF id
<1>4. e \in Event /\ e.type = "normal" /\ Bare \in Key /\ EventAt(Bare) = Event
  BY <1>2 DEF Event, Key, EventAt
<1>5. Sound(gui)
  BY DEF Whole
<1>6. Fine(gui, s)
  <2>1. CASE request /\ ~Listed(gui)
    <3> DEFINE x == AddNotInRoster(gui, Bare)
    <3>1. Keeps(gui, x) /\ Shown(x)
      BY <1>4, <1>5, <2>1, AddsNotInRoster DEF Sound
    <3>2. s = x
      BY <2>1
    <3> HIDE DEF x, s
    <3> QED
      BY <3>1, <3>2, KeepsFine
  <2>2. CASE ~(request /\ ~Listed(gui))
    <3>1. s = gui
      BY <2>2
    <3> HIDE DEF s
    <3> QED
      BY <1>5, <3>1, SameFine
  <2> QED
    BY <2>1, <2>2
<1> HIDE DEF s, e
<1>7. Fine(s, s1)
  BY <1>4, <1>6, AddsEvent DEF Fine
<1> HIDE DEF s1
<1>8. Fine(gui, s1)
  BY <1>6, <1>7, FineOn
<1>9. CASE Listed(s1) \/ s.ev[Bare] # <<>>
  BY <1>3, <1>8, <1>9
<1>10. CASE ~(Listed(s1) \/ s.ev[Bare] # <<>>)
  <2>1. Keeps(s1, AddNotInRoster(s1, Bare)) /\ Shown(AddNotInRoster(s1, Bare))
    BY <1>4, <1>8, <1>10, AddsNotInRoster DEF Fine, Sound
  <2>2. Fine(s1, AddNotInRoster(s1, Bare))
    BY <2>1, KeepsFine
  <2> QED
    BY <1>3, <1>8, <1>10, <2>2, FineOn
<1> QED
  BY <1>9, <1>10

LEMMA PresenceFine ==
    ASSUME Whole, Presence
    PROVE  Fine(gui, gui')
<1>1. PICK r \in Res, p \in Prio \cup {None} :
          LET s == IF ~Listed(gui) THEN gui
                   ELSE IF p = None THEN Notify(gui, r, "offline", 0)
                   ELSE Notify(gui, r, "online", p)
          IN gui' = IF p = None
                    THEN [s EXCEPT !.known = @ \ {Logged(id) : id \in Id}] ELSE s
  BY DEF Presence
<1> DEFINE s == IF ~Listed(gui) THEN gui
                ELSE IF p = None THEN Notify(gui, r, "offline", 0)
                ELSE Notify(gui, r, "online", p)
           known == s.known \ {Logged(id) : id \in Id}
           t == [s EXCEPT !.known = known]
<1>2. Sound(gui)
  BY DEF Whole
<1>3. Fine(gui, s)
  <2>1. CASE ~Listed(gui)
    BY <1>2, <2>1, SameFine
  <2>2. CASE Listed(gui) /\ p = None
    <3>1. 0 \in Prio
      BY DEF Prio
    <3> QED
      BY <1>2, <2>2, <3>1, Notifies DEF Fine
  <2>3. CASE Listed(gui) /\ p # None
    BY <1>2, <2>3, Notifies DEF Fine
  <2> QED
    BY <2>1, <2>2, <2>3
<1>4. gui' = IF p = None THEN t ELSE s
  BY <1>1
<1> HIDE DEF s
<1>5. s \in Gui /\ known \subseteq Thread
  BY <1>3 DEF Fine, Sound, Ok, Gui
<1> HIDE DEF known
<1>6. /\ t \in Gui /\ t.inst = s.inst /\ t.rows = s.rows /\ t.removal = s.removal
      /\ t.ev = s.ev /\ t.chat = s.chat /\ t.control = s.control /\ t.unread = s.unread
  BY <1>5 DEF Gui
<1> HIDE DEF t
<1>7. Fine(s, t)
  BY <1>3, <1>6, WiredOn, SameRecalls DEF Fine, Sound, Ok, Shown, Listed, Awaits
<1> QED
  BY <1>3, <1>4, <1>7, FineOn

LEMMA PushFine ==
    ASSUME Whole, PushArrives
    PROVE  Fine(gui, gui')
<1>1. Sound(gui) /\ Head(pushes) \in Push
  BY DEF Whole, Around, PushArrives
<1>2. CASE Head(pushes) = Approval
  BY <1>1, <1>2, Subscribes DEF PushArrives, Fine
<1>3. CASE Head(pushes) # Approval
  BY <1>1, <1>3, TakesInfo DEF PushArrives, Fine, Push
<1> QED
  BY <1>2, <1>3

LEMMA LoseFine ==
    ASSUME Whole, Lose
    PROVE  Fine(gui, gui')
<1>1. Sound(gui) /\ Ok(gui)
  BY DEF Whole, Sound
<1>2. Relisted(gui, gui')
  BY <1>1, GoneOffline DEF Lose
<1> QED
  BY <1>1, <1>2, RelistedFine

LEMMA ReconnectFine ==
    ASSUME Whole, Reconnect
    PROVE  /\ Sound(gui') /\ Recalls(gui, gui') /\ (Awaits(gui) => Awaits(gui'))
           /\ Listed(gui') => \A id \in gui'.unread : IsQueued(gui', id)
BY TakesRoster DEF Whole, Around, Reconnect

LEMMA ActivateFine ==
    ASSUME Whole, Activate
    PROVE  Fine(gui, gui')
<1>1. Sound(gui)
  BY DEF Whole
<1>2. CASE Pending(gui)
  <2> DEFINE k == FirstKey(gui)
  <2>1. k \in Key /\ 1 \in 1 .. Len(gui.ev[k])
    BY <1>1, <1>2, FirstIs
  <2>2. gui' = OpenFirst(gui, k, gui.ev[k][1])
    BY <1>2 DEF Activate
  <2> HIDE DEF k
  <2> QED
    BY <1>1, <2>1, <2>2, OpensFirst DEF Fine
<1>3. CASE ~Pending(gui)
  <2>1. gui.chat[Bare] = Closed
    BY <1>3 DEF Activate
  <2>2. PICK t \in Takes(gui, Bare) : gui' = NewChat(gui, Bare, t)
    BY <1>3 DEF Activate
  <2>3. Bare \in Key
    BY DEF Key
  <2>4. t \in Thread \cup {None} /\ Mine(Bare, t)
    BY <1>1, <2>3, Taken
  <2>5. Wired(gui) => Reads(gui, Bare) /\ Free(gui, Bare, t)
    BY <2>1, <2>3, ClosedIsFree DEF Wired, Reads
  <2> QED
    BY <1>1, <2>2, <2>3, <2>4, <2>5, OpensChat DEF Fine
<1> QED
  BY <1>2, <1>3

LEMMA TrayFine ==
    ASSUME Whole, Tray
    PROVE  Fine(gui, gui')
<1>1. PICK k \in Key, type \in {"chat", "normal"} :
          LET i == SelectInSeq(gui.ev[k], LAMBDA e : e.type = type)
          IN i # 0 /\ gui' = OpenFromTray(gui, k, gui.ev[k][i])
  BY DEF Tray
<1> DEFINE T == {j \in 1 .. Len(gui.ev[k]) : gui.ev[k][j].type = type}
           i == IF T # {} THEN Min(T) ELSE 0
<1>2. i # 0 /\ gui' = OpenFromTray(gui, k, gui.ev[k][i])
  BY <1>1 DEF SelectInSeq
<1>3. T # {} /\ T \subseteq Nat
  BY <1>2
<1>4. i \in T
  <2> HIDE DEF T
  <2> QED
    BY <1>3, MinIs
<1>5. i \in 1 .. Len(gui.ev[k]) /\ Sound(gui)
  BY <1>4 DEF Whole
<1> HIDE DEF i
<1> QED
  BY <1>2, <1>5, OpensFromTray DEF Fine

LEMMA StartFine ==
    ASSUME Whole, StartChat
    PROVE  Fine(gui, gui')
<1>1. PICK k \in Starts :
          LET s == IF k \in Resources(gui) \/ (k = Bare /\ Listed(gui)) THEN gui
                   ELSE AddNotInRoster(gui, k)
          IN /\ s.chat[k] = Closed
             /\ \E t \in Takes(s, k) : gui' = NewChat(s, k, t)
  BY DEF StartChat
<1> DEFINE there == k \in Resources(gui) \/ (k = Bare /\ Listed(gui))
           s == IF there THEN gui ELSE AddNotInRoster(gui, k)
<1>2. s.chat[k] = Closed /\ \E t \in Takes(s, k) : gui' = NewChat(s, k, t)
  BY <1>1
<1>3. k \in Key /\ Sound(gui)
  BY NamesAssumption DEF Whole
<1>4. Fine(gui, s)
  <2>1. CASE there
    <3>1. s = gui
      BY <2>1
    <3> HIDE DEF s
    <3> QED
      BY <1>3, <3>1, SameFine
  <2>2. CASE ~there
    <3> DEFINE x == AddNotInRoster(gui, k)
    <3>1. Keeps(gui, x) /\ Shown(x)
      BY <1>3, <2>2, AddsNotInRoster DEF Sound
    <3>2. s = x
      BY <2>2
    <3> HIDE DEF x, s
    <3> QED
      BY <3>1, <3>2, KeepsFine
  <2> QED
    BY <2>1, <2>2
<1> HIDE DEF s
<1>5. PICK t \in Takes(s, k) : gui' = NewChat(s, k, t)
  BY <1>2
<1>6. t \in Thread \cup {None} /\ Mine(k, t)
  BY <1>3, <1>4, Taken DEF Fine
<1>7. Wired(s) => Reads(s, k) /\ Free(s, k, t)
  BY <1>2, <1>3, ClosedIsFree DEF Wired, Reads
<1>8. Fine(s, gui')
  BY <1>3, <1>4, <1>5, <1>6, <1>7, OpensChat DEF Fine
<1> QED
  BY <1>4, <1>8, FineOn

\* Only events of the address whose chat is closed go
LEMMA CloseStep ==
    ASSUME Whole, Close
    PROVE  /\ Sound(gui') /\ (Wired(gui) => Wired(gui'))
           /\ gui'.unread = gui.unread /\ (Awaits(gui) => Awaits(gui'))
           /\ \A id : IsQueued(gui, id) => IsQueued(gui', id) \/ ClosedOver(id)
<1>1. PICK k \in Key : gui.chat[k] # Closed /\ gui' = CloseChat(gui, k)
  BY DEF Close
<1>2. Sound(gui)
  BY DEF Whole
<1>3. /\ Sound(gui') /\ (Wired(gui) => Wired(gui'))
      /\ gui'.unread = gui.unread /\ gui'.chat[k] = Closed
      /\ Awaits(gui) => Awaits(gui')
      /\ \A h \in Key \ {k} : gui'.ev[h] = gui.ev[h]
  BY <1>1, <1>2, ClosesChat
<1>4. ASSUME NEW id, IsQueued(gui, id) PROVE IsQueued(gui', id) \/ ClosedOver(id)
  <2>1. PICK h \in Key : Waits(gui, h, id)
    BY <1>4 DEF IsQueued
  <2>2. CASE h # k
    <3>1. Waits(gui', h, id)
      BY <1>3, <2>1, <2>2 DEF Waits
    <3> QED
      BY <3>1 DEF IsQueued
  <2>3. CASE h = k /\ (Reconnects \/ k \in Res)
    BY <1>1, <1>3, <2>1, <2>3 DEF ClosedOver
  <2>4. CASE h = k /\ ~(Reconnects \/ k \in Res)
    <3>1. k = Bare
      BY <2>4 DEF Key
    <3>2. gui.ev[Bare] \in Seq(Normal)
      BY <1>1, <2>4, <3>1 DEF Whole, Wired, Read
    <3>3. PICK i \in DOMAIN gui.ev[Bare] : gui.ev[Bare][i].type = "chat"
      BY <2>1, <2>4, <3>1 DEF Waits
    <3>4. gui.ev[Bare][i] \in Normal
      BY <3>2, <3>3
    <3> QED
      BY <3>3, <3>4 DEF Normal
  <2> QED
    BY <2>2, <2>3, <2>4
<1> QED
  BY <1>3, <1>4

LEMMA UserFine ==
    ASSUME Whole, RemoveByUser \/ Request
    PROVE  Fine(gui, gui')
<1>1. Sound(gui)
  BY DEF Whole
<1>3. CASE RemoveByUser
  <2>1. PICK checked \in Removes :
            gui' = UserRemoves(gui, checked /\ Highest(gui).sub # "to")
    BY <1>3 DEF RemoveByUser
  <2>2. Listed(gui)
    BY <1>3 DEF RemoveByUser
  <2> DEFINE keep == checked /\ Highest(gui).sub # "to"
  <2>3. keep \in BOOLEAN /\ gui' = UserRemoves(gui, keep)
    BY <2>1
  <2> HIDE DEF keep
  <2> QED
    BY <1>1, <2>2, <2>3, UserRemoval DEF Fine
<1>4. CASE Request
  <2>1. PICK named \in BOOLEAN, groups \in {{}} \cup {{g} : g \in Group} :
            gui' = Asks(gui, named, groups)
    BY <1>4 DEF Request
  <2>2. groups \in SUBSET Group
    OBVIOUS
  <2> QED
    BY <1>1, <2>1, <2>2, AsksFor DEF Fine
<1> QED
  BY <1>3, <1>4

LEMMA Served ==
    ASSUME pushes \in Seq(Push), NEW i \in Item \cup {None}, NEW sent \in Seq(Push),
           Serve(i, sent)
    PROVE  item' \in Item \cup {None} /\ pushes' \in Seq(Push)
BY DEF Serve

LEMMA AroundStep ==
    ASSUME Whole, Next
    PROVE  Around' /\ (~Reconnects => online')
<1>1. /\ item \in Item \cup {None} /\ pushes \in Seq(Push)
      /\ told \in [Res -> Prio \cup {None}] /\ online \in BOOLEAN
      /\ messages \in 0 .. MaxMessages /\ acts \in 0 .. MaxActs
      /\ MaxMessages \in Nat /\ MaxActs \in Nat
      /\ ~Reconnects => online
  BY RosterAssumption DEF Whole, Around
<1>2. Act => acts' \in 0 .. MaxActs
  BY <1>1 DEF Act
<1>3. messages < MaxMessages => messages + 1 \in 0 .. MaxMessages
  BY <1>1
<1>4. Removed \in Push /\ Approval \in Push /\ \A i \in Item : i \in Push
  BY DEF Push
<1>5. CASE MessageArrives
  BY <1>1, <1>3, <1>5 DEF MessageArrives, Around
<1>6. CASE FileEvent
  BY <1>1, <1>3, <1>6 DEF FileEvent, Around
<1>7. CASE Presence
  <2>1. told' \in [Res -> Prio \cup {None}]
    BY <1>1, <1>7 DEF Presence
  <2> QED
    BY <1>1, <1>2, <1>7, <2>1 DEF Presence, Around
<1>8. CASE PushArrives
  <2>1. Tail(pushes) \in Seq(Push)
    BY <1>1, <1>8 DEF PushArrives
  <2>2. CASE Head(pushes) = Approval /\ Listed(gui) /\ item # None
    <3> DEFINE i == [item EXCEPT !.groups = Last(gui'.inst).groups]
    <3>1. Last(gui'.inst).groups \in SUBSET Group
      BY <1>8, <2>2, Subscribes DEF PushArrives, Whole
    <3>2. i \in Item
      BY <1>1, <2>2, <3>1 DEF Item
    <3>3. item' = i /\ pushes' = Append(Tail(pushes), i)
      BY <1>8, <2>2 DEF PushArrives
    <3> HIDE DEF i
    <3>4. item' \in Item /\ pushes' \in Seq(Push)
      BY <1>4, <2>1, <3>2, <3>3
    <3> QED
      BY <1>1, <1>8, <3>4 DEF PushArrives, Around
  <2>3. CASE ~(Head(pushes) = Approval /\ Listed(gui) /\ item # None)
    <3>1. item' = item /\ pushes' = Tail(pushes)
      BY <1>8, <2>3 DEF PushArrives
    <3> QED
      BY <1>1, <1>8, <2>1, <3>1 DEF PushArrives, Around
  <2> QED
    BY <2>2, <2>3
<1>9. CASE Approve
  <2> DEFINE i == [item EXCEPT !.asked = FALSE, !.sub = IF @ = "from" THEN "both" ELSE "to"]
             no == FALSE
             sub == IF item.sub = "from" THEN "both" ELSE "to"
             j == [item EXCEPT !.asked = no, !.sub = sub]
  <2>1. item \in Item /\ Serve(i, <<Approval, i>>)
    BY <1>1, <1>9 DEF Approve
  <2>2. i = j /\ no \in BOOLEAN /\ sub \in {"both", "from", "to", "none"}
    OBVIOUS
  <2> HIDE DEF i, no, sub
  <2>3. i \in Item
    BY <2>1, <2>2 DEF Item
  <2>4. <<Approval, i>> \in Seq(Push)
    BY <1>4, <2>3
  <2>5. item' \in Item \cup {None} /\ pushes' \in Seq(Push)
    BY <1>1, <2>1, <2>3, <2>4, Served
  <2> QED
    BY <1>1, <1>2, <1>9, <2>5 DEF Approve, Around
<1>10. CASE Edit
  <2>1. item \in Item
    BY <1>1, <1>10 DEF Edit
  <2>2. item' \in Item \cup {None} /\ pushes' \in Seq(Push)
    <3>1. CASE \E n \in BOOLEAN, g \in SUBSET Group :
                 LET i == [item EXCEPT !.named = n, !.groups = g]
                 IN i # item /\ Serve(i, <<i>>)
      <4>1. PICK n \in BOOLEAN, g \in SUBSET Group :
                 LET i == [item EXCEPT !.named = n, !.groups = g]
                 IN i # item /\ Serve(i, <<i>>)
        BY <3>1
      <4> DEFINE i == [item EXCEPT !.named = n, !.groups = g]
      <4>2. i \in Item /\ Serve(i, <<i>>)
        BY <2>1, <4>1 DEF Item
      <4> HIDE DEF i
      <4>3. <<i>> \in Seq(Push)
        BY <1>4, <4>2
      <4> QED
        BY <1>1, <4>2, <4>3, Served
    <3>2. CASE Serve(None, <<Removed>>)
      <4>1. <<Removed>> \in Seq(Push)
        BY <1>4
      <4> QED
        BY <1>1, <3>2, <4>1, Served
    <3> QED
      BY <1>10, <3>1, <3>2 DEF Edit
  <2> QED
    BY <1>1, <1>2, <1>10, <2>2 DEF Edit, Around
<1>11. CASE Lose
  <2>1. <<>> \in Seq(Push) /\ [r \in Res |-> None] \in [Res -> Prio \cup {None}]
    OBVIOUS
  <2> QED
    BY <1>1, <1>2, <1>11, <2>1 DEF Lose, Around
<1>12. CASE Reconnect
  BY <1>1, <1>12 DEF Reconnect, Around
<1>13. CASE Activate \/ Tray \/ StartChat \/ Close
  BY <1>1, <1>2, <1>13 DEF Activate, Tray, StartChat, Close, Around
<1>14. CASE RemoveByUser
  <2> DEFINE c == Highest(gui)
             i == [sub |-> IF item.sub \in {"both", "from"} THEN "from" ELSE "none",
                   asked |-> FALSE, named |-> item.named, groups |-> item.groups]
             j == [i EXCEPT !.named = FALSE, !.groups = {}]
  <2>1. PICK checked \in Removes :
            IF NotInRoster \in c.groups \/ item = None
            THEN UNCHANGED <<item, pushes>>
            ELSE IF checked /\ c.sub # "to" THEN Serve(j, <<i, j>>)
            ELSE Serve(None, <<Removed>>)
    BY <1>14 DEF RemoveByUser
  <2>2. item # None => i \in Item /\ j \in Item
    <3> SUFFICES ASSUME item \in Item PROVE i \in Item /\ j \in Item
      BY <1>1
    <3>1. i \in Item
      BY DEF Item
    <3> HIDE DEF i
    <3> DEFINE no == FALSE
               none == {}
               k == [i EXCEPT !.named = no, !.groups = none]
    <3>2. j = k /\ no \in BOOLEAN /\ none \in SUBSET Group
      OBVIOUS
    <3> HIDE DEF j, no, none
    <3>3. k \in Item
      BY <3>1, <3>2 DEF Item
    <3> QED
      BY <3>1, <3>2, <3>3
  <2> HIDE DEF c, i, j
  <2>3. item # None => <<i, j>> \in Seq(Push)
    BY <1>4, <2>2
  <2>4. <<Removed>> \in Seq(Push)
    BY <1>4
  <2>5. item' \in Item \cup {None} /\ pushes' \in Seq(Push)
    BY <1>1, <2>1, <2>2, <2>3, <2>4, Served
  <2> QED
    BY <1>1, <1>2, <1>14, <2>5 DEF RemoveByUser, Around
<1>15. CASE Request
  <2>1. PICK named \in BOOLEAN, groups \in {{}} \cup {{g} : g \in Group} :
            LET i == [sub |-> IF item = None THEN "none" ELSE item.sub,
                      asked |-> item # None /\ item.asked, named |-> named,
                      groups |-> groups]
                j == [i EXCEPT !.asked = i.sub \in {"none", "from"}]
            IN Serve(j, <<i, j>>)
    BY <1>15 DEF Request
  <2> DEFINE i == [sub |-> IF item = None THEN "none" ELSE item.sub,
                   asked |-> item # None /\ item.asked, named |-> named,
                   groups |-> groups]
             asks == i.sub \in {"none", "from"}
             j == [i EXCEPT !.asked = asks]
  <2>2. Serve(j, <<i, j>>)
    BY <2>1
  <2>3. groups \in SUBSET Group
    OBVIOUS
  <2>4. i \in Item
    <3>1. CASE item = None
      BY <2>3, <3>1 DEF Item
    <3>2. CASE item \in Item
      BY <2>3, <3>2 DEF Item
    <3> QED
      BY <1>1, <3>1, <3>2
  <2>5. asks \in BOOLEAN
    OBVIOUS
  <2> HIDE DEF i, asks
  <2>6. j \in Item
    BY <2>4, <2>5 DEF Item
  <2> HIDE DEF j
  <2>7. <<i, j>> \in Seq(Push)
    BY <1>4, <2>4, <2>6
  <2>8. item' \in Item \cup {None} /\ pushes' \in Seq(Push)
    BY <1>1, <2>2, <2>6, <2>7, Served
  <2> QED
    BY <1>1, <1>2, <1>15, <2>8 DEF Request, Around
<1> QED
  BY <1>5, <1>6, <1>7, <1>8, <1>9, <1>10, <1>11, <1>12, <1>13, <1>14, <1>15 DEF Next

LEMMA OtherFine ==
    ASSUME Whole, Next, ~Reconnect, ~Close
    PROVE  Fine(gui, gui')
<1>1. CASE Approve \/ Edit
  BY <1>1, SameFine DEF Whole, Approve, Edit
<1> QED
  BY <1>1, MessageFine, FileFine, PresenceFine, PushFine, LoseFine,
     ActivateFine, TrayFine, StartFine, UserFine DEF Next

LEMMA WholeStep ==
    ASSUME Whole, [Next]_vars
    PROVE  Whole'
<1>1. CASE UNCHANGED vars
  BY <1>1 DEF Whole, Around, Sound, Ok, Shown, Listed, Wired, Attached, Own, Read, Awaits, vars
<1>2. CASE Next
  <2>1. Around' /\ (~Reconnects => online')
    BY <1>2, AroundStep
  <2>2. CASE ~Reconnect
    <3>1. Sound(gui') /\ (Wired(gui) => Wired(gui')) /\ (Awaits(gui) => Awaits(gui'))
      BY <1>2, <2>2, OtherFine, CloseStep DEF Fine
    <3> QED
      BY <2>1, <3>1 DEF Whole, Sound, Ok, Shown, Listed, Wired, Attached, Own, Read, Awaits
  <2>3. CASE Reconnect
    <3>1. Sound(gui') /\ (Awaits(gui) => Awaits(gui'))
      BY <2>3, ReconnectFine
    <3>2. Reconnects
      BY <2>3 DEF Whole, Reconnect
    <3> QED
      BY <2>1, <3>1, <3>2 DEF Whole, Sound, Ok, Shown, Listed, Awaits
  <2> QED
    BY <2>2, <2>3
<1> QED
  BY <1>1, <1>2

LEMMA WholeInit ==
    ASSUME Init
    PROVE  Whole
<1> DEFINE s == [inst |-> <<>>, rows |-> {}, ev |-> [k \in Key |-> <<>>],
                 chat |-> [k \in Key |-> Closed], control |-> [t \in Thread |-> None],
                 known |-> {}, removal |-> None, unread |-> {}]
<1>1. item \in Item \cup {None}
  BY DEF Init, Item
<1>2. s \in Gui /\ s.inst = <<>> /\ s.removal = None /\ s.unread = {}
      /\ s.ev = [k \in Key |-> <<>>] /\ s.chat = [k \in Key |-> Closed]
      /\ s.control = [t \in Thread |-> None]
  BY DEF Gui
<1>3. gui = RosterReceived(s, item)
  BY DEF Init
<1> HIDE DEF s
<1>4. Sound(s)
  BY <1>2, NamesAssumption DEF Sound, Ok, Shown, Listed
<1>5. Wired(s)
  <2>1. Bare \in Key /\ Res \subseteq Key
    BY DEF Key
  <2>2. Attached(s) /\ Own(s) /\ Read(s)
    BY <1>2, <2>1 DEF Attached, Own, Read
  <2> QED
    BY <2>2 DEF Wired
<1>6. Sound(gui) /\ Wired(gui) /\ Awaits(gui)
  <2>1. Awaits(s)
    BY <1>2 DEF Awaits
  <2> QED
    BY <1>1, <1>2, <1>3, <1>4, <1>5, <2>1, TakesRoster
<1>7. Around /\ online
  <2>1. pushes \in Seq(Push) /\ told \in [Res -> Prio \cup {None}]
    BY DEF Init
  <2>2. messages \in 0 .. MaxMessages /\ acts \in 0 .. MaxActs
    BY RosterAssumption DEF Init
  <2> QED
    BY <1>1, <2>1, <2>2 DEF Init, Around
<1> QED
  BY <1>6, <1>7 DEF Whole

\* What holds of the whole holds whatever happens
THEOREM AlwaysWhole ==
    Spec => []Whole
<1>1. Init => Whole
  BY WholeInit
<1>2. Whole /\ [Next]_vars => Whole'
  BY WholeStep
<1> QED
  BY <1>1, <1>2, PTL DEF Spec

\* What Gajim keeps of a contact stays what it should be: instances, rows,
\* events, chats, sessions and the removal that waits, whatever the handlers of
\* gajim.py, roster_window.py and session.py do to it
THEOREM TypeCorrect ==
    Spec => []TypeOK
<1>1. Whole => TypeOK
  BY DEF Whole, Around, Sound, Ok, TypeOK
<1> QED
  BY <1>1, AlwaysWhole, PTL

\* A contact that is listed and not about to be removed has a row: wherever
\* remove_contact takes the rows away, its caller adds one again or the contact
\* goes, in any of the orders in which the server, another client, the
\* connection and the user may act
THEOREM ShownSomewhereAlways ==
    Spec => []ShownSomewhere
<1>1. Whole => ShownSomewhere
  BY DEF Whole, Sound, Shown, ShownSomewhere
<1> QED
  BY <1>1, AlwaysWhole, PTL

\* The control of a session is open, and shows that session, as long as the
\* connection is not lost: set_session, new_chat, read_queue and shutdown change
\* the two sides one after the other.  After a connection that was lost,
\* fire_up_unread_messages_events may queue a message for a chat that is open,
\* and what opens it makes another control for it
THEOREM AttachedIsOpenAlways ==
    ASSUME ~Reconnects
    PROVE  Spec => []AttachedIsOpen
<1>1. Whole => AttachedIsOpen
  BY DEF Whole, Wired, Attached, AttachedIsOpen
<1> QED
  BY <1>1, AlwaysWhole, PTL

\* A removal that was put off, because of events that waited or a chat that was
\* open, is never left with neither: on_event_removed and the end of the chat's
\* shutdown carry it out when the last goes, wherever the last event waits, and
\* with any options: also when resources are renamed or taken away under it
THEOREM RemovalIsFinishedAlways ==
    Spec => []RemovalIsFinished
<1>1. Whole => RemovalIsFinished
  BY DEF Whole, Awaits, RemovalIsFinished
<1> QED
  BY <1>1, AlwaysWhole, PTL

\* What is unread goes on waiting, step by step
LEMMA QueuedStep ==
    ASSUME Whole, Next
    PROVE  StayQueued
<1>1. CASE Reconnect
  BY <1>1, ReconnectFine DEF Recalls, StayQueued
<1>2. CASE Close
  <2>1. online' = online
    BY <1>2 DEF Close
  <2> QED
    BY <1>2, <2>1, CloseStep DEF StayQueued
<1>3. CASE ~Reconnect /\ ~Close
  <2>1. Recalls(gui, gui')
    BY <1>3, OtherFine DEF Fine
  <2>2. online' = online \/ online' = FALSE
    BY <1>3 DEF Next, MessageArrives, FileEvent, Presence, PushArrives, Approve, Edit,
       Lose, Activate, Tray, StartChat, RemoveByUser, Request
  <2> QED
    BY <2>1, <2>2 DEF Recalls, StayQueued
<1> QED
  BY <1>1, <1>2, <1>3

\* No event of an unread message goes alone: the lists that remove_events,
\* change_jid, read_queue and the removal of a contact rewrite keep each message
\* that is not marked read, except where a chat is closed over it, and the
\* messages of the log are all there again after a connection that was lost
THEOREM UnreadStaysQueuedAlways ==
    Spec => UnreadStaysQueued
<1>1. Whole /\ [Next]_vars => [StayQueued]_vars
  BY QueuedStep
<1> QED
  BY <1>1, AlwaysWhole, PTL DEF Spec, UnreadStaysQueued

=============================================================================
