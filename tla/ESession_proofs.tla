---------------------------- MODULE ESession_proofs ----------------------------
(***************************************************************************)
(* What holds of ESession for every number of threads, sessions and acts.  *)
(* Each predicate is about one of the two, p, in the state s, and the      *)
(* other one, q, in the state o; w is under way to p, and v to q.  The     *)
(* methods are composed, so there is a lemma for each of them.             *)
(***************************************************************************)
EXTENDS ESession, FiniteSetTheorems, Loops

\* The states in which the counters of a session are those of a key
Streaming == {"responded-e2e", "identified-alice", "active"}

\* The half the counters of a session began with: it is the same for both
Base(self) == self.c_s[1]

Made(p, s) == {h \in Half : h[1] = p /\ h[2] <= s.halves}
Done(s) == {k[2] : k \in s.taken}

-----------------------------------------------------------------------------
(* Sessions.                                                               *)

Responded(p, q, s, self) ==
    self.status = "responded-e2e" =>
        /\ self.y = Base(self) /\ self.y \in Made(p, s) /\ self.he \in Half /\ self.he[1] = q
        /\ self.logging = Prefers[p]
        /\ Base(self) \notin Done(s)
        /\ ~self.enable_encryption => self.c_s[2] = 0

Identified(p, q, s, o, self) ==
    self.status = "identified-alice" =>
        /\ self.km_s \in Key /\ self.km_s[2] = Base(self) /\ self.km_s[1][1] = p
        /\ Base(self) \in Made(q, o)
        /\ self.logging = Prefers[q]
        /\ Base(self) \notin Done(s)
        /\ ~self.enable_encryption => self.c_s[2] = 1

Active(p, q, s, self) ==
    self.status = "active" =>
        /\ self.km_s \in s.taken /\ self.km_o = self.km_s /\ self.km_s[2] = Base(self)
        /\ Base(self)[1] = q => self.km_s[1][1] = p
        /\ self.logging = Prefers[Base(self)[1]]
        /\ self.logging = "mustnot" => ~self.loggable
        /\ self.enable_encryption /\ self.c_o[2] >= 1

Kept(p, q, s, o, self) ==
    /\ self.c_o[1] = Base(self)
    /\ Base(self) \in Made(p, s) \cup Made(q, o) \cup {None}
    /\ self.x \in Made(p, s) \cup {None}
    /\ self.enable_encryption => Base(self) # None
    /\ self.status = "requested-e2e" => self.x # None
    /\ Responded(p, q, s, self)
    /\ Identified(p, q, s, o, self)
    /\ Active(p, q, s, self)

\* What leads to a session leads to one that has a thread
Linked(s) ==
    /\ \A th \in Thread : s.table[th] # None => s.session[s.table[th]].thread_id = th
    /\ s.chat \in Id => s.session[s.chat].thread_id # None
    /\ s.queue # None => s.session[s.queue].thread_id # None
    /\ \A d \in s.dialogs : s.session[d.session].thread_id # None

Apart(s) == \A i, j \in Id : Base(s.session[i]) = Base(s.session[j]) /\ i # j
                             => Base(s.session[i]) = None

Asked(q, s, o) ==
    /\ \A d \in s.dialogs :
          /\ d.form.half \in Made(q, o) /\ d.form.logging = Prefers[q]
          /\ s.session[d.session].x # None
    /\ \A d, e \in s.dialogs : d.form.half = e.form.half => d = e

Taken(p, q, s, o) ==
    \A k \in s.taken : /\ k[2] \in Made(p, s) \cup Made(q, o)
                       /\ k[1][1] = p => k \in o.taken

Local(p, q, s, o) ==
    /\ s \in PartyState
    /\ \A i \in Id : Kept(p, q, s, o, s.session[i])
    /\ Linked(s) /\ Apart(s) /\ Asked(q, s, o) /\ Taken(p, q, s, o)

-----------------------------------------------------------------------------
(* What is under way.                                                      *)

\* The stanza e, of q to p
Counted == {"result", "init", "encrypted"}

Sent(p, q, s, o, l, e) ==
    /\ e \in Stanza
    /\ e.kind = "unavailable" => q \in l
    /\ e.kind # "unavailable" => e.thread # None
    /\ e.kind = "form" => e.half \in Made(q, o)
    /\ e.kind = "submit" => e.half \in Made(q, o) /\ e.logging = Prefers[q]
    /\ e.kind \in Counted => e.counter[1] \in Made(p, s) \cup Made(q, o)
    /\ e.kind \notin Counted => e.counter[1] = None
    /\ e.kind = "result" => e.counter[1] \in Made(p, s) /\ e.key \in Key
    /\ e.kind = "init" => e.counter[1] \in Made(q, o) /\ e.key \in o.taken
                          /\ e.key[2] = e.counter[1]

Under(p, q, s, o, l, w) ==
    /\ w \in Seq(Stanza)
    /\ \A n \in DOMAIN w : Sent(p, q, s, o, l, w[n])

\* A response is sent once, and so is each identity
Once(w) ==
    \A m, n \in DOMAIN w : m # n /\ w[m].kind = w[n].kind =>
        /\ w[m].kind = "submit" => w[m].half # w[n].half
        /\ w[m].kind \in {"result", "init"} => w[m].counter[1] # w[n].counter[1]

\* What p has not answered yet
Submitted(w) == {w[n].half : n \in {m \in DOMAIN w : w[m].kind = "submit"}}
Dialogs(s) == {d.form.half : d \in s.dialogs}
Pending(s, w) == Submitted(w) \cup Dialogs(s)

Unanswered(s, o, w, v) ==
    /\ Submitted(w) \cap Dialogs(s) = {}
    /\ \A h \in Pending(s, w) :
          /\ h \notin Done(s)
          /\ \A i \in Id : Base(s.session[i]) # h
          /\ \A n \in DOMAIN v : v[n].counter[1] # h
          /\ \A n \in DOMAIN w : w[n].kind = "init" => w[n].counter[1] # h
          /\ \A j \in Id : Base(o.session[j]) = h =>
                /\ o.session[j].status # "active"
                /\ o.session[j].status = "responded-e2e" => o.session[j].c_o[2] = 0

\* Who is active has had the identity of the other
Identity(s, w) ==
    \A i \in Id : \A n \in DOMAIN w :
        /\ s.session[i].status = "active"
        /\ w[n].counter[1] = Base(s.session[i])
        => w[n].kind = "encrypted"

-----------------------------------------------------------------------------
(* Counters.  p sends, q receives.                                         *)

Told(w, l) == (\E n \in DOMAIN w : w[n].kind = "unavailable") \/ l = Party

Runs(v, h) == {n \in DOMAIN v : v[n].counter[1] = h}

Ordered(v, h, first, next) ==
    /\ \A n \in Runs(v, h) : v[n].counter[2] >= first /\ v[n].counter[2] < next
    /\ \A c \in first .. next - 1 : \E n \in Runs(v, h) : v[n].counter[2] = c
    /\ first <= next
    /\ \A m, n \in Runs(v, h) : m < n => v[m].counter[2] < v[n].counter[2]

\* A session that was begun in a bare chat stays encrypted when q is gone
Excused(q, self, w, l) ==
    self.enable_encryption /\ (Told(w, l) \/ (self.bare /\ q \in l))

Unidentified(other, v) ==
    /\ other.status = "responded-e2e"
    /\ \A n \in Runs(v, Base(other)) : v[n].kind # "result"

Matched(q, s, o, w, v, l) ==
    \A i, j \in Id :
        /\ InTable(s, i) /\ s.session[i].status \in Streaming
        /\ InTable(o, j) /\ o.session[j].status \in Streaming
        /\ Base(s.session[i]) = Base(o.session[j])
        => \/ Ordered(v, Base(s.session[i]), o.session[j].c_o[2], s.session[i].c_s[2])
           \/ Excused(q, s.session[i], w, l)
           \/ Unidentified(o.session[j], v)

Whole(v, self) == Ordered(v, Base(self), 0, self.c_s[2])

Answers(q, s, o, w, v, l) ==
    \A i \in Id :
        InTable(s, i) /\ s.session[i].status = "responded-e2e" =>
            /\ \A n \in DOMAIN v :
                  v[n].kind = "submit" /\ v[n].half = Base(s.session[i]) =>
                      \/ /\ Whole(v, s.session[i])
                         /\ \A m \in Runs(v, Base(s.session[i])) : m > n
                      \/ Excused(q, s.session[i], w, l)
            /\ \A d \in o.dialogs :
                  d.form.half = Base(s.session[i]) /\ InTable(o, d.session) =>
                      Whole(v, s.session[i]) \/ Excused(q, s.session[i], w, l)

\* What is left encrypted when q is gone
Bared(self) == self.enable_encryption => self.bare

\* q is offline: what is under way to p tells it so
Noticed(s, o, w, l) ==
    ~o.online =>
        \/ l = Party
        \/ w # <<>> /\ w[Len(w)].kind = "unavailable"
        \/ w = <<>> /\ \A i \in Id : InTable(s, i) => Bared(s.session[i])

\* T is the thread that each half is used on
Threaded(s, w, T) ==
    /\ \A i \in Id : Base(s.session[i]) # None => s.session[i].thread_id = T[Base(s.session[i])]
    /\ \A d \in s.dialogs : s.session[d.session].thread_id = T[d.form.half]
    /\ \A n \in DOMAIN w : /\ w[n].kind = "submit" => w[n].thread = T[w[n].half]
                           /\ w[n].kind \in Counted => w[n].thread = T[w[n].counter[1]]

One(p, q, s, o, w, v, l, T) ==
    /\ Local(p, q, s, o) /\ Under(p, q, s, o, l, w) /\ Once(w)
    /\ Unanswered(s, o, w, v) /\ Identity(s, w) /\ Matched(q, s, o, w, v, l)
    /\ Answers(q, s, o, w, v, l) /\ Noticed(s, o, w, l) /\ Threaded(s, w, T)
    /\ ~s.online => p \in l

Both(p, q, s, o, w, v, l, T) ==
    One(p, q, s, o, w, v, l, T) /\ One(q, p, o, s, v, w, l, T)

-----------------------------------------------------------------------------
(* Basics.                                                                 *)

LEMMA Two ==
    ASSUME NEW p \in Party
    PROVE  /\ Other(p) \in Party /\ Other(p) # p /\ Other(Other(p)) = p
           /\ Party = {p, Other(p)}
<1>1. IsFiniteSet(Party \ {p}) /\ Cardinality(Party \ {p}) = 1
  BY ESessionAssumption, FS_RemoveElement
<1>2. PICK q : Party \ {p} = {q}
  BY <1>1, FS_CardinalityType, FS_Singleton
<1>3. Other(p) = q
  BY <1>2 DEF Other
<1>4. Other(q) = p
  BY <1>2 DEF Other
<1> QED
  BY <1>2, <1>3, <1>4

LEMMA Bounds ==
    /\ MaxThreads \in Nat \ {0} /\ MaxSessions \in Nat \ {0} /\ MaxActs \in Nat \ {0}
    /\ Id \subseteq Nat /\ None \notin Id /\ Closed \notin Id /\ Closed # None
BY ESessionAssumption, NamesAssumption DEF Id

LEMMA NoneIs == None \notin Streaming \cup {"requested-e2e", "may", "mustnot"}
BY NamesAssumption DEF Streaming, Waiting

LEMMA UnusedIs ==
    /\ Unused \in Session /\ Base(Unused) = None /\ Unused.c_o[1] = None
    /\ Unused.x = None /\ Unused.status = None /\ Unused.thread_id = None
    /\ ~Unused.enable_encryption
BY DEF Unused, Session, Base, NoCounter, Counter

LEMMA PlainIs ==
    ASSUME NEW kind \in {"form", "submit", "result", "init", "cancel", "terminate",
                         "error", "chat", "encrypted", "unavailable"},
           NEW th \in Thread \cup {None}
    PROVE  /\ Plain(kind, th) \in Stanza /\ Plain(kind, th).kind = kind
           /\ Plain(kind, th).thread = th /\ Plain(kind, th).counter[1] = None
BY DEF Plain, Stanza, Counter, NoCounter

\* One session is another
LEMMA Replaced ==
    ASSUME NEW s \in PartyState, NEW i \in Id, NEW x \in Session,
           NEW t, t = [s EXCEPT !.session[i] = x]
    PROVE  /\ t \in PartyState /\ t.session[i] = x
           /\ \A j \in Id : j # i => t.session[j] = s.session[j]
           /\ t.table = s.table /\ t.chat = s.chat /\ t.queue = s.queue
           /\ t.dialogs = s.dialogs /\ t.online = s.online /\ t.threads = s.threads
           /\ t.halves = s.halves /\ t.out = s.out /\ t.taken = s.taken
           /\ t.rough = s.rough
BY DEF PartyState

-----------------------------------------------------------------------------
(* What most methods do is quiet: nothing becomes active, no response and  *)
(* no identity is sent.                                                    *)

\* What the two ends of a stream go by
Same(a, b) ==
    /\ b.status = a.status /\ b.enable_encryption = a.enable_encryption /\ b.bare = a.bare
    /\ b.logging = a.logging /\ b.loggable = a.loggable
    /\ b.he = a.he /\ b.y = a.y /\ b.km_s = a.km_s /\ b.km_o = a.km_o
    /\ b.c_s = a.c_s /\ b.c_o = a.c_o

Calmed(p, s, t, i) ==
    LET a == s.session[i]
        b == t.session[i]
    IN /\ Base(b) \in {Base(a), None} /\ b.c_o[1] = Base(b)
       /\ Base(b) # None => b.thread_id = a.thread_id /\ (InTable(t, i) => InTable(s, i))
       /\ b.enable_encryption => /\ a.enable_encryption /\ b.bare = a.bare
                                 /\ Base(b) = Base(a)
                                 /\ InTable(t, i) => InTable(s, i)
       /\ b.status \in Streaming => Same(a, b)
       /\ b.x \in Made(p, t) \cup {None}
       /\ b.status = "requested-e2e" => b.x # None

Calm(p, s, t) ==
    /\ \A i \in Id : Calmed(p, s, t, i)
    /\ t.dialogs \subseteq s.dialogs
    /\ \A d \in t.dialogs : /\ t.session[d.session].x # None
                            /\ t.session[d.session].thread_id = s.session[d.session].thread_id
                            /\ InTable(t, d.session) => InTable(s, d.session)
    /\ t.halves >= s.halves /\ t.taken = s.taken

Idle(p, t, e) ==
    /\ e \in Stanza /\ e.thread # None
    /\ e.kind \in {"form", "cancel", "terminate", "error", "chat"}
    /\ e.counter[1] = None
    /\ e.kind = "form" => e.half \in Made(p, t)

Goes(p, t, v, u) ==
    /\ v \in Seq(Stanza) /\ u \in Seq(Stanza)
    /\ Len(v) <= Len(u) /\ \A n \in 1 .. Len(v) : u[n] = v[n]
    /\ \A n \in 1 .. Len(u) : n > Len(v) => Idle(p, t, u[n])

Quiet(p, s, t) ==
    /\ t \in PartyState /\ Linked(t) /\ Calm(p, s, t) /\ t.online = s.online
    /\ Goes(p, t, s.out, t.out)

Right(p, s) ==
    /\ s \in PartyState /\ Linked(s)
    /\ \A i \in Id : /\ s.session[i].c_o[1] = Base(s.session[i])
                     /\ s.session[i].x \in Made(p, s) \cup {None}
                     /\ s.session[i].status = "requested-e2e" => s.session[i].x # None
    /\ \A d \in s.dialogs : s.session[d.session].x # None

LEMMA MadeGrows ==
    ASSUME NEW p, NEW s \in PartyState, NEW t \in PartyState, t.halves >= s.halves
    PROVE  Made(p, s) \subseteq Made(p, t)
<1>1. s.halves \in Nat /\ t.halves \in Nat
  BY DEF PartyState
<1>2. \A h \in Half : h[2] \in Nat
  BY DEF Half
<1> QED
  BY <1>1, <1>2 DEF Made

LEMMA QuietTransitive ==
    ASSUME NEW p \in Party, NEW s \in PartyState, NEW t, NEW u, Quiet(p, s, t), Quiet(p, t, u)
    PROVE  Quiet(p, s, u)
<1>1. Calm(p, s, u)
  <2>1. t.halves \in Nat /\ s.halves \in Nat /\ u.halves \in Nat
    BY DEF Quiet, PartyState
  <2>2. ASSUME NEW i \in Id PROVE Calmed(p, s, u, i)
    <3>1. Calmed(p, s, t, i) /\ Calmed(p, t, u, i)
      BY DEF Quiet, Calm
    <3> QED
      BY <3>1 DEF Calmed, Same
  <2> QED
    BY <2>1, <2>2 DEF Quiet, Calm
<1>2. Goes(p, u, s.out, u.out)
  <2>1. \A e : Idle(p, t, e) => Idle(p, u, e)
    BY MadeGrows DEF Idle, Quiet, Calm
  <2> QED
    BY <2>1 DEF Goes, Quiet
<1> QED
  BY <1>1, <1>2 DEF Quiet

LEMMA QuietRight ==
    ASSUME NEW p \in Party, NEW s, NEW t, Right(p, s), Quiet(p, s, t)
    PROVE  Right(p, t)
<1>1. ASSUME NEW i \in Id
      PROVE  /\ t.session[i].c_o[1] = Base(t.session[i])
             /\ t.session[i].x \in Made(p, t) \cup {None}
             /\ t.session[i].status = "requested-e2e" => t.session[i].x # None
  BY DEF Quiet, Calm, Calmed
<1>2. t \in PartyState /\ Linked(t) /\ \A d \in t.dialogs : t.session[d.session].x # None
  BY DEF Quiet, Calm
<1> QED
  BY <1>1, <1>2 DEF Right

LEMMA GoesNowhere ==
    ASSUME NEW p, NEW t, NEW v \in Seq(Stanza)
    PROVE  Goes(p, t, v, v)
BY DEF Goes

LEMMA GoesOn ==
    ASSUME NEW p, NEW t, NEW v \in Seq(Stanza), NEW e, Idle(p, t, e)
    PROVE  Goes(p, t, v, Append(v, e))
<1>1. e \in Stanza
  BY DEF Idle
<1>2. /\ Append(v, e) \in Seq(Stanza) /\ Len(Append(v, e)) = Len(v) + 1 /\ Len(v) \in Nat
      /\ \A n \in 1 .. Len(v) : Append(v, e)[n] = v[n]
      /\ Append(v, e)[Len(v) + 1] = e
  BY <1>1
<1>3. ASSUME NEW n \in 1 .. Len(Append(v, e)), n > Len(v) PROVE Idle(p, t, Append(v, e)[n])
  <2>1. n = Len(v) + 1
    BY <1>2, <1>3
  <2> QED
    BY <1>2, <2>1
<1> QED
  BY <1>2, <1>3 DEF Goes

\* The session x may become y
Fades(p, t, x, y) ==
    /\ y.thread_id = x.thread_id /\ Base(y) = Base(x) /\ y.c_o = x.c_o
    /\ y.enable_encryption => x.enable_encryption
    /\ y.bare = x.bare
    /\ y.status \in Streaming => Same(x, y)
    /\ y.x \in Made(p, t) \cup {None}
    /\ y.status = "requested-e2e" => y.x # None
    /\ y.x = None => x.x = None

\* One session fades, and is in the table or not
LEMMA Fading ==
    ASSUME NEW p \in Party, NEW s, Right(p, s), NEW i \in Id, NEW t \in PartyState,
           \A j \in Id : j # i => t.session[j] = s.session[j],
           Fades(p, t, s.session[i], t.session[i]),
           \A th \in Thread : t.table[th] \in {s.table[th], None},
           t.chat \in Id => t.chat = s.chat \/ (t.chat = i /\ s.session[i].thread_id # None),
           t.queue # None => t.queue = s.queue \/ (t.queue = i /\ s.session[i].thread_id # None),
           t.dialogs \subseteq s.dialogs,
           t.halves >= s.halves, t.taken = s.taken, t.online = s.online,
           Goes(p, t, s.out, t.out)
    PROVE  Quiet(p, s, t)
<1>1. s \in PartyState /\ Linked(s)
  BY DEF Right
<1>2. \A j \in Id : t.session[j].thread_id = s.session[j].thread_id
  BY DEF Fades
<1>3. \A j \in Id : InTable(t, j) => InTable(s, j)
  <2> SUFFICES ASSUME NEW j \in Id, InTable(t, j) PROVE InTable(s, j)
    OBVIOUS
  <2>1. t.session[j].thread_id \in Thread
    BY DEF PartyState, Session, InTable
  <2> QED
    BY <1>2, <2>1, Bounds DEF InTable
<1>4. Linked(t)
  <2>1. ASSUME NEW th \in Thread, t.table[th] # None
        PROVE  t.session[t.table[th]].thread_id = th
    <3>1. t.table[th] = s.table[th] /\ t.table[th] \in Id
      BY <1>1, <2>1 DEF PartyState
    <3> QED
      BY <1>1, <1>2, <2>1, <3>1 DEF Linked
  <2>2. t.queue # None => t.queue \in Id
    BY DEF PartyState
  <2>3. \A d \in t.dialogs : d \in s.dialogs /\ d.session \in Id
    BY DEF PartyState
  <2> QED
    BY <1>1, <1>2, <2>1, <2>2, <2>3 DEF Linked
<1>5. ASSUME NEW j \in Id PROVE Calmed(p, s, t, j)
  <2>1. s.session[j].c_o[1] = Base(s.session[j])
    BY DEF Right
  <2>2. CASE j = i
    BY <1>3, <2>1, <2>2 DEF Calmed, Fades
  <2>3. CASE j # i
    <3>1. t.session[j] = s.session[j]
      BY <2>3
    <3>2. s.session[j].x \in Made(p, t) \cup {None}
      BY <1>1, MadeGrows DEF Right
    <3> QED
      BY <1>3, <2>1, <3>1, <3>2 DEF Calmed, Same, Right
  <2> QED
    BY <2>2, <2>3
<1>6. \A d \in t.dialogs : /\ t.session[d.session].x # None
                           /\ t.session[d.session].thread_id = s.session[d.session].thread_id
                           /\ InTable(t, d.session) => InTable(s, d.session)
  <2> TAKE d \in t.dialogs
  <2>1. d \in s.dialogs /\ d.session \in Id
    BY DEF PartyState
  <2>2. s.session[d.session].x # None
    BY <2>1 DEF Right
  <2> QED
    BY <1>2, <1>3, <2>1, <2>2 DEF Fades
<1> QED
  BY <1>4, <1>5, <1>6 DEF Quiet, Calm

LEMMA QuietSelf ==
    ASSUME NEW p \in Party, NEW s, Right(p, s)
    PROVE  Quiet(p, s, s)
<1> USE DEF Right
<1>1. 1 \in Id /\ s.out \in Seq(Stanza) /\ s.halves >= s.halves
  BY Bounds DEF Id, PartyState
<1>2. Fades(p, s, s.session[1], s.session[1])
  BY <1>1 DEF Fades, Same
<1>3. Goes(p, s, s.out, s.out)
  BY <1>1, GoesNowhere
<1> QED
  BY <1>1, <1>2, <1>3, Fading

-----------------------------------------------------------------------------
(* Methods that are quiet.                                                 *)

\* t is s with x for the session i and, it may be, the control taken from it
Edits(s, t, i, x) ==
    /\ t.session = [s.session EXCEPT ![i] = x]
    /\ t.table = s.table /\ t.chat \in {s.chat, None} /\ t.queue = s.queue
    /\ t.dialogs = s.dialogs /\ t.online = s.online /\ t.threads = s.threads
    /\ t.halves = s.halves /\ t.out = s.out /\ t.taken = s.taken
    /\ t.rough \in BOOLEAN

LEMMA Edited ==
    ASSUME NEW p \in Party, NEW s, Right(p, s), NEW i \in Id, NEW x \in Session,
           Fades(p, s, s.session[i], x), NEW t \in PartyState, Edits(s, t, i, x)
    PROVE  Quiet(p, s, t) /\ t.session[i] = x
<1>1. s \in PartyState
  BY DEF Right
<1>2. t.session[i] = x /\ \A j \in Id : j # i => t.session[j] = s.session[j]
  BY <1>1 DEF PartyState, Edits
<1>3. Fades(p, t, s.session[i], x)
  BY DEF Fades, Made, Edits
<1>4. Goes(p, t, s.out, t.out)
  BY <1>1, GoesNowhere DEF Edits, PartyState
<1>5. t.halves >= s.halves
  BY <1>1 DEF Edits, PartyState
<1>6. \A th \in Thread : t.table[th] \in {s.table[th], None}
  BY DEF Edits
<1>7. t.chat \in Id => t.chat = s.chat
  BY Bounds DEF Edits
<1> QED
  BY <1>2, <1>3, <1>4, <1>5, <1>6, <1>7, Fading DEF Edits

\* The session has a thread
Linkable(s, i) == i \in Id /\ s.session[i].thread_id # None

Sends(s, t, i, e) ==
    /\ t \in PartyState
    /\ \E b \in BOOLEAN : t.session[i] = [s.session[i] EXCEPT !.last_send = b]
    /\ \A j \in Id : j # i => t.session[j] = s.session[j]
    /\ t.table = s.table /\ t.chat = s.chat /\ t.queue = s.queue
    /\ t.dialogs = s.dialogs /\ t.online = s.online /\ t.threads = s.threads
    /\ t.halves = s.halves /\ t.taken = s.taken /\ t.rough = s.rough
    /\ t.out = Append(s.out, e)

LEMMA SendIs ==
    ASSUME NEW s \in PartyState, NEW i \in Id, NEW e \in Stanza
    PROVE  Sends(s, Send(s, i, e), i, e)
<1> DEFINE b == s.session[i].last_send \/ e.kind # "error"
           x == [s.session[i] EXCEPT !.last_send = b]
           t == Send(s, i, e)
<1>1. s.session[i] \in Session /\ s.session \in [Id -> Session] /\ s.out \in Seq(Stanza)
  BY DEF PartyState
<1>2. x \in Session
  <2>1. b \in BOOLEAN
    BY <1>1 DEF Session
  <2> HIDE DEF b
  <2> QED
    BY <1>1, <2>1 DEF Session
<1>3. t = [s EXCEPT !.out = Append(@, e), !.session[i] = x]
  BY DEF Send, PartyState
<1> HIDE DEF x, t
<1>4. Append(s.out, e) \in Seq(Stanza) /\ [s.session EXCEPT ![i] = x] \in [Id -> Session]
  BY <1>1, <1>2
<1>5. t \in PartyState
  BY <1>3, <1>4 DEF PartyState
<1>6. t.session = [s.session EXCEPT ![i] = x] /\ t.out = Append(s.out, e)
  BY <1>3 DEF PartyState
<1>7. /\ t.table = s.table /\ t.chat = s.chat /\ t.queue = s.queue
      /\ t.dialogs = s.dialogs /\ t.online = s.online /\ t.threads = s.threads
      /\ t.halves = s.halves /\ t.taken = s.taken /\ t.rough = s.rough
  BY <1>3 DEF PartyState
<1>8. t.session[i] = x /\ \A j \in Id : j # i => t.session[j] = s.session[j]
  BY <1>1, <1>6
<1>9. \E c \in BOOLEAN : t.session[i] = [s.session[i] EXCEPT !.last_send = c]
  <2>1. b \in BOOLEAN
    BY <1>1 DEF Session
  <2> HIDE DEF b
  <2> QED
    BY <1>8, <2>1 DEF x
<1> QED
  BY <1>5, <1>6, <1>7, <1>8, <1>9, Zenon DEF t, Sends

LEMMA SendQuiet ==
    ASSUME NEW p \in Party, NEW s, Right(p, s), NEW i \in Id, NEW e, Idle(p, s, e)
    PROVE  Quiet(p, s, Send(s, i, e))
<1> DEFINE t == Send(s, i, e)
<1>1. s \in PartyState /\ e \in Stanza
  BY DEF Right, Idle
<1>2. /\ t \in PartyState
      /\ \E b \in BOOLEAN : t.session[i] = [s.session[i] EXCEPT !.last_send = b]
      /\ \A j \in Id : j # i => t.session[j] = s.session[j]
      /\ t.table = s.table /\ t.chat = s.chat /\ t.queue = s.queue
      /\ t.dialogs = s.dialogs /\ t.online = s.online
      /\ t.halves = s.halves /\ t.taken = s.taken /\ t.out = Append(s.out, e)
  BY <1>1, SendIs DEF Sends
<1> HIDE DEF t
<1>3. s.session[i] \in Session
  BY <1>1 DEF PartyState
<1>4. Fades(p, t, s.session[i], t.session[i])
  BY <1>2, <1>3 DEF Fades, Same, Base, Made, Right, Session
<1>5. Goes(p, t, s.out, t.out)
  <2>1. Idle(p, t, e) /\ s.out \in Seq(Stanza)
    BY <1>1, <1>2 DEF Idle, Made, PartyState
  <2> QED
    BY <1>2, <2>1, GoesOn
<1>6. t.halves >= s.halves
  BY <1>1, <1>2 DEF PartyState
<1>7. Quiet(p, s, t)
  BY <1>2, <1>4, <1>5, <1>6, Fading
<1> QED
  BY <1>7 DEF t

LEMMA OfIdle ==
    ASSUME NEW p \in Party, NEW s \in PartyState, NEW i, Linkable(s, i),
           NEW kind \in {"cancel", "terminate", "error", "chat"}
    PROVE  Idle(p, s, Of(s, i, kind))
<1>1. s.session[i].thread_id \in Thread
  BY DEF PartyState, Session, Linkable
<1> QED
  BY <1>1, PlainIs, Bounds DEF Idle, Of, Linkable

LEMMA LoseControlIs ==
    ASSUME NEW s \in PartyState, NEW i \in Id
    PROVE  LET t == LoseControl(s, i)
           IN t \in PartyState /\ Edits(s, t, i, s.session[i]) /\ t.chat # i
<1>1. [s.session EXCEPT ![i] = s.session[i]] = s.session
  BY DEF PartyState
<1> QED
  BY <1>1, Bounds DEF LoseControl, PartyState, Edits

LEMMA DeleteQuiet ==
    ASSUME NEW p \in Party, NEW s, Right(p, s), NEW i, Linkable(s, i)
    PROVE  LET t == DeleteSession(s, i)
           IN /\ Quiet(p, s, t) /\ ~InTable(t, i) /\ t.session = s.session
              /\ \A j \in Id : InTable(t, j) => InTable(s, j)
              /\ \A j \in Id : s.chat # j => t.chat # j
<1> DEFINE t == DeleteSession(s, i)
<1>1. s \in PartyState /\ i \in Id /\ s.session[i].thread_id \in Thread
  BY DEF Right, Linkable, PartyState, Session
<1>2. /\ t \in PartyState /\ t.session = s.session
      /\ t.table = [s.table EXCEPT ![s.session[i].thread_id] = None]
      /\ t.chat = s.chat /\ t.queue = s.queue
      /\ t.dialogs = s.dialogs /\ t.online = s.online
      /\ t.halves = s.halves /\ t.taken = s.taken /\ t.out = s.out
  BY <1>1 DEF DeleteSession, PartyState
<1> HIDE DEF t
<1>3. Fades(p, t, s.session[i], t.session[i])
  BY <1>1, <1>2 DEF Fades, Same, Base, Made, Right
<1>4. Goes(p, t, s.out, t.out)
  BY <1>1, <1>2, GoesNowhere DEF PartyState
<1>5. t.halves >= s.halves
  BY <1>1, <1>2 DEF PartyState
<1>6. \A th \in Thread : t.table[th] \in {s.table[th], None}
  BY <1>1, <1>2 DEF PartyState
<1>7. Quiet(p, s, t)
  BY <1>1, <1>2, <1>3, <1>4, <1>5, <1>6, Fading
<1>8. ~InTable(t, i)
  BY <1>1, <1>2, Bounds DEF InTable, PartyState
<1>9. \A j \in Id : InTable(t, j) => InTable(s, j)
  <2> TAKE j \in Id
  <2>1. s.session[j].thread_id \in Thread \cup {None}
    BY <1>1 DEF PartyState, Session
  <2> QED
    BY <1>1, <1>2, <2>1, <1>6, Bounds DEF InTable
<1> QED
  BY <1>2, <1>7, <1>8, <1>9 DEF t

\* The session i is the same one, and the only one that was changed
Tame(p, s, t, i) ==
    /\ Right(p, s) /\ Quiet(p, s, t) /\ Right(p, t) /\ t.table = s.table
    /\ Linkable(t, i) /\ t.session[i].thread_id = s.session[i].thread_id
    /\ \A j \in Id : j # i => t.session[j] = s.session[j]

LEMMA TameTransitive ==
    ASSUME NEW p \in Party, NEW s, NEW t, NEW u, NEW i, Tame(p, s, t, i), Tame(p, t, u, i)
    PROVE  Tame(p, s, u, i)
<1>1. Quiet(p, s, t) /\ Quiet(p, t, u)
  BY DEF Tame
<1>2. Quiet(p, s, u)
  BY <1>1, QuietTransitive DEF Tame, Right
<1> QED
  BY <1>2 DEF Tame

LEMMA EditedTame ==
    ASSUME NEW p \in Party, NEW s, Right(p, s), NEW i, Linkable(s, i), NEW x \in Session,
           Fades(p, s, s.session[i], x), NEW t \in PartyState, Edits(s, t, i, x)
    PROVE  Tame(p, s, t, i) /\ t.session[i] = x /\ t.out = s.out
<1>1. Quiet(p, s, t) /\ t.session[i] = x
  BY Edited DEF Linkable
<1>2. Right(p, t)
  BY <1>1, QuietRight
<1>3. s \in PartyState
  BY DEF Right
<1> QED
  BY <1>1, <1>2, <1>3 DEF Tame, Edits, Linkable, Fades, PartyState

LEMMA SendTame ==
    ASSUME NEW p \in Party, NEW s, Right(p, s), NEW i, Linkable(s, i), NEW e, Idle(p, s, e)
    PROVE  LET t == Send(s, i, e)
           IN Tame(p, s, t, i) /\ t.session[i].status = s.session[i].status
              /\ t.session[i].enable_encryption = s.session[i].enable_encryption /\ t.session[i].bare = s.session[i].bare
<1> DEFINE t == Send(s, i, e)
<1>1. s \in PartyState /\ e \in Stanza /\ i \in Id
  BY DEF Right, Idle, Linkable
<1>2. s.session[i] \in Session
  BY <1>1 DEF PartyState
<1>3. Quiet(p, s, t)
  BY <1>1, SendQuiet
<1>4. /\ \E b \in BOOLEAN : t.session[i] = [s.session[i] EXCEPT !.last_send = b]
      /\ \A j \in Id : j # i => t.session[j] = s.session[j]
      /\ t.table = s.table
  BY SMTT(30), <1>1, SendIs DEF Sends
<1> HIDE DEF t
<1>5. Right(p, t)
  BY <1>3, QuietRight
<1>6. /\ t.session[i].thread_id = s.session[i].thread_id
      /\ t.session[i].status = s.session[i].status
      /\ t.session[i].enable_encryption = s.session[i].enable_encryption /\ t.session[i].bare = s.session[i].bare
  BY <1>2, <1>4 DEF Session
<1>7. Tame(p, s, t, i)
  BY <1>3, <1>4, <1>5, <1>6 DEF Tame, Linkable
<1> QED
  BY <1>6, <1>7 DEF t

LEMMA NegotiateTame ==
    ASSUME NEW p \in Party, NEW s, Right(p, s), NEW i, Linkable(s, i)
    PROVE  LET t == NegotiateE2E(p, s, i)
           IN Tame(p, s, t, i) /\ t.session[i].status = "requested-e2e"
<1> DEFINE h == NewHalf(p, s)
           x == [s.session[i] EXCEPT !.x = h, !.logging = None, !.status = "requested-e2e"]
           u == [s EXCEPT !.halves = @ + 1, !.session[i] = x]
           e == [Of(s, i, "form") EXCEPT !.half = h]
<1>1. s \in PartyState /\ i \in Id /\ s.session[i] \in Session /\ s.halves \in Nat
      /\ s.session[i].thread_id \in Thread
  BY DEF Right, Linkable, PartyState, Session
<1>2. h \in Half /\ h[1] = p /\ h[2] = s.halves + 1 /\ h # None
  BY <1>1, NamesAssumption DEF NewHalf, Half
<1> HIDE DEF h
<1>3. x \in Session
  BY <1>1, <1>2 DEF Session, Waiting
<1> HIDE DEF x
<1>4. /\ u \in PartyState /\ u.session = [s.session EXCEPT ![i] = x]
      /\ u.table = s.table /\ u.chat = s.chat /\ u.queue = s.queue
      /\ u.dialogs = s.dialogs /\ u.online = s.online
      /\ u.halves = s.halves + 1 /\ u.taken = s.taken /\ u.out = s.out
  <2>1. u = [s EXCEPT !.halves = s.halves + 1, !.session = [s.session EXCEPT ![i] = x]]
    BY <1>1 DEF PartyState
  <2>2. [s.session EXCEPT ![i] = x] \in [Id -> Session] /\ s.halves + 1 \in Nat
    BY <1>1, <1>3 DEF PartyState
  <2> QED
    BY <1>1, <2>1, <2>2 DEF PartyState
<1>5. NegotiateE2E(p, s, i) = Send(u, i, e)
  BY DEF NegotiateE2E, x, h
<1> HIDE DEF u
<1>6. h \in Made(p, u)
  BY <1>1, <1>2, <1>4 DEF Made
<1>7. u.session[i] = x /\ \A j \in Id : j # i => u.session[j] = s.session[j]
  BY <1>1, <1>4 DEF PartyState
<1>8. Fades(p, u, s.session[i], u.session[i])
  BY <1>1, <1>2, <1>6, <1>7 DEF Fades, Same, Base, x, Session, Streaming
<1>9. Goes(p, u, s.out, u.out)
  BY <1>1, <1>4, GoesNowhere DEF PartyState
<1>10. Quiet(p, s, u)
  <2>1. u.halves >= s.halves
    BY <1>1, <1>4
  <2> QED
    BY <1>1, <1>4, <1>7, <1>8, <1>9, <2>1, Fading
<1>11. Right(p, u)
  BY <1>10, QuietRight
<1>12. Tame(p, s, u, i)
  BY <1>1, <1>4, <1>7, <1>8, <1>10, <1>11 DEF Tame, Linkable, Fades
<1>13. Idle(p, u, e)
  <2>1. Plain("form", s.session[i].thread_id) \in Stanza
    BY <1>1, PlainIs
  <2>2. e \in Stanza /\ e.kind = "form" /\ e.half = h /\ e.counter[1] = None
        /\ e.thread = s.session[i].thread_id
    BY <1>1, <1>2, <2>1 DEF Of, Plain, Stanza, NoCounter
  <2> QED
    BY <1>6, <2>2 DEF Idle, Linkable
<1>14. Linkable(u, i)
  BY <1>12 DEF Tame
<1>15. Tame(p, u, Send(u, i, e), i) /\ Send(u, i, e).session[i].status = u.session[i].status
  BY <1>11, <1>13, <1>14, SendTame
<1>16. u.session[i].status = "requested-e2e"
  BY <1>1, <1>7 DEF x, Session
<1> HIDE DEF e
<1> QED
  BY <1>5, <1>12, <1>15, <1>16, TameTransitive

\* A session that has no status any more
LEMMA HushedFades ==
    ASSUME NEW p \in Party, NEW s, Right(p, s), NEW i \in Id, NEW x,
           x.thread_id = s.session[i].thread_id, x.c_o = s.session[i].c_o,
           x.c_s = s.session[i].c_s, x.x = s.session[i].x, x.status = None,
           x.enable_encryption => s.session[i].enable_encryption,
           x.bare = s.session[i].bare
    PROVE  Fades(p, s, s.session[i], x)
BY NoneIs DEF Fades, Right, Base

\* Out of a negotiation, what is left of a session fades
LEMMA FailTame ==
    ASSUME NEW p \in Party, NEW s, Right(p, s), NEW i, Linkable(s, i)
    PROVE  LET t == FailBadNegotiation(s, i)
           IN Tame(p, s, t, i) /\ t.session[i].status = None
<1> DEFINE x == [s.session[i] EXCEPT !.status = None, !.km_o = Empty,
                                     !.enable_encryption = FALSE]
           u == [s EXCEPT !.session[i] = x]
           e == Of(s, i, "error")
<1>1. s \in PartyState /\ i \in Id /\ s.session[i] \in Session
  BY DEF Right, Linkable, PartyState
<1>2. x \in Session
  BY <1>1 DEF Session
<1>3. Fades(p, s, s.session[i], x)
  <2>1. x.status = None /\ x.thread_id = s.session[i].thread_id /\ x.c_o = s.session[i].c_o
        /\ x.c_s = s.session[i].c_s /\ x.x = s.session[i].x /\ x.enable_encryption = FALSE
        /\ x.bare = s.session[i].bare
    BY <1>1 DEF Session
  <2> QED
    BY <1>1, <2>1, HushedFades
<1>4. x.status = None
  BY <1>1 DEF Session
<1>5. FailBadNegotiation(s, i) = Send(u, i, e)
  BY DEF FailBadNegotiation
<1> HIDE DEF x
<1>6. u \in PartyState /\ Edits(s, u, i, x)
  BY <1>1, <1>2 DEF PartyState, Edits
<1>7. Idle(p, u, e)
  BY <1>1, OfIdle DEF Idle, Of, Plain
<1> HIDE DEF u, e
<1>8. Tame(p, s, u, i) /\ u.session[i] = x
  BY <1>2, <1>3, <1>6, EditedTame
<1>9. Tame(p, u, Send(u, i, e), i) /\ Send(u, i, e).session[i].status = None
  BY <1>4, <1>7, <1>8, SendTame DEF Tame
<1> QED
  BY <1>5, <1>8, <1>9, TameTransitive

LEMMA CancelledTame ==
    ASSUME NEW p \in Party, NEW s, Right(p, s), NEW i, Linkable(s, i)
    PROVE  LET t == CancelledNegotiation(s, i)
           IN Tame(p, s, t, i) /\ t.session[i].status = None
<1> DEFINE x == [s.session[i] EXCEPT !.status = None, !.logging = None,
                                     !.enable_encryption = FALSE, !.km_o = Empty]
           u == [s EXCEPT !.session[i] = x]
<1>1. s \in PartyState /\ i \in Id /\ s.session[i] \in Session
  BY DEF Right, Linkable, PartyState
<1>2. x \in Session
  BY <1>1 DEF Session
<1>3. Fades(p, s, s.session[i], x)
  <2>1. x.status = None /\ x.thread_id = s.session[i].thread_id /\ x.c_o = s.session[i].c_o
        /\ x.c_s = s.session[i].c_s /\ x.x = s.session[i].x /\ x.enable_encryption = FALSE
        /\ x.bare = s.session[i].bare
    BY <1>1 DEF Session
  <2> QED
    BY <1>1, <2>1, HushedFades
<1>4. x.status = None
  BY <1>1 DEF Session
<1>5. CancelledNegotiation(s, i) = u
  BY DEF CancelledNegotiation
<1> HIDE DEF x
<1>6. u \in PartyState /\ Edits(s, u, i, x)
  BY <1>1, <1>2 DEF PartyState, Edits
<1> HIDE DEF u
<1> QED
  BY <1>2, <1>3, <1>4, <1>5, <1>6, EditedTame

LEMMA RejectTame ==
    ASSUME NEW p \in Party, NEW s, Right(p, s), NEW i, Linkable(s, i)
    PROVE  LET t == RejectNegotiation(s, i)
           IN Tame(p, s, t, i) /\ t.session[i].status = None
<1> DEFINE e == Of(s, i, "cancel")
           u == Send(s, i, e)
<1>1. Idle(p, s, e)
  BY OfIdle DEF Right
<1>2. Tame(p, s, u, i)
  BY <1>1, SendTame
<1>3. RejectNegotiation(s, i) = CancelledNegotiation(u, i)
  BY DEF RejectNegotiation
<1> HIDE DEF u, e
<1>4. LET t == CancelledNegotiation(u, i) IN Tame(p, u, t, i) /\ t.session[i].status = None
  BY <1>2, CancelledTame DEF Tame
<1> QED
  BY <1>2, <1>3, <1>4, TameTransitive

LEMMA TerminateTame ==
    ASSUME NEW p \in Party, NEW s, Right(p, s), NEW i, Linkable(s, i)
    PROVE  LET t == Terminate(s, i)
           IN Tame(p, s, t, i) /\ t.session[i].status = None /\ t.chat # i
<1> DEFINE e == Of(s, i, "terminate")
           told == IF s.session[i].last_send
                      /\ (s.session[i].received_thread_id \/ ~s.session[i].last_receive)
                   THEN Send(s, i, e) ELSE s
           x == [told.session[i] EXCEPT !.status = None]
           u == [told EXCEPT !.session[i] = x]
           t == LoseControl(u, i)
<1>1. t = Terminate(s, i)
  BY DEF Terminate
<1>2. Idle(p, s, e)
  BY OfIdle DEF Right
<1>3. Tame(p, s, told, i)
  <2>1. Tame(p, s, Send(s, i, e), i)
    BY <1>2, SendTame
  <2>2. Tame(p, s, s, i)
    BY QuietSelf DEF Tame
  <2> QED
    BY <2>1, <2>2
<1> HIDE DEF told, e
<1>4. Right(p, told) /\ i \in Id /\ told \in PartyState /\ told.session[i] \in Session
  BY <1>3 DEF Tame, Linkable, Right, PartyState
<1>7. x \in Session /\ Fades(p, told, told.session[i], x) /\ x.status = None
  <2>1. /\ x \in Session /\ x.thread_id = told.session[i].thread_id
        /\ x.c_o = told.session[i].c_o /\ x.c_s = told.session[i].c_s
        /\ x.x = told.session[i].x /\ x.status = None
        /\ x.enable_encryption = told.session[i].enable_encryption /\ x.bare = told.session[i].bare
    BY <1>4 DEF Session
  <2> QED
    BY <1>4, <2>1, HushedFades
<1> HIDE DEF x
<1>8. /\ u \in PartyState /\ Edits(told, u, i, x) /\ u.session[i] = x
      /\ u.session = [told.session EXCEPT ![i] = x]
  BY <1>4, <1>7 DEF Edits, PartyState
<1>9. t \in PartyState /\ Edits(u, t, i, u.session[i]) /\ t.chat # i
  BY <1>4, <1>8, LoseControlIs
<1> HIDE DEF u, t
<1>10. Edits(told, t, i, x)
  BY <1>4, <1>8, <1>9 DEF Edits, PartyState
<1>11. Tame(p, told, t, i) /\ t.session[i] = x
  BY <1>3, <1>4, <1>7, <1>9, <1>10, EditedTame DEF Tame
<1>12. Tame(p, s, t, i)
  BY <1>3, <1>11, TameTransitive
<1> QED
  BY <1>1, <1>7, <1>9, <1>11, <1>12

LEMMA TerminateE2ETame ==
    ASSUME NEW p \in Party, NEW s, Right(p, s), NEW i, Linkable(s, i)
    PROVE  LET t == TerminateE2E(s, i)
           IN Tame(p, s, t, i) /\ t.session[i].status = None /\ t.chat # i
              /\ ~t.session[i].enable_encryption
<1> DEFINE r == Terminate(s, i)
           x == [r.session[i] EXCEPT !.enable_encryption = FALSE]
           t == [r EXCEPT !.session[i] = x]
<1>1. t = TerminateE2E(s, i)
  BY DEF TerminateE2E
<1>2. Tame(p, s, r, i) /\ r.session[i].status = None /\ r.chat # i
  BY TerminateTame
<1> HIDE DEF r
<1>3. Right(p, r) /\ i \in Id /\ r \in PartyState /\ r.session[i] \in Session
      /\ Linkable(r, i)
  BY <1>2 DEF Tame, Linkable, Right, PartyState
<1>4. x \in Session /\ Fades(p, r, r.session[i], x) /\ x.status = None /\ ~x.enable_encryption
  <2>1. x \in Session
    BY <1>3 DEF Session
  <2>2. /\ x.thread_id = r.session[i].thread_id /\ x.c_o = r.session[i].c_o
        /\ x.c_s = r.session[i].c_s /\ x.x = r.session[i].x /\ x.status = None
        /\ ~x.enable_encryption /\ x.bare = r.session[i].bare
    BY <1>2, <1>3 DEF Session
  <2> QED
    BY <1>3, <2>1, <2>2, HushedFades
<1> HIDE DEF x
<1>5. t \in PartyState /\ Edits(r, t, i, x) /\ t.chat = r.chat
  BY <1>3, <1>4 DEF Edits, PartyState
<1> HIDE DEF t
<1>6. Tame(p, r, t, i) /\ t.session[i] = x
  BY <1>3, <1>4, <1>5, EditedTame
<1>7. Tame(p, s, t, i)
  BY <1>2, <1>6, TameTransitive
<1> QED
  BY <1>1, <1>2, <1>4, <1>5, <1>6, <1>7

LEMMA AcknowledgeTame ==
    ASSUME NEW p \in Party, NEW s, Right(p, s), NEW i, Linkable(s, i)
    PROVE  LET t == AcknowledgeTermination(s, i)
           IN Tame(p, s, t, i) /\ t.session[i].status = None
              /\ ~t.session[i].enable_encryption
<1> DEFINE u == LoseControl(s, i)
           x == [u.session[i] EXCEPT !.status = None, !.enable_encryption = FALSE]
           t == [u EXCEPT !.session[i] = x]
<1>1. s \in PartyState /\ i \in Id /\ s.session[i] \in Session
  BY DEF Right, Linkable, PartyState
<1>2. t = AcknowledgeTermination(s, i)
  BY DEF AcknowledgeTermination
<1>3. u \in PartyState /\ Edits(s, u, i, s.session[i]) /\ u.session[i] = s.session[i]
  BY <1>1, LoseControlIs DEF Edits, PartyState
<1>4. x \in Session /\ Fades(p, s, s.session[i], x) /\ x.status = None /\ ~x.enable_encryption
  <2>1. /\ x \in Session /\ x.thread_id = s.session[i].thread_id
        /\ x.c_o = s.session[i].c_o /\ x.c_s = s.session[i].c_s
        /\ x.x = s.session[i].x /\ x.status = None /\ ~x.enable_encryption
        /\ x.bare = s.session[i].bare
    BY ZenonT(30), <1>1, <1>3 DEF Session
  <2> QED
    BY <1>1, <2>1, HushedFades
<1> HIDE DEF x
<1>5. t \in PartyState /\ Edits(u, t, i, x)
  BY <1>1, <1>3, <1>4 DEF Edits, PartyState
<1> HIDE DEF t, u
<1>6. Edits(s, t, i, x)
  BY <1>1, <1>3, <1>5 DEF Edits, PartyState
<1> QED
  BY <1>2, <1>4, <1>5, <1>6, EditedTame

LEMMA RoughTame ==
    ASSUME NEW p \in Party, NEW s, Right(p, s), NEW i, Linkable(s, i), NEW b \in BOOLEAN
    PROVE  Tame(p, s, [s EXCEPT !.rough = b], i)
<1> DEFINE t == [s EXCEPT !.rough = b]
<1>1. s \in PartyState /\ i \in Id /\ s.session[i] \in Session
  BY DEF Right, Linkable, PartyState
<1>2. t \in PartyState /\ Edits(s, t, i, s.session[i])
  BY <1>1 DEF PartyState, Edits
<1> HIDE DEF t
<1>3. Fades(p, s, s.session[i], s.session[i])
  BY <1>1 DEF Fades, Same, Right
<1> QED
  BY <1>1, <1>2, <1>3, EditedTame DEF t

LEMMA FailedDecryptIs ==
    ASSUME NEW p \in Party, NEW s, Right(p, s), NEW i, Linkable(s, i)
    PROVE  LET t == FailedDecrypt(p, s, i)
           IN /\ Quiet(p, s, t) /\ Linkable(t, i)
              /\ t.session[i].thread_id = s.session[i].thread_id
              /\ t.table[s.session[i].thread_id] = None
<1> DEFINE r == [s EXCEPT !.rough = TRUE]
           u == TerminateE2E(r, i)
           d == DeleteSession(u, i)
           t == NegotiateE2E(p, d, i)
<1>1. t = FailedDecrypt(p, s, i)
  BY DEF FailedDecrypt
<1>2. Tame(p, s, r, i)
  BY RoughTame
<1> HIDE DEF r
<1>3. Tame(p, r, u, i)
  BY <1>2, TerminateE2ETame DEF Tame
<1> HIDE DEF u
<1>4. Tame(p, s, u, i)
  BY <1>2, <1>3, TameTransitive
<1>5. Right(p, u) /\ Linkable(u, i) /\ u \in PartyState
      /\ u.session[i].thread_id = s.session[i].thread_id
  BY <1>4 DEF Tame, Right
<1>6. Quiet(p, u, d) /\ d.session = u.session
  BY <1>5, DeleteQuiet
<1>7. d.table[s.session[i].thread_id] = None
  <2>1. u.session[i].thread_id \in Thread
    BY <1>5 DEF Linkable, PartyState, Session
  <2> QED
    BY <1>5, <2>1 DEF DeleteSession, PartyState
<1> HIDE DEF d
<1>8. Right(p, d) /\ Linkable(d, i)
  BY <1>5, <1>6, QuietRight DEF Linkable
<1>9. Tame(p, d, t, i)
  BY <1>8, NegotiateTame
<1> HIDE DEF t
<1>10. Quiet(p, s, t)
  <2>1. s \in PartyState /\ d \in PartyState
    BY <1>8 DEF Right
  <2>2. Quiet(p, s, d)
    BY <1>4, <1>6, <2>1, QuietTransitive DEF Tame
  <2> QED
    BY <1>9, <2>1, <2>2, QuietTransitive DEF Tame
<1> QED
  BY <1>1, <1>5, <1>6, <1>7, <1>9, <1>10 DEF Tame

Ended(p, s, t, i, which) ==
    /\ Quiet(p, s, t) /\ Right(p, t)
    /\ \A j \in Id : InTable(t, j) => InTable(s, j) /\ t.session[j] = s.session[j]
    /\ InTable(t, i) => ~Concerns(t.session[i], which)

LEMMA EndIs ==
    ASSUME NEW p \in Party, NEW s, Right(p, s), NEW i \in Id,
           NEW which \in {"unanswered", "encrypted", "all"}
    PROVE  Ended(p, s, End(s, i, which), i, which)
<1> DEFINE u == IF which = "encrypted" THEN TerminateE2E(s, i) ELSE Terminate(s, i)
           d == DeleteSession(u, i)
           t == End(s, i, which)
<1>1. CASE InTable(s, i) /\ Concerns(s.session[i], which)
  <2>1. t = d
    BY <1>1 DEF End
  <2>2. Linkable(s, i)
    BY <1>1 DEF Linkable, InTable
  <2>3. Tame(p, s, u, i)
    <3>1. Tame(p, s, Terminate(s, i), i)
      BY <2>2, TerminateTame
    <3>2. Tame(p, s, TerminateE2E(s, i), i)
      BY <2>2, TerminateE2ETame
    <3> QED
      BY <3>1, <3>2
  <2> HIDE DEF u
  <2>4. /\ Quiet(p, u, d) /\ ~InTable(d, i) /\ d.session = u.session
        /\ \A j \in Id : InTable(d, j) => InTable(u, j)
    BY <2>3, DeleteQuiet DEF Tame
  <2> HIDE DEF d, t
  <2>5. s \in PartyState
    BY DEF Right
  <2>6. Quiet(p, s, d)
    BY <2>3, <2>4, <2>5, QuietTransitive DEF Tame
  <2>7. Right(p, d)
    BY <2>6, QuietRight
  <2>8. ASSUME NEW j \in Id, InTable(d, j)
        PROVE  InTable(s, j) /\ d.session[j] = s.session[j]
    <3>1. j # i
      BY <2>4, <2>8
    <3>2. u.session[j] = s.session[j] /\ u.table = s.table
      BY <2>3, <3>1 DEF Tame
    <3> QED
      BY <2>4, <2>8, <3>2 DEF InTable
  <2> QED
    BY <2>1, <2>4, <2>6, <2>7, <2>8 DEF t, Ended
<1>2. CASE ~(InTable(s, i) /\ Concerns(s.session[i], which))
  <2>1. t = s
    BY <1>2 DEF End
  <2> QED
    BY <1>2, <2>1, QuietSelf DEF Ended
<1> QED
  BY <1>1, <1>2

LEMMA EndEachIs ==
    ASSUME NEW p \in Party, NEW s, Right(p, s),
           NEW which \in {"unanswered", "encrypted", "all"}
    PROVE  LET t == EndEach(s, which)
           IN /\ Quiet(p, s, t)
              /\ \A j \in Id : InTable(t, j) => /\ InTable(s, j) /\ t.session[j] = s.session[j]
                                                /\ ~Concerns(s.session[j], which)
<1> DEFINE N == MaxSessions
           U == {x \in PartyState :
                    /\ Right(p, x) /\ Quiet(p, s, x)
                    /\ \A j \in Id : InTable(x, j) => InTable(s, j) /\ x.session[j] = s.session[j]}
           P == [n \in 0 .. N |-> {x \in U : \A j \in 1 .. n :
                    InTable(x, j) => ~Concerns(s.session[j], which)}]
           F == [n \in 1 .. N |-> [x \in U |-> End(x, n, which)]]
           f == CHOOSE f : f = [n \in 0 .. N |->
                    IF n = 0 THEN s ELSE End(f[n - 1], n, which)]
<1>1. N \in Nat /\ Id = 1 .. N /\ N \in 0 .. N
  BY Bounds DEF Id
<1>2. s \in P[0]
  <2>1. s \in U
    BY QuietSelf DEF Right
  <2> QED
    BY <1>1, <2>1
<1>3. ASSUME NEW n \in 1 .. N, NEW x \in U, x \in P[n - 1] PROVE End(x, n, which) \in P[n]
  <2>1. n \in Id /\ n - 1 \in 0 .. N /\ n \in 0 .. N
    BY <1>1
  <2> DEFINE t == End(x, n, which)
  <2>2. Ended(p, x, t, n, which)
    BY <2>1, EndIs
  <2> HIDE DEF t
  <2>3. t \in U
    <3>1. t \in PartyState /\ Quiet(p, s, t)
      BY <2>2, QuietTransitive DEF Ended, Right
    <3> QED
      BY <2>2, <3>1 DEF Ended
  <2>4. ASSUME NEW j \in 1 .. n, InTable(t, j) PROVE ~Concerns(s.session[j], which)
    <3>1. j \in Id
      BY <1>1, <2>1
    <3>2. t.session[j] = s.session[j]
      BY <2>3, <2>4, <3>1
    <3>3. CASE j = n
      BY <2>2, <2>4, <3>2, <3>3 DEF Ended
    <3>4. CASE j # n
      <4>1. j \in 1 .. n - 1 /\ InTable(x, j)
        BY <2>2, <2>4, <3>1, <3>4 DEF Ended
      <4> QED
        BY <1>3, <2>1, <4>1
    <3> QED
      BY <3>3, <3>4
  <2> QED
    BY <2>1, <2>3, <2>4 DEF t
<1>4. StepsTo(N, U, P, F)
  <2>1. P \in [0 .. N -> SUBSET U]
    <3> HIDE DEF U
    <3> QED
      OBVIOUS
  <2>2. ASSUME NEW n \in 1 .. N, NEW x \in P[n - 1] PROVE F[n][x] \in P[n]
    <3>1. x \in U
      <4>1. n - 1 \in 0 .. N
        BY <1>1
      <4> HIDE DEF U
      <4> QED
        BY <4>1
    <3>2. F[n][x] = End(x, n, which)
      BY <3>1
    <3> QED
      BY <1>3, <3>1, <3>2
  <2> HIDE DEF P, F
  <2> QED
    BY <2>1, <2>2 DEF StepsTo
<1>5. PICK g \in [0 .. N -> U] : Computes(N, P, F, s, g)
  <2> HIDE DEF P, F, U, N
  <2> QED
    BY <1>1, <1>2, <1>4, LoopExists
<1> HIDE DEF U
<1>6. g = [n \in 0 .. N |-> IF n = 0 THEN s ELSE End(g[n - 1], n, which)]
  <2>1. \A n \in 0 .. N : g[n] = IF n = 0 THEN s ELSE End(g[n - 1], n, which)
    <3> TAKE n \in 0 .. N
    <3>1. CASE n # 0
      <4>1. n \in 1 .. N /\ n - 1 \in 0 .. N
        BY <1>1, <3>1
      <4>2. g[n - 1] \in U
        BY <4>1
      <4>3. g[n] = F[n][g[n - 1]]
        BY <1>5, <4>1 DEF Computes
      <4> QED
        BY <3>1, <4>1, <4>2, <4>3
    <3> QED
      BY <1>5, <3>1 DEF Computes
  <2> HIDE DEF N
  <2> QED
    BY <2>1
<1>7. f = [n \in 0 .. N |-> IF n = 0 THEN s ELSE End(f[n - 1], n, which)]
  <2> HIDE DEF N
  <2> QED
    BY <1>6
<1>8. EndEach(s, which) = f[N]
  BY DEF EndEach
<1> HIDE DEF f
<1>9. f[N] \in P[N]
  <2>1. f[0] \in P[0]
    BY <1>1, <1>2, <1>7
  <2>2. ASSUME NEW n \in 1 .. N, f[n - 1] \in P[n - 1] PROVE f[n] \in P[n]
    <3>1. n \in 0 .. N /\ n # 0 /\ n - 1 \in 0 .. N
      BY <1>1
    <3>2. f[n] = End(f[n - 1], n, which)
      BY <1>7, <3>1
    <3>3. f[n - 1] \in U
      BY <2>2, <3>1
    <3> QED
      BY <1>3, <2>2, <3>2, <3>3
  <2> HIDE DEF P, N
  <2> QED
    BY <1>1, <2>1, <2>2, LoopKeeps
<1>10. f[N] \in U /\ \A j \in Id : InTable(f[N], j) => ~Concerns(s.session[j], which)
  BY <1>1, <1>9
<1> QED
  BY <1>8, <1>10 DEF U

LEMMA UnavailableIs ==
    ASSUME NEW p \in Party, NEW s, Right(p, s)
    PROVE  LET t == Unavailable(s)
           IN /\ Quiet(p, s, t)
              /\ \A j \in Id : InTable(t, j) => Bared(t.session[j])
<1> DEFINE u == EndEach(s, "unanswered")
           t == EndEach(u, "encrypted")
<1>1. Quiet(p, s, u)
  BY EndEachIs
<1>2. Unavailable(s) = t
  BY DEF Unavailable
<1> HIDE DEF u
<1>3. Right(p, u)
  BY <1>1, QuietRight
<1>4. /\ Quiet(p, u, t)
      /\ \A j \in Id : InTable(t, j) => t.session[j] = u.session[j]
                                        /\ ~Concerns(u.session[j], "encrypted")
  BY <1>3, EndEachIs
<1> HIDE DEF t
<1>5. Quiet(p, s, t)
  BY <1>1, <1>3, <1>4, QuietTransitive DEF Right
<1> QED
  BY <1>2, <1>4, <1>5 DEF Concerns, Bared

\* What refers to sessions is another
LEMMA Pointed ==
    ASSUME NEW p \in Party, NEW s, Right(p, s), NEW t \in PartyState,
           t.session = s.session, t.table = s.table,
           t.chat \in Id => Linkable(s, t.chat), t.queue # None => Linkable(s, t.queue),
           t.dialogs \subseteq s.dialogs, t.online = s.online, t.halves = s.halves,
           t.taken = s.taken, t.out = s.out
    PROVE  Quiet(p, s, t) /\ Right(p, t)
<1>1. s \in PartyState /\ Linked(s) /\ Quiet(p, s, s)
  BY QuietSelf DEF Right
<1>2. Linked(t)
  BY <1>1 DEF Linked, Linkable
<1>3. Made(p, t) = Made(p, s)
  BY DEF Made
<1>4. Calm(p, s, t)
  <2>1. \A i \in Id : Calmed(p, s, t, i)
    BY <1>1, <1>3 DEF Quiet, Calm, Calmed, InTable
  <2>2. \A d \in t.dialogs : d \in s.dialogs /\ (InTable(t, d.session) => InTable(s, d.session))
    BY DEF InTable
  <2> QED
    BY <1>1, <2>1, <2>2 DEF Quiet, Calm
<1>5. Goes(p, t, s.out, t.out)
  BY <1>1, GoesNowhere DEF PartyState
<1>6. Quiet(p, s, t)
  BY <1>2, <1>4, <1>5 DEF Quiet
<1> QED
  BY <1>6, QuietRight

LEMMA ReceivedIs ==
    ASSUME NEW p \in Party, NEW s, Right(p, s), NEW i, Linkable(s, i), NEW popup \in BOOLEAN
    PROVE  LET t == Received(s, i, popup)
           IN Quiet(p, s, t) /\ t.session = s.session /\ t.table = s.table
<1> DEFINE t == Received(s, i, popup)
<1>1. s \in PartyState /\ i \in Id /\ Linked(s)
  BY DEF Right, Linkable
<1>2. /\ t \in PartyState /\ t.session = s.session /\ t.table = s.table
      /\ t.chat \in {s.chat, i} /\ t.queue \in {s.queue, i, None}
      /\ t.dialogs = s.dialogs /\ t.online = s.online /\ t.halves = s.halves
      /\ t.taken = s.taken /\ t.out = s.out
  BY <1>1 DEF Received, PartyState
<1> HIDE DEF t
<1>3. t.chat \in Id => Linkable(s, t.chat)
  BY <1>1, <1>2 DEF Linkable, Linked
<1>4. t.queue # None => Linkable(s, t.queue)
  <2>1. t.queue # None => t.queue \in Id
    BY <1>2 DEF PartyState
  <2> QED
    BY <1>1, <1>2, <2>1 DEF Linkable, Linked
<1>5. Quiet(p, s, t)
  BY <1>2, <1>3, <1>4, Pointed
<1> QED
  BY <1>2, <1>5 DEF t

LEMMA NewIdIs ==
    ASSUME NEW s \in PartyState, Free(s) # {}
    PROVE  NewId(s) \in Id /\ s.session[NewId(s)] = Unused
<1>1. Free(s) \subseteq Nat
  BY Bounds DEF Free
<1>2. \E i \in Free(s) : \A j \in Free(s) : i <= j
  BY <1>1, LeastExists
<1>3. NewId(s) \in Free(s)
  BY <1>2 DEF NewId
<1> QED
  BY <1>3 DEF Free

LEMMA NewSessionIs ==
    ASSUME NEW p \in Party, NEW s, Right(p, s), Free(s) # {},
           NEW th \in Thread, NEW named \in BOOLEAN, NEW bare \in BOOLEAN
    PROVE  LET t == NewSession(s, th, named, bare)
               i == t.table[th]
           IN /\ Quiet(p, s, t) /\ Linkable(t, i) /\ t.session[i].thread_id = th
              /\ t.chat = s.chat
<1> DEFINE i == NewId(s)
           x == [Unused EXCEPT !.thread_id = th, !.bare = bare,
                               !.received_thread_id = named]
           t == [s EXCEPT !.session[i] = x, !.table[th] = i]
<1>1. t = NewSession(s, th, named, bare)
  BY DEF NewSession
<1>2. s \in PartyState /\ Linked(s)
  BY DEF Right
<1>3. i \in Id /\ s.session[i] = Unused
  BY <1>2, NewIdIs
<1> HIDE DEF i
<1>4. /\ x \in Session /\ Base(x) = None /\ x.c_o[1] = None /\ x.x = None /\ x.status = None
      /\ ~x.enable_encryption /\ x.thread_id = th
  BY UnusedIs DEF Base, Session, Unused, NoCounter
<1> HIDE DEF x
<1>5. /\ t \in PartyState
      /\ t.session = [s.session EXCEPT ![i] = x] /\ t.table = [s.table EXCEPT ![th] = i]
      /\ t.chat = s.chat /\ t.queue = s.queue /\ t.dialogs = s.dialogs
      /\ t.online = s.online /\ t.halves = s.halves /\ t.taken = s.taken /\ t.out = s.out
  BY <1>2, <1>3, <1>4 DEF PartyState
<1> HIDE DEF t
<1>6. t.session[i] = x /\ \A j \in Id : j # i => t.session[j] = s.session[j]
  BY <1>2, <1>3, <1>5 DEF PartyState
<1>7. t.table[th] = i /\ \A k \in Thread : k # th => t.table[k] = s.table[k]
  BY <1>2, <1>3, <1>5 DEF PartyState
<1>8. Unused.x = None /\ Unused.thread_id = None /\ th # None
  BY UnusedIs, NamesAssumption
<1>9. \A d \in s.dialogs : d.session \in Id /\ d.session # i
  BY <1>2, <1>3, <1>8 DEF Right, PartyState
<1>10. Linked(t)
  <2>1. ASSUME NEW k \in Thread, t.table[k] # None PROVE t.session[t.table[k]].thread_id = k
    <3>1. CASE k = th
      BY <1>4, <1>6, <1>7, <3>1
    <3>2. CASE k # th
      <4>1. s.table[k] = t.table[k] /\ s.table[k] \in Id
        BY <1>2, <1>7, <2>1, <3>2 DEF PartyState
      <4>2. s.table[k] # i
        BY <1>2, <1>3, <1>8, <2>1, <4>1, Bounds, NamesAssumption DEF Linked
      <4> QED
        BY <1>2, <1>6, <2>1, <4>1, <4>2 DEF Linked
    <3> QED
      BY <3>1, <3>2
  <2>2. s.queue # None => s.queue \in Id
    BY <1>2 DEF PartyState
  <2> QED
    BY <1>2, <1>3, <1>4, <1>5, <1>6, <1>8, <1>9, <2>1, <2>2 DEF Linked
<1>11. ASSUME NEW j \in Id PROVE Calmed(p, s, t, j)
  <2>1. CASE j = i
    BY <1>4, <1>6, <2>1, NoneIs DEF Calmed
  <2>2. CASE j # i
    <3>1. t.session[j] = s.session[j]
      BY <1>6, <2>2
    <3>2. InTable(t, j) => InTable(s, j)
      BY <1>2, <1>7, <2>2, <3>1 DEF InTable, PartyState, Session
    <3>3. s.session[j].x \in Made(p, t) \cup {None}
      BY <1>5 DEF Right, Made
    <3> QED
      BY <3>1, <3>2, <3>3 DEF Calmed, Same, Right
  <2> QED
    BY <2>1, <2>2
<1>12. Goes(p, t, s.out, t.out) /\ t.halves >= s.halves
  BY <1>2, <1>5, GoesNowhere DEF PartyState
<1>13. \A j \in Id : j # i => (InTable(t, j) => InTable(s, j))
  BY SMTT(30), <1>2, <1>6, <1>7 DEF InTable, PartyState, Session
<1>14. Quiet(p, s, t)
  BY <1>5, <1>6, <1>9, <1>10, <1>11, <1>12, <1>13 DEF Quiet, Calm, Right
<1> QED
  BY <1>1, <1>3, <1>4, <1>5, <1>6, <1>7, <1>8, <1>14 DEF Linkable

LEMMA NewThreadIs ==
    ASSUME NEW p \in Party, NEW s, Right(p, s), Free(s) # {}, s.threads < MaxThreads,
           NEW bare \in BOOLEAN
    PROVE  LET t == NewThread(p, s, bare)
               i == t.table[NextThread(p, s)]
           IN Quiet(p, s, t) /\ Linkable(t, i) /\ t.chat = s.chat
<1> DEFINE u == [s EXCEPT !.threads = @ + 1]
           th == NextThread(p, s)
<1>1. s \in PartyState /\ s.threads \in 0 .. MaxThreads /\ MaxThreads \in Nat
  BY Bounds DEF Right, PartyState
<1>2. th \in Thread
  BY <1>1 DEF NextThread, Thread
<1>3. NewThread(p, s, bare) = NewSession(u, th, FALSE, bare)
  BY DEF NewThread
<1>4. /\ u \in PartyState /\ u.session = s.session /\ u.table = s.table
      /\ u.chat = s.chat /\ u.queue = s.queue /\ u.dialogs = s.dialogs
      /\ u.online = s.online /\ u.halves = s.halves /\ u.taken = s.taken /\ u.out = s.out
  <2>1. u = [s EXCEPT !.threads = s.threads + 1] /\ s.threads + 1 \in 0 .. MaxThreads
    BY <1>1
  <2> QED
    BY <1>1, <2>1 DEF PartyState
<1> HIDE DEF u, th
<1>5. Quiet(p, s, u) /\ Right(p, u)
  <2>1. s.chat \in Id => Linkable(s, s.chat)
    BY DEF Right, Linked, Linkable
  <2>2. s.queue # None => Linkable(s, s.queue)
    BY <1>1 DEF Right, Linked, Linkable, PartyState
  <2> QED
    BY <1>4, <2>1, <2>2, Pointed
<1>6. Free(u) # {}
  BY <1>4 DEF Free
<1>7. LET t == NewSession(u, th, FALSE, bare)
          i == t.table[th]
      IN Quiet(p, u, t) /\ Linkable(t, i) /\ t.chat = u.chat
  BY <1>2, <1>5, <1>6, NewSessionIs
<1>8. Quiet(p, s, NewSession(u, th, FALSE, bare))
  BY <1>1, <1>5, <1>7, QuietTransitive
<1> QED
  BY <1>3, <1>4, <1>7, <1>8 DEF th

LEMMA CollectQuiet ==
    ASSUME NEW p \in Party, NEW s, Right(p, s)
    PROVE  Quiet(p, s, Collect(s))
<1> DEFINE t == Collect(s)
<1>1. s \in PartyState /\ Linked(s)
  BY DEF Right
<1>2. /\ t \in PartyState
      /\ \A i \in Id : t.session[i] = IF Referred(s, i) THEN s.session[i] ELSE Unused
      /\ t.table = s.table /\ t.chat = s.chat /\ t.queue = s.queue
      /\ t.dialogs = s.dialogs /\ t.online = s.online
      /\ t.halves = s.halves /\ t.taken = s.taken /\ t.out = s.out
  BY <1>1, UnusedIs DEF Collect, PartyState
<1> HIDE DEF t
<1>3. \A d \in s.dialogs : d.session \in Id /\ t.session[d.session] = s.session[d.session]
  BY <1>1, <1>2 DEF Referred, PartyState
<1>4. Linked(t)
  <2>1. ASSUME NEW th \in Thread, t.table[th] # None PROVE t.session[t.table[th]].thread_id = th
    <3>1. s.table[th] \in Id /\ s.session[s.table[th]].thread_id = th /\ th # None
      BY <1>1, <1>2, <2>1, NamesAssumption DEF Linked, PartyState
    <3>2. Referred(s, s.table[th])
      BY <3>1 DEF Referred, InTable
    <3> QED
      BY <1>2, <3>1, <3>2
  <2>2. s.queue # None => s.queue \in Id
    BY <1>1 DEF PartyState
  <2>3. s.chat \in Id => t.session[s.chat] = s.session[s.chat]
    BY <1>2 DEF Referred
  <2>4. s.queue # None => t.session[s.queue] = s.session[s.queue]
    BY <1>2, <2>2 DEF Referred
  <2> QED
    BY <1>1, <1>2, <1>3, <2>1, <2>3, <2>4 DEF Linked
<1>5. ASSUME NEW j \in Id PROVE Calmed(p, s, t, j)
  <2>1. CASE Referred(s, j)
    <3>1. t.session[j] = s.session[j]
      BY <1>2, <2>1
    <3>2. InTable(t, j) <=> InTable(s, j)
      BY <1>2, <3>1 DEF InTable
    <3>3. s.session[j].x \in Made(p, t) \cup {None}
      BY <1>2 DEF Right, Made
    <3> QED
      BY <3>1, <3>2, <3>3 DEF Calmed, Same, Right
  <2>2. CASE ~Referred(s, j)
    <3>1. t.session[j] = Unused
      BY <1>2, <2>2
    <3> QED
      BY <3>1, UnusedIs, NoneIs DEF Calmed
  <2> QED
    BY <2>1, <2>2
<1>6. Goes(p, t, s.out, t.out) /\ t.halves >= s.halves
  BY <1>1, <1>2, GoesNowhere DEF PartyState
<1>7. \A d \in s.dialogs : InTable(t, d.session) => InTable(s, d.session)
  BY <1>2, <1>3 DEF InTable
<1>8. Quiet(p, s, t)
  BY <1>2, <1>3, <1>4, <1>5, <1>6, <1>7 DEF Quiet, Calm, Right
<1> QED
  BY <1>8 DEF t

-----------------------------------------------------------------------------
(* What quiet methods do keeps all that holds of the two.                  *)

\* The two accounts
Pair(p, q) == p \in Party /\ q \in Party /\ p # q

LEMMA MadeApart ==
    ASSUME NEW p, NEW q, p # q, NEW s, NEW o
    PROVE  /\ Made(p, s) \cap Made(q, o) = {} /\ None \notin Made(p, s)
           /\ Made(p, s) \subseteq Half /\ \A h \in Made(p, s) : h[1] = p
BY NamesAssumption DEF Made

LEMMA StreamHalf ==
    ASSUME NEW p, NEW q, Pair(p, q), NEW s, NEW o, Local(p, q, s, o), NEW i \in Id
    PROVE  /\ s.session[i].status \in Streaming =>
                 Base(s.session[i]) \in Half /\ Base(s.session[i]) # None
           /\ Base(s.session[i]) # None => Base(s.session[i]) \in Made(p, s) \cup Made(q, o)
           /\ s.session[i].status = "responded-e2e" => Base(s.session[i]) \in Made(p, s)
           /\ s.session[i].status = "identified-alice" => Base(s.session[i]) \in Made(q, o)
           /\ s.session[i].status = "active" =>
                 s.session[i].km_s \in Key /\ Base(s.session[i]) \in Done(s)
<1>1. Kept(p, q, s, o, s.session[i]) /\ s \in PartyState
  BY DEF Local
<1>2. s.taken \subseteq Key
  BY <1>1 DEF PartyState
<1>3. s.session[i].status = "active" =>
         s.session[i].km_s \in Key /\ Base(s.session[i]) \in Done(s)
         /\ Base(s.session[i]) \in Half
  BY <1>1, <1>2 DEF Kept, Active, Done, Key
<1>4. s.session[i].status = "responded-e2e" => Base(s.session[i]) \in Made(p, s)
  BY <1>1 DEF Kept, Responded
<1>5. s.session[i].status = "identified-alice" => Base(s.session[i]) \in Made(q, o)
  BY <1>1 DEF Kept, Identified
<1>6. Base(s.session[i]) # None => Base(s.session[i]) \in Made(p, s) \cup Made(q, o)
  BY <1>1 DEF Kept
<1>7. \A h \in Half : h # None
  BY NamesAssumption
<1> QED
  BY <1>3, <1>4, <1>5, <1>6, <1>7 DEF Streaming, Made

\* v is the beginning of u
Extends(v, u) ==
    /\ v \in Seq(Stanza) /\ u \in Seq(Stanza)
    /\ Len(v) <= Len(u) /\ \A n \in 1 .. Len(v) : u[n] = v[n]

LEMMA OrderedElse ==
    ASSUME NEW v, NEW u, Extends(v, u), NEW h,
           \A n \in 1 .. Len(u) : n > Len(v) => u[n].counter[1] # h
    PROVE  /\ Runs(u, h) = Runs(v, h)
           /\ \A n \in Runs(v, h) : u[n] = v[n]
           /\ \A a, b : Ordered(v, h, a, b) => Ordered(u, h, a, b)
<1>1. DOMAIN v = 1 .. Len(v) /\ DOMAIN u = 1 .. Len(u) /\ Len(v) \in Nat /\ Len(u) \in Nat
  BY DEF Extends
<1>2. Runs(u, h) = Runs(v, h)
  BY <1>1 DEF Runs, Extends
<1>3. \A n \in Runs(v, h) : u[n] = v[n]
  BY <1>1 DEF Runs, Extends
<1>4. \A a, b : Ordered(v, h, a, b) => Ordered(u, h, a, b)
  BY <1>2, <1>3 DEF Ordered
<1> QED
  BY <1>2, <1>3, <1>4

\* What is sent with it, or as the connection ends, is of no session's stream
Idling(p, t, l, e) == Idle(p, t, e) \/ (e = Plain("unavailable", None) /\ p \in l)

Passes(p, t, l, v, u) ==
    Extends(v, u) /\ \A n \in 1 .. Len(u) : n > Len(v) => Idling(p, t, l, u[n])

LEMMA IdlingIs ==
    ASSUME NEW p, NEW q, NEW o, NEW t, NEW l, NEW e, Idling(p, t, l, e)
    PROVE  /\ e.counter[1] = None /\ e.kind \notin Counted \cup {"submit"}
           /\ Sent(q, p, o, t, l, e)
<1>1. CASE Idle(p, t, e)
  BY <1>1 DEF Idle, Sent, Counted
<1>2. CASE e = Plain("unavailable", None) /\ p \in l
  BY <1>2, PlainIs DEF Sent, Counted
<1> QED
  BY <1>1, <1>2 DEF Idling

LEMMA GoesPasses ==
    ASSUME NEW p, NEW t, NEW l, NEW v, NEW u, Goes(p, t, v, u)
    PROVE  Passes(p, t, l, v, u)
BY DEF Goes, Passes, Extends, Idling

LEMMA PassesExtends ==
    ASSUME NEW p, NEW t, NEW l, NEW v, NEW u, Passes(p, t, l, v, u)
    PROVE  /\ Extends(v, u)
           /\ \A n \in DOMAIN v : n \in DOMAIN u /\ u[n] = v[n]
           /\ \A n \in DOMAIN u : n \in DOMAIN v \/ Idling(p, t, l, u[n])
           /\ \A n \in DOMAIN u : n \in DOMAIN v \/ (/\ u[n].counter[1] = None
                                                    /\ u[n].kind \notin Counted \cup {"submit"})
           /\ \A h \in Half : /\ Runs(u, h) = Runs(v, h)
                              /\ \A n \in Runs(v, h) : u[n] = v[n]
                              /\ \A a, b : Ordered(v, h, a, b) => Ordered(u, h, a, b)
<1>1. Extends(v, u)
  BY DEF Passes
<1>2. DOMAIN v = 1 .. Len(v) /\ DOMAIN u = 1 .. Len(u) /\ Len(v) \in Nat /\ Len(u) \in Nat
  BY <1>1 DEF Extends
<1>3. \A n \in 1 .. Len(u) : n > Len(v) => /\ u[n].counter[1] = None
                                           /\ u[n].kind \notin Counted \cup {"submit"}
  BY IdlingIs DEF Passes
<1>4. \A h \in Half : \A n \in 1 .. Len(u) : n > Len(v) => u[n].counter[1] # h
  BY <1>3, NamesAssumption
<1>5. \A h \in Half : /\ Runs(u, h) = Runs(v, h)
                      /\ \A n \in Runs(v, h) : u[n] = v[n]
                      /\ \A a, b : Ordered(v, h, a, b) => Ordered(u, h, a, b)
  BY <1>1, <1>4, OrderedElse
<1>6. \A n \in DOMAIN v : n \in DOMAIN u /\ u[n] = v[n]
  BY <1>1, <1>2 DEF Extends
<1>7. \A n \in DOMAIN u : n \in DOMAIN v \/ n > Len(v)
  BY <1>2
<1> QED
  BY <1>1, <1>2, <1>3, <1>5, <1>6, <1>7 DEF Passes

Settles(p, s, t) == t \in PartyState /\ Linked(t) /\ Calm(p, s, t)

LEMMA SettlesLocal ==
    ASSUME NEW p, NEW q, Pair(p, q), NEW s, NEW o, NEW t, Settles(p, s, t),
           Local(p, q, s, o), Local(q, p, o, s)
    PROVE  Local(p, q, t, o) /\ Local(q, p, o, t) /\ Made(p, s) \subseteq Made(p, t)
<1>1. s \in PartyState /\ t \in PartyState /\ o \in PartyState /\ t.taken = s.taken
      /\ \A i \in Id : Calmed(p, s, t, i)
  BY DEF Local, Settles, Calm
<1>2. Made(p, s) \subseteq Made(p, t)
  BY <1>1, MadeGrows DEF Settles, Calm
<1>3. Done(t) = Done(s)
  BY <1>1 DEF Done
<1>4. ASSUME NEW i \in Id PROVE Kept(p, q, t, o, t.session[i])
  <2>1. Kept(p, q, s, o, s.session[i]) /\ Calmed(p, s, t, i)
    BY <1>1 DEF Local
  <2>2. t.session[i].status \in Streaming => Same(s.session[i], t.session[i])
    BY <2>1 DEF Calmed
  <2>3. Responded(p, q, t, t.session[i])
    BY <1>2, <1>3, <2>1, <2>2 DEF Kept, Responded, Same, Streaming, Base
  <2>4. Identified(p, q, t, o, t.session[i])
    BY <1>3, <2>1, <2>2 DEF Kept, Identified, Same, Streaming, Base
  <2>5. Active(p, q, t, t.session[i])
    BY <1>1, <2>1, <2>2 DEF Kept, Active, Same, Streaming, Base
  <2> QED
    BY <1>2, <2>1, <2>3, <2>4, <2>5 DEF Kept, Calmed
<1>5. Apart(t)
  BY <1>1 DEF Apart, Local, Calmed
<1>6. Asked(q, t, o)
  BY DEF Asked, Local, Settles, Calm
<1>7. Taken(p, q, t, o)
  BY <1>1, <1>2 DEF Taken, Local
<1>8. Local(p, q, t, o)
  BY <1>1, <1>4, <1>5, <1>6, <1>7 DEF Local, Settles
<1>9. ASSUME NEW i \in Id PROVE Kept(q, p, o, t, o.session[i])
  BY <1>2 DEF Local, Kept, Responded, Identified, Active
<1>10. Asked(p, o, t) /\ Taken(q, p, o, t)
  BY <1>1, <1>2 DEF Local, Asked, Taken
<1>11. Local(q, p, o, t)
  BY <1>9, <1>10 DEF Local
<1> QED
  BY <1>2, <1>8, <1>11

\* Of what p did: the facts about it that the next lemmas use
LEMMA SettlesFacts ==
    ASSUME NEW p, NEW q, Pair(p, q), NEW s, NEW o, NEW t, Settles(p, s, t),
           Local(p, q, s, o), NEW i \in Id
    PROVE  LET a == s.session[i]
               b == t.session[i]
           IN /\ Base(b) # None => Base(b) = Base(a) /\ b.thread_id = a.thread_id
                                   /\ (InTable(t, i) => InTable(s, i))
              /\ b.enable_encryption => /\ a.enable_encryption /\ a.bare = b.bare
                                        /\ InTable(t, i) => InTable(s, i)
              /\ b.status \in Streaming =>
                    /\ a.status = b.status /\ a.c_s = b.c_s /\ a.c_o = b.c_o
                    /\ a.enable_encryption = b.enable_encryption /\ a.bare = b.bare
                    /\ Base(b) = Base(a) /\ Base(b) \in Half
                    /\ InTable(t, i) => InTable(s, i)
<1>1. Calmed(p, s, t, i)
  BY DEF Settles, Calm
<1>2. t.session[i].status \in Streaming => Same(s.session[i], t.session[i])
  BY <1>1 DEF Calmed
<1>3. t.session[i].status \in Streaming =>
         Base(t.session[i]) = Base(s.session[i]) /\ Base(t.session[i]) \in Half
         /\ Base(t.session[i]) # None
  BY <1>2, StreamHalf DEF Same, Base
<1> QED
  BY <1>1, <1>2, <1>3 DEF Calmed, Same

LEMMA SettlesOne ==
    ASSUME NEW p, NEW q, Pair(p, q), NEW s, NEW o, NEW t, NEW w, NEW v, NEW u, NEW l, NEW T,
           Both(p, q, s, o, w, v, l, T), Settles(p, s, t), Passes(p, t, l, v, u),
           ~t.online => p \in l
    PROVE  One(p, q, t, o, w, u, l, T)
<1>1. /\ Local(p, q, s, o) /\ Local(q, p, o, s) /\ Under(p, q, s, o, l, w) /\ Once(w)
      /\ Unanswered(s, o, w, v) /\ Identity(s, w) /\ Matched(q, s, o, w, v, l)
      /\ Answers(q, s, o, w, v, l) /\ Noticed(s, o, w, l) /\ Threaded(s, w, T)
      /\ ~s.online => p \in l
  BY DEF Both, One
<1>2. Local(p, q, t, o) /\ Made(p, s) \subseteq Made(p, t)
  BY <1>1, SettlesLocal
<1>3. /\ t.dialogs \subseteq s.dialogs /\ t.taken = s.taken
      /\ \A d \in t.dialogs : t.session[d.session].thread_id = s.session[d.session].thread_id
  BY DEF Settles, Calm
<1>4. /\ \A n \in DOMAIN v : n \in DOMAIN u /\ u[n] = v[n]
      /\ \A n \in DOMAIN u : n \in DOMAIN v \/ (/\ u[n].counter[1] = None
                                               /\ u[n].kind \notin Counted \cup {"submit"})
      /\ \A h \in Half : /\ Runs(u, h) = Runs(v, h)
                         /\ \A n \in Runs(v, h) : u[n] = v[n]
                         /\ \A a, b : Ordered(v, h, a, b) => Ordered(u, h, a, b)
  BY PassesExtends
<1>5. ASSUME NEW i \in Id
      PROVE  /\ Base(t.session[i]) # None =>
                   /\ Base(t.session[i]) = Base(s.session[i])
                   /\ t.session[i].thread_id = s.session[i].thread_id
                   /\ InTable(t, i) => InTable(s, i)
             /\ t.session[i].enable_encryption =>
                   /\ s.session[i].enable_encryption /\ s.session[i].bare = t.session[i].bare
                   /\ InTable(t, i) => InTable(s, i)
             /\ t.session[i].status \in Streaming =>
                    /\ s.session[i].status = t.session[i].status
                    /\ s.session[i].c_s = t.session[i].c_s /\ s.session[i].c_o = t.session[i].c_o
                    /\ s.session[i].enable_encryption = t.session[i].enable_encryption /\ s.session[i].bare = t.session[i].bare
                    /\ Base(t.session[i]) = Base(s.session[i]) /\ Base(t.session[i]) \in Half
                    /\ InTable(t, i) => InTable(s, i)
  BY <1>1, SettlesFacts
<1>6. Under(p, q, t, o, l, w)
  BY <1>1, <1>2 DEF Under, Sent
<1>7. Unanswered(t, o, w, u)
  <2>1. Dialogs(t) \subseteq Dialogs(s) /\ Done(t) = Done(s)
    BY <1>3 DEF Dialogs, Done
  <2>2. Pending(s, w) \subseteq Half
    BY <1>1 DEF Pending, Submitted, Dialogs, Under, Sent, Local, Asked, Made
  <2>3. ASSUME NEW h \in Pending(t, w)
        PROVE  /\ h \notin Done(t)
               /\ \A i \in Id : Base(t.session[i]) # h
               /\ \A n \in DOMAIN u : u[n].counter[1] # h
               /\ \A n \in DOMAIN w : w[n].kind = "init" => w[n].counter[1] # h
               /\ \A j \in Id : Base(o.session[j]) = h =>
                     /\ o.session[j].status # "active"
                     /\ o.session[j].status = "responded-e2e" => o.session[j].c_o[2] = 0
    <3>1. h \in Pending(s, w) /\ h \in Half /\ h # None
      BY <2>1, <2>2, NamesAssumption DEF Pending
    <3>2. \A n \in DOMAIN u : u[n].counter[1] # h
      BY <1>1, <1>4, <3>1 DEF Unanswered
    <3>3. \A i \in Id : Base(t.session[i]) # h
      BY <1>1, <1>5, <3>1 DEF Unanswered
    <3> QED
      BY <1>1, <2>1, <3>1, <3>2, <3>3 DEF Unanswered
  <2> QED
    BY <1>1, <2>1, <2>3 DEF Unanswered
<1>8. Identity(t, w)
  BY <1>1, <1>5 DEF Identity, Streaming
<1>9. Matched(q, t, o, w, u, l)
  <2> SUFFICES ASSUME NEW i \in Id, NEW j \in Id,
                      InTable(t, i), t.session[i].status \in Streaming,
                      InTable(o, j), o.session[j].status \in Streaming,
                      Base(t.session[i]) = Base(o.session[j])
               PROVE  \/ Ordered(u, Base(t.session[i]), o.session[j].c_o[2], t.session[i].c_s[2])
                      \/ Excused(q, t.session[i], w, l)
                      \/ Unidentified(o.session[j], u)
    BY DEF Matched
  <2>1. InTable(s, i) /\ s.session[i].status \in Streaming
        /\ Base(s.session[i]) = Base(o.session[j]) /\ Base(o.session[j]) \in Half
    BY <1>5
  <2>2. \/ Ordered(v, Base(s.session[i]), o.session[j].c_o[2], s.session[i].c_s[2])
        \/ Excused(q, s.session[i], w, l)
        \/ Unidentified(o.session[j], v)
    BY <1>1, <2>1 DEF Matched
  <2>3. Excused(q, s.session[i], w, l) => Excused(q, t.session[i], w, l)
    BY <1>5 DEF Excused
  <2>4. Unidentified(o.session[j], v) => Unidentified(o.session[j], u)
    BY <1>4, <2>1 DEF Unidentified
  <2> QED
    BY <1>4, <1>5, <2>1, <2>2, <2>3, <2>4
<1>10. Answers(q, t, o, w, u, l)
  <2> SUFFICES ASSUME NEW i \in Id, InTable(t, i), t.session[i].status = "responded-e2e"
               PROVE  /\ \A n \in DOMAIN u :
                            u[n].kind = "submit" /\ u[n].half = Base(t.session[i]) =>
                               \/ /\ Whole(u, t.session[i])
                                  /\ \A m \in Runs(u, Base(t.session[i])) : m > n
                               \/ Excused(q, t.session[i], w, l)
                      /\ \A d \in o.dialogs :
                            d.form.half = Base(t.session[i]) /\ InTable(o, d.session) =>
                               Whole(u, t.session[i]) \/ Excused(q, t.session[i], w, l)
    BY DEF Answers
  <2>1. InTable(s, i) /\ s.session[i].status = "responded-e2e"
        /\ Base(s.session[i]) = Base(t.session[i]) /\ Base(s.session[i]) \in Half
    BY <1>5 DEF Streaming
  <2>2. Whole(v, s.session[i]) => Whole(u, t.session[i])
    BY <1>4, <1>5, <2>1 DEF Whole, Streaming
  <2>3. Excused(q, s.session[i], w, l) => Excused(q, t.session[i], w, l)
    BY <1>5, <2>1 DEF Excused, Streaming
  <2>4. \A n \in DOMAIN u : u[n].kind = "submit" => n \in DOMAIN v /\ v[n] = u[n]
    BY <1>4 DEF Counted
  <2> QED
    BY <1>1, <1>4, <2>1, <2>2, <2>3, <2>4 DEF Answers
<1>11. Noticed(t, o, w, l)
  BY <1>1, <1>5 DEF Noticed, Bared
<1>12. Threaded(t, w, T)
  BY <1>1, <1>3, <1>5 DEF Threaded
<1> QED
  BY <1>1, <1>2, <1>3, <1>6, <1>7, <1>8, <1>9, <1>10, <1>11, <1>12 DEF One

LEMMA SettlesOther ==
    ASSUME NEW p, NEW q, Pair(p, q), NEW s, NEW o, NEW t, NEW w, NEW v, NEW u, NEW l, NEW T,
           Both(p, q, s, o, w, v, l, T), Settles(p, s, t), Passes(p, t, l, v, u),
           Noticed(o, t, u, l), ~t.online => p \in l
    PROVE  One(q, p, o, t, u, w, l, T)
<1>1. /\ Local(p, q, s, o) /\ Local(q, p, o, s) /\ Under(q, p, o, s, l, v) /\ Once(v)
      /\ Unanswered(o, s, v, w) /\ Identity(o, v) /\ Matched(p, o, s, v, w, l)
      /\ Answers(p, o, s, v, w, l) /\ Noticed(o, s, v, l) /\ Threaded(o, v, T)
      /\ ~o.online => q \in l
  BY DEF Both, One
<1>2. Local(q, p, o, t) /\ Made(p, s) \subseteq Made(p, t)
  BY <1>1, SettlesLocal
<1>3. /\ t.dialogs \subseteq s.dialogs /\ t.taken = s.taken
      /\ \A d \in t.dialogs : InTable(t, d.session) => InTable(s, d.session)
  BY DEF Settles, Calm
<1>4. /\ \A n \in DOMAIN v : n \in DOMAIN u /\ u[n] = v[n]
      /\ \A n \in DOMAIN u : n \in DOMAIN v \/ Idling(p, t, l, u[n])
      /\ \A n \in DOMAIN u : n \in DOMAIN v \/ (/\ u[n].counter[1] = None
                                               /\ u[n].kind \notin Counted \cup {"submit"})
      /\ Extends(v, u)
  BY PassesExtends
<1>5. ASSUME NEW i \in Id
      PROVE  /\ Base(t.session[i]) # None => Base(t.session[i]) = Base(s.session[i])
             /\ t.session[i].status \in Streaming =>
                    /\ s.session[i].status = t.session[i].status
                    /\ s.session[i].c_o = t.session[i].c_o
                    /\ Base(t.session[i]) = Base(s.session[i])
                    /\ InTable(t, i) => InTable(s, i)
  BY <1>1, SettlesFacts
<1>6. Under(q, p, o, t, l, u)
  <2>1. ASSUME NEW n \in DOMAIN u PROVE Sent(q, p, o, t, l, u[n])
    <3>1. CASE n \in DOMAIN v
      BY <1>1, <1>2, <1>3, <1>4, <3>1 DEF Under, Sent
    <3>2. CASE Idling(p, t, l, u[n])
      BY <3>2, IdlingIs
    <3> QED
      BY <1>4, <3>1, <3>2
  <2> QED
    BY <1>4, <2>1 DEF Under, Extends
<1>7. Once(u)
  <2>1. \A n \in DOMAIN u : u[n].kind \in {"submit", "result", "init"}
                            => n \in DOMAIN v /\ v[n] = u[n]
    BY <1>4 DEF Counted
  <2> QED
    BY <1>1, <2>1 DEF Once
<1>8. Unanswered(o, t, u, w)
  <2>1. Submitted(u) = Submitted(v)
    BY <1>4 DEF Submitted
  <2>2. \A n \in DOMAIN u : u[n].kind = "init" => n \in DOMAIN v /\ v[n] = u[n]
    BY <1>4 DEF Counted
  <2>3. Pending(o, u) = Pending(o, v)
    BY <2>1 DEF Pending
  <2>4. ASSUME NEW h \in Pending(o, u)
        PROVE  /\ h \notin Done(o)
               /\ \A i \in Id : Base(o.session[i]) # h
               /\ \A n \in DOMAIN w : w[n].counter[1] # h
               /\ \A n \in DOMAIN u : u[n].kind = "init" => u[n].counter[1] # h
               /\ \A j \in Id : Base(t.session[j]) = h =>
                     /\ t.session[j].status # "active"
                     /\ t.session[j].status = "responded-e2e" => t.session[j].c_o[2] = 0
    BY <1>1, <1>5, <2>2, <2>3 DEF Unanswered, Streaming
  <2> QED
    BY <1>1, <2>1, <2>4 DEF Unanswered
<1>9. Identity(o, u)
  <2> SUFFICES ASSUME NEW i \in Id, NEW n \in DOMAIN u, o.session[i].status = "active",
                      u[n].counter[1] = Base(o.session[i])
               PROVE  u[n].kind = "encrypted"
    BY DEF Identity
  <2>1. Base(o.session[i]) # None
    BY <1>1, StreamHalf DEF Streaming, Pair
  <2>2. n \in DOMAIN v
    BY <1>4, <2>1
  <2> QED
    BY <1>1, <1>4, <2>2 DEF Identity
<1>10. Matched(p, o, t, u, w, l)
  <2> SUFFICES ASSUME NEW i \in Id, NEW j \in Id,
                      InTable(o, i), o.session[i].status \in Streaming,
                      InTable(t, j), t.session[j].status \in Streaming,
                      Base(o.session[i]) = Base(t.session[j])
               PROVE  \/ Ordered(w, Base(o.session[i]), t.session[j].c_o[2], o.session[i].c_s[2])
                      \/ Excused(p, o.session[i], u, l)
                      \/ Unidentified(t.session[j], w)
    BY DEF Matched
  <2>1. InTable(s, j) /\ s.session[j].status \in Streaming
        /\ Base(o.session[i]) = Base(s.session[j]) /\ s.session[j].c_o = t.session[j].c_o
        /\ s.session[j].status = t.session[j].status
    BY <1>5
  <2>2. \/ Ordered(w, Base(o.session[i]), s.session[j].c_o[2], o.session[i].c_s[2])
        \/ Excused(p, o.session[i], v, l)
        \/ Unidentified(s.session[j], w)
    BY <1>1, <2>1 DEF Matched
  <2>3. Excused(p, o.session[i], v, l) => Excused(p, o.session[i], u, l)
    BY <1>4 DEF Excused, Told
  <2>4. Unidentified(s.session[j], w) => Unidentified(t.session[j], w)
    BY <1>5, <2>1 DEF Unidentified
  <2> QED
    BY <2>1, <2>2, <2>3, <2>4
<1>11. Answers(p, o, t, u, w, l)
  <2>1. \A i \in Id : Excused(p, o.session[i], v, l) => Excused(p, o.session[i], u, l)
    BY <1>4 DEF Excused, Told
  <2> QED
    BY <1>1, <1>3, <2>1 DEF Answers
<1>12. Noticed(o, t, u, l)
  OBVIOUS
<1>13. Threaded(o, u, T)
  <2>1. \A n \in DOMAIN u : u[n].kind \in Counted \cup {"submit"} => n \in DOMAIN v /\ v[n] = u[n]
    BY <1>4
  <2> QED
    BY <1>1, <2>1 DEF Threaded
<1> QED
  BY <1>1, <1>2, <1>6, <1>7, <1>8, <1>9, <1>10, <1>11, <1>12, <1>13 DEF One

LEMMA Settled ==
    ASSUME NEW p, NEW q, Pair(p, q), NEW s, NEW o, NEW t, NEW w, NEW v, NEW u, NEW l, NEW T,
           Both(p, q, s, o, w, v, l, T), Settles(p, s, t), Passes(p, t, l, v, u),
           Noticed(o, t, u, l), ~t.online => p \in l
    PROVE  Both(p, q, t, o, w, u, l, T)
BY SettlesOne, SettlesOther DEF Both

-----------------------------------------------------------------------------
(* What is under way is handled, or lost.                                  *)

\* z is the end of w
Suffix(w, z, k) ==
    /\ w \in Seq(Stanza) /\ z \in Seq(Stanza) /\ k \in Nat /\ Len(w) = Len(z) + k
    /\ \A n \in DOMAIN z : n + k \in DOMAIN w /\ z[n] = w[n + k]

LEMMA TailIs ==
    ASSUME NEW w \in Seq(Stanza), w # <<>>
    PROVE  /\ Suffix(w, Tail(w), 1) /\ Head(w) = w[1] /\ 1 \in DOMAIN w
           /\ \A n \in DOMAIN w : n # 1 => n - 1 \in DOMAIN Tail(w) /\ Tail(w)[n - 1] = w[n]
           /\ \A n \in DOMAIN w : n >= 1
<1>1. Len(w) \in Nat /\ Len(w) # 0 /\ DOMAIN w = 1 .. Len(w)
  OBVIOUS
<1>2. /\ Tail(w) \in Seq(Stanza) /\ Len(Tail(w)) = Len(w) - 1
      /\ \A n \in 1 .. Len(w) - 1 : Tail(w)[n] = w[n + 1]
      /\ Head(w) = w[1]
  BY <1>1
<1>3. DOMAIN Tail(w) = 1 .. Len(w) - 1
  BY <1>1, <1>2
<1>4. Suffix(w, Tail(w), 1)
  BY <1>1, <1>2, <1>3 DEF Suffix
<1>5. ASSUME NEW n \in DOMAIN w, n # 1
      PROVE  n - 1 \in DOMAIN Tail(w) /\ Tail(w)[n - 1] = w[n]
  <2>1. n - 1 \in 1 .. Len(w) - 1 /\ (n - 1) + 1 = n
    BY <1>1, <1>5
  <2> QED
    BY <1>2, <1>3, <2>1
<1> QED
  BY <1>1, <1>2, <1>4, <1>5

LEMMA NothingIs ==
    ASSUME NEW w \in Seq(Stanza)
    PROVE  Suffix(w, <<>>, Len(w))
BY DEF Suffix

LEMMA CounterIs ==
    ASSUME NEW w \in Seq(Stanza), NEW n \in DOMAIN w
    PROVE  w[n] \in Stanza /\ w[n].counter \in Counter /\ w[n].counter[2] \in Nat
           /\ w[n].counter = <<w[n].counter[1], w[n].counter[2]>>
<1>1. w[n] \in Stanza
  OBVIOUS
<1>2. w[n].counter \in Counter
  BY <1>1 DEF Stanza
<1> QED
  BY <1>1, <1>2 DEF Counter

LEMMA OrderedTail ==
    ASSUME NEW w \in Seq(Stanza), w # <<>>, NEW h, NEW a \in Nat, NEW b \in Nat,
           Ordered(w, h, a, b)
    PROVE  /\ w[1].counter[1] # h => Ordered(Tail(w), h, a, b)
           /\ w[1].counter = <<h, a>> => Ordered(Tail(w), h, a + 1, b)
<1> DEFINE z == Tail(w)
<1>1. /\ Suffix(w, z, 1) /\ 1 \in DOMAIN w
      /\ \A n \in DOMAIN w : n # 1 => n - 1 \in DOMAIN z /\ z[n - 1] = w[n]
      /\ DOMAIN w \subseteq Nat
  BY TailIs
<1> HIDE DEF z
<1>2. DOMAIN z \subseteq Nat
  BY <1>1 DEF Suffix
<1>3. \A n \in Runs(z, h) : n + 1 \in Runs(w, h) /\ z[n] = w[n + 1] /\ n \in Nat /\ n >= 1
  BY <1>1, <1>2 DEF Runs, Suffix
<1>4. \A n \in Runs(w, h) : n # 1 => n - 1 \in Runs(z, h) /\ z[n - 1] = w[n]
  BY <1>1 DEF Runs
<1>5. /\ \A n \in Runs(w, h) : w[n].counter[2] >= a /\ w[n].counter[2] < b
      /\ \A c \in a .. b - 1 : \E n \in Runs(w, h) : w[n].counter[2] = c
      /\ a <= b
      /\ \A m, n \in Runs(w, h) : m < n => w[m].counter[2] < w[n].counter[2]
  BY DEF Ordered
<1>6. \A m, n \in Runs(z, h) : m < n => z[m].counter[2] < z[n].counter[2]
  BY <1>3, <1>5
<1>7. ASSUME w[1].counter[1] # h PROVE Ordered(z, h, a, b)
  <2>1. \A n \in Runs(w, h) : n # 1
    BY <1>7 DEF Runs
  <2>2. \A c \in a .. b - 1 : \E n \in Runs(z, h) : z[n].counter[2] = c
    BY <1>4, <1>5, <2>1
  <2> QED
    BY <1>3, <1>5, <1>6, <2>2 DEF Ordered
<1>8. ASSUME w[1].counter = <<h, a>> PROVE Ordered(z, h, a + 1, b)
  <2>1. 1 \in Runs(w, h) /\ w[1].counter[2] = a
    BY <1>1, <1>8 DEF Runs
  <2>2. ASSUME NEW n \in Runs(z, h)
        PROVE  z[n].counter[2] >= a + 1 /\ z[n].counter[2] < b
    <3>1. n + 1 \in Runs(w, h) /\ 1 < n + 1 /\ z[n] = w[n + 1] /\ n + 1 \in DOMAIN w
      BY <1>3 DEF Runs
    <3>2. w[n + 1].counter[2] \in Nat
      BY <3>1, CounterIs
    <3> QED
      BY <1>5, <2>1, <3>1, <3>2
  <2>3. ASSUME NEW c \in a + 1 .. b - 1 PROVE \E n \in Runs(z, h) : z[n].counter[2] = c
    <3>1. PICK n \in Runs(w, h) : w[n].counter[2] = c
      BY <1>5
    <3>2. n # 1
      BY <2>1, <3>1
    <3> QED
      BY <1>4, <3>1, <3>2
  <2>4. a + 1 <= b
    BY <1>5, <2>1
  <2> QED
    BY <1>6, <2>2, <2>3, <2>4 DEF Ordered
<1> QED
  BY <1>7, <1>8 DEF z

\* What holds of all that is under way holds of what is left of it
LEMMA SuffixKeeps ==
    ASSUME NEW p, NEW q, NEW s, NEW o, NEW w, NEW v, NEW l, NEW T, NEW z, NEW k,
           Both(p, q, s, o, w, v, l, T), Suffix(w, z, k)
    PROVE  /\ Under(p, q, s, o, l, z) /\ Once(z) /\ Unanswered(s, o, z, v)
           /\ Identity(s, z) /\ Threaded(s, z, T) /\ Unanswered(o, s, v, z)
           /\ \A h : Runs(z, h) # {} => Runs(w, h) # {}
<1>1. /\ Under(p, q, s, o, l, w) /\ Once(w) /\ Unanswered(s, o, w, v)
      /\ Identity(s, w) /\ Threaded(s, w, T) /\ Unanswered(o, s, v, w)
  BY DEF Both, One
<1>2. /\ z \in Seq(Stanza) /\ DOMAIN z \subseteq Nat /\ k \in Nat
      /\ \A n \in DOMAIN z : n + k \in DOMAIN w /\ z[n] = w[n + k]
      /\ \A m, n \in DOMAIN z : m # n => m + k # n + k
  BY DEF Suffix
<1>3. Under(p, q, s, o, l, z)
  BY <1>1, <1>2 DEF Under
<1>4. Once(z)
  BY <1>1, <1>2 DEF Once
<1>5. Unanswered(s, o, z, v)
  <2>1. Submitted(z) \subseteq Submitted(w)
    BY <1>2 DEF Submitted
  <2> QED
    BY <1>1, <1>2, <2>1 DEF Unanswered, Pending
<1>6. Identity(s, z)
  BY <1>1, <1>2 DEF Identity
<1>7. Threaded(s, z, T)
  BY <1>1, <1>2 DEF Threaded
<1>8. Unanswered(o, s, v, z)
  BY <1>1, <1>2 DEF Unanswered
<1>9. \A h : Runs(z, h) # {} => Runs(w, h) # {}
  BY <1>2 DEF Runs
<1> QED
  BY <1>3, <1>4, <1>5, <1>6, <1>7, <1>8, <1>9

LEMMA CountersAre ==
    ASSUME NEW s \in PartyState, NEW i \in Id
    PROVE  LET x == s.session[i]
           IN /\ x \in Session /\ x.c_s \in Counter /\ x.c_o \in Counter
              /\ x.c_s[2] \in Nat /\ x.c_o[2] \in Nat
              /\ x.c_s = <<x.c_s[1], x.c_s[2]>> /\ x.c_o = <<x.c_o[1], x.c_o[2]>>
<1>1. s.session[i] \in Session
  BY DEF PartyState
<1>2. s.session[i].c_s \in Counter /\ s.session[i].c_o \in Counter
  BY <1>1 DEF Session
<1> QED
  BY <1>1, <1>2 DEF Counter

\* The first stanza is not for a session that would have had to count it
Needless(s, e) ==
    /\ \A i \in Id : InTable(s, i) /\ s.session[i].status \in Streaming
                     => Base(s.session[i]) # e.counter[1]
    /\ \A d \in s.dialogs : InTable(s, d.session) => d.form.half # e.counter[1]
    /\ e.kind = "unavailable" =>
          \A i \in Id : InTable(s, i) => Bared(s.session[i])

LEMMA DroppedTold ==
    ASSUME NEW w \in Seq(Stanza), w # <<>>, NEW s, Needless(s, w[1]), NEW l, NEW q,
           w[1].kind = "unavailable" => q \in l,
           NEW i \in Id, InTable(s, i), Excused(q, s.session[i], w, l)
    PROVE  Excused(q, s.session[i], Tail(w), l)
<1>1. w[1].kind # "unavailable" \/ (s.session[i].bare /\ q \in l)
  BY DEF Needless, Excused, Bared
<1>2. \A n \in DOMAIN w : n # 1 => n - 1 \in DOMAIN Tail(w) /\ Tail(w)[n - 1] = w[n]
  BY TailIs
<1> QED
  BY <1>1, <1>2 DEF Excused, Told

LEMMA Dropped ==
    ASSUME NEW p, NEW q, Pair(p, q), NEW s, NEW o, NEW w, NEW v, NEW l, NEW T,
           Both(p, q, s, o, w, v, l, T), w # <<>>, Needless(s, w[1])
    PROVE  Both(p, q, s, o, Tail(w), v, l, T)
<1> DEFINE z == Tail(w)
<1>1. /\ Local(p, q, s, o) /\ Local(q, p, o, s) /\ Under(p, q, s, o, l, w)
      /\ Matched(q, s, o, w, v, l) /\ Matched(p, o, s, v, w, l)
      /\ Answers(q, s, o, w, v, l) /\ Answers(p, o, s, v, w, l)
      /\ Noticed(s, o, w, l)
  BY DEF Both, One
<1>2. w \in Seq(Stanza) /\ s \in PartyState /\ o \in PartyState
  BY <1>1 DEF Under, Local
<1>3. /\ Suffix(w, z, 1) /\ 1 \in DOMAIN w
      /\ \A n \in DOMAIN w : n # 1 => n - 1 \in DOMAIN z /\ z[n - 1] = w[n]
  BY <1>2, TailIs
<1>4. /\ Under(p, q, s, o, l, z) /\ Once(z) /\ Unanswered(s, o, z, v)
      /\ Identity(s, z) /\ Threaded(s, z, T) /\ Unanswered(o, s, v, z)
  BY <1>3, SuffixKeeps
<1>5. \A h : \A a, b \in Nat : Ordered(w, h, a, b) /\ w[1].counter[1] # h => Ordered(z, h, a, b)
  BY <1>2, OrderedTail
<1>6. \A i \in Id : InTable(s, i) /\ Excused(q, s.session[i], w, l) => Excused(q, s.session[i], z, l)
  <2>1. w[1].kind = "unavailable" => q \in l
    BY <1>1, <1>3 DEF Under, Sent
  <2> QED
    BY <1>2, <2>1, DroppedTold
<1> HIDE DEF z
<1>7. Matched(p, o, s, v, z, l)
  <2> SUFFICES ASSUME NEW i \in Id, NEW j \in Id,
                      InTable(o, i), o.session[i].status \in Streaming,
                      InTable(s, j), s.session[j].status \in Streaming,
                      Base(o.session[i]) = Base(s.session[j])
               PROVE  \/ Ordered(z, Base(o.session[i]), s.session[j].c_o[2], o.session[i].c_s[2])
                      \/ Excused(p, o.session[i], v, l)
                      \/ Unidentified(s.session[j], z)
    BY DEF Matched
  <2>1. \/ Ordered(w, Base(o.session[i]), s.session[j].c_o[2], o.session[i].c_s[2])
        \/ Excused(p, o.session[i], v, l)
        \/ Unidentified(s.session[j], w)
    BY <1>1 DEF Matched
  <2>2. w[1].counter[1] # Base(o.session[i])
    BY DEF Needless
  <2>3. s.session[j].c_o[2] \in Nat /\ o.session[i].c_s[2] \in Nat
    BY <1>2, CountersAre
  <2>4. Unidentified(s.session[j], w) => Unidentified(s.session[j], z)
    BY <1>3 DEF Unidentified, Runs, Suffix
  <2>5. Ordered(w, Base(o.session[i]), s.session[j].c_o[2], o.session[i].c_s[2])
        => Ordered(z, Base(o.session[i]), s.session[j].c_o[2], o.session[i].c_s[2])
    BY <1>5, <2>2, <2>3, Zenon
  <2> QED
    BY <2>1, <2>4, <2>5
<1>8. Answers(p, o, s, v, z, l)
  <2> SUFFICES ASSUME NEW i \in Id, InTable(o, i), o.session[i].status = "responded-e2e"
               PROVE  /\ \A n \in DOMAIN z :
                            z[n].kind = "submit" /\ z[n].half = Base(o.session[i]) =>
                               \/ /\ Whole(z, o.session[i])
                                  /\ \A m \in Runs(z, Base(o.session[i])) : m > n
                               \/ Excused(p, o.session[i], v, l)
                      /\ \A d \in s.dialogs :
                            d.form.half = Base(o.session[i]) /\ InTable(s, d.session) =>
                               Whole(z, o.session[i]) \/ Excused(p, o.session[i], v, l)
    BY DEF Answers
  <2>1. o.session[i].c_s[2] \in Nat
    BY <1>2, CountersAre
  <2>2. w[1].counter[1] # Base(o.session[i]) /\ Whole(w, o.session[i]) => Whole(z, o.session[i])
    <3>1. 0 \in Nat
      OBVIOUS
    <3> QED
      BY <1>5, <2>1, <3>1, Zenon DEF Whole
  <2>3. ASSUME NEW n \in DOMAIN z, z[n].kind = "submit", z[n].half = Base(o.session[i])
        PROVE  \/ /\ Whole(z, o.session[i])
                  /\ \A m \in Runs(z, Base(o.session[i])) : m > n
               \/ Excused(p, o.session[i], v, l)
    <3>1. n + 1 \in DOMAIN w /\ w[n + 1] = z[n] /\ n \in Nat /\ DOMAIN z \subseteq Nat
      BY <1>3 DEF Suffix
    <3>2. \/ /\ Whole(w, o.session[i])
             /\ \A m \in Runs(w, Base(o.session[i])) : m > n + 1
          \/ Excused(p, o.session[i], v, l)
      BY <1>1, <2>3, <3>1 DEF Answers
    <3>3. ASSUME Whole(w, o.session[i]), \A m \in Runs(w, Base(o.session[i])) : m > n + 1
          PROVE  Whole(z, o.session[i]) /\ \A m \in Runs(z, Base(o.session[i])) : m > n
      <4>1. 1 \notin Runs(w, Base(o.session[i]))
        BY <3>1, <3>3
      <4>2. w[1].counter[1] # Base(o.session[i])
        BY <1>3, <4>1 DEF Runs
      <4>3. \A m \in Runs(z, Base(o.session[i])) : m + 1 \in Runs(w, Base(o.session[i])) /\ m \in Nat
        BY <1>3, <3>1 DEF Runs, Suffix
      <4> QED
        BY <2>2, <3>1, <3>3, <4>2, <4>3
    <3> QED
      BY <3>2, <3>3
  <2>4. ASSUME NEW d \in s.dialogs, d.form.half = Base(o.session[i]), InTable(s, d.session)
        PROVE  Whole(z, o.session[i]) \/ Excused(p, o.session[i], v, l)
    <3>1. Whole(w, o.session[i]) \/ Excused(p, o.session[i], v, l)
      BY <1>1, <2>4 DEF Answers
    <3>2. w[1].counter[1] # Base(o.session[i])
      BY <2>4 DEF Needless
    <3> QED
      BY <2>2, <3>1, <3>2
  <2> QED
    BY <2>3, <2>4
<1>9. Matched(q, s, o, z, v, l)
  BY <1>1, <1>6 DEF Matched
<1>10. Answers(q, s, o, z, v, l)
  BY <1>1, <1>6 DEF Answers
<1>11. Noticed(s, o, z, l)
  <2> SUFFICES ASSUME ~o.online, l # Party
               PROVE  \/ z # <<>> /\ z[Len(z)].kind = "unavailable"
                      \/ z = <<>> /\ \A i \in Id : InTable(s, i) => Bared(s.session[i])
    BY DEF Noticed
  <2>1. w[Len(w)].kind = "unavailable"
    BY <1>1 DEF Noticed
  <2>2. Len(w) = Len(z) + 1 /\ Len(z) \in Nat /\ z \in Seq(Stanza) /\ DOMAIN z = 1 .. Len(z)
    BY <1>3 DEF Suffix
  <2>3. CASE Len(z) = 0
    <3>1. z = <<>> /\ w[1].kind = "unavailable"
      BY <2>1, <2>2, <2>3
    <3> QED
      BY <3>1 DEF Needless
  <2>4. CASE Len(z) # 0
    <3>1. Len(z) \in DOMAIN z /\ z # <<>>
      BY <2>2, <2>4
    <3>2. z[Len(z)] = w[Len(w)]
      BY <1>3, <2>2, <3>1 DEF Suffix
    <3> QED
      BY <2>1, <3>1, <3>2
  <2> QED
    BY <2>3, <2>4
<1> QED
  BY <1>4, <1>7, <1>8, <1>9, <1>10, <1>11 DEF Both, One, z

LEMMA QuietKeeps ==
    ASSUME NEW p, NEW q, Pair(p, q), NEW s, NEW o, NEW t, NEW w, NEW v, NEW u, NEW l, NEW T,
           Both(p, q, s, o, w, v, l, T), Quiet(p, s, t), Passes(p, t, l, v, u),
           s.online \/ u = v
    PROVE  Both(p, q, t, o, w, u, l, T)
<1>1. t.online = s.online /\ Settles(p, s, t)
  BY DEF Quiet, Settles
<1>2. Noticed(o, s, v, l) /\ (~s.online => p \in l)
  BY DEF Both, One
<1>3. Noticed(o, t, u, l)
  BY <1>1, <1>2 DEF Noticed
<1> QED
  BY <1>1, <1>2, <1>3, Settled

\* The same for what it sent itself, after v
LEMMA GoesAfter ==
    ASSUME NEW p, NEW t, NEW l, NEW v \in Seq(Stanza), NEW a, NEW b, Goes(p, t, a, b)
    PROVE  Passes(p, t, l, v \o a, v \o b)
<1>1. /\ a \in Seq(Stanza) /\ b \in Seq(Stanza)
      /\ Len(a) <= Len(b) /\ \A n \in 1 .. Len(a) : b[n] = a[n]
      /\ \A n \in 1 .. Len(b) : n > Len(a) => Idle(p, t, b[n])
  BY DEF Goes
<1>2. /\ v \o a \in Seq(Stanza) /\ v \o b \in Seq(Stanza)
      /\ Len(v \o a) = Len(v) + Len(a) /\ Len(v \o b) = Len(v) + Len(b)
      /\ Len(a) \in Nat /\ Len(b) \in Nat /\ Len(v) \in Nat
      /\ \A n \in 1 .. Len(v) + Len(a) : (v \o a)[n] = IF n <= Len(v) THEN v[n] ELSE a[n - Len(v)]
      /\ \A n \in 1 .. Len(v) + Len(b) : (v \o b)[n] = IF n <= Len(v) THEN v[n] ELSE b[n - Len(v)]
  BY <1>1
<1>3. \A n \in 1 .. Len(v) + Len(a) : (v \o b)[n] = (v \o a)[n]
  BY <1>1, <1>2
<1>4. \A n \in 1 .. Len(v) + Len(b) : n > Len(v) + Len(a) => Idle(p, t, (v \o b)[n])
  BY <1>1, <1>2
<1> QED
  BY <1>1, <1>2, <1>3, <1>4 DEF Passes, Extends, Idling

-----------------------------------------------------------------------------
(* A connection ends, and another begins.                                  *)

LEMMA LostGrows ==
    ASSUME NEW p, NEW q, NEW s, NEW o, NEW w, NEW v, NEW l, NEW T, NEW m,
           Both(p, q, s, o, w, v, l, T), l \subseteq m, m \subseteq Party
    PROVE  Both(p, q, s, o, w, v, m, T)
<1>1. l = Party => m = Party
  OBVIOUS
<1>2. \A r, x, y : Excused(r, x, y, l) => Excused(r, x, y, m)
  BY <1>1 DEF Excused, Told
<1>3. Under(p, q, s, o, m, w) /\ Under(q, p, o, s, m, v)
  BY DEF Both, One, Under, Sent
<1>4. Matched(q, s, o, w, v, m) /\ Matched(p, o, s, v, w, m)
  <2>1. Matched(q, s, o, w, v, l) /\ Matched(p, o, s, v, w, l)
    BY DEF Both, One
  <2> QED
    BY <1>2, <2>1 DEF Matched
<1>5. Answers(q, s, o, w, v, m) /\ Answers(p, o, s, v, w, m)
  <2>1. Answers(q, s, o, w, v, l) /\ Answers(p, o, s, v, w, l)
    BY DEF Both, One
  <2> QED
    BY <1>2, <2>1 DEF Answers
<1>6. Noticed(s, o, w, m) /\ Noticed(o, s, v, m)
  BY <1>1 DEF Both, One, Noticed
<1> QED
  BY <1>3, <1>4, <1>5, <1>6 DEF Both, One

\* p is online, and q is told that it is not going to be
LEMMA Announced ==
    ASSUME NEW p, NEW q, Pair(p, q), NEW s, NEW o, NEW w, NEW v, NEW l, NEW T,
           Both(p, q, s, o, w, v, l, T), Right(p, s), s.online, p \in l
    PROVE  Both(p, q, s, o, w, Append(v, Plain("unavailable", None)), l, T)
<1> DEFINE e == Plain("unavailable", None)
           u == Append(v, e)
<1>1. v \in Seq(Stanza) /\ e \in Stanza
  BY PlainIs DEF Both, One, Under
<1>2. Quiet(p, s, s)
  BY QuietSelf DEF Pair
<1>3. Idling(p, s, l, e)
  BY DEF Idling
<1> HIDE DEF e
<1>4. /\ u \in Seq(Stanza) /\ Len(u) = Len(v) + 1 /\ Len(v) \in Nat /\ u[Len(v) + 1] = e
      /\ \A n \in 1 .. Len(v) : u[n] = v[n]
  BY <1>1
<1>5. Passes(p, s, l, v, u)
  <2>1. \A n \in 1 .. Len(u) : n > Len(v) => n = Len(v) + 1
    BY <1>4
  <2> HIDE DEF u
  <2> QED
    BY <1>1, <1>3, <1>4, <2>1 DEF Passes, Extends
<1>6. Both(p, q, s, o, w, u, l, T)
  BY <1>2, <1>5, QuietKeeps
<1> QED
  BY <1>6 DEF e

\* What is under way to p is lost
LEMMA AllLost ==
    ASSUME NEW p, NEW q, Pair(p, q), NEW s, NEW o, NEW w, NEW v, NEW l, NEW T,
           Both(p, q, s, o, w, v, l, T),
           \A i \in Id : InTable(o, i) /\ o.session[i].enable_encryption
                          => Excused(p, o.session[i], v, l),
           Told(w, l) => l = Party, ~o.online => l = Party
    PROVE  Both(p, q, s, o, <<>>, v, l, T)
<1>1. /\ Local(p, q, s, o) /\ Local(q, p, o, s) /\ Under(p, q, s, o, l, w)
      /\ Matched(q, s, o, w, v, l) /\ Matched(p, o, s, v, w, l)
      /\ Answers(q, s, o, w, v, l) /\ Answers(p, o, s, v, w, l)
      /\ Noticed(s, o, w, l)
  BY DEF Both, One
<1>2. w \in Seq(Stanza) /\ s \in PartyState /\ o \in PartyState
  BY <1>1 DEF Under, Local
<1>3. /\ Under(p, q, s, o, l, <<>>) /\ Once(<<>>) /\ Unanswered(s, o, <<>>, v)
      /\ Identity(s, <<>>) /\ Threaded(s, <<>>, T) /\ Unanswered(o, s, v, <<>>)
  <2>1. Suffix(w, <<>>, Len(w))
    BY <1>2, NothingIs
  <2> QED
    BY <2>1, SuffixKeeps, Zenon
<1>4. \A h : Runs(<<>>, h) = {}
  BY DEF Runs
<1>5. \A h : \A a \in Nat : Ordered(<<>>, h, a, a)
  BY <1>4 DEF Ordered
<1>6. \A i \in Id : InTable(o, i) /\ o.session[i].enable_encryption => Excused(p, o.session[i], v, l)
  OBVIOUS
<1>7. \A i \in Id : Excused(q, s.session[i], w, l) => Excused(q, s.session[i], <<>>, l)
  BY DEF Excused, Told
<1>8. Matched(p, o, s, v, <<>>, l)
  <2> SUFFICES ASSUME NEW i \in Id, NEW j \in Id,
                      InTable(o, i), o.session[i].status \in Streaming,
                      InTable(s, j), s.session[j].status \in Streaming,
                      Base(o.session[i]) = Base(s.session[j]),
                      ~o.session[i].enable_encryption,
                      ~Unidentified(s.session[j], <<>>)
               PROVE  Ordered(<<>>, Base(o.session[i]), s.session[j].c_o[2], o.session[i].c_s[2])
    BY <1>6 DEF Matched
  <2>1. s.session[j].c_o[2] \in Nat /\ o.session[i].c_s[2] \in Nat
    BY <1>2, CountersAre
  <2>2. s.session[j].status # "responded-e2e"
    BY <1>4 DEF Unidentified
  <2>3. Ordered(w, Base(o.session[i]), s.session[j].c_o[2], o.session[i].c_s[2])
    BY <1>1, <2>2 DEF Matched, Excused, Unidentified
  <2>4. s.session[j].c_o[2] <= o.session[i].c_s[2]
    BY <2>3 DEF Ordered
  <2>5. Kept(p, q, s, o, s.session[j]) /\ Kept(q, p, o, s, o.session[i])
    BY <1>1 DEF Local
  <2>6. o.session[i].status # "active"
    BY <2>5 DEF Kept, Active
  <2>7. CASE o.session[i].status = "responded-e2e"
    BY <1>5, <2>1, <2>4, <2>5, <2>7 DEF Kept, Responded
  <2>8. CASE o.session[i].status = "identified-alice"
    <3>1. o.session[i].c_s[2] = 1
      BY <2>5, <2>8 DEF Kept, Identified
    <3>2. s.session[j].status # "identified-alice"
      <4>1. Base(o.session[i]) \in Made(p, s)
        BY <1>1, <2>8, StreamHalf DEF Pair
      <4>2. Made(p, s) \cap Made(q, o) = {}
        BY MadeApart DEF Pair
      <4> QED
        BY <1>1, <4>1, <4>2, StreamHalf
    <3>3. s.session[j].c_o[2] >= 1
      BY <2>2, <2>5, <3>2 DEF Kept, Active, Streaming
    <3> QED
      BY <1>5, <2>1, <2>4, <3>1, <3>3
  <2> QED
    BY <2>6, <2>7, <2>8 DEF Streaming
<1>9. Answers(p, o, s, v, <<>>, l)
  <2> SUFFICES ASSUME NEW i \in Id, InTable(o, i), o.session[i].status = "responded-e2e",
                      ~o.session[i].enable_encryption
               PROVE  Whole(<<>>, o.session[i])
    BY <1>6 DEF Answers
  <2>1. Kept(q, p, o, s, o.session[i])
    BY <1>1 DEF Local
  <2>2. o.session[i].c_s[2] = 0
    BY <2>1 DEF Kept, Responded
  <2> QED
    BY <1>5, <2>2 DEF Whole
<1>10. Matched(q, s, o, <<>>, v, l)
  BY <1>1, <1>7 DEF Matched
<1>11. Answers(q, s, o, <<>>, v, l)
  BY <1>1, <1>7 DEF Answers
<1>12. Noticed(s, o, <<>>, l)
  BY DEF Noticed
<1> QED
  BY <1>3, <1>8, <1>9, <1>10, <1>11, <1>12 DEF Both, One

\* p goes online, or offline
LEMMA Switched ==
    ASSUME NEW p, NEW q, Pair(p, q), NEW s, NEW o, NEW w, NEW v, NEW l, NEW T,
           Both(p, q, s, o, w, v, l, T), NEW t \in PartyState,
           t.session = s.session, t.table = s.table, t.chat = s.chat, t.queue = s.queue,
           t.dialogs = s.dialogs, t.halves = s.halves, t.taken = s.taken,
           Noticed(o, t, v, l), ~t.online => p \in l
    PROVE  Both(p, q, t, o, w, v, l, T)
<1>1. Local(p, q, s, o) /\ v \in Seq(Stanza)
  BY DEF Both, One, Under
<1>2. s \in PartyState /\ Linked(s)
  BY <1>1 DEF Local
<1>3. Linked(t) /\ Made(p, t) = Made(p, s) /\ \A i \in Id : InTable(t, i) = InTable(s, i)
  BY <1>2 DEF Linked, Made, InTable
<1>4. ASSUME NEW i \in Id PROVE Calmed(p, s, t, i)
  <2>1. Kept(p, q, s, o, s.session[i])
    BY <1>1 DEF Local
  <2> QED
    BY <1>3, <2>1 DEF Calmed, Same, Kept
<1>5. \A d \in t.dialogs : d.session \in Id /\ t.session[d.session].x # None
  BY <1>1, <1>2 DEF Local, Asked, PartyState
<1>6. Settles(p, s, t)
  <2>1. t.halves >= s.halves
    BY <1>2 DEF PartyState
  <2> QED
    BY <1>3, <1>4, <1>5, <2>1 DEF Settles, Calm
<1>7. Passes(p, t, l, v, v)
  BY <1>1 DEF Passes, Extends
<1> QED
  BY <1>6, <1>7, Settled

-----------------------------------------------------------------------------
(* A stream begins: with a response, or with the identity of who accepts.  *)

\* t is s with another session i, on the same thread and as encrypted
Turns(s, t, i) ==
    /\ t \in PartyState
    /\ \A j \in Id : j # i => t.session[j] = s.session[j]
    /\ t.session[i].thread_id = s.session[i].thread_id
    /\ t.session[i].x = s.session[i].x
    /\ t.session[i].enable_encryption = s.session[i].enable_encryption /\ t.session[i].bare = s.session[i].bare
    /\ t.table = s.table /\ t.chat = s.chat /\ t.queue = s.queue /\ t.dialogs = s.dialogs
    /\ t.online = s.online /\ t.halves >= s.halves /\ t.taken = s.taken

LEMMA TurnsIs ==
    ASSUME NEW p, NEW s \in PartyState, NEW i \in Id, NEW t, Turns(s, t, i)
    PROVE  /\ \A j \in Id : t.session[j].thread_id = s.session[j].thread_id
           /\ \A j \in Id : InTable(t, j) <=> InTable(s, j)
           /\ \A j \in Id : t.session[j].x = s.session[j].x
           /\ \A j \in Id : t.session[j].enable_encryption = s.session[j].enable_encryption /\ t.session[j].bare = s.session[j].bare
           /\ Made(p, s) \subseteq Made(p, t) /\ Done(t) = Done(s)
           /\ Linked(s) => Linked(t)
<1>1. \A j \in Id : /\ t.session[j].thread_id = s.session[j].thread_id
                    /\ t.session[j].x = s.session[j].x
                    /\ t.session[j].enable_encryption = s.session[j].enable_encryption /\ t.session[j].bare = s.session[j].bare
  BY DEF Turns
<1>2. \A j \in Id : InTable(t, j) <=> InTable(s, j)
  BY <1>1 DEF InTable, Turns
<1>3. Made(p, s) \subseteq Made(p, t)
  BY MadeGrows DEF Turns
<1>4. ASSUME Linked(s) PROVE Linked(t)
  <2>1. \A th \in Thread : s.table[th] # None => s.table[th] \in Id
    BY DEF PartyState
  <2>2. s.queue # None => s.queue \in Id
    BY DEF PartyState
  <2>3. \A d \in s.dialogs : d.session \in Id
    BY DEF PartyState
  <2> QED
    BY <1>1, <1>4, <2>1, <2>2, <2>3 DEF Linked, Turns
<1> QED
  BY <1>1, <1>2, <1>3, <1>4 DEF Turns, Done

\* What is sent then, with the half h
Opens(q, p, o, t, l, h, e) ==
    /\ Sent(q, p, o, t, l, e) /\ e.kind \in {"submit", "result"}
    /\ e.kind = "submit" => e.half = h
    /\ e.counter[1] \in {None, h}

Begins(p, q, s, o, t, w, v, u, l, i) ==
    LET x == t.session[i]
        h == Base(x)
    IN /\ Turns(s, t, i) /\ i \in Id /\ h \in Half
       /\ x.status \in {"responded-e2e", "identified-alice"}
       /\ Kept(p, q, t, o, x)
       /\ \A j \in Id : j # i => Base(s.session[j]) # h
       /\ h \notin Pending(s, w)
       /\ Extends(v, u) /\ (s.online \/ u = v)
       /\ \A n \in DOMAIN u : n \in DOMAIN v \/ Opens(q, p, o, t, l, h, u[n])
       /\ Once(u)

\* What has to hold of the new stream
Meets(p, q, s, o, t, w, v, u, l, i) ==
    LET x == t.session[i]
        h == Base(x)
    IN /\ \A j \in Id :
             InTable(t, i) /\ InTable(o, j) /\ o.session[j].status \in Streaming
             /\ Base(o.session[j]) = h =>
                   /\ \/ Ordered(u, h, o.session[j].c_o[2], x.c_s[2])
                      \/ Excused(q, x, w, l)
                      \/ Unidentified(o.session[j], u)
                   /\ \/ Ordered(w, h, x.c_o[2], o.session[j].c_s[2])
                      \/ Excused(p, o.session[j], u, l)
                      \/ Unidentified(x, w)
       /\ Unanswered(o, t, u, w)
       /\ \A j \in Id : o.session[j].status = "active" => Base(o.session[j]) # h
       /\ InTable(t, i) /\ x.status = "responded-e2e" =>
             /\ \A n \in DOMAIN u :
                   u[n].kind = "submit" /\ u[n].half = h =>
                      Whole(u, x) /\ \A m \in Runs(u, h) : m > n
             /\ \A d \in o.dialogs : d.form.half # h

LEMMA BegunLocal ==
    ASSUME NEW p, NEW q, Pair(p, q), NEW s, NEW o, NEW t, NEW w, NEW v, NEW u, NEW l,
           NEW i, Begins(p, q, s, o, t, w, v, u, l, i),
           Local(p, q, s, o), Local(q, p, o, s)
    PROVE  Local(p, q, t, o) /\ Local(q, p, o, t)
<1>1. /\ Turns(s, t, i) /\ i \in Id /\ Base(t.session[i]) \in Half
      /\ Kept(p, q, t, o, t.session[i])
      /\ \A j \in Id : j # i => Base(s.session[j]) # Base(t.session[i])
  BY DEF Begins
<1>2. s \in PartyState /\ t \in PartyState /\ o \in PartyState /\ t.taken = s.taken
      /\ t.dialogs = s.dialogs
  BY <1>1 DEF Local, Turns
<1>3. /\ \A j \in Id : t.session[j].x = s.session[j].x
      /\ Made(p, s) \subseteq Made(p, t) /\ Done(t) = Done(s) /\ Linked(t)
  BY <1>1, <1>2, TurnsIs DEF Local
<1>4. ASSUME NEW j \in Id PROVE Kept(p, q, t, o, t.session[j])
  <2>1. CASE j = i
    BY <1>1, <2>1
  <2>2. CASE j # i
    <3>1. t.session[j] = s.session[j] /\ Kept(p, q, s, o, s.session[j])
      BY <1>1, <2>2 DEF Turns, Local
    <3> QED
      BY <1>2, <1>3, <3>1 DEF Kept, Responded, Identified, Active
  <2> QED
    BY <2>1, <2>2
<1>5. Apart(t)
  BY <1>1 DEF Apart, Local, Turns
<1>6. Asked(q, t, o)
  <2>1. \A d \in s.dialogs : d.session \in Id
    BY <1>2 DEF PartyState
  <2> QED
    BY <1>2, <1>3, <2>1 DEF Asked, Local
<1>7. Taken(p, q, t, o)
  BY <1>2, <1>3 DEF Taken, Local
<1>8. Local(p, q, t, o)
  BY <1>2, <1>3, <1>4, <1>5, <1>6, <1>7 DEF Local
<1>9. ASSUME NEW j \in Id PROVE Kept(q, p, o, t, o.session[j])
  BY <1>3 DEF Local, Kept, Responded, Identified, Active
<1>10. Asked(p, o, t) /\ Taken(q, p, o, t)
  BY <1>2, <1>3 DEF Local, Asked, Taken
<1>11. Local(q, p, o, t)
  BY <1>9, <1>10 DEF Local
<1> QED
  BY <1>8, <1>11

LEMMA Begun ==
    ASSUME NEW p, NEW q, Pair(p, q), NEW s, NEW o, NEW t, NEW w, NEW v, NEW u, NEW l,
           NEW i, NEW T, NEW T2, Both(p, q, s, o, w, v, l, T),
           Begins(p, q, s, o, t, w, v, u, l, i), Meets(p, q, s, o, t, w, v, u, l, i),
           Threaded(t, w, T2), Threaded(o, u, T2)
    PROVE  Both(p, q, t, o, w, u, l, T2)
<1> DEFINE x == t.session[i]
           h == Base(x)
<1>1. /\ Local(p, q, s, o) /\ Under(p, q, s, o, l, w) /\ Once(w)
      /\ Unanswered(s, o, w, v) /\ Identity(s, w) /\ Matched(q, s, o, w, v, l)
      /\ Answers(q, s, o, w, v, l) /\ Noticed(s, o, w, l)
      /\ ~s.online => p \in l
  BY DEF Both, One
<1>2. /\ Local(q, p, o, s) /\ Under(q, p, o, s, l, v)
      /\ Identity(o, v) /\ Matched(p, o, s, v, w, l)
      /\ Answers(p, o, s, v, w, l) /\ Noticed(o, s, v, l)
      /\ ~o.online => q \in l
  BY DEF Both, One
<1>3. /\ Turns(s, t, i) /\ i \in Id /\ h \in Half
      /\ x.status \in {"responded-e2e", "identified-alice"}
      /\ \A j \in Id : j # i => Base(s.session[j]) # h
      /\ h \notin Pending(s, w)
      /\ Extends(v, u) /\ (s.online \/ u = v)
      /\ \A n \in DOMAIN u : n \in DOMAIN v \/ Opens(q, p, o, t, l, h, u[n])
      /\ Once(u)
  BY DEF Begins
<1>4. Local(p, q, t, o) /\ Local(q, p, o, t)
  BY <1>1, <1>2, BegunLocal
<1>5. /\ \A j \in Id : InTable(t, j) <=> InTable(s, j)
      /\ \A j \in Id : t.session[j].enable_encryption = s.session[j].enable_encryption /\ t.session[j].bare = s.session[j].bare
      /\ Made(p, s) \subseteq Made(p, t) /\ Done(t) = Done(s)
  BY <1>1, <1>3, TurnsIs DEF Local
<1>6. /\ \A j \in Id : j # i => t.session[j] = s.session[j]
      /\ t.dialogs = s.dialogs /\ t.online = s.online /\ t.taken = s.taken
  BY <1>3 DEF Turns
<1>7. /\ v \in Seq(Stanza) /\ u \in Seq(Stanza) /\ DOMAIN v = 1 .. Len(v) /\ DOMAIN u = 1 .. Len(u)
      /\ Len(v) \in Nat /\ Len(u) \in Nat
      /\ \A n \in DOMAIN v : n \in DOMAIN u /\ u[n] = v[n]
  <2> HIDE DEF x, h
  <2> QED
    BY <1>3 DEF Extends
<1>8. ASSUME NEW g \in Half, g # h
      PROVE  /\ Runs(u, g) = Runs(v, g) /\ \A n \in Runs(v, g) : u[n] = v[n]
             /\ \A a, b : Ordered(v, g, a, b) => Ordered(u, g, a, b)
  <2>1. \A n \in 1 .. Len(u) : n > Len(v) => u[n].counter[1] # g
    BY <1>3, <1>7, <1>8, NamesAssumption DEF Opens
  <2> QED
    BY <1>3, <2>1, OrderedElse
<1>9. Told(v, l) => Told(u, l)
  BY <1>7 DEF Told
<1>10. /\ \A j \in Id : InTable(t, i) /\ InTable(o, j) /\ o.session[j].status \in Streaming
                        /\ Base(o.session[j]) = h =>
             /\ \/ Ordered(u, h, o.session[j].c_o[2], x.c_s[2])
                \/ Excused(q, x, w, l)
                \/ Unidentified(o.session[j], u)
             /\ \/ Ordered(w, h, x.c_o[2], o.session[j].c_s[2])
                \/ Excused(p, o.session[j], u, l)
                \/ Unidentified(x, w)
       /\ Unanswered(o, t, u, w)
       /\ \A j \in Id : o.session[j].status = "active" => Base(o.session[j]) # h
       /\ InTable(t, i) /\ x.status = "responded-e2e" =>
             /\ \A n \in DOMAIN u :
                   u[n].kind = "submit" /\ u[n].half = h =>
                      Whole(u, x) /\ \A m \in Runs(u, h) : m > n
             /\ \A d \in o.dialogs : d.form.half # h
  BY DEF Meets
<1> HIDE DEF x, h
<1>11. x = t.session[i] /\ Base(t.session[i]) = h
  BY DEF x, h
<1>12. Under(p, q, t, o, l, w)
  BY <1>1, <1>5 DEF Under, Sent
<1>13. Unanswered(t, o, w, u)
  <2>1. Dialogs(t) = Dialogs(s) /\ Pending(t, w) = Pending(s, w)
    BY <1>6 DEF Dialogs, Pending
  <2>2. ASSUME NEW g \in Pending(t, w)
        PROVE  /\ g \notin Done(t)
               /\ \A j \in Id : Base(t.session[j]) # g
               /\ \A n \in DOMAIN u : u[n].counter[1] # g
               /\ \A n \in DOMAIN w : w[n].kind = "init" => w[n].counter[1] # g
               /\ \A j \in Id : Base(o.session[j]) = g =>
                     /\ o.session[j].status # "active"
                     /\ o.session[j].status = "responded-e2e" => o.session[j].c_o[2] = 0
    <3>1. g \in Half
      BY <1>1, <2>1 DEF Pending, Submitted, Dialogs, Under, Sent, Local, Asked, Made
    <3>2. g # h /\ g # None
      BY <1>3, <2>1, <3>1, NamesAssumption
    <3>3. \A j \in Id : Base(t.session[j]) # g
      BY <1>1, <1>6, <1>11, <2>1, <3>2 DEF Unanswered
    <3>4. \A n \in DOMAIN u : u[n].counter[1] # g
      BY <1>1, <1>3, <1>7, <2>1, <3>2 DEF Unanswered, Opens
    <3> QED
      BY <1>1, <1>5, <2>1, <3>3, <3>4 DEF Unanswered
  <2> QED
    BY <1>1, <2>1, <2>2 DEF Unanswered
<1>14. Identity(t, w)
  BY <1>1, <1>3, <1>6, <1>11 DEF Identity
<1>15. Matched(q, t, o, w, u, l)
  <2> SUFFICES ASSUME NEW k \in Id, NEW j \in Id, k # i,
                      InTable(t, k), t.session[k].status \in Streaming,
                      InTable(o, j), o.session[j].status \in Streaming,
                      Base(t.session[k]) = Base(o.session[j])
               PROVE  \/ Ordered(u, Base(t.session[k]), o.session[j].c_o[2], t.session[k].c_s[2])
                      \/ Excused(q, t.session[k], w, l)
                      \/ Unidentified(o.session[j], u)
    BY <1>10, <1>11 DEF Matched
  <2>1. t.session[k] = s.session[k] /\ InTable(s, k)
    BY <1>5, <1>6
  <2>2. Base(o.session[j]) \in Half /\ Base(o.session[j]) # h
    <3>1. Base(o.session[j]) \in Half
      BY <1>4, StreamHalf DEF Pair
    <3> QED
      BY <1>3, <2>1, <3>1
  <2>3. \/ Ordered(v, Base(s.session[k]), o.session[j].c_o[2], s.session[k].c_s[2])
        \/ Excused(q, s.session[k], w, l)
        \/ Unidentified(o.session[j], v)
    BY <1>1, <2>1 DEF Matched
  <2>4. Unidentified(o.session[j], v) => Unidentified(o.session[j], u)
    BY <1>8, <2>2 DEF Unidentified
  <2> QED
    BY <1>8, <2>1, <2>2, <2>3, <2>4
<1>16. Answers(q, t, o, w, u, l)
  <2> SUFFICES ASSUME NEW k \in Id, k # i, InTable(t, k), t.session[k].status = "responded-e2e"
               PROVE  /\ \A n \in DOMAIN u :
                            u[n].kind = "submit" /\ u[n].half = Base(t.session[k]) =>
                               \/ /\ Whole(u, t.session[k])
                                  /\ \A m \in Runs(u, Base(t.session[k])) : m > n
                               \/ Excused(q, t.session[k], w, l)
                      /\ \A d \in o.dialogs :
                            d.form.half = Base(t.session[k]) /\ InTable(o, d.session) =>
                               Whole(u, t.session[k]) \/ Excused(q, t.session[k], w, l)
    BY <1>10, <1>11 DEF Answers
  <2>1. t.session[k] = s.session[k] /\ InTable(s, k)
    BY <1>5, <1>6
  <2>2. Base(s.session[k]) \in Half /\ Base(s.session[k]) # h
    <3>1. Base(s.session[k]) \in Half
      BY <1>1, <2>1, StreamHalf DEF Streaming
    <3> QED
      BY <1>3, <3>1
  <2>3. Whole(v, s.session[k]) => Whole(u, s.session[k])
    BY <1>8, <2>2 DEF Whole
  <2>4. \A n \in DOMAIN u : u[n].kind = "submit" /\ u[n].half = Base(s.session[k])
                            => n \in DOMAIN v /\ v[n] = u[n]
    BY <1>3, <1>7, <2>2 DEF Opens
  <2> QED
    BY <1>1, <1>8, <2>1, <2>2, <2>3, <2>4 DEF Answers
<1>17. Noticed(t, o, w, l)
  BY <1>1, <1>5 DEF Noticed, Bared
<1>18. One(p, q, t, o, w, u, l, T2)
  BY <1>1, <1>4, <1>6, <1>12, <1>13, <1>14, <1>15, <1>16, <1>17 DEF One
<1>19. Under(q, p, o, t, l, u)
  <2>1. ASSUME NEW n \in DOMAIN u PROVE Sent(q, p, o, t, l, u[n])
    <3>1. CASE n \in DOMAIN v
      BY <1>2, <1>5, <1>6, <1>7, <3>1 DEF Under, Sent
    <3> QED
      BY <1>3, <3>1 DEF Opens
  <2> QED
    BY <1>7, <2>1 DEF Under
<1>20. Identity(o, u)
  <2> SUFFICES ASSUME NEW j \in Id, NEW n \in DOMAIN u, o.session[j].status = "active",
                      u[n].counter[1] = Base(o.session[j])
               PROVE  u[n].kind = "encrypted"
    BY DEF Identity
  <2>1. Base(o.session[j]) # None /\ Base(o.session[j]) # h
    BY <1>4, <1>10, StreamHalf DEF Streaming, Pair
  <2>2. n \in DOMAIN v
    BY <1>3, <2>1 DEF Opens
  <2> QED
    BY <1>2, <1>7, <2>2 DEF Identity
<1>21. Matched(p, o, t, u, w, l)
  <2> SUFFICES ASSUME NEW j \in Id, NEW k \in Id, k # i,
                      InTable(o, j), o.session[j].status \in Streaming,
                      InTable(t, k), t.session[k].status \in Streaming,
                      Base(o.session[j]) = Base(t.session[k])
               PROVE  \/ Ordered(w, Base(o.session[j]), t.session[k].c_o[2], o.session[j].c_s[2])
                      \/ Excused(p, o.session[j], u, l)
                      \/ Unidentified(t.session[k], w)
    BY <1>10, <1>11 DEF Matched
  <2>1. t.session[k] = s.session[k] /\ InTable(s, k)
    BY <1>5, <1>6
  <2>2. Excused(p, o.session[j], v, l) => Excused(p, o.session[j], u, l)
    BY <1>9 DEF Excused
  <2> QED
    BY <1>2, <2>1, <2>2 DEF Matched
<1>22. Answers(p, o, t, u, w, l)
  <2>1. \A j \in Id : Excused(p, o.session[j], v, l) => Excused(p, o.session[j], u, l)
    BY <1>9 DEF Excused
  <2>2. \A d \in s.dialogs : d.session \in Id
    BY <1>1 DEF Local, PartyState
  <2> QED
    BY <1>2, <1>5, <1>6, <2>1, <2>2 DEF Answers
<1>23. Noticed(o, t, u, l)
  BY <1>2, <1>3, <1>6 DEF Noticed
<1>24. One(q, p, o, t, u, w, l, T2)
  BY <1>2, <1>3, <1>4, <1>10, <1>19, <1>20, <1>21, <1>22, <1>23 DEF One
<1> QED
  BY <1>18, <1>24 DEF Both

LEMMA AppendIs ==
    ASSUME NEW v \in Seq(Stanza), NEW e \in Stanza
    PROVE  LET u == Append(v, e)
           IN /\ Extends(v, u) /\ Len(v) + 1 \in DOMAIN u /\ u[Len(v) + 1] = e
              /\ \A n \in DOMAIN v : n \in DOMAIN u /\ u[n] = v[n] /\ n < Len(v) + 1
              /\ \A n \in DOMAIN u : n \in DOMAIN v \/ (n = Len(v) + 1 /\ u[n] = e)
              /\ Len(v) + 1 \notin DOMAIN v
<1> DEFINE u == Append(v, e)
<1>1. /\ u \in Seq(Stanza) /\ Len(u) = Len(v) + 1 /\ Len(v) \in Nat /\ u[Len(v) + 1] = e
      /\ \A n \in 1 .. Len(v) : u[n] = v[n]
      /\ DOMAIN v = 1 .. Len(v) /\ DOMAIN u = 1 .. Len(v) + 1
  OBVIOUS
<1> HIDE DEF u
<1>2. Extends(v, u)
  BY <1>1 DEF Extends
<1> QED
  BY <1>1, <1>2 DEF u

LEMMA RespondIs ==
    ASSUME NEW p \in Party, NEW s \in PartyState, NEW i \in Id, Linkable(s, i),
           NEW form, form.half \in Half
    PROVE  LET t == RespondE2EBob(p, s, i, form)
               y == NewHalf(p, s)
           IN /\ Turns(s, t, i) /\ t.halves = s.halves + 1
              /\ t.session[i].status = "responded-e2e" /\ t.session[i].he = form.half
              /\ t.session[i].y = y /\ t.session[i].logging = Prefers[p]
              /\ t.session[i].c_s = <<y, 0>> /\ t.session[i].c_o = <<y, 0>>
              /\ \E e \in Stanza :
                    /\ e.kind = "submit" /\ e.half = y /\ e.logging = Prefers[p]
                    /\ e.thread = s.session[i].thread_id /\ e.thread # None
                    /\ e.counter[1] = None /\ t.out = Append(s.out, e)
<1> DEFINE y == NewHalf(p, s)
           x == [s.session[i] EXCEPT
                    !.he = form.half, !.y = y, !.logging = Prefers[p],
                    !.c_s = <<y, 0>>, !.c_o = <<y, 0>>, !.status = "responded-e2e"]
           u == [s EXCEPT !.halves = @ + 1, !.session[i] = x]
           e == [Of(s, i, "submit") EXCEPT !.half = y, !.logging = Prefers[p]]
           t == Send(u, i, e)
<1>1. /\ s.session[i] \in Session /\ s.halves \in Nat /\ Prefers[p] \in {"may", "mustnot"}
      /\ s.session[i].thread_id \in Thread
  BY ESessionAssumption DEF PartyState, Linkable, Session
<1>2. y \in Half /\ <<y, 0>> \in Counter
  BY <1>1 DEF NewHalf, Half, Counter
<1>3. t = RespondE2EBob(p, s, i, form)
  BY DEF RespondE2EBob
<1> HIDE DEF y
<1>4. /\ x \in Session
      /\ x.thread_id = s.session[i].thread_id /\ x.x = s.session[i].x
      /\ x.enable_encryption = s.session[i].enable_encryption /\ x.bare = s.session[i].bare
      /\ x.status = "responded-e2e" /\ x.he = form.half /\ x.y = y /\ x.logging = Prefers[p]
      /\ x.c_s = <<y, 0>> /\ x.c_o = <<y, 0>>
  BY <1>1, <1>2 DEF Session, Waiting
<1>5. /\ e \in Stanza /\ e.kind = "submit" /\ e.half = y /\ e.logging = Prefers[p]
      /\ e.thread = s.session[i].thread_id /\ e.thread # None
      /\ e.counter[1] = None
  <2>1. Plain("submit", s.session[i].thread_id) \in Stanza
    BY <1>1, PlainIs
  <2> QED
    BY <1>1, <1>2, <2>1 DEF Of, Plain, Stanza, NoCounter, Linkable
<1> HIDE DEF x, e
<1>6. /\ u \in PartyState /\ u.session = [s.session EXCEPT ![i] = x]
      /\ u.table = s.table /\ u.chat = s.chat /\ u.queue = s.queue
      /\ u.dialogs = s.dialogs /\ u.online = s.online
      /\ u.halves = s.halves + 1 /\ u.taken = s.taken /\ u.out = s.out
  <2>1. u = [s EXCEPT !.halves = s.halves + 1, !.session = [s.session EXCEPT ![i] = x]]
    BY <1>1 DEF PartyState
  <2>2. [s.session EXCEPT ![i] = x] \in [Id -> Session] /\ s.halves + 1 \in Nat
    BY <1>1, <1>4 DEF PartyState
  <2> QED
    BY <1>1, <2>1, <2>2 DEF PartyState
<1> HIDE DEF u
<1>7. u.session[i] = x /\ \A j \in Id : j # i => u.session[j] = s.session[j]
  BY <1>6 DEF PartyState
<1>8. /\ t \in PartyState
      /\ \E b \in BOOLEAN : t.session[i] = [x EXCEPT !.last_send = b]
      /\ \A j \in Id : j # i => t.session[j] = s.session[j]
      /\ t.table = s.table /\ t.chat = s.chat /\ t.queue = s.queue
      /\ t.dialogs = s.dialogs /\ t.online = s.online
      /\ t.halves = s.halves + 1 /\ t.taken = s.taken /\ t.out = Append(s.out, e)
  <2>1. Sends(u, t, i, e)
    BY <1>5, <1>6, SendIs
  <2> HIDE DEF t
  <2> QED
    BY <1>6, <1>7, <2>1 DEF Sends
<1> HIDE DEF t
<1>9. /\ t.session[i].thread_id = x.thread_id /\ t.session[i].x = x.x
      /\ t.session[i].enable_encryption = x.enable_encryption /\ t.session[i].bare = x.bare
      /\ t.session[i].status = x.status /\ t.session[i].he = x.he
      /\ t.session[i].y = x.y /\ t.session[i].logging = x.logging
      /\ t.session[i].c_s = x.c_s /\ t.session[i].c_o = x.c_o
  BY <1>4, <1>8 DEF Session
<1>10. Turns(s, t, i)
  BY <1>1, <1>4, <1>8, <1>9 DEF Turns
<1> QED
  BY <1>3, <1>4, <1>5, <1>8, <1>9, <1>10 DEF y

\* Nothing mentions the half that p makes next
LEMMA FreshHalf ==
    ASSUME NEW p, NEW q, Pair(p, q), NEW s, NEW o, NEW w, NEW v, NEW l, NEW T,
           Both(p, q, s, o, w, v, l, T)
    PROVE  LET y == NewHalf(p, s)
           IN /\ y \in Half /\ y # None /\ y \notin Done(s) /\ y \notin Done(o)
              /\ \A j \in Id : Base(s.session[j]) # y /\ Base(o.session[j]) # y
              /\ \A n \in DOMAIN w : w[n].counter[1] # y /\ (w[n].kind = "submit" => w[n].half # y)
              /\ \A n \in DOMAIN v : v[n].counter[1] # y /\ (v[n].kind = "submit" => v[n].half # y)
              /\ \A d \in s.dialogs : d.form.half # y
              /\ \A d \in o.dialogs : d.form.half # y
<1> DEFINE y == NewHalf(p, s)
<1>1. /\ Local(p, q, s, o) /\ Local(q, p, o, s)
      /\ Under(p, q, s, o, l, w) /\ Under(q, p, o, s, l, v)
  BY DEF Both, One
<1>2. s.halves \in Nat
  BY <1>1 DEF Local, PartyState
<1>3. y \in Half /\ y[1] = p /\ y[2] = s.halves + 1
  BY <1>2 DEF NewHalf, Half, Pair
<1> HIDE DEF y
<1>4. y # None /\ y \notin Made(p, s) /\ y \notin Made(q, o)
  BY <1>2, <1>3, NamesAssumption DEF Made, Pair
<1>5. y \notin Done(s) /\ y \notin Done(o)
  BY <1>1, <1>4 DEF Local, Taken, Done
<1>6. \A j \in Id : Base(s.session[j]) # y /\ Base(o.session[j]) # y
  BY <1>1, <1>4 DEF Local, Kept
<1>7. \A n \in DOMAIN w : w[n].counter[1] # y /\ (w[n].kind = "submit" => w[n].half # y)
  BY <1>1, <1>4 DEF Under, Sent
<1>8. \A n \in DOMAIN v : v[n].counter[1] # y /\ (v[n].kind = "submit" => v[n].half # y)
  BY <1>1, <1>4 DEF Under, Sent
<1>9. /\ \A d \in s.dialogs : d.form.half # y
      /\ \A d \in o.dialogs : d.form.half # y
  BY <1>1, <1>4 DEF Local, Asked
<1> QED
  BY <1>3, <1>4, <1>5, <1>6, <1>7, <1>8, <1>9 DEF y

\* Bob responds
LEMMA Responds ==
    ASSUME NEW p, NEW q, Pair(p, q), NEW s, NEW o, NEW w, NEW v, NEW l,
           NEW T \in [Half -> Thread \cup {None}],
           Both(p, q, s, o, w, v, l, T), s.online, NEW i \in Id, Linkable(s, i),
           NEW form, form.half \in Made(q, o),
           NEW t, t = RespondE2EBob(p, s, i, form)
    PROVE  \E e \in Stanza : \E T2 \in [Half -> Thread \cup {None}] :
              t.out = Append(s.out, e) /\ Both(p, q, t, o, w, Append(v, e), l, T2)
<1> DEFINE y == NewHalf(p, s)
<1>1. /\ Local(p, q, s, o) /\ Local(q, p, o, s)
      /\ Under(p, q, s, o, l, w) /\ Under(q, p, o, s, l, v) /\ Once(v)
      /\ Unanswered(o, s, v, w) /\ Threaded(s, w, T) /\ Threaded(o, v, T)
  BY DEF Both, One
<1>2. s \in PartyState /\ s.halves \in Nat /\ form.half \in Half /\ form.half[1] = q
      /\ p \in Party /\ p # q /\ v \in Seq(Stanza)
      /\ s.session[i].thread_id \in Thread \cup {None}
  BY <1>1 DEF Local, PartyState, Session, Made, Pair, Under
<1>3. /\ y \in Half /\ y # None /\ y \notin Done(s) /\ y \notin Done(o)
      /\ \A j \in Id : Base(s.session[j]) # y /\ Base(o.session[j]) # y
      /\ \A n \in DOMAIN w : w[n].counter[1] # y /\ (w[n].kind = "submit" => w[n].half # y)
      /\ \A n \in DOMAIN v : v[n].counter[1] # y /\ (v[n].kind = "submit" => v[n].half # y)
      /\ \A d \in s.dialogs : d.form.half # y
      /\ \A d \in o.dialogs : d.form.half # y
  BY FreshHalf
<1>4. y[1] = p /\ y[2] = s.halves + 1
  BY DEF NewHalf
<1>5. /\ Turns(s, t, i) /\ t.halves = s.halves + 1
      /\ t.session[i].status = "responded-e2e" /\ t.session[i].he = form.half
      /\ t.session[i].y = y /\ t.session[i].logging = Prefers[p]
      /\ t.session[i].c_s = <<y, 0>> /\ t.session[i].c_o = <<y, 0>>
  BY <1>2, RespondIs
<1>6. PICK e \in Stanza :
         /\ e.kind = "submit" /\ e.half = y /\ e.logging = Prefers[p]
         /\ e.thread = s.session[i].thread_id /\ e.thread # None
         /\ e.counter[1] = None /\ t.out = Append(s.out, e)
  BY <1>2, RespondIs
<1> DEFINE u == Append(v, e)
           T2 == [T EXCEPT ![y] = s.session[i].thread_id]
<1>7. /\ Extends(v, u) /\ Len(v) + 1 \in DOMAIN u /\ u[Len(v) + 1] = e
      /\ \A n \in DOMAIN v : n \in DOMAIN u /\ u[n] = v[n] /\ n < Len(v) + 1
      /\ \A n \in DOMAIN u : n \in DOMAIN v \/ (n = Len(v) + 1 /\ u[n] = e)
      /\ Len(v) + 1 \notin DOMAIN v
  BY <1>2, AppendIs
<1> HIDE DEF y, u
<1>8. y \in Made(p, t)
  BY <1>2, <1>3, <1>4, <1>5 DEF Made, Turns
<1>9. Base(t.session[i]) = y /\ t.session[i].c_s[2] = 0 /\ t.session[i].c_o[2] = 0
      /\ t.session[i].c_o[1] = y
  BY <1>5 DEF Base
<1>10. /\ \A j \in Id : t.session[j].thread_id = s.session[j].thread_id
       /\ Made(p, s) \subseteq Made(p, t) /\ Done(t) = Done(s)
       /\ \A j \in Id : t.session[j].enable_encryption = s.session[j].enable_encryption /\ t.session[j].bare = s.session[j].bare
  BY <1>2, <1>5, TurnsIs
<1>11. Kept(p, q, t, o, t.session[i])
  <2>1. Kept(p, q, s, o, s.session[i])
    BY <1>1 DEF Local
  <2>2. t.session[i].x \in Made(p, t) \cup {None}
    BY <1>5, <1>10, <2>1 DEF Kept, Turns
  <2>3. Responded(p, q, t, t.session[i])
    BY <1>2, <1>3, <1>5, <1>8, <1>9, <1>10 DEF Responded
  <2> QED
    BY <1>3, <1>5, <1>8, <1>9, <2>2, <2>3 DEF Kept, Identified, Active
<1>12. \A n \in DOMAIN u : n \in DOMAIN v \/ Opens(q, p, o, t, l, y, u[n])
  <2>1. Opens(q, p, o, t, l, y, e)
    BY <1>6, <1>8 DEF Opens, Sent, Counted
  <2> QED
    BY <1>7, <2>1
<1>13. Once(u)
  BY <1>1, <1>3, <1>6, <1>7 DEF Once
<1>14. y \notin Pending(s, w)
  BY <1>3 DEF Pending, Submitted, Dialogs
<1>15. Begins(p, q, s, o, t, w, v, u, l, i)
  BY <1>3, <1>5, <1>7, <1>9, <1>11, <1>12, <1>13, <1>14 DEF Begins
<1>16. \A n \in DOMAIN u : u[n].counter[1] # y
  BY <1>3, <1>6, <1>7
<1>17. Unanswered(o, t, u, w)
  <2>1. Submitted(u) = Submitted(v) \cup {y}
    BY <1>6, <1>7 DEF Submitted
  <2>2. Submitted(u) \cap Dialogs(o) = {}
    BY <1>1, <1>3, <2>1 DEF Unanswered, Dialogs
  <2>3. ASSUME NEW h \in Pending(o, u)
        PROVE  /\ h \notin Done(o)
               /\ \A k \in Id : Base(o.session[k]) # h
               /\ \A n \in DOMAIN w : w[n].counter[1] # h
               /\ \A n \in DOMAIN u : u[n].kind = "init" => u[n].counter[1] # h
               /\ \A j \in Id : Base(t.session[j]) = h =>
                     /\ t.session[j].status # "active"
                     /\ t.session[j].status = "responded-e2e" => t.session[j].c_o[2] = 0
    <3>1. CASE h = y
      <4>1. \A j \in Id : Base(t.session[j]) = y => j = i
        BY <1>3, <1>5 DEF Turns
      <4> QED
        BY <1>3, <1>5, <1>9, <1>16, <3>1, <4>1
    <3>2. CASE h # y
      <4>1. h \in Pending(o, v)
        BY <2>1, <3>2 DEF Pending
      <4>2. \A n \in DOMAIN u : u[n].kind = "init" => n \in DOMAIN v /\ u[n] = v[n]
        BY <1>6, <1>7
      <4>3. \A j \in Id : Base(t.session[j]) = h => t.session[j] = s.session[j]
        BY <1>5, <1>9, <3>2 DEF Turns
      <4> QED
        BY <1>1, <4>1, <4>2, <4>3 DEF Unanswered
    <3> QED
      BY <3>1, <3>2
  <2> QED
    BY <2>2, <2>3 DEF Unanswered
<1>18. Meets(p, q, s, o, t, w, v, u, l, i)
  <2>1. Runs(u, y) = {}
    BY <1>16 DEF Runs
  <2>2. Whole(u, t.session[i])
    BY <1>9, <2>1 DEF Whole, Ordered
  <2> QED
    BY <1>3, <1>9, <1>17, <2>1, <2>2 DEF Meets
<1>19. T2 \in [Half -> Thread \cup {None}] /\ T2[y] = s.session[i].thread_id
       /\ \A h : h # y => (h \in Half => T2[h] = T[h])
  BY <1>2, <1>3
<1> HIDE DEF T2
<1>20. Threaded(t, w, T2)
  <2>1. ASSUME NEW j \in Id, Base(t.session[j]) # None
        PROVE  t.session[j].thread_id = T2[Base(t.session[j])]
    <3>1. CASE j = i
      BY <1>9, <1>10, <1>19, <3>1
    <3>2. CASE j # i
      <4>1. t.session[j] = s.session[j] /\ Base(s.session[j]) # y
        BY <1>3, <1>5, <3>2 DEF Turns
      <4>2. Base(s.session[j]) \in Half
        BY <1>1, <2>1, <4>1 DEF Local, Kept, Made
      <4> QED
        BY <1>1, <1>19, <2>1, <4>1, <4>2 DEF Threaded
    <3> QED
      BY <3>1, <3>2
  <2>2. \A d \in t.dialogs : t.session[d.session].thread_id = T2[d.form.half]
    <3>1. \A d \in s.dialogs : d.session \in Id /\ d.form.half \in Half
      BY <1>1, <1>2 DEF Local, Asked, Made, PartyState
    <3> QED
      BY <1>1, <1>3, <1>5, <1>10, <1>19, <3>1 DEF Threaded, Turns
  <2>3. ASSUME NEW n \in DOMAIN w
        PROVE  /\ w[n].kind = "submit" => w[n].thread = T2[w[n].half]
               /\ w[n].kind \in Counted => w[n].thread = T2[w[n].counter[1]]
    <3>1. /\ w[n].kind = "submit" => w[n].half \in Half
          /\ w[n].kind \in Counted => w[n].counter[1] \in Half
      BY <1>1 DEF Under, Sent, Made
    <3> QED
      BY <1>1, <1>3, <1>19, <3>1 DEF Threaded
  <2> QED
    BY <2>1, <2>2, <2>3 DEF Threaded
<1>21. Threaded(o, u, T2)
  <2>1. ASSUME NEW j \in Id, Base(o.session[j]) # None
        PROVE  o.session[j].thread_id = T2[Base(o.session[j])]
    <3>1. Base(o.session[j]) \in Half
      BY <1>1, <2>1 DEF Local, Kept, Made
    <3> QED
      BY <1>1, <1>3, <1>19, <2>1, <3>1 DEF Threaded
  <2>2. \A d \in o.dialogs : o.session[d.session].thread_id = T2[d.form.half]
    <3>1. \A d \in o.dialogs : d.form.half \in Half
      BY <1>1 DEF Local, Asked, Made
    <3> QED
      BY <1>1, <1>3, <1>19, <3>1 DEF Threaded
  <2>3. ASSUME NEW n \in DOMAIN u
        PROVE  /\ u[n].kind = "submit" => u[n].thread = T2[u[n].half]
               /\ u[n].kind \in Counted => u[n].thread = T2[u[n].counter[1]]
    <3>1. CASE n \in DOMAIN v
      <4>1. /\ v[n].kind = "submit" => v[n].half \in Half
            /\ v[n].kind \in Counted => v[n].counter[1] \in Half
        BY <1>1, <3>1 DEF Under, Sent, Made
      <4> QED
        BY <1>1, <1>3, <1>7, <1>19, <3>1, <4>1 DEF Threaded
    <3>2. CASE u[n] = e
      BY <1>6, <1>19, <3>2 DEF Counted
    <3> QED
      BY <1>7, <3>1, <3>2
  <2> QED
    BY <2>1, <2>2, <2>3 DEF Threaded
<1>22. Both(p, q, t, o, w, u, l, T2)
  BY <1>15, <1>18, <1>20, <1>21, Begun
<1> QED
  BY <1>6, <1>19, <1>22 DEF u

-----------------------------------------------------------------------------
(* Alice accepts.                                                          *)

\* encrypt_stanza and make_identity: t is s after it sent e
SendsCounted(s, t, i, kind, key) ==
    LET a == s.session[i]
    IN /\ t \in PartyState
       /\ \E b \in BOOLEAN :
             t.session[i] = [a EXCEPT !.c_s = <<Base(a), a.c_s[2] + 1>>, !.last_send = b]
       /\ \A j \in Id : j # i => t.session[j] = s.session[j]
       /\ t.table = s.table /\ t.chat = s.chat /\ t.queue = s.queue
       /\ t.dialogs = s.dialogs /\ t.online = s.online
       /\ t.halves = s.halves /\ t.taken = s.taken
       /\ \E e \in Stanza :
             /\ e.kind = kind /\ e.thread = a.thread_id /\ e.thread # None
             /\ e.key = key /\ e.counter = a.c_s /\ t.out = Append(s.out, e)

LEMMA SendEncryptedIs ==
    ASSUME NEW s \in PartyState, NEW i \in Id, Linkable(s, i),
           NEW kind \in {"result", "init", "encrypted"}, NEW key \in Key \cup {None}
    PROVE  SendsCounted(s, SendEncrypted(s, i, kind, key), i, kind, key)
<1> DEFINE a == s.session[i]
           x == [a EXCEPT !.c_s = <<Base(a), a.c_s[2] + 1>>]
           u == [s EXCEPT !.session[i] = x]
           e == [Of(s, i, kind) EXCEPT !.key = key, !.counter = a.c_s]
           t == Send(u, i, e)
<1>1. a \in Session /\ a.thread_id \in Thread /\ a.thread_id # None
  BY DEF PartyState, Linkable, Session
<1>2. a.c_s \in Counter /\ a.c_s[2] \in Nat /\ a.c_s = <<Base(a), a.c_s[2]>>
  BY CountersAre DEF Base
<1>3. Next1(a.c_s) = <<Base(a), a.c_s[2] + 1>> /\ <<Base(a), a.c_s[2] + 1>> \in Counter
  BY <1>2 DEF Next1, Counter
<1>4. t = SendEncrypted(s, i, kind, key)
  <2>1. [s EXCEPT !.session[i].c_s = Next1(@)] = u
    BY <1>1, <1>3 DEF PartyState
  <2> QED
    BY <2>1 DEF SendEncrypted
<1>5. x \in Session
  BY <1>1, <1>3 DEF Session
<1>6. /\ e \in Stanza /\ e.kind = kind /\ e.thread = a.thread_id /\ e.key = key
      /\ e.counter = a.c_s
  <2>1. Plain(kind, a.thread_id) \in Stanza
    BY <1>1, PlainIs
  <2> QED
    BY <1>1, <1>2, <2>1 DEF Of, Plain, Stanza
<1> HIDE DEF a, e
<1>7. u \in PartyState /\ u.session = [s.session EXCEPT ![i] = x]
      /\ u.table = s.table /\ u.chat = s.chat /\ u.queue = s.queue
      /\ u.dialogs = s.dialogs /\ u.online = s.online
      /\ u.halves = s.halves /\ u.taken = s.taken /\ u.out = s.out
  <2> HIDE DEF x
  <2> QED
    BY <1>5 DEF PartyState
<1> HIDE DEF u
<1>8. u.session[i] = x /\ \A j \in Id : j # i => u.session[j] = s.session[j]
  BY <1>7 DEF PartyState
<1>9. Sends(u, t, i, e)
  BY <1>6, <1>7, SendIs
<1> HIDE DEF t
<1>10. \E b \in BOOLEAN :
          t.session[i] = [a EXCEPT !.c_s = <<Base(a), a.c_s[2] + 1>>, !.last_send = b]
  <2>1. PICK b \in BOOLEAN : t.session[i] = [u.session[i] EXCEPT !.last_send = b]
    BY <1>9 DEF Sends
  <2>2. t.session[i] = [a EXCEPT !.c_s = <<Base(a), a.c_s[2] + 1>>, !.last_send = b]
    BY <1>8, <2>1
  <2> QED
    BY <2>2
<1>11. SendsCounted(s, t, i, kind, key)
  BY ZenonT(30), <1>1, <1>6, <1>7, <1>8, <1>9, <1>10 DEF Sends, SendsCounted, a
<1> QED
  BY <1>4, <1>11

\* accept_e2e_alice: t is s after it
Accepts(s, t, i, form) ==
    LET h == form.half
        x == t.session[i]
    IN /\ Turns(s, t, i) /\ t.halves = s.halves
       /\ x.status = "identified-alice" /\ x.km_s = <<x.x, h>> /\ x.x \in Half
       /\ x.logging = form.logging /\ x.c_s = <<h, 1>> /\ x.c_o = <<h, 0>>
       /\ \E e \in Stanza :
             /\ e.kind = "result" /\ e.thread = s.session[i].thread_id
             /\ e.thread # None /\ e.key \in Key /\ e.counter = <<h, 0>>
             /\ t.out = Append(s.out, e)

LEMMA AcceptIs ==
    ASSUME NEW s \in PartyState, NEW i \in Id, Linkable(s, i), s.session[i].x \in Half,
           NEW form, form.half \in Half, form.logging \in {"may", "mustnot"}
    PROVE  Accepts(s, AcceptE2EAlice(s, i, form), i, form)
<1> DEFINE a == s.session[i]
           h == form.half
           key == <<a.x, h>>
           x == [a EXCEPT !.c_s = <<h, 0>>, !.c_o = <<h, 0>>, !.km_s = key,
                          !.logging = form.logging, !.status = "identified-alice"]
           u == [s EXCEPT !.session[i] = x]
           t == SendEncrypted(u, i, "result", key)
<1>1. a \in Session /\ a.thread_id \in Thread
  BY DEF PartyState, Linkable, Session
<1>2. key \in Key /\ <<h, 0>> \in Counter
  BY DEF Key, Counter
<1>3. t = AcceptE2EAlice(s, i, form)
  BY DEF AcceptE2EAlice
<1> HIDE DEF key
<1>4. x \in Session
  BY <1>1, <1>2 DEF Session, Waiting
<1>5. /\ x.thread_id = a.thread_id /\ x.x = a.x /\ x.enable_encryption = a.enable_encryption /\ x.bare = a.bare
      /\ x.status = "identified-alice" /\ x.km_s = key /\ x.logging = form.logging
      /\ x.c_s = <<h, 0>> /\ x.c_o = <<h, 0>>
  BY <1>1 DEF Session
<1> HIDE DEF x, a
<1>6. u \in PartyState /\ u.session = [s.session EXCEPT ![i] = x]
      /\ u.table = s.table /\ u.chat = s.chat /\ u.queue = s.queue
      /\ u.dialogs = s.dialogs /\ u.online = s.online
      /\ u.halves = s.halves /\ u.taken = s.taken /\ u.out = s.out
  BY <1>4 DEF PartyState
<1> HIDE DEF u
<1>7. u.session[i] = x /\ \A j \in Id : j # i => u.session[j] = s.session[j]
  BY <1>6 DEF PartyState
<1>8. Linkable(u, i)
  BY <1>5, <1>7 DEF Linkable, a
<1>9. SendsCounted(u, t, i, "result", key)
  BY <1>2, <1>6, <1>8, SendEncryptedIs
<1> HIDE DEF t
<1>10. PICK b \in BOOLEAN :
          t.session[i] = [x EXCEPT !.c_s = <<Base(x), x.c_s[2] + 1>>, !.last_send = b]
  BY <1>7, <1>9 DEF SendsCounted
<1>11. /\ t.session[i].thread_id = x.thread_id /\ t.session[i].x = x.x
       /\ t.session[i].enable_encryption = x.enable_encryption /\ t.session[i].bare = x.bare
       /\ t.session[i].status = x.status /\ t.session[i].km_s = x.km_s
       /\ t.session[i].logging = x.logging /\ t.session[i].c_o = x.c_o
       /\ t.session[i].c_s = <<h, 1>>
  BY <1>4, <1>5, <1>10 DEF Session, Base
<1>12. Turns(s, t, i) /\ t.halves = s.halves
  <2>1. s.halves \in Nat
    BY DEF PartyState
  <2> QED
    BY <1>5, <1>6, <1>7, <1>9, <1>11, <2>1 DEF Turns, SendsCounted, a
<1>13. \E e \in Stanza :
          /\ e.kind = "result" /\ e.thread = s.session[i].thread_id
          /\ e.thread # None /\ e.key \in Key /\ e.counter = <<h, 0>>
          /\ t.out = Append(s.out, e)
  BY <1>2, <1>5, <1>6, <1>7, <1>9 DEF SendsCounted, a
<1>14. Accepts(s, t, i, form)
  BY <1>5, <1>11, <1>12, <1>13 DEF Accepts, key, a
<1> QED
  BY <1>3, <1>14

\* p may answer the response of q in a session
Answerable(p, q, s, o, w, v, l, T, i, form) ==
    LET h == form.half
    IN /\ h \in Made(q, o) /\ form.logging = Prefers[q] /\ h \notin Done(s)
       /\ h \notin Pending(s, w)
       /\ \A j \in Id : Base(s.session[j]) # h
       /\ \A n \in DOMAIN v : v[n].counter[1] # h
       /\ \A n \in DOMAIN w : w[n].kind = "init" => w[n].counter[1] # h
       /\ \A j \in Id : Base(o.session[j]) = h =>
             /\ o.session[j].status # "active"
             /\ o.session[j].status = "responded-e2e" =>
                   /\ o.session[j].c_o[2] = 0
                   /\ InTable(o, j) /\ InTable(s, i) =>
                         Whole(w, o.session[j]) \/ Excused(p, o.session[j], v, l)
       /\ Linkable(s, i) /\ s.session[i].thread_id = T[h] /\ s.session[i].x # None

\* Nothing more is under way to q, or the identity of p
Identifies(v, u, e, online) ==
    /\ u \in Seq(Stanza) /\ Extends(v, u)
    /\ \A n \in DOMAIN v : n \in DOMAIN u /\ u[n] = v[n]
    /\ ~online => u = v
    /\ online => \E m \in DOMAIN u :
          /\ u[m] = e /\ m \notin DOMAIN v /\ \A n \in DOMAIN u : n \in DOMAIN v \/ n = m

LEMMA Accepted ==
    ASSUME NEW p, NEW q, Pair(p, q), NEW s, NEW o, NEW w, NEW v, NEW l, NEW T,
           Both(p, q, s, o, w, v, l, T), NEW i, NEW form \in Stanza,
           Answerable(p, q, s, o, w, v, l, T, i, form),
           NEW t, t = AcceptE2EAlice(s, i, form)
    PROVE  \E e \in Stanza :
              /\ t.out = Append(s.out, e)
              /\ \A u : Identifies(v, u, e, s.online) => Both(p, q, t, o, w, u, l, T)
<1> DEFINE h == form.half
<1>1. /\ Local(p, q, s, o) /\ Local(q, p, o, s)
      /\ Under(p, q, s, o, l, w) /\ Under(q, p, o, s, l, v) /\ Once(v)
      /\ Unanswered(o, s, v, w) /\ Threaded(s, w, T) /\ Threaded(o, v, T)
  BY DEF Both, One
<1>2. /\ h \in Made(q, o) /\ form.logging = Prefers[q] /\ h \notin Done(s)
      /\ h \notin Pending(s, w)
      /\ \A j \in Id : Base(s.session[j]) # h
      /\ \A n \in DOMAIN v : v[n].counter[1] # h
      /\ \A j \in Id : Base(o.session[j]) = h =>
            /\ o.session[j].status # "active"
            /\ o.session[j].status = "responded-e2e" =>
                  /\ o.session[j].c_o[2] = 0
                  /\ InTable(o, j) /\ InTable(s, i) =>
                        Whole(w, o.session[j]) \/ Excused(p, o.session[j], v, l)
      /\ Linkable(s, i) /\ s.session[i].thread_id = T[h] /\ s.session[i].x # None
  BY DEF Answerable
<1>3. s \in PartyState /\ o \in PartyState /\ i \in Id /\ h \in Half /\ h # None
      /\ p \in Party /\ q \in Party /\ p # q /\ v \in Seq(Stanza)
  BY <1>1, <1>2, NamesAssumption DEF Local, Made, Pair, Under, Linkable
<1>4. s.session[i].x \in Made(p, s) /\ form.logging \in {"may", "mustnot"}
      /\ s.session[i].x \in Half
  BY <1>1, <1>2, <1>3, ESessionAssumption DEF Local, Kept, Made
<1>5. /\ Turns(s, t, i) /\ t.halves = s.halves
      /\ t.session[i].status = "identified-alice"
      /\ t.session[i].km_s = <<t.session[i].x, h>> /\ t.session[i].x \in Half
      /\ t.session[i].logging = form.logging
      /\ t.session[i].c_s = <<h, 1>> /\ t.session[i].c_o = <<h, 0>>
      /\ \E e \in Stanza :
            /\ e.kind = "result" /\ e.thread = s.session[i].thread_id
            /\ e.thread # None /\ e.key \in Key /\ e.counter = <<h, 0>>
            /\ t.out = Append(s.out, e)
  <2>1. Accepts(s, t, i, form)
    BY <1>2, <1>3, <1>4, AcceptIs
  <2> QED
    BY <2>1 DEF Accepts
<1>6. PICK e \in Stanza :
         /\ e.kind = "result" /\ e.thread = s.session[i].thread_id
         /\ e.thread # None /\ e.key \in Key /\ e.counter = <<h, 0>>
         /\ t.out = Append(s.out, e)
  BY <1>5
<1> HIDE DEF h
<1>7. Base(t.session[i]) = h /\ t.session[i].c_s[2] = 1 /\ t.session[i].c_o[2] = 0
      /\ t.session[i].c_o[1] = h
  BY <1>5 DEF Base
<1>8. /\ \A j \in Id : t.session[j].thread_id = s.session[j].thread_id
      /\ \A j \in Id : InTable(t, j) <=> InTable(s, j)
      /\ Made(p, s) \subseteq Made(p, t) /\ Done(t) = Done(s)
  <2>1. Turns(s, t, i)
    BY <1>5
  <2>2. s \in PartyState /\ i \in Id
    BY <1>3
  <2> HIDE DEF Turns
  <2> QED
    BY <2>1, <2>2, TurnsIs
<1>9. /\ \A j \in Id : j # i => t.session[j] = s.session[j]
      /\ t.session[i].x = s.session[i].x /\ t.dialogs = s.dialogs
  BY <1>5 DEF Turns
<1>10. Kept(p, q, t, o, t.session[i])
  <2>1. t.session[i].x \in Made(p, t) /\ t.session[i].x[1] = p
    BY <1>4, <1>8, <1>9 DEF Made
  <2>2. Identified(p, q, t, o, t.session[i])
    BY <1>2, <1>3, <1>5, <1>7, <1>8, <2>1 DEF Identified, Key
  <2> QED
    BY <1>2, <1>3, <1>5, <1>7, <2>1, <2>2 DEF Kept, Responded, Active
<1>11. Opens(q, p, o, t, l, h, e) /\ e.counter[1] = h /\ e.counter[2] = 0
  BY <1>2, <1>6 DEF Opens, Sent, Counted
<1> SUFFICES ASSUME NEW u, Identifies(v, u, e, s.online) PROVE Both(p, q, t, o, w, u, l, T)
  BY <1>6
<1>12. /\ u \in Seq(Stanza) /\ Extends(v, u)
       /\ \A n \in DOMAIN v : n \in DOMAIN u /\ u[n] = v[n]
       /\ ~s.online => u = v
       /\ s.online => \E m \in DOMAIN u :
             /\ u[m] = e /\ m \notin DOMAIN v /\ \A n \in DOMAIN u : n \in DOMAIN v \/ n = m
  BY DEF Identifies
<1>13. \A n \in DOMAIN u : n \in DOMAIN v \/ u[n] = e
  BY <1>12
<1>14. Once(u)
  BY <1>1, <1>2, <1>6, <1>11, <1>12, <1>13 DEF Once
<1>15. Begins(p, q, s, o, t, w, v, u, l, i)
  BY <1>2, <1>3, <1>5, <1>7, <1>10, <1>11, <1>12, <1>13, <1>14 DEF Begins
<1>16. Unanswered(o, t, u, w)
  <2>1. Submitted(u) = Submitted(v)
    BY <1>6, <1>12, <1>13 DEF Submitted
  <2>2. ASSUME NEW g \in Pending(o, u)
        PROVE  /\ g \notin Done(o)
               /\ \A k \in Id : Base(o.session[k]) # g
               /\ \A n \in DOMAIN w : w[n].counter[1] # g
               /\ \A n \in DOMAIN u : u[n].kind = "init" => u[n].counter[1] # g
               /\ \A j \in Id : Base(t.session[j]) = g =>
                     /\ t.session[j].status # "active"
                     /\ t.session[j].status = "responded-e2e" => t.session[j].c_o[2] = 0
    <3>1. g \in Pending(o, v)
      BY <2>1 DEF Pending
    <3>2. \A n \in DOMAIN u : u[n].kind = "init" => n \in DOMAIN v /\ u[n] = v[n]
      BY <1>6, <1>12, <1>13
    <3>3. \A j \in Id : Base(t.session[j]) = g =>
                     /\ t.session[j].status # "active"
                     /\ t.session[j].status = "responded-e2e" => t.session[j].c_o[2] = 0
      <4>1. \A j \in Id : Base(s.session[j]) = g =>
                     /\ s.session[j].status # "active"
                     /\ s.session[j].status = "responded-e2e" => s.session[j].c_o[2] = 0
        BY <1>1, <3>1 DEF Unanswered
      <4> QED
        BY <1>5, <1>9, <4>1
    <3> QED
      BY <1>1, <3>1, <3>2, <3>3 DEF Unanswered
  <2> QED
    BY <1>1, <2>1, <2>2 DEF Unanswered
<1>17. ASSUME NEW j \in Id, InTable(t, i), InTable(o, j), o.session[j].status \in Streaming,
              Base(o.session[j]) = h
       PROVE  /\ \/ Ordered(u, h, o.session[j].c_o[2], t.session[i].c_s[2])
                 \/ Unidentified(o.session[j], u)
              /\ \/ Ordered(w, h, t.session[i].c_o[2], o.session[j].c_s[2])
                 \/ Excused(p, o.session[j], u, l)
  <2>1. o.session[j].status = "responded-e2e"
    <3>1. o.session[j].status = "identified-alice" => h \in Made(p, s)
      BY <1>1, <1>17, StreamHalf DEF Pair
    <3> QED
      BY <1>2, <1>3, <1>17, <3>1, MadeApart DEF Streaming
  <2>2. o.session[j].c_o[2] = 0
        /\ (Whole(w, o.session[j]) \/ Excused(p, o.session[j], v, l))
    <3>1. InTable(s, i)
      BY <1>3, <1>8, <1>17
    <3>2. Base(o.session[j]) = h
      BY <1>17
    <3> QED
      BY <1>2, <1>17, <2>1, <3>1, <3>2
  <2>3. CASE s.online
    <3>1. PICK m \in DOMAIN u :
             /\ u[m] = e /\ m \notin DOMAIN v /\ \A n \in DOMAIN u : n \in DOMAIN v \/ n = m
      BY <1>12, <2>3
    <3>2. Runs(u, h) = {m}
      BY <1>2, <1>11, <1>12, <3>1 DEF Runs
    <3>3. m \in Nat
      BY <1>12
    <3>4. Ordered(u, h, 0, 1)
      BY <1>11, <3>1, <3>2, <3>3 DEF Ordered
    <3>5. Excused(p, o.session[j], v, l) => Excused(p, o.session[j], u, l)
      BY <1>12 DEF Excused, Told
    <3> QED
      BY <1>7, <1>17, <2>2, <3>4, <3>5 DEF Whole
  <2>4. CASE ~s.online
    <3>1. Unidentified(o.session[j], u)
      BY <1>2, <1>12, <1>17, <2>1, <2>4 DEF Unidentified, Runs
    <3> QED
      BY <1>7, <1>12, <1>17, <2>2, <2>4, <3>1 DEF Whole
  <2> QED
    BY <2>3, <2>4
<1>18. Meets(p, q, s, o, t, w, v, u, l, i)
  BY <1>2, <1>5, <1>7, <1>16, <1>17 DEF Meets
<1>19. Threaded(t, w, T)
  <2>1. ASSUME NEW j \in Id, Base(t.session[j]) # None
        PROVE  t.session[j].thread_id = T[Base(t.session[j])]
    BY <1>1, <1>2, <1>7, <1>8, <1>9, <2>1 DEF Threaded, h
  <2>2. \A d \in s.dialogs : d.session \in Id
    BY <1>3 DEF PartyState
  <2> QED
    BY <1>1, <1>8, <1>9, <2>1, <2>2 DEF Threaded
<1>20. Threaded(o, u, T)
  BY <1>1, <1>2, <1>6, <1>11, <1>12, <1>13 DEF Threaded, h
<1> QED
  BY <1>15, <1>18, <1>19, <1>20, Begun

\* The user is asked first
LEMMA Asks ==
    ASSUME NEW p, NEW q, Pair(p, q), NEW s, NEW o, NEW w, NEW v, NEW l, NEW T,
           Both(p, q, s, o, w, v, l, T), NEW i, NEW form \in Stanza,
           Answerable(p, q, s, o, w, v, l, T, i, form),
           NEW t, t = [s EXCEPT !.dialogs = @ \cup {[session |-> i, form |-> form]}]
    PROVE  Both(p, q, t, o, w, v, l, T)
<1> DEFINE h == form.half
           d0 == [session |-> i, form |-> form]
<1>1. One(p, q, s, o, w, v, l, T) /\ One(q, p, o, s, v, w, l, T)
  BY DEF Both
<1>2. /\ h \in Made(q, o) /\ form.logging = Prefers[q] /\ h \notin Done(s)
      /\ h \notin Pending(s, w)
      /\ \A j \in Id : Base(s.session[j]) # h
      /\ \A n \in DOMAIN v : v[n].counter[1] # h
      /\ \A n \in DOMAIN w : w[n].kind = "init" => w[n].counter[1] # h
      /\ \A j \in Id : Base(o.session[j]) = h =>
            /\ o.session[j].status # "active"
            /\ o.session[j].status = "responded-e2e" =>
                  /\ o.session[j].c_o[2] = 0
                  /\ InTable(o, j) /\ InTable(s, i) =>
                        Whole(w, o.session[j]) \/ Excused(p, o.session[j], v, l)
      /\ Linkable(s, i) /\ s.session[i].thread_id = T[h] /\ s.session[i].x # None
  BY DEF Answerable
<1>3. s \in PartyState /\ i \in Id /\ Local(p, q, s, o) /\ Local(q, p, o, s)
  BY <1>1, <1>2 DEF One, Local, Linkable
<1>4. d0.session = i /\ d0.form = form /\ d0 \in [session : Id, form : Stanza]
  BY <1>3
<1> HIDE DEF d0
<1>5. /\ t \in PartyState /\ t.session = s.session /\ t.table = s.table /\ t.chat = s.chat
      /\ t.queue = s.queue /\ t.dialogs = s.dialogs \cup {d0} /\ t.online = s.online
      /\ t.halves = s.halves /\ t.taken = s.taken
  BY <1>3, <1>4 DEF PartyState, d0
<1>6. Made(p, t) = Made(p, s) /\ Done(t) = Done(s) /\ \A j \in Id : InTable(t, j) <=> InTable(s, j)
  BY <1>5 DEF Made, Done, InTable
<1>7. Dialogs(t) = Dialogs(s) \cup {h}
  BY <1>4, <1>5 DEF Dialogs
<1> HIDE DEF h
<1>8. Local(p, q, t, o)
  <2>1. \A j \in Id : Kept(p, q, t, o, t.session[j])
    BY SMTT(30), <1>3, <1>5, <1>6 DEF Local, Kept, Responded, Identified, Active
  <2>2. Linked(t)
    BY <1>2, <1>3, <1>4, <1>5 DEF Local, Linked, Linkable
  <2>3. Asked(q, t, o)
    <3>1. \A d \in s.dialogs : d.form.half # h
      BY <1>2 DEF Pending, Dialogs
    <3> QED
      BY <1>2, <1>3, <1>4, <1>5, <3>1 DEF Local, Asked, h
  <2> QED
    BY ZenonT(30), <1>3, <1>5, <1>6, <2>1, <2>2, <2>3 DEF Local, Apart, Taken
<1>9. Local(q, p, o, t)
  BY ZenonT(30), <1>3, <1>5, <1>6 DEF Local, Kept, Responded, Identified, Active, Asked, Taken
<1>10. Under(p, q, t, o, l, w) /\ Under(q, p, o, t, l, v)
  BY <1>1, <1>5, <1>6 DEF One, Under, Sent
<1>11. Unanswered(t, o, w, v)
  <2>1. Submitted(w) \cap Dialogs(t) = {}
    BY <1>1, <1>2, <1>7 DEF One, Unanswered, Pending
  <2>2. ASSUME NEW g \in Pending(t, w)
        PROVE  /\ g \notin Done(t)
               /\ \A j \in Id : Base(t.session[j]) # g
               /\ \A n \in DOMAIN v : v[n].counter[1] # g
               /\ \A n \in DOMAIN w : w[n].kind = "init" => w[n].counter[1] # g
               /\ \A j \in Id : Base(o.session[j]) = g =>
                     /\ o.session[j].status # "active"
                     /\ o.session[j].status = "responded-e2e" => o.session[j].c_o[2] = 0
    <3>1. CASE g = h
      BY <1>2, <1>5, <1>6, <3>1
    <3>2. CASE g # h
      <4>1. g \in Pending(s, w)
        BY <1>7, <2>2, <3>2 DEF Pending
      <4> QED
        BY <1>1, <1>5, <1>6, <4>1 DEF One, Unanswered
    <3> QED
      BY <3>1, <3>2
  <2> QED
    BY <2>1, <2>2 DEF Unanswered
<1>12. Unanswered(o, t, v, w)
  BY <1>1, <1>5 DEF One, Unanswered
<1>13. Identity(t, w) /\ Matched(q, t, o, w, v, l) /\ Matched(p, o, t, v, w, l)
  BY <1>1, <1>5, <1>6 DEF One, Identity, Matched
<1>14. Answers(q, t, o, w, v, l)
  BY <1>1, <1>5, <1>6 DEF One, Answers
<1>15. Answers(p, o, t, v, w, l)
  <2>1. ASSUME NEW j \in Id, InTable(o, j), o.session[j].status = "responded-e2e",
               NEW d \in t.dialogs, d.form.half = Base(o.session[j]), InTable(t, d.session)
        PROVE  Whole(w, o.session[j]) \/ Excused(p, o.session[j], v, l)
    <3>1. CASE d = d0
      BY <1>2, <1>3, <1>4, <1>6, <2>1, <3>1 DEF h
    <3>2. CASE d \in s.dialogs
      <4>1. d.session \in Id
        BY <1>3, <3>2 DEF PartyState
      <4> QED
        BY <1>1, <1>6, <2>1, <3>2, <4>1 DEF One, Answers
    <3> QED
      BY <1>5, <2>1, <3>1, <3>2
  <2> QED
    BY <1>1, <2>1 DEF One, Answers
<1>16. Noticed(t, o, w, l) /\ Noticed(o, t, v, l)
  BY <1>1, <1>5, <1>6 DEF One, Noticed
<1>17. Threaded(t, w, T)
  BY <1>1, <1>2, <1>4, <1>5 DEF One, Threaded, h
<1> QED
  BY <1>1, <1>5, <1>8, <1>9, <1>10, <1>11, <1>12, <1>13, <1>14, <1>15, <1>16, <1>17
     DEF One, Both

\* The response is the next that p handles
LEMMA SubmitAnswerable ==
    ASSUME NEW p, NEW q, Pair(p, q), NEW s, NEW o, NEW w, NEW v, NEW l, NEW T,
           Both(p, q, s, o, w, v, l, T), w # <<>>, w[1].kind = "submit",
           NEW i, Linkable(s, i), s.session[i].thread_id = w[1].thread,
           s.session[i].status = "requested-e2e"
    PROVE  Answerable(p, q, s, o, Tail(w), v, l, T, i, w[1])
<1> DEFINE h == w[1].half
           z == Tail(w)
<1>1. /\ Local(p, q, s, o) /\ Local(q, p, o, s) /\ Under(p, q, s, o, l, w) /\ Once(w)
      /\ Unanswered(s, o, w, v) /\ Answers(p, o, s, v, w, l) /\ Threaded(s, w, T)
  BY DEF Both, One
<1>2. w \in Seq(Stanza) /\ i \in Id
  BY <1>1 DEF Under, Linkable
<1>3. /\ Suffix(w, z, 1) /\ 1 \in DOMAIN w
      /\ \A n \in DOMAIN w : n # 1 => n - 1 \in DOMAIN z /\ z[n - 1] = w[n]
      /\ \A n \in DOMAIN w : n >= 1
  BY <1>2, TailIs
<1>4. /\ z \in Seq(Stanza) /\ DOMAIN z \subseteq Nat /\ DOMAIN w \subseteq Nat
      /\ \A n \in DOMAIN z : n + 1 \in DOMAIN w /\ z[n] = w[n + 1] /\ n + 1 # 1
  <2>1. z \in Seq(Stanza) /\ \A n \in DOMAIN z : n + 1 \in DOMAIN w /\ z[n] = w[n + 1]
    BY <1>3 DEF Suffix
  <2> HIDE DEF z
  <2>2. DOMAIN z \subseteq Nat /\ DOMAIN w \subseteq Nat
    BY <1>2, <2>1
  <2>3. \A n \in DOMAIN z : n \in DOMAIN z /\ n + 1 # 1
    <3>1. DOMAIN z = 1 .. Len(z)
      BY <2>1
    <3> QED
      BY <3>1
  <2> QED
    BY <2>1, <2>2, <2>3
<1> HIDE DEF z
<1>5. h \in Made(q, o) /\ w[1].logging = Prefers[q]
  BY <1>1, <1>3 DEF Under, Sent
<1>6. h \in Submitted(w) /\ h \in Pending(s, w)
  BY <1>3 DEF Submitted, Pending
<1>7. h \notin Pending(s, z)
  <2>1. h \notin Dialogs(s)
    BY <1>1, <1>6 DEF Unanswered
  <2>2. h \notin Submitted(z)
    BY SMTT(30), <1>1, <1>3, <1>4 DEF Once, Submitted
  <2> QED
    BY <2>1, <2>2 DEF Pending
<1>8. /\ h \notin Done(s)
      /\ \A j \in Id : Base(s.session[j]) # h
      /\ \A n \in DOMAIN v : v[n].counter[1] # h
      /\ \A n \in DOMAIN w : w[n].kind = "init" => w[n].counter[1] # h
      /\ \A j \in Id : Base(o.session[j]) = h =>
            /\ o.session[j].status # "active"
            /\ o.session[j].status = "responded-e2e" => o.session[j].c_o[2] = 0
  BY <1>1, <1>6 DEF Unanswered
<1>9. w[1].counter[1] # h
  BY <1>1, <1>3, <1>5, NamesAssumption DEF Under, Sent, Made, Counted
<1>10. ASSUME NEW j \in Id, InTable(o, j), o.session[j].status = "responded-e2e",
              Base(o.session[j]) = h
       PROVE  Whole(z, o.session[j]) \/ Excused(p, o.session[j], v, l)
  <2>1. Whole(w, o.session[j]) \/ Excused(p, o.session[j], v, l)
    BY <1>1, <1>3, <1>10 DEF Answers
  <2>2. o.session[j].c_s[2] \in Nat
    BY <1>1, CountersAre DEF Local
  <2>3. Whole(w, o.session[j]) => Whole(z, o.session[j])
    BY <1>2, <1>9, <1>10, <2>2, OrderedTail DEF Whole, z
  <2> QED
    BY <2>1, <2>3
<1>11. s.session[i].thread_id = T[h] /\ s.session[i].x # None
  BY <1>1, <1>2, <1>3 DEF Threaded, Local, Kept
<1>12. \A n \in DOMAIN z : z[n].kind = "init" => z[n].counter[1] # h
  BY <1>4, <1>8
<1>13. \A j \in Id : Base(o.session[j]) = h =>
          /\ o.session[j].status # "active"
          /\ o.session[j].status = "responded-e2e" =>
                /\ o.session[j].c_o[2] = 0
                /\ InTable(o, j) /\ InTable(s, i) =>
                      Whole(z, o.session[j]) \/ Excused(p, o.session[j], v, l)
  BY <1>8, <1>10
<1>14. Answerable(p, q, s, o, z, v, l, T, i, w[1])
  <2> HIDE DEF h
  <2>1. w[1].half = h
    BY DEF h
  <2> QED
    BY <1>5, <1>7, <1>8, <1>11, <1>12, <1>13, <2>1 DEF Answerable
<1> QED
  BY <1>14 DEF z

\* The user answers a dialog
LEMMA DialogAnswerable ==
    ASSUME NEW p, NEW q, Pair(p, q), NEW s, NEW o, NEW w, NEW v, NEW l, NEW T,
           Both(p, q, s, o, w, v, l, T), NEW d \in s.dialogs,
           NEW t, t = [s EXCEPT !.dialogs = @ \ {d}]
    PROVE  /\ Answerable(p, q, t, o, w, v, l, T, d.session, d.form)
           /\ d.session \in Id /\ d.form \in Stanza
<1> DEFINE h == d.form.half
           i == d.session
<1>1. /\ Local(p, q, s, o) /\ Local(q, p, o, s) /\ Unanswered(s, o, w, v)
      /\ Answers(p, o, s, v, w, l) /\ Threaded(s, w, T)
  BY DEF Both, One
<1>2. s \in PartyState /\ i \in Id /\ d.form \in Stanza /\ d \in [session : Id, form : Stanza]
  BY <1>1 DEF Local, PartyState
<1>3. /\ t.session = s.session /\ t.table = s.table /\ t.dialogs = s.dialogs \ {d}
      /\ t.taken = s.taken
  BY <1>2 DEF PartyState
<1>4. h \in Made(q, o) /\ d.form.logging = Prefers[q] /\ s.session[i].x # None
      /\ \A e \in s.dialogs : e.form.half = h => e = d
  BY <1>1 DEF Local, Asked
<1>5. h \in Dialogs(s) /\ h \in Pending(s, w)
  BY DEF Dialogs, Pending
<1>6. h \notin Pending(t, w)
  <2>1. h \notin Dialogs(t)
    BY <1>3, <1>4 DEF Dialogs
  <2>2. h \notin Submitted(w)
    BY <1>1, <1>5 DEF Unanswered
  <2> QED
    BY <2>1, <2>2 DEF Pending
<1>7. /\ h \notin Done(s)
      /\ \A j \in Id : Base(s.session[j]) # h
      /\ \A n \in DOMAIN v : v[n].counter[1] # h
      /\ \A n \in DOMAIN w : w[n].kind = "init" => w[n].counter[1] # h
      /\ \A j \in Id : Base(o.session[j]) = h =>
            /\ o.session[j].status # "active"
            /\ o.session[j].status = "responded-e2e" => o.session[j].c_o[2] = 0
  BY <1>1, <1>5 DEF Unanswered
<1>8. ASSUME NEW j \in Id, InTable(o, j), o.session[j].status = "responded-e2e",
             Base(o.session[j]) = h, InTable(s, i)
      PROVE  Whole(w, o.session[j]) \/ Excused(p, o.session[j], v, l)
  BY <1>1, <1>8 DEF Answers
<1>9. Linkable(s, i) /\ s.session[i].thread_id = T[h]
  BY <1>1, <1>2 DEF Local, Linked, Linkable, Threaded
<1>10. Answerable(p, q, t, o, w, v, l, T, i, d.form)
  <2>1. Done(t) = Done(s) /\ (InTable(t, i) <=> InTable(s, i)) /\ (Linkable(t, i) <=> Linkable(s, i))
    BY <1>3 DEF Done, InTable, Linkable
  <2> HIDE DEF h
  <2>2. d.form.half = h
    BY DEF h
  <2> QED
    BY <1>3, <1>4, <1>6, <1>7, <1>8, <1>9, <2>1, <2>2 DEF Answerable
<1> QED
  BY <1>2, <1>10

-----------------------------------------------------------------------------
(* Stanzas of a stream arrive, and are sent.                               *)

\* t is s after the session i decrypted a stanza
Counts(s, t, i) ==
    LET a == s.session[i]
    IN /\ t \in PartyState /\ i \in Id
       /\ t.session[i] = [a EXCEPT !.c_o = <<Base(a), a.c_o[2] + 1>>]
       /\ \A j \in Id : j # i => t.session[j] = s.session[j]
       /\ t.table = s.table /\ t.chat = s.chat /\ t.queue = s.queue
       /\ t.dialogs = s.dialogs /\ t.online = s.online
       /\ t.halves = s.halves /\ t.taken = s.taken /\ t.out = s.out

\* What is under way to the session i is what it is going to decrypt, whether
\* or not it is active; and it is told of what is not
Firm(p, s, o, w, v, l, i) ==
    /\ \A j \in Id :
          /\ InTable(s, i) /\ InTable(o, j) /\ o.session[j].status \in Streaming
          /\ Base(o.session[j]) = Base(s.session[i])
          => \/ Ordered(w, Base(s.session[i]), s.session[i].c_o[2], o.session[j].c_s[2])
             \/ Excused(p, o.session[j], v, l)
    /\ ~o.online => l = Party \/ (w # <<>> /\ w[Len(w)].kind = "unavailable")

LEMMA CountsIs ==
    ASSUME NEW s \in PartyState, NEW i \in Id, NEW t, Counts(s, t, i)
    PROVE  /\ \A j \in Id : /\ t.session[j].thread_id = s.session[j].thread_id
                            /\ t.session[j].status = s.session[j].status
                            /\ t.session[j].enable_encryption = s.session[j].enable_encryption /\ t.session[j].bare = s.session[j].bare
                            /\ t.session[j].loggable = s.session[j].loggable
                            /\ t.session[j].logging = s.session[j].logging
                            /\ t.session[j].x = s.session[j].x /\ t.session[j].he = s.session[j].he
                            /\ t.session[j].y = s.session[j].y
                            /\ t.session[j].km_s = s.session[j].km_s
                            /\ t.session[j].km_o = s.session[j].km_o
                            /\ t.session[j].c_s = s.session[j].c_s
                            /\ Base(t.session[j]) = Base(s.session[j])
                            /\ InTable(t, j) <=> InTable(s, j)
           /\ t.session[i].c_o[1] = Base(s.session[i])
           /\ t.session[i].c_o[2] = s.session[i].c_o[2] + 1
<1>1. s.session[i] \in Session /\ t.session[i] = [s.session[i] EXCEPT
                                       !.c_o = <<Base(s.session[i]), s.session[i].c_o[2] + 1>>]
  BY DEF Counts, PartyState
<1>2. /\ t.session[i].thread_id = s.session[i].thread_id
      /\ t.session[i].status = s.session[i].status
      /\ t.session[i].enable_encryption = s.session[i].enable_encryption /\ t.session[i].bare = s.session[i].bare
      /\ t.session[i].loggable = s.session[i].loggable
      /\ t.session[i].logging = s.session[i].logging
      /\ t.session[i].x = s.session[i].x /\ t.session[i].he = s.session[i].he
      /\ t.session[i].y = s.session[i].y
      /\ t.session[i].km_s = s.session[i].km_s
      /\ t.session[i].km_o = s.session[i].km_o
      /\ t.session[i].c_s = s.session[i].c_s
  BY <1>1 DEF Session
<1>3. t.session[i].c_o[1] = Base(s.session[i])
      /\ t.session[i].c_o[2] = s.session[i].c_o[2] + 1
  BY <1>1 DEF Session
<1>4. \A j \in Id : /\ t.session[j].thread_id = s.session[j].thread_id
                    /\ t.session[j].status = s.session[j].status
                    /\ t.session[j].enable_encryption = s.session[j].enable_encryption /\ t.session[j].bare = s.session[j].bare
                    /\ t.session[j].loggable = s.session[j].loggable
                    /\ t.session[j].logging = s.session[j].logging
                    /\ t.session[j].x = s.session[j].x /\ t.session[j].he = s.session[j].he
                    /\ t.session[j].y = s.session[j].y
                    /\ t.session[j].km_s = s.session[j].km_s
                    /\ t.session[j].km_o = s.session[j].km_o
                    /\ t.session[j].c_s = s.session[j].c_s
  BY <1>2 DEF Counts
<1>5. t.table = s.table
  BY DEF Counts
<1> QED
  BY <1>3, <1>4, <1>5 DEF Base, InTable

\* A session decrypts what is the next under way to it
LEMMA Advanced ==
    ASSUME NEW p, NEW q, Pair(p, q), NEW s, NEW o, NEW w, NEW v, NEW l, NEW T,
           Both(p, q, s, o, w, v, l, T), w # <<>>, NEW i \in Id, InTable(s, i),
           w[1].kind \in Counted, w[1].counter = s.session[i].c_o,
           NEW t, Counts(s, t, i)
    PROVE  /\ Both(p, q, t, o, Tail(w), v, l, T)
           /\ s.session[i].status = "identified-alice"
              \/ (s.session[i].status = "responded-e2e" /\ w[1].kind = "result")
              => Firm(p, t, o, Tail(w), v, l, i)
<1> DEFINE z == Tail(w)
           h == Base(s.session[i])
<1>1. /\ Local(p, q, s, o) /\ Local(q, p, o, s) /\ Under(p, q, s, o, l, w)
      /\ Unanswered(s, o, w, v) /\ Unanswered(o, s, v, w)
      /\ Matched(q, s, o, w, v, l) /\ Matched(p, o, s, v, w, l)
      /\ Answers(q, s, o, w, v, l) /\ Answers(p, o, s, v, w, l)
      /\ Noticed(s, o, w, l) /\ Noticed(o, s, v, l) /\ Under(q, p, o, s, l, v)
      /\ Identity(o, v) /\ Threaded(o, v, T) /\ Once(v)
      /\ (~s.online => p \in l) /\ (~o.online => q \in l)
  BY DEF Both, One
<1>2. w \in Seq(Stanza) /\ s \in PartyState /\ o \in PartyState
  BY <1>1 DEF Under, Local
<1>3. /\ Suffix(w, z, 1) /\ 1 \in DOMAIN w
      /\ \A n \in DOMAIN w : n # 1 => n - 1 \in DOMAIN z /\ z[n - 1] = w[n]
  BY <1>2, TailIs
<1>4. /\ Under(p, q, s, o, l, z) /\ Once(z) /\ Unanswered(s, o, z, v)
      /\ Identity(s, z) /\ Threaded(s, z, T) /\ Unanswered(o, s, v, z)
  BY <1>3, SuffixKeeps
<1>5. /\ \A g : \A a, b \in Nat : Ordered(w, g, a, b) /\ w[1].counter[1] # g => Ordered(z, g, a, b)
      /\ \A g : \A a, b \in Nat : Ordered(w, g, a, b) /\ w[1].counter = <<g, a>>
                                  => Ordered(z, g, a + 1, b)
  BY <1>2, OrderedTail
<1>6. w[1].counter[1] = h /\ w[1].counter = <<h, s.session[i].c_o[2]>> /\ h \in Half
      /\ h # None /\ s.session[i].c_o[1] = h
  <2>1. s.session[i].c_o[1] = h
    BY <1>1 DEF Local, Kept
  <2>2. w[1].counter[1] \in Half
    BY <1>1, <1>3 DEF Under, Sent, Made
  <2> QED
    BY <1>2, <2>1, <2>2, CountersAre, NamesAssumption
<1>7. /\ \A j \in Id : /\ t.session[j].thread_id = s.session[j].thread_id
                       /\ t.session[j].status = s.session[j].status
                       /\ t.session[j].enable_encryption = s.session[j].enable_encryption /\ t.session[j].bare = s.session[j].bare
                       /\ t.session[j].loggable = s.session[j].loggable
                       /\ t.session[j].logging = s.session[j].logging
                       /\ t.session[j].x = s.session[j].x /\ t.session[j].he = s.session[j].he
                       /\ t.session[j].y = s.session[j].y
                       /\ t.session[j].km_s = s.session[j].km_s
                       /\ t.session[j].km_o = s.session[j].km_o
                       /\ t.session[j].c_s = s.session[j].c_s
                       /\ Base(t.session[j]) = Base(s.session[j])
                       /\ InTable(t, j) <=> InTable(s, j)
      /\ t.session[i].c_o[1] = h
      /\ t.session[i].c_o[2] = s.session[i].c_o[2] + 1
  BY <1>2, CountsIs
<1>8. /\ t \in PartyState /\ \A j \in Id : j # i => t.session[j] = s.session[j]
      /\ t.table = s.table /\ t.chat = s.chat /\ t.queue = s.queue
      /\ t.dialogs = s.dialogs /\ t.online = s.online
      /\ t.halves = s.halves /\ t.taken = s.taken
  BY DEF Counts
<1>9. Made(p, t) = Made(p, s) /\ Done(t) = Done(s)
      /\ \A x : Pending(t, x) = Pending(s, x) /\ Dialogs(t) = Dialogs(s)
  BY <1>8 DEF Made, Done, Pending, Dialogs
<1>10. \A j \in Id : j # i => Base(s.session[j]) # h
  BY <1>1, <1>6 DEF Local, Apart
<1>11. h \notin Pending(s, w) /\ h \notin Pending(o, v)
  <2>1. h \notin Pending(s, w)
    BY <1>1 DEF Unanswered
  <2> QED
    BY <1>1, <1>3, <1>6, <2>1 DEF Unanswered
<1>12. \A d \in s.dialogs : d.session \in Id /\ d.form.half # h
  <2>1. \A d \in s.dialogs : d.session \in Id
    BY <1>2 DEF PartyState
  <2> QED
    BY <1>11, <2>1 DEF Pending, Dialogs
<1> HIDE DEF z, h
<1>13. Local(p, q, t, o)
  <2>1. ASSUME NEW j \in Id PROVE Kept(p, q, t, o, t.session[j])
    <3>1. Kept(p, q, s, o, s.session[j])
      BY <1>1 DEF Local
    <3>2. t.session[j].c_o[1] = Base(t.session[j])
      BY <1>7, <1>8, <3>1 DEF Kept, h
    <3>3. Active(p, q, t, t.session[j])
      <4>1. s.session[j].c_o[2] >= 1 => t.session[j].c_o[2] >= 1
        BY SMTT(30), <1>2, <1>7, <1>8, CountersAre
      <4> QED
        BY <1>7, <1>8, <3>1, <4>1 DEF Kept, Active
    <3>4. Responded(p, q, t, t.session[j]) /\ Identified(p, q, t, o, t.session[j])
      BY <1>7, <1>9, <3>1 DEF Kept, Responded, Identified
    <3> QED
      BY <1>7, <1>9, <3>1, <3>2, <3>3, <3>4 DEF Kept
  <2>2. Linked(t)
    <3>1. Linked(s)
      BY <1>1 DEF Local
    <3>2. /\ \A th \in Thread : s.table[th] # None => s.table[th] \in Id
          /\ s.queue # None => s.queue \in Id
      BY <1>2 DEF PartyState
    <3>3. \A j \in Id : t.session[j].thread_id = s.session[j].thread_id
      BY <1>7
    <3> QED
      BY <1>8, <1>12, <3>1, <3>2, <3>3 DEF Linked
  <2>3. Apart(t)
    BY <1>1, <1>7 DEF Local, Apart
  <2>4. Asked(q, t, o)
    BY <1>1, <1>7, <1>8, <1>12 DEF Local, Asked
  <2> QED
    BY <1>1, <1>8, <1>9, <2>1, <2>2, <2>3, <2>4 DEF Local, Taken
<1>14. Local(q, p, o, t)
  BY SMTT(30), <1>1, <1>8, <1>9 DEF Local, Kept, Responded, Identified, Active, Asked, Taken
<1>15. Under(p, q, t, o, l, z) /\ Under(q, p, o, t, l, v)
  BY <1>1, <1>4, <1>8, <1>9 DEF Under, Sent
<1>16. Unanswered(t, o, z, v)
  BY <1>4, <1>7, <1>9 DEF Unanswered
<1>17. Unanswered(o, t, v, z)
  <2>1. ASSUME NEW g \in Pending(o, v), NEW j \in Id, Base(t.session[j]) = g
        PROVE  /\ t.session[j].status # "active"
               /\ t.session[j].status = "responded-e2e" => t.session[j].c_o[2] = 0
    <3>1. j # i
      BY <1>7, <1>11, <2>1 DEF h
    <3> QED
      BY <1>4, <1>8, <2>1, <3>1 DEF Unanswered
  <2> QED
    BY <1>4, <2>1 DEF Unanswered
<1>18. Identity(t, z)
  BY <1>4, <1>7 DEF Identity
<1>19. Matched(q, t, o, z, v, l)
  <2>1. \A j \in Id : Excused(q, s.session[j], w, l) => Excused(q, t.session[j], z, l)
    BY <1>3, <1>7 DEF Excused, Told, Counted
  <2> QED
    BY <1>1, <1>7, <2>1 DEF Matched
<1>20. ASSUME NEW k \in Id, NEW j \in Id,
              InTable(o, k), o.session[k].status \in Streaming,
              InTable(s, j), s.session[j].status \in Streaming,
              Base(o.session[k]) = Base(s.session[j])
       PROVE  \/ Ordered(z, Base(o.session[k]), t.session[j].c_o[2], o.session[k].c_s[2])
              \/ Excused(p, o.session[k], v, l)
              \/ Unidentified(s.session[j], w)
  <2>1. \/ Ordered(w, Base(o.session[k]), s.session[j].c_o[2], o.session[k].c_s[2])
        \/ Excused(p, o.session[k], v, l)
        \/ Unidentified(s.session[j], w)
    BY <1>1, <1>20 DEF Matched
  <2>2. s.session[j].c_o[2] \in Nat /\ o.session[k].c_s[2] \in Nat
    BY <1>2, CountersAre
  <2>3. CASE j = i
    <3>1. Base(o.session[k]) = h
      BY <1>20, <2>3 DEF h
    <3>2. ASSUME Ordered(w, h, s.session[i].c_o[2], o.session[k].c_s[2])
          PROVE  Ordered(z, h, s.session[i].c_o[2] + 1, o.session[k].c_s[2])
      BY <1>5, <1>6, <2>2, <2>3, <3>2, Zenon
    <3> QED
      BY <1>7, <2>1, <2>3, <3>1, <3>2
  <2>4. CASE j # i
    <3>1. w[1].counter[1] # Base(o.session[k])
      BY <1>6, <1>10, <1>20, <2>4
    <3>2. ASSUME Ordered(w, Base(o.session[k]), s.session[j].c_o[2], o.session[k].c_s[2])
          PROVE  Ordered(z, Base(o.session[k]), s.session[j].c_o[2], o.session[k].c_s[2])
      BY <1>5, <2>2, <3>1, <3>2, Zenon
    <3> QED
      BY <1>8, <2>1, <2>4, <3>2
  <2> QED
    BY <2>3, <2>4
<1>21. Matched(p, o, t, v, z, l)
  <2>1. \A j \in Id : Unidentified(s.session[j], w) => Unidentified(t.session[j], z)
    BY <1>3, <1>7 DEF Unidentified, Runs, Suffix
  <2> QED
    BY <1>7, <1>20, <2>1 DEF Matched
<1>22. Answers(q, t, o, z, v, l)
  <2>1. \A j \in Id : Excused(q, s.session[j], w, l) => Excused(q, t.session[j], z, l)
    BY <1>3, <1>7 DEF Excused, Told, Counted
  <2> QED
    BY <1>1, <1>7, <2>1 DEF Answers, Whole
<1>23. Answers(p, o, t, v, z, l)
  <2> SUFFICES ASSUME NEW k \in Id, InTable(o, k), o.session[k].status = "responded-e2e"
               PROVE  /\ \A n \in DOMAIN z :
                            z[n].kind = "submit" /\ z[n].half = Base(o.session[k]) =>
                               \/ /\ Whole(z, o.session[k])
                                  /\ \A m \in Runs(z, Base(o.session[k])) : m > n
                               \/ Excused(p, o.session[k], v, l)
                      /\ \A d \in t.dialogs :
                            d.form.half = Base(o.session[k]) /\ InTable(t, d.session) =>
                               Whole(z, o.session[k]) \/ Excused(p, o.session[k], v, l)
    BY DEF Answers
  <2>1. o.session[k].c_s[2] \in Nat
    BY <1>2, CountersAre
  <2>2. w[1].counter[1] # Base(o.session[k]) /\ Whole(w, o.session[k]) => Whole(z, o.session[k])
    <3>1. 0 \in Nat
      OBVIOUS
    <3> QED
      BY <1>5, <2>1, <3>1, Zenon DEF Whole
  <2>3. ASSUME NEW n \in DOMAIN z, z[n].kind = "submit", z[n].half = Base(o.session[k])
        PROVE  \/ /\ Whole(z, o.session[k])
                  /\ \A m \in Runs(z, Base(o.session[k])) : m > n
               \/ Excused(p, o.session[k], v, l)
    <3>1. n + 1 \in DOMAIN w /\ w[n + 1] = z[n] /\ n \in Nat /\ DOMAIN z \subseteq Nat
      BY <1>3 DEF Suffix
    <3>2. \/ /\ Whole(w, o.session[k])
             /\ \A m \in Runs(w, Base(o.session[k])) : m > n + 1
          \/ Excused(p, o.session[k], v, l)
      BY <1>1, <2>3, <3>1 DEF Answers
    <3>3. ASSUME Whole(w, o.session[k]), \A m \in Runs(w, Base(o.session[k])) : m > n + 1
          PROVE  Whole(z, o.session[k]) /\ \A m \in Runs(z, Base(o.session[k])) : m > n
      <4>1. 1 \notin Runs(w, Base(o.session[k]))
        BY <3>1, <3>3
      <4>2. w[1].counter[1] # Base(o.session[k])
        BY <1>3, <4>1 DEF Runs
      <4>3. \A m \in Runs(z, Base(o.session[k])) : m + 1 \in Runs(w, Base(o.session[k])) /\ m \in Nat
        BY <1>3, <3>1 DEF Runs, Suffix
      <4> QED
        BY <2>2, <3>1, <3>3, <4>2, <4>3
    <3> QED
      BY <3>2, <3>3
  <2>4. ASSUME NEW d \in t.dialogs, d.form.half = Base(o.session[k]), InTable(t, d.session)
        PROVE  Whole(z, o.session[k]) \/ Excused(p, o.session[k], v, l)
    <3>1. d \in s.dialogs /\ d.session \in Id /\ InTable(s, d.session) /\ d.form.half # h
      BY <1>7, <1>8, <1>12, <2>4
    <3>2. Whole(w, o.session[k]) \/ Excused(p, o.session[k], v, l)
      BY <1>1, <2>4, <3>1 DEF Answers
    <3>3. w[1].counter[1] # Base(o.session[k])
      BY <1>6, <2>4, <3>1
    <3> QED
      BY <2>2, <3>2, <3>3
  <2> QED
    BY <2>3, <2>4
<1>24. ~o.online => l = Party \/ (z # <<>> /\ z[Len(z)].kind = "unavailable")
  <2> SUFFICES ASSUME ~o.online, l # Party PROVE z # <<>> /\ z[Len(z)].kind = "unavailable"
    OBVIOUS
  <2>1. w[Len(w)].kind = "unavailable"
    BY <1>1 DEF Noticed
  <2>2. Len(w) = Len(z) + 1 /\ Len(z) \in Nat /\ z \in Seq(Stanza) /\ DOMAIN z = 1 .. Len(z)
    BY <1>3 DEF Suffix
  <2>3. Len(z) # 0
    BY <2>1, <2>2 DEF Counted
  <2>4. Len(z) \in DOMAIN z /\ z # <<>>
    BY <2>2, <2>3
  <2> QED
    BY <1>3, <2>1, <2>2, <2>4 DEF Suffix
<1>25. Noticed(t, o, z, l) /\ Noticed(o, t, v, l)
  BY <1>1, <1>8, <1>24 DEF Noticed
<1>26. Threaded(t, z, T)
  BY <1>4, <1>7, <1>8, <1>12 DEF Threaded
<1>27. Both(p, q, t, o, z, v, l, T)
  BY <1>1, <1>4, <1>8, <1>13, <1>14, <1>15, <1>16, <1>17, <1>18, <1>19, <1>21, <1>22, <1>23, <1>25,
     <1>26 DEF Both, One
<1>28. ASSUME s.session[i].status = "identified-alice"
              \/ (s.session[i].status = "responded-e2e" /\ w[1].kind = "result")
       PROVE  Firm(p, t, o, z, v, l, i)
  <2>1. ~Unidentified(s.session[i], w)
    BY <1>3, <1>6, <1>28 DEF Unidentified, Runs, h
  <2>2. s.session[i].status \in Streaming
    BY <1>28 DEF Streaming
  <2> QED
    BY <1>7, <1>20, <1>24, <2>1, <2>2 DEF Firm
<1> QED
  BY <1>27, <1>28 DEF z

\* t is s with the session i active
Activates(s, t, i, key) ==
    LET a == s.session[i]
        x == t.session[i]
    IN /\ t \in PartyState /\ i \in Id
       /\ \A j \in Id : j # i => t.session[j] = s.session[j]
       /\ x.thread_id = a.thread_id /\ x.bare = a.bare /\ x.x = a.x
       /\ x.c_s = a.c_s /\ x.c_o = a.c_o
       /\ x.logging = a.logging /\ x.km_s = key /\ x.km_o = key
       /\ x.status = "active" /\ x.enable_encryption
       /\ x.logging = "mustnot" => ~x.loggable
       /\ t.table = s.table /\ t.chat = s.chat /\ t.queue = s.queue
       /\ t.dialogs = s.dialogs /\ t.online = s.online
       /\ t.halves = s.halves /\ t.taken = s.taken \cup {key} /\ t.out = s.out

\* The key of a session that has had the identity of the other
Agreed(p, q, s, o, w, v, i, key) ==
    LET a == s.session[i]
        h == Base(a)
    IN /\ a.status \in {"responded-e2e", "identified-alice"}
       /\ key \in Key /\ key[2] = h /\ (h[1] = q => key[1][1] = p)
       /\ key[1][1] = p => key \in o.taken
       /\ a.logging = Prefers[h[1]] /\ a.c_o[2] >= 1
       /\ h \notin Pending(o, v)
       /\ \A n \in DOMAIN w : w[n].counter[1] = h => w[n].kind = "encrypted"

LEMMA Activated ==
    ASSUME NEW p, NEW q, Pair(p, q), NEW s, NEW o, NEW w, NEW v, NEW l, NEW T,
           Both(p, q, s, o, w, v, l, T), NEW i \in Id, Firm(p, s, o, w, v, l, i),
           NEW key, Agreed(p, q, s, o, w, v, i, key), InTable(s, i),
           NEW t, Activates(s, t, i, key)
    PROVE  Both(p, q, t, o, w, v, l, T)
<1> DEFINE h == Base(s.session[i])
           x == t.session[i]
<1>1. One(p, q, s, o, w, v, l, T) /\ One(q, p, o, s, v, w, l, T)
  BY DEF Both
<1>2. Local(p, q, s, o) /\ Local(q, p, o, s) /\ s \in PartyState /\ o \in PartyState
  BY <1>1 DEF One, Local
<1>3. /\ t \in PartyState /\ \A j \in Id : j # i => t.session[j] = s.session[j]
      /\ x.thread_id = s.session[i].thread_id /\ x.bare = s.session[i].bare
      /\ x.x = s.session[i].x /\ x.c_s = s.session[i].c_s /\ x.c_o = s.session[i].c_o
      /\ x.logging = s.session[i].logging /\ x.km_s = key /\ x.km_o = key
      /\ x.status = "active" /\ x.enable_encryption
      /\ x.logging = "mustnot" => ~x.loggable
      /\ t.table = s.table /\ t.chat = s.chat /\ t.queue = s.queue
      /\ t.dialogs = s.dialogs /\ t.online = s.online
      /\ t.halves = s.halves /\ t.taken = s.taken \cup {key}
  BY DEF Activates
<1>4. /\ s.session[i].status \in {"responded-e2e", "identified-alice"}
      /\ key \in Key /\ key[2] = h /\ (h[1] = q => key[1][1] = p)
      /\ key[1][1] = p => key \in o.taken
      /\ s.session[i].logging = Prefers[h[1]] /\ s.session[i].c_o[2] >= 1
      /\ h \notin Pending(o, v)
      /\ \A n \in DOMAIN w : w[n].counter[1] = h => w[n].kind = "encrypted"
  BY DEF Agreed
<1>5. /\ \A j \in Id : InTable(s, i) /\ InTable(o, j) /\ o.session[j].status \in Streaming
                       /\ Base(o.session[j]) = h =>
            \/ Ordered(w, h, s.session[i].c_o[2], o.session[j].c_s[2])
            \/ Excused(p, o.session[j], v, l)
      /\ ~o.online => l = Party \/ (w # <<>> /\ w[Len(w)].kind = "unavailable")
  BY DEF Firm
<1>6. /\ \A j \in Id : /\ t.session[j].thread_id = s.session[j].thread_id
                       /\ t.session[j].x = s.session[j].x
                       /\ t.session[j].c_s = s.session[j].c_s
                       /\ t.session[j].c_o = s.session[j].c_o
                       /\ Base(t.session[j]) = Base(s.session[j])
                       /\ InTable(t, j) <=> InTable(s, j)
                       /\ s.session[j].enable_encryption => t.session[j].enable_encryption
                       /\ t.session[j].bare = s.session[j].bare
                       /\ t.session[j].status \in Streaming <=> s.session[j].status \in Streaming
  BY <1>3, <1>4 DEF Base, InTable, Streaming
<1>7. h \in Half /\ h # None /\ h \in Made(p, s) \cup Made(q, o)
  <2>1. h \in Half /\ h # None
    BY <1>2, <1>4, StreamHalf DEF Streaming
  <2> QED
    BY <1>2, <2>1 DEF Local, Kept
<1>8. \A j \in Id : j # i => Base(s.session[j]) # h
  BY <1>2, <1>7 DEF Local, Apart
<1>9. h \notin Pending(s, w)
  BY <1>1 DEF One, Unanswered
<1>10. Made(p, t) = Made(p, s) /\ Done(t) = Done(s) \cup {h}
       /\ Dialogs(t) = Dialogs(s) /\ Pending(t, w) = Pending(s, w)
  BY <1>3, <1>4 DEF Made, Done, Dialogs, Pending
<1> HIDE DEF h, x
<1>11. Local(p, q, t, o)
  <2>1. Kept(p, q, t, o, x)
    <3>1. Kept(p, q, s, o, s.session[i])
      BY <1>2 DEF Local
    <3>2. Active(p, q, t, x)
      BY <1>3, <1>4, <1>6 DEF Active, h, x
    <3>3. Base(x) = h /\ x.c_o[1] = h
      BY <1>3, <1>6, <3>1 DEF Kept, h, x
    <3> QED
      BY <1>3, <1>7, <1>10, <3>1, <3>2, <3>3 DEF Kept, Responded, Identified
  <2>2. ASSUME NEW j \in Id, j # i PROVE Kept(p, q, t, o, t.session[j])
    <3>1. Kept(p, q, s, o, s.session[j]) /\ t.session[j] = s.session[j]
          /\ Base(s.session[j]) # h
      BY <1>2, <1>3, <1>8, <2>2 DEF Local
    <3> QED
      BY <1>3, <1>10, <3>1 DEF Kept, Responded, Identified, Active
  <2>3. \A j \in Id : Kept(p, q, t, o, t.session[j])
    BY <2>1, <2>2 DEF x
  <2>4. Linked(t)
    <3>1. Linked(s)
      BY <1>2 DEF Local
    <3>2. /\ \A th \in Thread : s.table[th] # None => s.table[th] \in Id
          /\ s.queue # None => s.queue \in Id
          /\ \A d \in s.dialogs : d.session \in Id
      BY <1>2 DEF PartyState
    <3> QED
      BY <1>3, <1>6, <3>1, <3>2 DEF Linked
  <2>5. Apart(t)
    BY <1>2, <1>6 DEF Local, Apart
  <2>6. Asked(q, t, o)
    <3>1. \A d \in s.dialogs : d.session \in Id
      BY <1>2 DEF PartyState
    <3> QED
      BY <1>2, <1>3, <1>6, <3>1 DEF Local, Asked
  <2>7. Taken(p, q, t, o)
    BY <1>2, <1>3, <1>4, <1>7, <1>10 DEF Local, Taken
  <2> QED
    BY <1>3, <2>3, <2>4, <2>5, <2>6, <2>7 DEF Local
<1>12. Local(q, p, o, t)
  <2>1. Asked(p, o, t)
    BY <1>2, <1>10 DEF Local, Asked
  <2>2. Taken(q, p, o, t)
    BY <1>2, <1>3, <1>10 DEF Local, Taken
  <2> QED
    BY <1>2, <1>10, <2>1, <2>2 DEF Local, Kept, Responded, Identified, Active
<1>13. Under(p, q, t, o, l, w) /\ Under(q, p, o, t, l, v)
  BY <1>1, <1>3, <1>10 DEF One, Under, Sent
<1>14. Unanswered(t, o, w, v)
  <2>1. ASSUME NEW g \in Pending(t, w)
        PROVE  /\ g \notin Done(t)
               /\ \A j \in Id : Base(t.session[j]) # g
               /\ \A n \in DOMAIN v : v[n].counter[1] # g
               /\ \A n \in DOMAIN w : w[n].kind = "init" => w[n].counter[1] # g
               /\ \A j \in Id : Base(o.session[j]) = g =>
                     /\ o.session[j].status # "active"
                     /\ o.session[j].status = "responded-e2e" => o.session[j].c_o[2] = 0
    BY <1>1, <1>6, <1>9, <1>10, <2>1 DEF One, Unanswered
  <2> QED
    BY <1>1, <1>10, <2>1 DEF One, Unanswered
<1>15. Unanswered(o, t, v, w)
  <2>1. ASSUME NEW g \in Pending(o, v), NEW j \in Id, Base(t.session[j]) = g
        PROVE  /\ t.session[j].status # "active"
               /\ t.session[j].status = "responded-e2e" => t.session[j].c_o[2] = 0
    <3>1. j # i
      BY <1>4, <1>6, <2>1 DEF h
    <3> QED
      BY <1>1, <1>3, <2>1, <3>1 DEF One, Unanswered
  <2> QED
    BY <1>1, <2>1 DEF One, Unanswered
<1>16. Identity(t, w)
  <2>1. ASSUME NEW j \in Id, t.session[j].status = "active",
               NEW n \in DOMAIN w, w[n].counter[1] = Base(t.session[j])
        PROVE  w[n].kind = "encrypted"
    <3>1. CASE j = i
      BY <1>4, <1>6, <2>1, <3>1 DEF h
    <3>2. CASE j # i
      BY <1>1, <1>3, <2>1, <3>2 DEF One, Identity
    <3> QED
      BY <3>1, <3>2
  <2> QED
    BY <2>1 DEF Identity
<1>17. Matched(q, t, o, w, v, l)
  <2>1. \A j \in Id : Excused(q, s.session[j], w, l) => Excused(q, t.session[j], w, l)
    BY <1>6 DEF Excused
  <2> QED
    BY <1>1, <1>6, <2>1 DEF One, Matched
<1>18. Matched(p, o, t, v, w, l)
  <2> SUFFICES ASSUME NEW k \in Id, NEW j \in Id,
                      InTable(o, k), o.session[k].status \in Streaming,
                      InTable(t, j), t.session[j].status \in Streaming,
                      Base(o.session[k]) = Base(t.session[j])
               PROVE  \/ Ordered(w, Base(o.session[k]), t.session[j].c_o[2], o.session[k].c_s[2])
                      \/ Excused(p, o.session[k], v, l)
                      \/ Unidentified(t.session[j], w)
    BY DEF Matched
  <2>1. CASE j = i
    <3>1. Base(o.session[k]) = h /\ t.session[i].c_o[2] = s.session[i].c_o[2]
      BY <1>6, <2>1 DEF h
    <3> QED
      BY <1>5, <2>1, <3>1
  <2>2. CASE j # i
    BY <1>1, <1>3, <1>6, <2>2 DEF One, Matched
  <2> QED
    BY <2>1, <2>2
<1>19. Answers(q, t, o, w, v, l)
  <2>1. \A j \in Id : t.session[j].status = "responded-e2e" => t.session[j] = s.session[j]
    BY <1>3 DEF x
  <2> QED
    BY <1>1, <1>6, <2>1 DEF One, Answers
<1>20. Answers(p, o, t, v, w, l)
  <2>1. \A d \in s.dialogs : d.session \in Id
    BY <1>2 DEF PartyState
  <2> QED
    BY <1>1, <1>3, <1>6, <2>1 DEF One, Answers
<1>21. Noticed(t, o, w, l) /\ Noticed(o, t, v, l)
  BY <1>1, <1>3, <1>5 DEF One, Noticed
<1>22. Threaded(t, w, T)
  <2>1. \A d \in s.dialogs : d.session \in Id
    BY <1>2 DEF PartyState
  <2> QED
    BY <1>1, <1>3, <1>6, <2>1 DEF One, Threaded
<1> QED
  BY <1>1, <1>3, <1>11, <1>12, <1>13, <1>14, <1>15, <1>16, <1>17, <1>18, <1>19, <1>20, <1>21, <1>22
     DEF One, Both

\* e is the next stanza of a stream, and no identity that was sent before
Continues(q, s, o, v, w, i, kind, key) ==
    LET h == Base(s.session[i])
    IN /\ Linkable(s, i) /\ s.session[i].enable_encryption
       /\ \/ kind = "encrypted"
          \/ /\ kind = "init" /\ key \in s.taken /\ key[2] = h /\ s.session[i].status = "active"
             /\ \A n \in DOMAIN v : v[n].kind = "init" => v[n].counter[1] # h
             /\ \A j \in Id : Base(o.session[j]) = h => o.session[j].status # "active"
             /\ h \notin Pending(o, v) /\ h[1] # q

LEMMA Continued ==
    ASSUME NEW p, NEW q, Pair(p, q), NEW s, NEW o, NEW w, NEW v, NEW l, NEW T,
           Both(p, q, s, o, w, v, l, T), s.online, NEW i \in Id, NEW kind, NEW key \in Key \cup {None},
           Continues(q, s, o, v, w, i, kind, key), NEW t, SendsCounted(s, t, i, kind, key)
    PROVE  \E e \in Stanza :
              t.out = Append(s.out, e) /\ Both(p, q, t, o, w, Append(v, e), l, T)
<1> DEFINE h == Base(s.session[i])
           x == t.session[i]
<1>1. One(p, q, s, o, w, v, l, T) /\ One(q, p, o, s, v, w, l, T)
  BY DEF Both
<1>2. Local(p, q, s, o) /\ Local(q, p, o, s) /\ s \in PartyState /\ o \in PartyState
      /\ v \in Seq(Stanza)
  BY <1>1 DEF One, Local, Under
<1>3. PICK e \in Stanza :
         /\ e.kind = kind /\ e.thread = s.session[i].thread_id /\ e.thread # None
         /\ e.key = key /\ e.counter = s.session[i].c_s /\ t.out = Append(s.out, e)
  BY DEF SendsCounted
<1>4. /\ t \in PartyState /\ \A j \in Id : j # i => t.session[j] = s.session[j]
      /\ t.table = s.table /\ t.chat = s.chat /\ t.queue = s.queue
      /\ t.dialogs = s.dialogs /\ t.online = s.online
      /\ t.halves = s.halves /\ t.taken = s.taken
  BY DEF SendsCounted
<1>5. /\ x.thread_id = s.session[i].thread_id /\ x.x = s.session[i].x
      /\ x.status = s.session[i].status /\ x.enable_encryption = s.session[i].enable_encryption /\ x.bare = s.session[i].bare
      /\ x.logging = s.session[i].logging /\ x.loggable = s.session[i].loggable
      /\ x.he = s.session[i].he /\ x.y = s.session[i].y
      /\ x.km_s = s.session[i].km_s /\ x.km_o = s.session[i].km_o
      /\ x.c_o = s.session[i].c_o /\ x.c_s = <<h, s.session[i].c_s[2] + 1>>
  <2>1. PICK b \in BOOLEAN :
           x = [s.session[i] EXCEPT !.c_s = <<h, s.session[i].c_s[2] + 1>>, !.last_send = b]
    BY DEF SendsCounted
  <2>2. s.session[i] \in Session
    BY <1>2 DEF PartyState
  <2> HIDE DEF x, h
  <2> QED
    BY <2>1, <2>2 DEF Session
<1>6. /\ Linkable(s, i) /\ s.session[i].enable_encryption
      /\ \/ kind = "encrypted"
         \/ /\ kind = "init" /\ key \in s.taken /\ key[2] = h /\ s.session[i].status = "active"
            /\ \A n \in DOMAIN v : v[n].kind = "init" => v[n].counter[1] # h
            /\ \A j \in Id : Base(o.session[j]) = h => o.session[j].status # "active"
            /\ h \notin Pending(o, v) /\ h[1] # q
  BY DEF Continues
<1>7. Base(x) = h /\ x.c_s[2] = s.session[i].c_s[2] + 1
  BY <1>5 DEF Base
<1>8. h \in Made(p, s) \cup Made(q, o) /\ h \in Half /\ h # None
  <2>1. Kept(p, q, s, o, s.session[i])
    BY <1>2 DEF Local
  <2> QED
    BY <1>6, <2>1 DEF Kept, Made
<1>9. e.counter = <<h, s.session[i].c_s[2]>> /\ e.counter[1] = h
      /\ e.counter[2] = s.session[i].c_s[2] /\ s.session[i].c_s[2] \in Nat
  BY <1>2, <1>3, CountersAre DEF Base
<1>10. \A j \in Id : j # i => Base(s.session[j]) # h
  BY <1>2, <1>8 DEF Local, Apart
<1>11. h \notin Pending(s, w)
  BY <1>1 DEF One, Unanswered
<1> DEFINE u == Append(v, e)
<1>12. /\ Extends(v, u) /\ Len(v) + 1 \in DOMAIN u /\ u[Len(v) + 1] = e
       /\ \A n \in DOMAIN v : n \in DOMAIN u /\ u[n] = v[n] /\ n < Len(v) + 1
       /\ \A n \in DOMAIN u : n \in DOMAIN v \/ (n = Len(v) + 1 /\ u[n] = e)
       /\ Len(v) + 1 \notin DOMAIN v
  BY <1>2, AppendIs
<1>13. u \in Seq(Stanza) /\ DOMAIN u = 1 .. Len(u) /\ DOMAIN v = 1 .. Len(v)
       /\ Len(u) = Len(v) + 1 /\ Len(v) \in Nat
  BY <1>2
<1> HIDE DEF h, x, u
<1>14. /\ \A j \in Id : /\ t.session[j].thread_id = s.session[j].thread_id
                        /\ t.session[j].x = s.session[j].x
                        /\ t.session[j].status = s.session[j].status
                        /\ t.session[j].enable_encryption = s.session[j].enable_encryption /\ t.session[j].bare = s.session[j].bare
                        /\ t.session[j].c_o = s.session[j].c_o
                        /\ Base(t.session[j]) = Base(s.session[j])
                        /\ InTable(t, j) <=> InTable(s, j)
  BY <1>4, <1>5, <1>7 DEF InTable, h, x
<1>15. Made(p, t) = Made(p, s) /\ Done(t) = Done(s) /\ Dialogs(t) = Dialogs(s)
       /\ Pending(t, w) = Pending(s, w)
  BY <1>4 DEF Made, Done, Dialogs, Pending
<1>16. Submitted(u) = Submitted(v) /\ Pending(o, u) = Pending(o, v)
  <2>1. Submitted(u) = Submitted(v)
    BY <1>3, <1>6, <1>12 DEF Submitted
  <2> QED
    BY <2>1 DEF Pending
<1>17. Told(v, l) => Told(u, l)
  BY <1>12 DEF Told
<1>18. Local(p, q, t, o)
  <2>1. Kept(p, q, t, o, x)
    <3>1. Kept(p, q, s, o, s.session[i])
      BY <1>2 DEF Local
    <3> QED
      BY <1>4, <1>5, <1>6, <1>7, <1>15, <3>1 DEF Kept, Responded, Identified, Active, h
  <2>2. ASSUME NEW j \in Id, j # i PROVE Kept(p, q, t, o, t.session[j])
    <3>1. Kept(p, q, s, o, s.session[j]) /\ t.session[j] = s.session[j]
      BY <1>2, <1>4, <2>2 DEF Local
    <3> QED
      BY <1>4, <1>15, <3>1 DEF Kept, Responded, Identified, Active
  <2>3. \A j \in Id : Kept(p, q, t, o, t.session[j])
    BY <2>1, <2>2 DEF x
  <2>4. Linked(t)
    <3>1. Linked(s)
      BY <1>2 DEF Local
    <3>2. /\ \A th \in Thread : s.table[th] # None => s.table[th] \in Id
          /\ s.queue # None => s.queue \in Id
          /\ \A d \in s.dialogs : d.session \in Id
      BY <1>2 DEF PartyState
    <3> QED
      BY <1>4, <1>14, <3>1, <3>2 DEF Linked
  <2>5. Apart(t)
    BY <1>2, <1>14 DEF Local, Apart
  <2>6. Asked(q, t, o)
    <3>1. \A d \in s.dialogs : d.session \in Id
      BY <1>2 DEF PartyState
    <3> QED
      BY <1>2, <1>4, <1>14, <3>1 DEF Local, Asked
  <2> QED
    BY <1>2, <1>4, <1>15, <2>3, <2>4, <2>5, <2>6 DEF Local, Taken
<1>19. Local(q, p, o, t)
  <2>1. Asked(p, o, t) /\ Taken(q, p, o, t)
    BY <1>2, <1>4, <1>15 DEF Local, Asked, Taken
  <2> QED
    BY <1>2, <1>15, <2>1 DEF Local, Kept, Responded, Identified, Active
<1>20. Under(p, q, t, o, l, w)
  BY <1>1, <1>15 DEF One, Under, Sent
<1>21. Under(q, p, o, t, l, u)
  <2>1. Sent(q, p, o, t, l, e)
    <3>1. kind = "init" => h \in Made(p, t)
      BY <1>6, <1>8, <1>15 DEF Made
    <3> QED
      BY <1>3, <1>4, <1>6, <1>8, <1>9, <1>15, <3>1 DEF Sent, Counted
  <2>2. \A n \in DOMAIN v : Sent(q, p, o, t, l, v[n])
    BY <1>1, <1>4, <1>15 DEF One, Under, Sent
  <2> QED
    BY <1>12, <1>13, <2>1, <2>2 DEF Under
<1>22. Once(u)
  BY <1>1, <1>3, <1>6, <1>9, <1>12 DEF One, Once
<1>23. Unanswered(t, o, w, u)
  <2>1. ASSUME NEW g \in Pending(s, w), NEW n \in DOMAIN u PROVE u[n].counter[1] # g
    BY <1>1, <1>9, <1>11, <1>12, <2>1 DEF One, Unanswered
  <2> QED
    BY <1>1, <1>14, <1>15, <2>1 DEF One, Unanswered
<1>24. Unanswered(o, t, u, w)
  <2>1. ASSUME NEW g \in Pending(o, u), NEW n \in DOMAIN u, u[n].kind = "init"
        PROVE  u[n].counter[1] # g
    BY <1>1, <1>3, <1>6, <1>9, <1>12, <1>16, <2>1 DEF One, Unanswered
  <2> QED
    BY <1>1, <1>14, <1>16, <2>1 DEF One, Unanswered
<1>25. Identity(t, w)
  BY <1>1, <1>14 DEF One, Identity
<1>26. Identity(o, u)
  BY <1>1, <1>3, <1>6, <1>9, <1>12 DEF One, Identity
<1>27. ASSUME NEW g, g # h
       PROVE  /\ Runs(u, g) = Runs(v, g) /\ \A n \in Runs(v, g) : u[n] = v[n]
              /\ \A a, b : Ordered(v, g, a, b) => Ordered(u, g, a, b)
  <2>1. \A n \in 1 .. Len(u) : n > Len(v) => u[n].counter[1] # g
    BY <1>9, <1>12, <1>13, <1>27
  <2> QED
    BY <1>12, <2>1, OrderedElse
<1>28. ASSUME NEW a \in Nat, Ordered(v, h, a, s.session[i].c_s[2])
       PROVE  Ordered(u, h, a, s.session[i].c_s[2] + 1)
  <2> DEFINE b == s.session[i].c_s[2]
             m == Len(v) + 1
  <2>1. /\ \A n \in Runs(v, h) : v[n].counter[2] >= a /\ v[n].counter[2] < b
        /\ \A c \in a .. b - 1 : \E n \in Runs(v, h) : v[n].counter[2] = c
        /\ a <= b
        /\ \A k, n \in Runs(v, h) : k < n => v[k].counter[2] < v[n].counter[2]
    BY <1>28 DEF Ordered
  <2>2. Runs(u, h) = Runs(v, h) \cup {m} /\ u[m].counter[2] = b
        /\ \A n \in Runs(v, h) : u[n] = v[n] /\ n < m
    BY <1>9, <1>12 DEF Runs
  <2>3. b \in Nat /\ m \in Nat
    BY <1>9, <1>13
  <2>4. \A n \in Runs(v, h) : n \in Nat /\ v[n].counter[2] \in Nat
    BY <1>2, <1>13, CounterIs DEF Runs
  <2> HIDE DEF b, m
  <2>5. \A n \in Runs(u, h) : u[n].counter[2] >= a /\ u[n].counter[2] < b + 1
    BY <2>1, <2>2, <2>3, <2>4
  <2>6. \A c \in a .. b : \E n \in Runs(u, h) : u[n].counter[2] = c
    BY <2>1, <2>2, <2>3
  <2>7. \A k, n \in Runs(u, h) : k < n => u[k].counter[2] < u[n].counter[2]
    BY <2>1, <2>2, <2>3, <2>4
  <2>8. Ordered(u, h, a, b + 1)
    BY <2>1, <2>3, <2>5, <2>6, <2>7 DEF Ordered
  <2> QED
    BY <2>8 DEF b
<1>29. Matched(q, t, o, w, u, l)
  <2> SUFFICES ASSUME NEW k \in Id, NEW j \in Id,
                      InTable(t, k), t.session[k].status \in Streaming,
                      InTable(o, j), o.session[j].status \in Streaming,
                      Base(t.session[k]) = Base(o.session[j])
               PROVE  \/ Ordered(u, Base(t.session[k]), o.session[j].c_o[2], t.session[k].c_s[2])
                      \/ Excused(q, t.session[k], w, l)
                      \/ Unidentified(o.session[j], u)
    BY DEF Matched
  <2>1. \/ Ordered(v, Base(s.session[k]), o.session[j].c_o[2], s.session[k].c_s[2])
        \/ Excused(q, s.session[k], w, l)
        \/ Unidentified(o.session[j], v)
    BY <1>1, <1>14 DEF One, Matched
  <2>2. Unidentified(o.session[j], v) => Unidentified(o.session[j], u)
    BY <1>3, <1>6, <1>12 DEF Unidentified, Runs
  <2>3. Excused(q, s.session[k], w, l) => Excused(q, t.session[k], w, l)
    BY <1>14 DEF Excused
  <2>4. CASE k = i
    <3>1. o.session[j].c_o[2] \in Nat
      BY <1>2, CountersAre
    <3> QED
      BY <1>7, <1>14, <1>28, <2>1, <2>2, <2>3, <2>4, <3>1 DEF h, x
  <2>5. CASE k # i
    <3>1. t.session[k] = s.session[k] /\ Base(s.session[k]) # h
      BY <1>4, <1>10, <2>5
    <3> QED
      BY <1>27, <2>1, <2>2, <2>3, <3>1
  <2> QED
    BY <2>4, <2>5
<1>30. Matched(p, o, t, u, w, l)
  <2>1. Matched(p, o, s, v, w, l)
    BY <1>1 DEF One
  <2>2. \A j \in Id : Excused(p, o.session[j], v, l) => Excused(p, o.session[j], u, l)
    BY <1>17 DEF Excused
  <2>3. \A k \in Id : Unidentified(s.session[k], w) => Unidentified(t.session[k], w)
    BY <1>14 DEF Unidentified
  <2> QED
    BY <1>14, <2>1, <2>2, <2>3 DEF Matched
<1>31. Answers(q, t, o, w, u, l)
  <2>1. ASSUME NEW k \in Id, Whole(v, s.session[k]) PROVE Whole(u, t.session[k])
    <3>1. CASE k = i
      BY <1>7, <1>14, <1>28, <2>1, <3>1 DEF Whole, h, x
    <3>2. CASE k # i
      BY <1>4, <1>10, <1>27, <2>1, <3>2 DEF Whole
    <3> QED
      BY <3>1, <3>2
  <2>2. ASSUME NEW k \in Id, NEW n \in DOMAIN v,
               \A m \in Runs(v, Base(s.session[k])) : m > n
        PROVE  \A m \in Runs(u, Base(t.session[k])) : m > n
    BY <1>12, <1>13, <1>14, <2>2 DEF Runs
  <2>3. \A n \in DOMAIN u : u[n].kind = "submit" => n \in DOMAIN v /\ v[n] = u[n]
    BY <1>3, <1>6, <1>12
  <2>4. \A k \in Id : Excused(q, s.session[k], w, l) => Excused(q, t.session[k], w, l)
    BY <1>14 DEF Excused
  <2> QED
    BY <1>1, <1>14, <2>1, <2>2, <2>3, <2>4 DEF One, Answers
<1>32. Answers(p, o, t, u, w, l)
  <2>1. \A d \in s.dialogs : d.session \in Id
    BY <1>2 DEF PartyState
  <2> QED
    BY <1>1, <1>4, <1>14, <1>17, <2>1 DEF One, Answers, Excused
<1>33. Noticed(t, o, w, l) /\ Noticed(o, t, u, l)
  <2>1. Noticed(t, o, w, l)
    BY <1>1, <1>4, <1>14 DEF One, Noticed, Bared
  <2>2. Noticed(o, t, u, l)
    BY <1>1, <1>4, <1>14 DEF One, Noticed
  <2> QED
    BY <2>1, <2>2
<1>34. Threaded(t, w, T)
  <2>1. \A d \in s.dialogs : d.session \in Id
    BY <1>2 DEF PartyState
  <2> QED
    BY <1>1, <1>4, <1>14, <2>1 DEF One, Threaded
<1>35. Threaded(o, u, T)
  <2>1. e.thread = T[e.counter[1]]
    BY <1>1, <1>3, <1>8, <1>9 DEF One, Threaded, h
  <2> QED
    BY <1>1, <1>3, <1>6, <1>12, <2>1 DEF One, Threaded
<1>36. Both(p, q, t, o, w, u, l, T)
  BY <1>1, <1>4, <1>18, <1>19, <1>20, <1>21, <1>22, <1>23, <1>24, <1>25, <1>26, <1>29, <1>30, <1>31,
     <1>32, <1>33, <1>34, <1>35 DEF One, Both
<1> QED
  BY <1>3, <1>36 DEF u

-----------------------------------------------------------------------------
(* The same, with what p sent so far in this step.                         *)

Flight(v, s) == v \o Transmitted(s)

Now(p, q, s, o, w, v, l, T) ==
    /\ v \in Seq(Stanza) /\ T \in [Half -> Thread \cup {None}]
    /\ Both(p, q, s, o, w, Flight(v, s), l, T)

LEMMA NowIs ==
    ASSUME NEW p, NEW q, Pair(p, q), NEW s, NEW o, NEW w, NEW v, NEW l, NEW T,
           Now(p, q, s, o, w, v, l, T)
    PROVE  /\ Right(p, s) /\ s \in PartyState /\ o \in PartyState
           /\ w \in Seq(Stanza) /\ s.out \in Seq(Stanza) /\ Flight(v, s) \in Seq(Stanza)
<1>1. /\ Local(p, q, s, o) /\ Local(q, p, o, s) /\ Under(p, q, s, o, l, w)
      /\ Under(q, p, o, s, l, Flight(v, s))
  BY DEF Now, Both, One
<1>2. Right(p, s)
  BY <1>1 DEF Right, Local, Kept, Asked
<1>3. s \in PartyState /\ o \in PartyState
  BY <1>1 DEF Local
<1> QED
  BY <1>1, <1>2, <1>3 DEF Under, PartyState

LEMMA NowQuiet ==
    ASSUME NEW p, NEW q, Pair(p, q), NEW s, NEW o, NEW w, NEW v, NEW l, NEW T,
           Now(p, q, s, o, w, v, l, T), NEW t, Quiet(p, s, t)
    PROVE  Now(p, q, t, o, w, v, l, T)
<1>1. /\ v \in Seq(Stanza) /\ T \in [Half -> Thread \cup {None}]
      /\ Both(p, q, s, o, w, Flight(v, s), l, T)
  BY DEF Now
<1>2. t.online = s.online /\ Goes(p, t, s.out, t.out)
  BY DEF Quiet
<1>3. Passes(p, t, l, Flight(v, s), Flight(v, t))
  <2>1. CASE s.online
    BY <1>1, <1>2, <2>1, GoesAfter DEF Flight, Transmitted
  <2>2. CASE ~s.online
    <3>1. Flight(v, t) = Flight(v, s) /\ Flight(v, s) \in Seq(Stanza)
      BY <1>2, <2>2, NowIs DEF Flight, Transmitted
    <3>2. Goes(p, t, Flight(v, s), Flight(v, s))
      BY <3>1, GoesNowhere
    <3> QED
      BY <3>1, <3>2, GoesPasses
  <2> QED
    BY <2>1, <2>2
<1>4. s.online \/ Flight(v, t) = Flight(v, s)
  BY <1>2 DEF Flight, Transmitted
<1>5. Both(p, q, t, o, w, Flight(v, t), l, T)
  BY <1>1, <1>3, <1>4, QuietKeeps
<1> QED
  BY <1>1, <1>5 DEF Now

LEMMA ConcatAppend ==
    ASSUME NEW v \in Seq(Stanza), NEW x \in Seq(Stanza), NEW e \in Stanza
    PROVE  v \o Append(x, e) = Append(v \o x, e)
<1> DEFINE a == v \o Append(x, e)
           b == Append(v \o x, e)
<1>1. /\ a \in Seq(Stanza) /\ b \in Seq(Stanza)
      /\ Len(a) = Len(v) + Len(x) + 1 /\ Len(b) = Len(v) + Len(x) + 1
      /\ Len(v) \in Nat /\ Len(x) \in Nat
  OBVIOUS
<1>2. ASSUME NEW n \in 1 .. Len(v) + Len(x) + 1 PROVE a[n] = b[n]
  <2>1. CASE n <= Len(v)
    BY <2>1
  <2>2. CASE n > Len(v) /\ n <= Len(v) + Len(x)
    BY <2>2
  <2>3. CASE n = Len(v) + Len(x) + 1
    BY <2>3
  <2> QED
    BY <1>1, <2>1, <2>2, <2>3
<1> HIDE DEF a, b
<1>3. a = b
  BY <1>1, <1>2
<1> QED
  BY <1>3 DEF a, b

LEMMA NowResponds ==
    ASSUME NEW p, NEW q, Pair(p, q), NEW s, NEW o, NEW w, NEW v, NEW l, NEW T,
           Now(p, q, s, o, w, v, l, T), s.online, NEW i \in Id, Linkable(s, i),
           NEW form, form.half \in Made(q, o)
    PROVE  \E T2 : Now(p, q, RespondE2EBob(p, s, i, form), o, w, v, l, T2)
<1> DEFINE t == RespondE2EBob(p, s, i, form)
<1>1. /\ v \in Seq(Stanza) /\ T \in [Half -> Thread \cup {None}]
      /\ Both(p, q, s, o, w, Flight(v, s), l, T) /\ s.out \in Seq(Stanza) /\ s \in PartyState
  BY NowIs DEF Now
<1>2. t.online = s.online
  <2>1. form.half \in Half
    BY DEF Made
  <2>2. Turns(s, t, i)
    BY <1>1, <2>1, RespondIs DEF Pair
  <2> QED
    BY <2>2 DEF Turns
<1> HIDE DEF t
<1>3. PICK e \in Stanza, T2 \in [Half -> Thread \cup {None}] :
         t.out = Append(s.out, e) /\ Both(p, q, t, o, w, Append(Flight(v, s), e), l, T2)
  BY <1>1, Responds DEF t
<1>4. Flight(v, t) = Append(Flight(v, s), e)
  <2>1. t.out = Append(s.out, e) /\ t.online = s.online /\ e \in Stanza
    BY <1>2, <1>3 DEF SendsCounted
  <2>2. v \o t.out = Append(v \o s.out, e)
    BY <1>1, <2>1, ConcatAppend
  <2> QED
    BY <2>1, <2>2 DEF Flight, Transmitted
<1>5. Now(p, q, t, o, w, v, l, T2)
  BY <1>1, <1>3, <1>4 DEF Now
<1> QED
  BY <1>5 DEF t

LEMMA NowAccepts ==
    ASSUME NEW p, NEW q, Pair(p, q), NEW s, NEW o, NEW w, NEW v, NEW l, NEW T,
           Now(p, q, s, o, w, v, l, T), NEW i, NEW form \in Stanza,
           Answerable(p, q, s, o, w, Flight(v, s), l, T, i, form)
    PROVE  Now(p, q, AcceptE2EAlice(s, i, form), o, w, v, l, T)
<1> DEFINE t == AcceptE2EAlice(s, i, form)
<1>1. /\ v \in Seq(Stanza) /\ T \in [Half -> Thread \cup {None}]
      /\ Both(p, q, s, o, w, Flight(v, s), l, T) /\ s.out \in Seq(Stanza) /\ s \in PartyState
      /\ Flight(v, s) \in Seq(Stanza)
  BY NowIs DEF Now
<1>2. t.online = s.online
  BY DEF AcceptE2EAlice, SendEncrypted, Send
<1> HIDE DEF t
<1>3. PICK e \in Stanza :
         /\ t.out = Append(s.out, e)
         /\ \A u : Identifies(Flight(v, s), u, e, s.online) => Both(p, q, t, o, w, u, l, T)
  BY <1>1, Accepted DEF t
<1>4. Identifies(Flight(v, s), Flight(v, t), e, s.online)
  <2>1. CASE s.online
    <3>1. Flight(v, t) = Append(Flight(v, s), e)
      <4>1. t.out = Append(s.out, e) /\ t.online = s.online /\ e \in Stanza
        BY <1>2, <1>3
      <4>2. v \o t.out = Append(v \o s.out, e)
        BY <1>1, <4>1, ConcatAppend
      <4> QED
        BY <2>1, <4>1, <4>2 DEF Flight, Transmitted
    <3> QED
      BY <1>1, <2>1, <3>1, AppendIs DEF Identifies
  <2>2. CASE ~s.online
    <3>1. Flight(v, t) = Flight(v, s)
      BY <1>2, <2>2 DEF Flight, Transmitted
    <3> QED
      BY <1>1, <2>2, <3>1 DEF Identifies, Extends
  <2> QED
    BY <2>1, <2>2
<1>5. Now(p, q, t, o, w, v, l, T)
  BY <1>1, <1>3, <1>4 DEF Now
<1> QED
  BY <1>5 DEF t

LEMMA NowContinues ==
    ASSUME NEW p, NEW q, Pair(p, q), NEW s, NEW o, NEW w, NEW v, NEW l, NEW T,
           Now(p, q, s, o, w, v, l, T), s.online, NEW i \in Id,
           NEW kind \in {"init", "encrypted"}, NEW key \in Key \cup {None},
           Continues(q, s, o, Flight(v, s), w, i, kind, key)
    PROVE  Now(p, q, SendEncrypted(s, i, kind, key), o, w, v, l, T)
<1> DEFINE t == SendEncrypted(s, i, kind, key)
<1>1. /\ v \in Seq(Stanza) /\ T \in [Half -> Thread \cup {None}]
      /\ Both(p, q, s, o, w, Flight(v, s), l, T) /\ s.out \in Seq(Stanza) /\ s \in PartyState
  BY NowIs DEF Now
<1>2. SendsCounted(s, t, i, kind, key)
  BY <1>1, SendEncryptedIs DEF Continues
<1> HIDE DEF t
<1>3. PICK e \in Stanza :
         t.out = Append(s.out, e) /\ Both(p, q, t, o, w, Append(Flight(v, s), e), l, T)
  BY <1>1, <1>2, Continued
<1>4. Flight(v, t) = Append(Flight(v, s), e)
  <2>1. t.out = Append(s.out, e) /\ t.online = s.online /\ e \in Stanza
    BY <1>2, <1>3 DEF SendsCounted
  <2>2. v \o t.out = Append(v \o s.out, e)
    BY <1>1, <2>1, ConcatAppend
  <2> QED
    BY <2>1, <2>2 DEF Flight, Transmitted
<1>5. Now(p, q, t, o, w, v, l, T)
  BY <1>1, <1>3, <1>4 DEF Now
<1> QED
  BY <1>5 DEF t

LEMMA NowSendsMessage ==
    ASSUME NEW p, NEW q, Pair(p, q), NEW s, NEW o, NEW w, NEW v, NEW l, NEW T,
           Now(p, q, s, o, w, v, l, T), s.online, NEW i, Linkable(s, i)
    PROVE  Now(p, q, SendMessage(s, i), o, w, v, l, T)
<1>1. Right(p, s) /\ s \in PartyState /\ i \in Id /\ p \in Party
  BY NowIs DEF Linkable, Pair
<1>2. CASE s.session[i].enable_encryption
  <2>1. s.session[i].km_s \in Key \cup {None}
    BY <1>1 DEF PartyState, Session
  <2>2. Continues(q, s, o, Flight(v, s), w, i, "encrypted", s.session[i].km_s)
    BY <1>2 DEF Continues
  <2>3. Now(p, q, SendEncrypted(s, i, "encrypted", s.session[i].km_s), o, w, v, l, T)
    BY <1>1, <2>1, <2>2, NowContinues
  <2> QED
    BY <1>2, <2>3 DEF SendMessage
<1>3. CASE ~s.session[i].enable_encryption
  <2>1. Idle(p, s, Of(s, i, "chat"))
    BY <1>1, OfIdle
  <2>2. Quiet(p, s, Send(s, i, Of(s, i, "chat")))
    BY <1>1, <2>1, SendQuiet
  <2> QED
    BY <1>3, <2>2, NowQuiet DEF SendMessage
<1> QED
  BY <1>2, <1>3

LEMMA NowDropped ==
    ASSUME NEW p, NEW q, Pair(p, q), NEW s, NEW o, NEW w, NEW v, NEW l, NEW T,
           Now(p, q, s, o, w, v, l, T), w # <<>>, Needless(s, w[1])
    PROVE  Now(p, q, s, o, Tail(w), v, l, T)
  BY Dropped DEF Now

-----------------------------------------------------------------------------
(* A stanza is handled.                                                    *)

\* It is for the session i
Handles(p, q, s, o, w, v, l, T, i) ==
    /\ Pair(p, q) /\ Now(p, q, s, o, w, v, l, T) /\ s.online /\ w # <<>>
    /\ i \in Id /\ InTable(s, i)
    /\ s.session[i].thread_id = w[1].thread /\ w[1].kind # "unavailable"

LEMMA HandlesIs ==
    ASSUME NEW p, NEW q, NEW s, NEW o, NEW w, NEW v, NEW l, NEW T, NEW i,
           Handles(p, q, s, o, w, v, l, T, i)
    PROVE  /\ Right(p, s) /\ Linkable(s, i) /\ s \in PartyState /\ o \in PartyState
           /\ p \in Party /\ w \in Seq(Stanza) /\ 1 \in DOMAIN w /\ w[1] \in Stanza
           /\ Sent(p, q, s, o, l, w[1]) /\ Flight(v, s) \in Seq(Stanza)
           /\ \A j \in Id : InTable(s, j) /\ s.session[j].thread_id = w[1].thread => j = i
<1>1. Pair(p, q) /\ Now(p, q, s, o, w, v, l, T) /\ w # <<>> /\ i \in Id /\ InTable(s, i)
      /\ s.session[i].thread_id = w[1].thread
  BY DEF Handles
<1>2. /\ Right(p, s) /\ s \in PartyState /\ o \in PartyState
      /\ w \in Seq(Stanza) /\ Flight(v, s) \in Seq(Stanza)
  BY <1>1, NowIs
<1>3. 1 \in DOMAIN w
  BY <1>1, <1>2, TailIs
<1>4. Sent(p, q, s, o, l, w[1])
  BY <1>1, <1>3 DEF Now, Both, One, Under
<1>5. w[1] \in Stanza /\ Linkable(s, i)
  BY <1>1, <1>4 DEF Sent, Linkable, InTable
<1>6. \A j \in Id : InTable(s, j) /\ s.session[j].thread_id = w[1].thread => j = i
  BY <1>1 DEF InTable
<1> QED
  BY <1>1, <1>2, <1>3, <1>4, <1>5, <1>6 DEF Pair

LEMMA UncountedNeedless ==
    ASSUME NEW p, NEW q, Pair(p, q), NEW s, NEW o, NEW w, NEW v, NEW l, NEW T,
           Now(p, q, s, o, w, v, l, T), w # <<>>, w[1].kind \notin Counted,
           w[1].kind = "unavailable" => \A j \in Id : InTable(s, j) => Bared(s.session[j])
    PROVE  Needless(s, w[1])
<1>1. w \in Seq(Stanza)
  BY NowIs
<1>2. 1 \in DOMAIN w
  BY <1>1, TailIs
<1>3. w[1].counter[1] = None
  BY <1>2 DEF Now, Both, One, Under, Sent
<1>4. Local(p, q, s, o)
  BY DEF Now, Both, One
<1>5. \A j \in Id : s.session[j].status \in Streaming => Base(s.session[j]) # None
  BY <1>4, StreamHalf
<1>6. \A d \in s.dialogs : d.form.half # None
  BY <1>4, NamesAssumption DEF Local, Asked, Made
<1> QED
  BY <1>3, <1>5, <1>6 DEF Needless

LEMMA CountedNeedless ==
    ASSUME NEW p, NEW q, NEW s, NEW o, NEW w, NEW v, NEW l, NEW T, NEW i,
           Handles(p, q, s, o, w, v, l, T, i), w[1].kind \in {"result", "init"},
           s.session[i].status \in Streaming => Base(s.session[i]) # w[1].counter[1]
    PROVE  Needless(s, w[1])
<1> DEFINE h == w[1].counter[1]
<1>1. /\ Pair(p, q) /\ Now(p, q, s, o, w, v, l, T)
      /\ s.session[i].thread_id = w[1].thread
  BY DEF Handles
<1>2. /\ 1 \in DOMAIN w /\ Sent(p, q, s, o, l, w[1]) /\ s \in PartyState
      /\ \A j \in Id : InTable(s, j) /\ s.session[j].thread_id = w[1].thread => j = i
  BY HandlesIs
<1>3. /\ Local(p, q, s, o) /\ Unanswered(s, o, w, Flight(v, s)) /\ Threaded(s, w, T)
  BY <1>1 DEF Now, Both, One
<1>4. w[1].thread = T[h]
  BY <1>2, <1>3 DEF Threaded, Counted
<1>5. ASSUME NEW j \in Id, InTable(s, j), s.session[j].status \in Streaming,
             Base(s.session[j]) = h
      PROVE  FALSE
  <2>1. h # None
    BY <1>1, <1>3, <1>5, StreamHalf
  <2>2. s.session[j].thread_id = T[h]
    BY <1>3, <1>5, <2>1 DEF Threaded
  <2>3. j = i
    BY <1>2, <1>4, <1>5, <2>2
  <2> QED
    BY <1>5, <2>3
<1>6. ASSUME NEW d \in s.dialogs PROVE d.form.half # h
  <2>1. d.form.half \in Made(q, o) /\ d.form.half \in Pending(s, w)
    BY <1>3 DEF Local, Asked, Pending, Dialogs
  <2>2. CASE w[1].kind = "result"
    <3>1. h \in Made(p, s) /\ p # q
      BY <1>1, <1>2, <2>2 DEF Sent, Pair
    <3> QED
      BY <2>1, <3>1, MadeApart
  <2>3. CASE w[1].kind = "init"
    BY <1>2, <1>3, <2>1, <2>3 DEF Unanswered
  <2> QED
    BY <2>2, <2>3
<1> QED
  BY <1>5, <1>6 DEF Needless

\* What is done is quiet, before or after the stanza is dropped
LEMMA DroppedQuiet ==
    ASSUME NEW p, NEW q, Pair(p, q), NEW s, NEW o, NEW w, NEW v, NEW l, NEW T,
           Now(p, q, s, o, w, v, l, T), w # <<>>, Needless(s, w[1]), NEW t, Quiet(p, s, t)
    PROVE  Now(p, q, t, o, Tail(w), v, l, T)
  BY NowDropped, NowQuiet

LEMMA ChatHandled ==
    ASSUME NEW p, NEW q, NEW s, NEW o, NEW w, NEW v, NEW l, NEW T, NEW i,
           Handles(p, q, s, o, w, v, l, T, i), w[1].kind \in {"chat", "error"},
           NEW popup \in BOOLEAN
    PROVE  /\ Now(p, q, Received(s, i, popup), o, Tail(w), v, l, T)
           /\ Now(p, q, s, o, Tail(w), v, l, T)
<1>1. /\ Pair(p, q) /\ Now(p, q, s, o, w, v, l, T) /\ w # <<>>
  BY DEF Handles
<1>2. Right(p, s) /\ Linkable(s, i) /\ p \in Party
  BY HandlesIs
<1>3. Needless(s, w[1])
  BY <1>1, UncountedNeedless DEF Counted
<1>4. Quiet(p, s, Received(s, i, popup))
  BY <1>2, ReceivedIs
<1> QED
  BY <1>1, <1>3, <1>4, DroppedQuiet, NowDropped

LEMMA UndecryptedHandled ==
    ASSUME NEW p, NEW q, NEW s, NEW o, NEW w, NEW v, NEW l, NEW T, NEW i,
           Handles(p, q, s, o, w, v, l, T, i), w[1].kind = "encrypted"
    PROVE  Now(p, q, FailedDecrypt(p, s, i), o, Tail(w), v, l, T)
<1> DEFINE t == FailedDecrypt(p, s, i)
           h == w[1].counter[1]
<1>1. /\ Pair(p, q) /\ Now(p, q, s, o, w, v, l, T) /\ w # <<>>
      /\ s.session[i].thread_id = w[1].thread
  BY DEF Handles
<1>2. Right(p, s) /\ Linkable(s, i) /\ p \in Party /\ 1 \in DOMAIN w
  BY HandlesIs
<1>3. /\ Quiet(p, s, t) /\ Linkable(t, i)
      /\ t.table[s.session[i].thread_id] = None
  BY <1>2, FailedDecryptIs
<1> HIDE DEF t
<1>4. Now(p, q, t, o, w, v, l, T) /\ Right(p, t)
  BY <1>1, <1>2, <1>3, NowQuiet, QuietRight
<1>5. Local(p, q, t, o) /\ Threaded(t, w, T) /\ t \in PartyState
  BY <1>4 DEF Now, Both, One, Local
<1>6. w[1].thread = T[h]
  BY <1>2, <1>5 DEF Threaded, Counted
<1>7. \A j \in Id : InTable(t, j) => t.session[j].thread_id # T[h]
  BY <1>1, <1>3, <1>6, Bounds DEF InTable
<1>8. ASSUME NEW j \in Id, InTable(t, j), t.session[j].status \in Streaming
      PROVE  Base(t.session[j]) # h
  <2>1. Base(t.session[j]) # None
    BY <1>1, <1>5, <1>8, StreamHalf
  <2> QED
    BY <1>5, <1>7, <1>8, <2>1 DEF Threaded
<1>9. ASSUME NEW d \in t.dialogs, InTable(t, d.session) PROVE d.form.half # h
  <2>1. d.session \in Id
    BY <1>5 DEF PartyState
  <2> QED
    BY <1>5, <1>7, <1>9, <2>1 DEF Threaded
<1>10. Needless(t, w[1])
  BY <1>8, <1>9 DEF Needless
<1> QED
  BY <1>1, <1>4, <1>10, NowDropped DEF t

\* The next counter
LEMMA NextCounted ==
    ASSUME NEW p, NEW s, Right(p, s), NEW i \in Id
    PROVE  Counts(s, [s EXCEPT !.session[i].c_o = Next1(@)], i)
<1> DEFINE t == [s EXCEPT !.session[i].c_o = Next1(@)]
<1>1. s \in PartyState
  BY DEF Right
<1>2. Counts(s, t, i)
  <2> DEFINE a == s.session[i]
             x == [a EXCEPT !.c_o = <<Base(a), a.c_o[2] + 1>>]
  <2>1. a \in Session /\ a.c_o = <<a.c_o[1], a.c_o[2]>> /\ a.c_o[2] \in Nat /\ a.c_o[1] = Base(a)
        /\ a.c_o \in Counter
    BY <1>1, CountersAre DEF Right
  <2>2. Next1(a.c_o) = <<Base(a), a.c_o[2] + 1>> /\ <<Base(a), a.c_o[2] + 1>> \in Counter
    BY <2>1 DEF Next1, Counter
  <2>3. x \in Session
    BY <2>1, <2>2 DEF Session
  <2>4. t = [s EXCEPT !.session[i] = x]
    BY <1>1, <2>1, <2>2 DEF PartyState, Session
  <2> HIDE DEF t, x
  <2>5. /\ t \in PartyState /\ t.session = [s.session EXCEPT ![i] = x]
        /\ t.table = s.table /\ t.chat = s.chat /\ t.queue = s.queue
        /\ t.dialogs = s.dialogs /\ t.online = s.online
        /\ t.halves = s.halves /\ t.out = s.out /\ t.taken = s.taken
    BY <1>1, <2>3, <2>4 DEF PartyState
  <2>6. t.session[i] = x /\ \A j \in Id : j # i => t.session[j] = s.session[j]
    BY <1>1, <2>5 DEF PartyState
  <2> QED
    BY <2>5, <2>6 DEF Counts, x
<1> QED
  BY <1>2

\* decrypt_stanza: the counter goes on
LEMMA DecryptedHandled ==
    ASSUME NEW p, NEW q, NEW s, NEW o, NEW w, NEW v, NEW l, NEW T, NEW i,
           Handles(p, q, s, o, w, v, l, T, i), w[1].kind = "encrypted",
           Decrypts(p, s, i, w[1]), NEW popup \in BOOLEAN
    PROVE  Now(p, q, Received([s EXCEPT !.session[i].c_o = Next1(@)], i, popup), o,
               Tail(w), v, l, T)
<1> DEFINE t == [s EXCEPT !.session[i].c_o = Next1(@)]
<1>1. /\ Pair(p, q) /\ Now(p, q, s, o, w, v, l, T) /\ w # <<>>
      /\ i \in Id /\ InTable(s, i)
  BY DEF Handles
<1>2. Right(p, s) /\ Linkable(s, i) /\ p \in Party /\ s \in PartyState
  BY HandlesIs
<1>3. Counts(s, t, i)
  BY <1>1, <1>2, NextCounted
<1> HIDE DEF t
<1>4. w[1].counter = s.session[i].c_o
  BY DEF Decrypts
<1>5. Both(p, q, t, o, Tail(w), Flight(v, s), l, T)
  BY <1>1, <1>3, <1>4, Advanced DEF Now, Counted
<1>6. Now(p, q, t, o, Tail(w), v, l, T)
  BY <1>1, <1>3, <1>5 DEF Now, Counts, Flight, Transmitted
<1>7. Right(p, t) /\ Linkable(t, i)
  <2>1. t.session[i].thread_id = s.session[i].thread_id
    BY <1>1, <1>2, <1>3, CountsIs
  <2> QED
    BY <1>1, <1>2, <1>6, <2>1, NowIs DEF Linkable
<1>8. Quiet(p, t, Received(t, i, popup))
  BY <1>2, <1>7, ReceivedIs
<1> QED
  BY <1>1, <1>6, <1>8, NowQuiet DEF t

LEMMA CancelHandled ==
    ASSUME NEW p, NEW q, NEW s, NEW o, NEW w, NEW v, NEW l, NEW T, NEW i,
           Handles(p, q, s, o, w, v, l, T, i), w[1].kind = "cancel"
    PROVE  Now(p, q, CancelledNegotiation(s, i), o, Tail(w), v, l, T)
<1>1. /\ Pair(p, q) /\ Now(p, q, s, o, w, v, l, T) /\ w # <<>>
  BY DEF Handles
<1>2. Right(p, s) /\ Linkable(s, i) /\ p \in Party
  BY HandlesIs
<1>3. Needless(s, w[1])
  BY <1>1, UncountedNeedless DEF Counted
<1>4. Quiet(p, s, CancelledNegotiation(s, i))
  BY <1>2, CancelledTame DEF Tame
<1> QED
  BY <1>1, <1>3, <1>4, DroppedQuiet

LEMMA FormHandled ==
    ASSUME NEW p, NEW q, NEW s, NEW o, NEW w, NEW v, NEW l, NEW T, NEW i,
           Handles(p, q, s, o, w, v, l, T, i), w[1].kind = "form", NEW b \in BOOLEAN
    PROVE  \E T2 : Now(p, q, RespondE2EBob(p, [s EXCEPT !.rough = b], i, w[1]), o,
                       Tail(w), v, l, T2)
<1> DEFINE t == [s EXCEPT !.rough = b]
<1>1. /\ Pair(p, q) /\ Now(p, q, s, o, w, v, l, T) /\ w # <<>> /\ s.online /\ i \in Id
  BY DEF Handles
<1>2. Right(p, s) /\ Linkable(s, i) /\ p \in Party /\ Sent(p, q, s, o, l, w[1])
  BY HandlesIs
<1>3. Needless(s, w[1])
  BY <1>1, UncountedNeedless DEF Counted
<1>4. Quiet(p, s, t) /\ Linkable(t, i)
  BY <1>2, RoughTame DEF Tame
<1>5. Now(p, q, t, o, Tail(w), v, l, T)
  BY <1>1, <1>3, <1>4, DroppedQuiet
<1>6. t.online
  BY <1>1, <1>4 DEF Quiet
<1>7. w[1].half \in Made(q, o)
  BY <1>2 DEF Sent
<1> HIDE DEF t
<1>8. \E T2 : Now(p, q, RespondE2EBob(p, t, i, w[1]), o, Tail(w), v, l, T2)
  BY <1>1, <1>4, <1>5, <1>6, <1>7, NowResponds
<1> QED
  BY <1>8 DEF t

LEMMA SubmitHandled ==
    ASSUME NEW p, NEW q, NEW s, NEW o, NEW w, NEW v, NEW l, NEW T, NEW i,
           Handles(p, q, s, o, w, v, l, T, i), w[1].kind = "submit",
           s.session[i].status = "requested-e2e"
    PROVE  /\ Now(p, q, AcceptE2EAlice(s, i, w[1]), o, Tail(w), v, l, T)
           /\ Now(p, q, [s EXCEPT !.dialogs = @ \cup {[session |-> i, form |-> w[1]]}], o,
                  Tail(w), v, l, T)
<1> DEFINE t == [s EXCEPT !.dialogs = @ \cup {[session |-> i, form |-> w[1]]}]
<1>1. /\ Pair(p, q) /\ Now(p, q, s, o, w, v, l, T) /\ w # <<>>
      /\ s.session[i].thread_id = w[1].thread
  BY DEF Handles
<1>2. Linkable(s, i) /\ w[1] \in Stanza /\ s \in PartyState
  BY HandlesIs
<1>3. Needless(s, w[1])
  BY <1>1, UncountedNeedless DEF Counted
<1>4. Now(p, q, s, o, Tail(w), v, l, T)
  BY <1>1, <1>3, NowDropped
<1>5. Answerable(p, q, s, o, Tail(w), Flight(v, s), l, T, i, w[1])
  BY <1>1, <1>2, SubmitAnswerable DEF Now
<1>6. Now(p, q, AcceptE2EAlice(s, i, w[1]), o, Tail(w), v, l, T)
  BY <1>1, <1>2, <1>4, <1>5, NowAccepts
<1>7. Both(p, q, t, o, Tail(w), Flight(v, s), l, T)
  BY <1>1, <1>2, <1>4, <1>5, Asks DEF Now
<1>8. Flight(v, t) = Flight(v, s)
  BY <1>2 DEF Flight, Transmitted, PartyState
<1> QED
  BY <1>4, <1>6, <1>7, <1>8 DEF Now

LEMMA TerminateHandled ==
    ASSUME NEW p, NEW q, NEW s, NEW o, NEW w, NEW v, NEW l, NEW T, NEW i,
           Handles(p, q, s, o, w, v, l, T, i), w[1].kind = "terminate", NEW b \in BOOLEAN
    PROVE  Now(p, q, DeleteSession(AcknowledgeTermination([s EXCEPT !.rough = b], i), i), o,
               Tail(w), v, l, T)
<1> DEFINE t == [s EXCEPT !.rough = b]
           u == AcknowledgeTermination(t, i)
<1>1. /\ Pair(p, q) /\ Now(p, q, s, o, w, v, l, T) /\ w # <<>>
  BY DEF Handles
<1>2. Right(p, s) /\ Linkable(s, i) /\ p \in Party /\ s \in PartyState
  BY HandlesIs
<1>3. Needless(s, w[1])
  BY <1>1, UncountedNeedless DEF Counted
<1>4. Tame(p, s, t, i)
  BY <1>2, RoughTame
<1> HIDE DEF t
<1>5. Tame(p, t, u, i)
  BY <1>2, <1>4, AcknowledgeTame DEF Tame
<1> HIDE DEF u
<1>6. Quiet(p, u, DeleteSession(u, i))
  BY <1>2, <1>5, DeleteQuiet DEF Tame
<1>7. Now(p, q, t, o, Tail(w), v, l, T)
  BY <1>1, <1>3, <1>4, DroppedQuiet DEF Tame
<1>8. Now(p, q, u, o, Tail(w), v, l, T)
  BY <1>1, <1>5, <1>7, NowQuiet DEF Tame
<1>9. Now(p, q, DeleteSession(u, i), o, Tail(w), v, l, T)
  BY <1>1, <1>6, <1>8, NowQuiet
<1> QED
  BY <1>9 DEF u, t

\* An identity that cannot be verified, or is not waited for
LEMMA FailHandled ==
    ASSUME NEW p, NEW q, NEW s, NEW o, NEW w, NEW v, NEW l, NEW T, NEW i,
           Handles(p, q, s, o, w, v, l, T, i), w[1].kind \in {"result", "init"}
    PROVE  Now(p, q, FailBadNegotiation(s, i), o, Tail(w), v, l, T)
<1> DEFINE t == FailBadNegotiation(s, i)
<1>1. /\ Pair(p, q) /\ Now(p, q, s, o, w, v, l, T) /\ w # <<>>
      /\ s.session[i].thread_id = w[1].thread /\ s.online /\ InTable(s, i) /\ i \in Id
      /\ w[1].kind # "unavailable"
  BY DEF Handles
<1>2. Right(p, s) /\ Linkable(s, i) /\ p \in Party
  BY HandlesIs
<1>3. Tame(p, s, t, i) /\ t.session[i].status = None
  BY <1>2, FailTame
<1> HIDE DEF t
<1>4. Now(p, q, t, o, w, v, l, T)
  BY <1>1, <1>3, NowQuiet DEF Tame
<1>5. Handles(p, q, t, o, w, v, l, T, i)
  BY <1>1, <1>3, <1>4 DEF Handles, Tame, Quiet, InTable
<1>6. Needless(t, w[1])
  BY <1>3, <1>5, CountedNeedless, NoneIs
<1> QED
  BY <1>1, <1>4, <1>6, NowDropped DEF t

\* What is not prepared for changes nothing
LEMMA OtherHandled ==
    ASSUME NEW p, NEW q, NEW s, NEW o, NEW w, NEW v, NEW l, NEW T, NEW i,
           Handles(p, q, s, o, w, v, l, T, i),
           \/ w[1].kind = "submit"
           \/ w[1].kind = "result" /\ s.session[i].status # "responded-e2e"
           \/ w[1].kind = "init" /\ s.session[i].status # "identified-alice"
    PROVE  Now(p, q, s, o, Tail(w), v, l, T)
<1>1. /\ Pair(p, q) /\ Now(p, q, s, o, w, v, l, T) /\ w # <<>> /\ i \in Id
  BY DEF Handles
<1>2. CASE w[1].kind = "submit"
  BY <1>1, <1>2, UncountedNeedless, NowDropped DEF Counted
<1>3. CASE w[1].kind \in {"result", "init"}
  <2>1. 1 \in DOMAIN w /\ Sent(p, q, s, o, l, w[1])
    BY HandlesIs
  <2>2. Local(p, q, s, o) /\ Identity(s, w)
    BY <1>1 DEF Now, Both, One
  <2>3. ASSUME s.session[i].status \in Streaming, Base(s.session[i]) = w[1].counter[1]
        PROVE  FALSE
    <3>1. s.session[i].status # "active"
      BY <1>1, <1>3, <2>1, <2>2, <2>3 DEF Identity
    <3>2. /\ s.session[i].status = "responded-e2e" => w[1].counter[1] \in Made(p, s)
          /\ s.session[i].status = "identified-alice" => w[1].counter[1] \in Made(q, o)
      BY <1>1, <2>2, <2>3, StreamHalf
    <3>3. /\ w[1].kind = "result" => w[1].counter[1] \in Made(p, s)
          /\ w[1].kind = "init" => w[1].counter[1] \in Made(q, o)
      BY <2>1 DEF Sent
    <3> QED
      BY <1>1, <1>3, <2>3, <3>1, <3>2, <3>3, MadeApart DEF Streaming, Pair
  <2>4. Needless(s, w[1])
    BY <1>3, <2>3, CountedNeedless
  <2> QED
    BY <1>1, <2>4, NowDropped
<1> QED
  BY <1>2, <1>3

LEMMA ActivateIs ==
    ASSUME NEW p, NEW s, Right(p, s), NEW i \in Id, NEW key \in Key,
           NEW c, Counts(s, c, i)
    PROVE  Activates(c, Activate(s, i, key), i, key)
<1> DEFINE a == s.session[i]
           b == a.loggable /\ a.logging # "mustnot"
           n == <<Base(a), a.c_o[2] + 1>>
           x == [a EXCEPT !.km_s = key, !.km_o = key, !.c_o = Next1(a.c_o), !.loggable = b,
                          !.status = "active", !.enable_encryption = TRUE]
           t == Activate(s, i, key)
<1>1. s \in PartyState /\ a \in Session /\ a.c_o \in Counter /\ a.c_o[2] \in Nat
      /\ a.c_o = <<Base(a), a.c_o[2]>>
  BY CountersAre DEF Right
<1>2. Next1(a.c_o) = n /\ n \in Counter
  BY <1>1 DEF Next1, Counter
<1>3. b \in BOOLEAN /\ (b => a.logging # "mustnot")
  BY <1>1 DEF Session
<1>4. t = [s EXCEPT !.taken = @ \cup {key}, !.session[i] = x]
  BY DEF Activate
<1> HIDE DEF b, n
<1>5. x \in Session
  BY <1>1, <1>2, <1>3 DEF Session, Waiting
<1>6. /\ x.thread_id = a.thread_id /\ x.bare = a.bare /\ x.x = a.x
      /\ x.c_s = a.c_s /\ x.c_o = n
      /\ x.logging = a.logging /\ x.km_s = key /\ x.km_o = key /\ x.loggable = b
      /\ x.status = "active" /\ x.enable_encryption = TRUE
  BY <1>1, <1>2 DEF Session
<1> HIDE DEF x, t, a
<1>7. [s.session EXCEPT ![i] = x] \in [Id -> Session] /\ s.taken \cup {key} \in SUBSET Key
  BY <1>1, <1>5 DEF PartyState
<1>8. t = [s EXCEPT !.taken = s.taken \cup {key}, !.session = [s.session EXCEPT ![i] = x]]
  BY <1>1, <1>4 DEF PartyState
<1>9. /\ t \in PartyState /\ t.session = [s.session EXCEPT ![i] = x]
      /\ t.table = s.table /\ t.chat = s.chat /\ t.queue = s.queue
      /\ t.dialogs = s.dialogs /\ t.online = s.online
      /\ t.halves = s.halves /\ t.out = s.out /\ t.taken = s.taken \cup {key}
  BY <1>1, <1>7, <1>8 DEF PartyState
<1>10. t.session[i] = x /\ \A j \in Id : j # i => t.session[j] = s.session[j]
  BY <1>1, <1>9 DEF PartyState
<1>11. /\ c.session[i].thread_id = a.thread_id /\ c.session[i].bare = a.bare
       /\ c.session[i].x = a.x
       /\ c.session[i].c_s = a.c_s /\ c.session[i].logging = a.logging
  BY <1>1, CountsIs DEF a
<1>12. c.session[i].c_o = n
  <2>1. c.session[i] = [a EXCEPT !.c_o = n]
    BY DEF Counts, a, n
  <2> QED
    BY <1>1, <2>1 DEF Session
<1>13. /\ \A j \in Id : j # i => c.session[j] = s.session[j]
       /\ c.table = s.table /\ c.chat = s.chat /\ c.queue = s.queue
       /\ c.dialogs = s.dialogs /\ c.online = s.online
       /\ c.halves = s.halves /\ c.taken = s.taken /\ c.out = s.out
  BY DEF Counts
<1>14. Activates(c, t, i, key)
  BY <1>3, <1>6, <1>9, <1>10, <1>11, <1>12, <1>13 DEF Activates
<1> QED
  BY <1>14 DEF t

\* What is left under way to a session that has had the identity
LEMMA Rest ==
    ASSUME NEW p, NEW q, NEW s, NEW o, NEW w, NEW v, NEW l, NEW T, NEW i,
           Handles(p, q, s, o, w, v, l, T, i), w[1].kind \in {"result", "init"}
    PROVE  \A n \in DOMAIN Tail(w) :
              Tail(w)[n].counter[1] = w[1].counter[1] => Tail(w)[n].kind = "encrypted"
<1> DEFINE z == Tail(w)
           h == w[1].counter[1]
<1>1. /\ Pair(p, q) /\ Now(p, q, s, o, w, v, l, T) /\ w # <<>>
  BY DEF Handles
<1>2. w \in Seq(Stanza) /\ 1 \in DOMAIN w /\ Sent(p, q, s, o, l, w[1])
  BY HandlesIs
<1>3. Suffix(w, z, 1)
  BY <1>1, <1>2, TailIs
<1> HIDE DEF z
<1>4. \A n \in DOMAIN z : n + 1 \in DOMAIN w /\ z[n] = w[n + 1] /\ n + 1 # 1
  <2>1. DOMAIN z = 1 .. Len(z) /\ \A n \in DOMAIN z : n + 1 \in DOMAIN w /\ z[n] = w[n + 1]
    BY <1>3 DEF Suffix
  <2> QED
    BY <2>1
<1>5. Under(p, q, s, o, l, w) /\ Once(w)
  BY <1>1 DEF Now, Both, One
<1>6. ASSUME NEW n \in DOMAIN z, z[n].counter[1] = h PROVE z[n].kind = "encrypted"
  <2>1. Sent(p, q, s, o, l, z[n])
    BY <1>4, <1>5 DEF Under
  <2>2. /\ w[1].kind = "result" => h \in Made(p, s)
        /\ w[1].kind = "init" => h \in Made(q, o)
    BY <1>2 DEF Sent
  <2>3. h # None
    BY <2>2, NamesAssumption DEF Made
  <2>4. z[n].kind \in Counted
    BY <1>6, <2>1, <2>3 DEF Sent
  <2>5. z[n].kind # w[1].kind
    BY <1>2, <1>4, <1>5, <1>6 DEF Once
  <2>6. /\ z[n].kind = "result" => h \in Made(p, s)
        /\ z[n].kind = "init" => h \in Made(q, o)
    BY <1>6, <2>1 DEF Sent
  <2> QED
    BY <1>1, <2>2, <2>4, <2>5, <2>6, MadeApart DEF Counted, Pair
<1> QED
  BY <1>6 DEF z

\* The identity of the other is verified: what it means for the session
LEMMA Verifies ==
    ASSUME NEW p, NEW q, NEW s, NEW o, NEW w, NEW v, NEW l, NEW T, NEW i,
           Handles(p, q, s, o, w, v, l, T, i), NEW key,
           w[1].counter = s.session[i].c_o,
           \/ w[1].kind = "result" /\ s.session[i].status = "responded-e2e"
           \/ w[1].kind = "init" /\ s.session[i].status = "identified-alice",
           key \in Key, key[2] = w[1].counter[1],
           w[1].counter[1][1] = q => key[1][1] = p, key[1][1] = p => key \in o.taken,
           s.session[i].logging = Prefers[w[1].counter[1][1]]
    PROVE  LET t == Activate(s, i, key)
           IN /\ Now(p, q, t, o, Tail(w), v, l, T) /\ Flight(v, t) = Flight(v, s)
              /\ Linkable(t, i) /\ t.session[i].enable_encryption /\ t.online
              /\ t.session[i].status = "active" /\ key \in t.taken
              /\ Base(t.session[i]) = w[1].counter[1]
              /\ w[1].counter[1] \notin Pending(o, Flight(v, s))
<1> DEFINE c == [s EXCEPT !.session[i].c_o = Next1(@)]
           t == Activate(s, i, key)
           h == w[1].counter[1]
           u == Flight(v, s)
<1>1. /\ Pair(p, q) /\ Now(p, q, s, o, w, v, l, T) /\ w # <<>>
      /\ i \in Id /\ InTable(s, i) /\ s.online
  BY DEF Handles
<1>2. Right(p, s) /\ Linkable(s, i) /\ s \in PartyState /\ 1 \in DOMAIN w
      /\ Sent(p, q, s, o, l, w[1])
  BY HandlesIs
<1>3. Counts(s, c, i)
  BY <1>1, <1>2, NextCounted
<1> HIDE DEF c
<1>4. Base(s.session[i]) = h
  BY <1>1, <1>2 DEF Right
<1>5. Both(p, q, s, o, w, u, l, T) /\ v \in Seq(Stanza) /\ T \in [Half -> Thread \cup {None}]
  BY <1>1 DEF Now
<1>6. Both(p, q, c, o, Tail(w), u, l, T) /\ Firm(p, c, o, Tail(w), u, l, i)
  <2>1. w[1].kind \in Counted
    BY DEF Counted
  <2>2. s.session[i].status = "identified-alice"
        \/ (s.session[i].status = "responded-e2e" /\ w[1].kind = "result")
    OBVIOUS
  <2> HIDE DEF u
  <2> QED
    BY <1>1, <1>3, <1>5, <2>1, <2>2, Advanced
<1>7. h \notin Pending(o, u)
  <2>1. Unanswered(o, s, u, w)
    BY <1>5 DEF Both, One
  <2> QED
    BY <1>2, <2>1 DEF Unanswered
<1>8. /\ c.session[i].status = s.session[i].status /\ c.session[i].logging = s.session[i].logging
      /\ Base(c.session[i]) = h /\ InTable(c, i)
      /\ c.session[i].c_o[2] = s.session[i].c_o[2] + 1
      /\ c.session[i].thread_id = s.session[i].thread_id
  BY SMTT(30), <1>1, <1>2, <1>3, <1>4, CountsIs
<1>9. c.session[i].c_o[2] >= 1
  BY SMTT(30), <1>1, <1>2, <1>8, CountersAre
<1>10. Agreed(p, q, c, o, Tail(w), u, i, key)
  <2>1. \A n \in DOMAIN Tail(w) : Tail(w)[n].counter[1] = h => Tail(w)[n].kind = "encrypted"
    BY Rest
  <2> HIDE DEF h, u
  <2> QED
    BY <1>7, <1>8, <1>9, <2>1 DEF Agreed, h
<1>11. Activates(c, t, i, key)
  BY <1>1, <1>2, <1>3, ActivateIs
<1> HIDE DEF t
<1>12. Both(p, q, t, o, Tail(w), u, l, T)
  BY <1>1, <1>6, <1>8, <1>10, <1>11, Activated
<1>13. t.out = s.out /\ t.online = s.online
  BY <1>3, <1>11 DEF Counts, Activates
<1>14. /\ t.session[i].thread_id = s.session[i].thread_id /\ t.session[i].enable_encryption
       /\ t.session[i].status = "active" /\ key \in t.taken /\ Base(t.session[i]) = h
  BY <1>8, <1>11 DEF Activates, Base
<1>15. Flight(v, t) = Flight(v, s)
  BY <1>13 DEF Flight, Transmitted
<1>16. Now(p, q, t, o, Tail(w), v, l, T)
  BY <1>5, <1>12, <1>15 DEF Now
<1>17. Linkable(t, i)
  BY <1>2, <1>14 DEF Linkable
<1> QED
  BY <1>1, <1>7, <1>13, <1>14, <1>15, <1>16, <1>17 DEF t

LEMMA ResultHandled ==
    ASSUME NEW p, NEW q, NEW s, NEW o, NEW w, NEW v, NEW l, NEW T, NEW i,
           Handles(p, q, s, o, w, v, l, T, i), w[1].kind = "result",
           s.session[i].status = "responded-e2e"
    PROVE  Now(p, q, AcceptE2EBob(s, i, w[1]), o, Tail(w), v, l, T)
<1> DEFINE key == <<w[1].key[1], s.session[i].y>>
           h == w[1].counter[1]
           u == Flight(v, s)
           t == Activate(s, i, key)
<1>1. Pair(p, q) /\ Now(p, q, s, o, w, v, l, T) /\ i \in Id /\ s.online
  BY DEF Handles
<1>2. Sent(p, q, s, o, l, w[1]) /\ Right(p, s) /\ w[1] \in Stanza
  BY HandlesIs
<1>3. /\ Local(p, q, s, o) /\ Local(q, p, o, s) /\ Under(q, p, o, s, l, u)
  BY <1>1 DEF Now, Both, One
<1>4. CASE ~(w[1].key[1] = s.session[i].he /\ Verified(s, i, w[1], key))
  BY <1>4, FailHandled DEF AcceptE2EBob
<1>5. CASE w[1].key[1] = s.session[i].he /\ Verified(s, i, w[1], key)
  <2>1. w[1].key = key /\ w[1].counter = s.session[i].c_o
    BY <1>5 DEF Verified
  <2>2. h = Base(s.session[i])
    BY <1>1, <1>2, <2>1 DEF Right
  <2>3. /\ s.session[i].y = h /\ h \in Made(p, s) /\ s.session[i].he[1] = q
        /\ s.session[i].logging = Prefers[p] /\ h \notin Done(s)
    BY <1>1, <1>3, <2>2 DEF Local, Kept, Responded
  <2>4. key \in Key /\ key[2] = h /\ key[1][1] = q /\ h[1] = p /\ p # q
    BY <1>1, <1>2, <1>5, <2>1, <2>3 DEF Sent, Made, Pair
  <2> HIDE DEF key, u
  <2>5. /\ Now(p, q, t, o, Tail(w), v, l, T) /\ Flight(v, t) = Flight(v, s)
        /\ Linkable(t, i) /\ t.session[i].enable_encryption /\ t.online
        /\ t.session[i].status = "active" /\ key \in t.taken
        /\ Base(t.session[i]) = w[1].counter[1]
        /\ w[1].counter[1] \notin Pending(o, Flight(v, s))
    <3>1. \/ w[1].kind = "result" /\ s.session[i].status = "responded-e2e"
          \/ w[1].kind = "init" /\ s.session[i].status = "identified-alice"
      OBVIOUS
    <3>2. /\ w[1].counter[1][1] = q => key[1][1] = p
          /\ key[1][1] = p => key \in o.taken
          /\ s.session[i].logging = Prefers[w[1].counter[1][1]]
      BY <2>3, <2>4
    <3> QED
      BY <2>1, <2>4, <3>1, <3>2, Verifies
  <2> HIDE DEF t
  <2>6. ASSUME NEW n \in DOMAIN u, u[n].kind = "init" PROVE u[n].counter[1] # h
    BY <1>3, <2>3, <2>6 DEF Under, Sent, Done
  <2>7. ASSUME NEW j \in Id, Base(o.session[j]) = h, o.session[j].status = "active"
        PROVE  FALSE
    <3>1. /\ o.session[j].km_s \in o.taken /\ o.session[j].km_s[2] = h
          /\ o.session[j].km_s[1][1] = q
      BY <1>3, <2>4, <2>7 DEF Local, Kept, Active
    <3>2. o.session[j].km_s \in s.taken
      BY <1>3, <3>1 DEF Local, Taken
    <3> QED
      BY <2>3, <3>1, <3>2 DEF Done
  <2>8. Continues(q, t, o, Flight(v, t), Tail(w), i, "init", key)
    <3>1. h[1] # q
      BY <2>4
    <3> HIDE DEF h
    <3>2. h = w[1].counter[1]
      BY DEF h
    <3> QED
      BY <2>4, <2>5, <2>6, <2>7, <3>1, <3>2 DEF Continues, u
  <2>9. Now(p, q, SendEncrypted(t, i, "init", key), o, Tail(w), v, l, T)
    BY <1>1, <2>4, <2>5, <2>8, NowContinues
  <2> QED
    BY <1>5, <2>9 DEF AcceptE2EBob, key, t
<1> QED
  BY <1>4, <1>5

LEMMA InitHandled ==
    ASSUME NEW p, NEW q, NEW s, NEW o, NEW w, NEW v, NEW l, NEW T, NEW i,
           Handles(p, q, s, o, w, v, l, T, i), w[1].kind = "init",
           s.session[i].status = "identified-alice"
    PROVE  Now(p, q, FinalStepsAlice(s, i, w[1]), o, Tail(w), v, l, T)
<1> DEFINE key == s.session[i].km_s
           h == w[1].counter[1]
<1>1. Pair(p, q) /\ Now(p, q, s, o, w, v, l, T) /\ i \in Id /\ s.online
  BY DEF Handles
<1>2. Sent(p, q, s, o, l, w[1]) /\ Right(p, s)
  BY HandlesIs
<1>3. Local(p, q, s, o)
  BY <1>1 DEF Now, Both, One
<1>4. CASE ~Verified(s, i, w[1], key)
  BY <1>4, FailHandled DEF FinalStepsAlice
<1>5. CASE Verified(s, i, w[1], key)
  <2>1. w[1].key = key /\ w[1].counter = s.session[i].c_o
    BY <1>5 DEF Verified
  <2>2. h = Base(s.session[i])
    BY <1>1, <1>2, <2>1 DEF Right
  <2>3. /\ key \in Key /\ key[2] = h /\ key[1][1] = p
        /\ s.session[i].logging = Prefers[q] /\ h \in Made(q, o)
    BY <1>1, <1>3, <2>2 DEF Local, Kept, Identified
  <2>4. key \in o.taken /\ h[1] = q
    BY <1>2, <2>1, <2>3 DEF Sent, Made
  <2> HIDE DEF key
  <2>5. Now(p, q, Activate(s, i, key), o, Tail(w), v, l, T)
    <3>1. \/ w[1].kind = "result" /\ s.session[i].status = "responded-e2e"
          \/ w[1].kind = "init" /\ s.session[i].status = "identified-alice"
      OBVIOUS
    <3>2. /\ w[1].counter[1][1] = q => key[1][1] = p
          /\ key[1][1] = p => key \in o.taken
          /\ s.session[i].logging = Prefers[w[1].counter[1][1]]
      BY <2>3, <2>4
    <3> QED
      BY SMTT(30), <2>1, <2>3, <3>1, <3>2, Verifies
  <2> QED
    BY <1>5, <2>5 DEF FinalStepsAlice, key
<1> QED
  BY <1>4, <1>5

\* A termination that is taken for an answer
LEMMA MisreadHandled ==
    ASSUME NEW p, NEW q, NEW s, NEW o, NEW w, NEW v, NEW l, NEW T, NEW i,
           Handles(p, q, s, o, w, v, l, T, i), w[1].kind = "terminate"
    PROVE  Now(p, q, [s EXCEPT !.rough = TRUE], o, Tail(w), v, l, T)
<1>1. /\ Pair(p, q) /\ Now(p, q, s, o, w, v, l, T) /\ w # <<>>
  BY DEF Handles
<1>2. Right(p, s) /\ Linkable(s, i) /\ p \in Party
  BY HandlesIs
<1>3. Needless(s, w[1])
  BY <1>1, UncountedNeedless DEF Counted
<1>4. Quiet(p, s, [s EXCEPT !.rough = TRUE])
  BY <1>2, RoughTame DEF Tame
<1> QED
  BY <1>1, <1>3, <1>4, DroppedQuiet

LEMMA NegotiationHandled ==
    ASSUME NEW p, NEW q, NEW s, NEW o, NEW w, NEW v, NEW l, NEW T, NEW i,
           Handles(p, q, s, o, w, v, l, T, i),
           w[1].kind \notin {"chat", "error", "encrypted"}
    PROVE  \E T2 : Now(p, q, HandleNegotiation(p, s, i, w[1]), o, Tail(w), v, l, T2)
<1> DEFINE t == HandleNegotiation(p, s, i, w[1])
           status == s.session[i].status
<1>1. w[1] \in Stanza /\ s \in PartyState
  BY HandlesIs
<1>2. w[1].kind \in {"form", "submit", "result", "init", "cancel", "terminate"}
  BY <1>1 DEF Handles, Stanza
<1>3. CASE w[1].kind = "cancel"
  <2>1. t = CancelledNegotiation(s, i)
    BY <1>3 DEF HandleNegotiation
  <2> QED
    BY <1>3, <2>1, CancelHandled
<1>4. CASE w[1].kind = "form"
  <2> DEFINE b == s.rough \/ status # None
  <2>1. t = RespondE2EBob(p, [s EXCEPT !.rough = b], i, w[1])
    BY <1>4 DEF HandleNegotiation
  <2>2. b \in BOOLEAN
    BY <1>1 DEF PartyState
  <2> HIDE DEF b
  <2> QED
    BY <1>4, <2>1, <2>2, FormHandled
<1>5. CASE w[1].kind = "submit" /\ status = "requested-e2e"
  <2>1. t \in {AcceptE2EAlice(s, i, w[1]),
               [s EXCEPT !.dialogs = @ \cup {[session |-> i, form |-> w[1]]}]}
    BY <1>5 DEF HandleNegotiation
  <2>2. /\ Now(p, q, AcceptE2EAlice(s, i, w[1]), o, Tail(w), v, l, T)
        /\ Now(p, q, [s EXCEPT !.dialogs = @ \cup {[session |-> i, form |-> w[1]]}], o,
                  Tail(w), v, l, T)
    BY <1>5, SubmitHandled
  <2> QED
    BY <2>1, <2>2
<1>6. CASE w[1].kind = "result" /\ status = "responded-e2e"
  <2>1. t = AcceptE2EBob(s, i, w[1])
    BY <1>6 DEF HandleNegotiation
  <2> QED
    BY <1>6, <2>1, ResultHandled
<1>7. CASE w[1].kind = "init" /\ status = "identified-alice"
  <2>1. t = FinalStepsAlice(s, i, w[1])
    BY <1>7 DEF HandleNegotiation
  <2> QED
    BY <1>7, <2>1, InitHandled
<1>8. CASE w[1].kind = "terminate" /\ status # "requested-e2e"
  <2> DEFINE b == s.rough \/ status \in Waiting
  <2>1. t = DeleteSession(AcknowledgeTermination([s EXCEPT !.rough = b], i), i)
    BY <1>8 DEF HandleNegotiation
  <2>2. b \in BOOLEAN
    BY <1>1 DEF PartyState
  <2> HIDE DEF b
  <2> QED
    BY <1>8, <2>1, <2>2, TerminateHandled
<1>9. CASE \/ w[1].kind = "submit" /\ status # "requested-e2e"
           \/ w[1].kind = "result" /\ status # "responded-e2e"
           \/ w[1].kind = "init" /\ status # "identified-alice"
  <2>1. t = s
    BY <1>9 DEF HandleNegotiation
  <2> QED
    BY <1>9, <2>1, OtherHandled
<1>10. CASE w[1].kind = "terminate" /\ status = "requested-e2e"
  <2>1. t = [s EXCEPT !.rough = TRUE]
    BY <1>10 DEF HandleNegotiation
  <2> QED
    BY <1>10, <2>1, MisreadHandled
<1> QED
  BY <1>2, <1>3, <1>4, <1>5, <1>6, <1>7, <1>8, <1>9, <1>10

\* Who sent it has been heard of
LEMMA HeardTame ==
    ASSUME NEW p \in Party, NEW s, Right(p, s), NEW i, Linkable(s, i)
    PROVE  Tame(p, s, [s EXCEPT !.session[i].received_thread_id = TRUE,
                                !.session[i].last_receive = TRUE], i)
<1> DEFINE a == s.session[i]
           x == [a EXCEPT !.received_thread_id = TRUE, !.last_receive = TRUE]
           t == [s EXCEPT !.session[i].received_thread_id = TRUE,
                          !.session[i].last_receive = TRUE]
<1>1. s \in PartyState /\ i \in Id /\ a \in Session
  BY DEF Right, Linkable, PartyState
<1>2. x \in Session
  BY <1>1 DEF Session
<1>3. t = [s EXCEPT !.session = [s.session EXCEPT ![i] = x]]
  BY <1>1 DEF PartyState
<1>4. Fades(p, s, a, x)
  BY <1>1 DEF Fades, Same, Base, Session, Right
<1> HIDE DEF t, x
<1>5. t \in PartyState /\ Edits(s, t, i, x)
  BY <1>1, <1>2, <1>3 DEF PartyState, Edits
<1>6. Tame(p, s, t, i)
  BY <1>1, <1>2, <1>4, <1>5, EditedTame
<1> QED
  BY <1>6 DEF t

\* t is s with a session for the thread th
Knows(p, s, t, th) ==
    /\ Quiet(p, s, t) /\ Linkable(t, t.table[th]) /\ t.session[t.table[th]].thread_id = th

LEMMA NewSessionKnows ==
    ASSUME NEW p \in Party, NEW s, Right(p, s), Free(s) # {}, NEW th \in Thread
    PROVE  Knows(p, s, NewSession(s, th, TRUE, FALSE), th)
<1>1. LET t == NewSession(s, th, TRUE, FALSE)
          i == t.table[th]
      IN /\ Quiet(p, s, t) /\ Linkable(t, i) /\ t.session[i].thread_id = th
         /\ t.chat = s.chat
  BY NewSessionIs
<1> QED
  BY <1>1, Zenon DEF Knows

\* What becomes of the stanza e for the session i
Dealt(p, s, i, e, popup, t) ==
    \/ e.kind \in {"chat", "error"} /\ t \in {Received(s, i, popup), s}
    \/ /\ e.kind = "encrypted" /\ Decrypts(p, s, i, e)
       /\ t = Received([s EXCEPT !.session[i].c_o = Next1(@)], i, popup)
    \/ /\ e.kind = "encrypted" /\ ~Decrypts(p, s, i, e)
       /\ t = FailedDecrypt(p, s, i)
    \/ /\ e.kind \notin {"chat", "error", "encrypted"}
       /\ t = HandleNegotiation(p, s, i, e)

\* _messageCB finds or makes the session first
LEMMA MessageIs ==
    ASSUME NEW p, NEW q, Pair(p, q), NEW s, NEW o, NEW w, NEW v, NEW l, NEW T,
           Now(p, q, s, o, w, v, l, T), s.online, w # <<>>, w[1].kind # "unavailable",
           s.table[w[1].thread] = None => Free(s) # {}, NEW popup \in BOOLEAN
    PROVE  \E heard, i : /\ Quiet(p, s, heard) /\ Handles(p, q, heard, o, w, v, l, T, i)
                         /\ Dealt(p, heard, i, w[1], popup, Message(p, s, w[1], popup))
<1> DEFINE th == w[1].thread
           known == IF s.table[th] # None THEN s ELSE NewSession(s, th, TRUE, FALSE)
           i == known.table[th]
           heard == [known EXCEPT !.session[i].received_thread_id = TRUE,
                                  !.session[i].last_receive = TRUE]
           t == Message(p, s, w[1], popup)
<1>1. Right(p, s) /\ s \in PartyState /\ w \in Seq(Stanza) /\ p \in Party
  BY NowIs DEF Pair
<1>2. 1 \in DOMAIN w /\ w[1] \in Stanza
  BY <1>1, TailIs
<1>3. th \in Thread
  <2>1. Sent(p, q, s, o, l, w[1])
    BY <1>2 DEF Now, Both, One, Under
  <2> QED
    BY <1>2, <2>1 DEF Sent, Stanza
<1> HIDE DEF th
<1>4. Quiet(p, s, known) /\ Linkable(known, i) /\ known.session[i].thread_id = th
  <2>1. CASE s.table[th] # None
    <3>1. Quiet(p, s, s)
      BY <1>1, QuietSelf
    <3>2. s.table[th] \in Id /\ s.session[s.table[th]].thread_id = th
      BY <1>1, <1>3, <2>1 DEF Right, Linked, PartyState
    <3>3. th # None
      BY <1>3, NamesAssumption
    <3> QED
      BY <2>1, <3>1, <3>2, <3>3 DEF Linkable
  <2>2. CASE s.table[th] = None
    <3>1. Free(s) # {}
      BY <2>2 DEF th
    <3>2. known = NewSession(s, th, TRUE, FALSE)
      BY <2>2
    <3>3. Knows(p, s, NewSession(s, th, TRUE, FALSE), th)
      BY <1>1, <1>3, <3>1, NewSessionKnows
    <3>4. Knows(p, s, known, th)
      BY <3>2, <3>3
    <3> HIDE DEF known
    <3> QED
      BY <3>4 DEF Knows
  <2> HIDE DEF known, i
  <2> QED
    BY <2>1, <2>2
<1> HIDE DEF known
<1>5. Right(p, known)
  BY <1>1, <1>4, QuietRight
<1>6. Tame(p, known, heard, i)
  BY <1>1, <1>4, <1>5, HeardTame
<1>7. heard.table = known.table
  BY <1>6 DEF Tame
<1>8. i \in Id /\ heard.session[i].thread_id = th /\ InTable(heard, i)
  BY <1>3, <1>4, <1>6, <1>7, NamesAssumption DEF Tame, Linkable, InTable
<1>9. t = CASE w[1].kind = "chat" -> Received(heard, i, popup)
            [] w[1].kind = "error" ->
                 IF s.chat = Closed THEN Received(heard, i, popup) ELSE heard
            [] w[1].kind = "encrypted" /\ Decrypts(p, heard, i, w[1]) ->
                 Received([heard EXCEPT !.session[i].c_o = Next1(@)], i, popup)
            [] w[1].kind = "encrypted" /\ ~Decrypts(p, heard, i, w[1]) ->
                 FailedDecrypt(p, heard, i)
            [] OTHER -> HandleNegotiation(p, heard, i, w[1])
  BY DEF Message, known, th
<1> HIDE DEF heard, i
<1> HIDE DEF t
<1>9a. Dealt(p, heard, i, w[1], popup, t)
  BY <1>9 DEF Dealt
<1>10. Now(p, q, known, o, w, v, l, T)
  BY <1>4, NowQuiet
<1>11. Now(p, q, heard, o, w, v, l, T)
  BY <1>6, <1>10, NowQuiet DEF Tame
<1>12. heard.online
  BY <1>4, <1>6 DEF Quiet, Tame
<1>13. Handles(p, q, heard, o, w, v, l, T, i)
  BY <1>8, <1>11, <1>12 DEF Handles, th
<1>14. Quiet(p, s, heard)
  BY <1>1, <1>4, <1>6, QuietTransitive DEF Tame
<1> QED
  BY <1>9a, <1>13, <1>14 DEF t

LEMMA MessageHandled ==
    ASSUME NEW p, NEW q, Pair(p, q), NEW s, NEW o, NEW w, NEW v, NEW l, NEW T,
           Now(p, q, s, o, w, v, l, T), s.online, w # <<>>, w[1].kind # "unavailable",
           s.table[w[1].thread] = None => Free(s) # {}, NEW popup \in BOOLEAN
    PROVE  \E T2 : Now(p, q, Message(p, s, w[1], popup), o, Tail(w), v, l, T2)
<1> DEFINE t == Message(p, s, w[1], popup)
           Handled(u) == \E T2 : Now(p, q, u, o, Tail(w), v, l, T2)
<1>1. PICK heard, i : /\ Handles(p, q, heard, o, w, v, l, T, i)
                      /\ Dealt(p, heard, i, w[1], popup, t)
  BY MessageIs
<1> HIDE DEF t
<1>2. ASSUME w[1].kind \in {"chat", "error"}
      PROVE  Handled(Received(heard, i, popup)) /\ Handled(heard)
  BY <1>1, <1>2, ChatHandled
<1>3. ASSUME w[1].kind = "encrypted", Decrypts(p, heard, i, w[1])
      PROVE  Handled(Received([heard EXCEPT !.session[i].c_o = Next1(@)], i, popup))
  BY <1>1, <1>3, DecryptedHandled
<1>4. ASSUME w[1].kind = "encrypted"
      PROVE  Handled(FailedDecrypt(p, heard, i))
  BY <1>1, <1>4, UndecryptedHandled
<1>5. ASSUME w[1].kind \notin {"chat", "error", "encrypted"}
      PROVE  Handled(HandleNegotiation(p, heard, i, w[1]))
  BY <1>1, <1>5, NegotiationHandled
<1> HIDE DEF Handled
<1>6. Handled(t)
  BY <1>1, <1>2, <1>3, <1>4, <1>5 DEF Dealt
<1> QED
  BY <1>6 DEF Handled, t

\* The contact is unavailable
LEMMA UnavailableHandled ==
    ASSUME NEW p, NEW q, Pair(p, q), NEW s, NEW o, NEW w, NEW v, NEW l, NEW T,
           Now(p, q, s, o, w, v, l, T), w # <<>>, w[1].kind = "unavailable"
    PROVE  Now(p, q, Unavailable(s), o, Tail(w), v, l, T)
<1> DEFINE t == Unavailable(s)
<1>1. Right(p, s) /\ p \in Party
  BY NowIs DEF Pair
<1>2. Quiet(p, s, t) /\ \A j \in Id : InTable(t, j) => Bared(t.session[j])
  BY <1>1, UnavailableIs
<1> HIDE DEF t
<1>3. Now(p, q, t, o, w, v, l, T)
  BY <1>2, NowQuiet
<1>4. Needless(t, w[1])
  BY <1>2, <1>3, UncountedNeedless DEF Counted
<1> QED
  BY <1>3, <1>4, NowDropped DEF t

\* At the end of a step, what nothing refers to is gone, and what was sent is
\* under way
LEMMA Finished ==
    ASSUME NEW p, NEW q, Pair(p, q), NEW s, NEW o, NEW w, NEW v, NEW l, NEW T,
           Now(p, q, s, o, w, v, l, T)
    PROVE  Both(p, q, AtEnd(s), o, w, Flight(v, s), l, T)
<1> DEFINE c == Collect(s)
           t == [c EXCEPT !.out = <<>>]
<1>1. Right(p, s) /\ p \in Party
  BY NowIs DEF Pair
<1>2. Quiet(p, s, c)
  BY <1>1, CollectQuiet
<1>3. c.online = s.online /\ c.out = s.out
  BY DEF Collect
<1> HIDE DEF c
<1>4. Now(p, q, c, o, w, v, l, T)
  BY <1>2, NowQuiet
<1>5. Flight(v, c) = Flight(v, s)
  BY <1>3 DEF Flight, Transmitted
<1>6. Both(p, q, c, o, w, Flight(v, s), l, T)
  BY <1>4, <1>5 DEF Now
<1>7. c \in PartyState /\ <<>> \in Seq(Stanza)
  BY <1>2 DEF Quiet
<1>8. /\ t \in PartyState /\ t.session = c.session /\ t.table = c.table /\ t.chat = c.chat
      /\ t.queue = c.queue /\ t.dialogs = c.dialogs /\ t.halves = c.halves
      /\ t.taken = c.taken /\ t.online = c.online
  BY <1>7 DEF PartyState
<1> HIDE DEF t
<1>9. Noticed(o, c, Flight(v, s), l) /\ (~c.online => p \in l)
  BY <1>6 DEF Both, One
<1>10. Noticed(o, t, Flight(v, s), l) /\ (~t.online => p \in l)
  BY <1>8, <1>9 DEF Noticed
<1>11. Both(p, q, t, o, w, Flight(v, s), l, T)
  BY <1>6, <1>8, <1>10, Switched
<1> QED
  BY <1>11 DEF t, c, AtEnd

-----------------------------------------------------------------------------
(* The inductive invariant: there is a thread for each half, and all that  *)
(* is said of one party and the other one holds of both.                   *)

Typed ==
    /\ at \in [Party -> PartyState] /\ net \in [Party -> Seq(Stanza)]
    /\ acts \in 0 .. MaxActs /\ lost \subseteq Party
    /\ \A p \in Party : at[p].out = <<>>

Threads == [Half -> Thread \cup {None}]

Peers(p, T) == Both(p, Other(p), at[p], at[Other(p)], net[p], net[Other(p)], lost, T)

IInv == Typed /\ \E T \in Threads : \A p \in Party : Peers(p, T)

LEMMA BothSwaps ==
    ASSUME NEW p, NEW q, NEW s, NEW o, NEW w, NEW v, NEW l, NEW T,
           Both(p, q, s, o, w, v, l, T)
    PROVE  Both(q, p, o, s, v, w, l, T)
BY DEF Both

\* It is enough to look at one of the two
LEMMA Enough ==
    ASSUME NEW p \in Party, Typed, NEW T \in Threads, Peers(p, T)
    PROVE  IInv
<1>1. /\ Other(p) \in Party /\ Other(p) # p /\ Other(Other(p)) = p
      /\ Party = {p, Other(p)}
  BY Two
<1>2. Peers(Other(p), T)
  BY <1>1, BothSwaps DEF Peers
<1>3. \A r \in Party : Peers(r, T)
  BY <1>1, <1>2
<1> QED
  BY <1>3 DEF IInv

\* A step of p that leaves the two in a state that is right
LEMMA Stepped ==
    ASSUME Typed, NEW p \in Party, NEW t \in PartyState, t.out = <<>>,
           at' = [at EXCEPT ![p] = t], acts' \in 0 .. MaxActs, lost' \subseteq Party,
           NEW z, NEW u, net' \in [Party -> Seq(Stanza)], net'[p] = z, net'[Other(p)] = u,
           NEW T \in Threads, Both(p, Other(p), t, at[Other(p)], z, u, lost', T)
    PROVE  IInv'
<1>1. Other(p) \in Party /\ Other(p) # p /\ Other(Other(p)) = p /\ Party = {p, Other(p)}
  BY Two
<1>2. at'[p] = t /\ at'[Other(p)] = at[Other(p)] /\ at' \in [Party -> PartyState]
  BY <1>1 DEF Typed
<1>3. \A r \in Party : at'[r].out = <<>>
  BY <1>1, <1>2 DEF Typed
<1>4. Typed'
  BY <1>2, <1>3 DEF Typed
<1>5. Both(p, Other(p), at'[p], at'[Other(p)], net'[p], net'[Other(p)], lost', T)
  BY <1>2
<1>6. Both(Other(p), p, at'[Other(p)], at'[p], net'[Other(p)], net'[p], lost', T)
  BY <1>5, BothSwaps
<1>7. \A r \in Party :
         Both(r, Other(r), at'[r], at'[Other(r)], net'[r], net'[Other(r)], lost', T)
  BY <1>1, <1>5, <1>6
<1> QED
  BY <1>4, <1>7 DEF IInv, Peers, Threads

LEMMA NowStarts ==
    ASSUME IInv, NEW p \in Party
    PROVE  /\ Pair(p, Other(p)) /\ Typed
           /\ \E T : Now(p, Other(p), at[p], at[Other(p)], net[p], net[Other(p)], lost, T)
<1>1. Other(p) \in Party /\ Other(p) # p
  BY Two
<1>2. PICK T \in Threads : Peers(p, T)
  BY DEF IInv
<1>3. net[Other(p)] \in Seq(Stanza) /\ at[p].out = <<>> /\ Typed
  BY <1>1 DEF IInv, Typed
<1>4. Flight(net[Other(p)], at[p]) = net[Other(p)]
  <2>1. Transmitted(at[p]) = <<>>
    BY <1>3 DEF Transmitted
  <2>2. net[Other(p)] \o <<>> = net[Other(p)]
    BY <1>3
  <2> QED
    BY <2>1, <2>2 DEF Flight
<1>5. Now(p, Other(p), at[p], at[Other(p)], net[p], net[Other(p)], lost, T)
  BY <1>2, <1>3, <1>4 DEF Now, Peers, Threads
<1> QED
  BY <1>1, <1>3, <1>5 DEF Pair

\* What is left at the end of a step
LEMMA AtEndIs ==
    ASSUME NEW p \in Party, NEW s, Right(p, s)
    PROVE  AtEnd(s) \in PartyState /\ AtEnd(s).out = <<>> /\ AtEnd(s).online = s.online
<1> DEFINE c == Collect(s)
<1>1. c \in PartyState /\ <<>> \in Seq(Stanza)
  BY CollectQuiet DEF Quiet
<1>2. c.online = s.online
  BY CollectQuiet DEF Quiet
<1> HIDE DEF c
<1>3. /\ [c EXCEPT !.out = <<>>] \in PartyState /\ [c EXCEPT !.out = <<>>].out = <<>>
      /\ [c EXCEPT !.out = <<>>].online = c.online
  BY <1>1 DEF PartyState
<1> QED
  BY <1>2, <1>3 DEF AtEnd, c

LEMMA Became ==
    ASSUME Typed, NEW p \in Party, NEW s, NEW w, NEW T,
           Now(p, Other(p), s, at[Other(p)], w, net[Other(p)], lost, T),
           at' = [at EXCEPT ![p] = AtEnd(s)], acts' \in 0 .. MaxActs, lost' = lost,
           net' \in [Party -> Seq(Stanza)], net'[p] = w,
           net'[Other(p)] = net[Other(p)] \o Transmitted(s)
    PROVE  IInv'
<1> DEFINE q == Other(p)
           u == Flight(net[q], s)
<1>1. Pair(p, q)
  BY Two DEF Pair
<1>2. Right(p, s)
  BY <1>1, NowIs
<1>3. AtEnd(s) \in PartyState /\ AtEnd(s).out = <<>>
  BY <1>2, AtEndIs
<1>4. Both(p, q, AtEnd(s), at[q], w, u, lost, T)
  BY <1>1, Finished
<1>5. T \in Threads
  BY DEF Now, Threads
<1>6. net'[q] = u /\ lost' \subseteq Party
  BY DEF Flight, Typed
<1> QED
  BY <1>3, <1>4, <1>5, <1>6, Stepped

\* The steps in which nothing is received
LEMMA BecomesKeeps ==
    ASSUME Typed, NEW p \in Party, NEW s, NEW T,
           Now(p, Other(p), s, at[Other(p)], net[p], net[Other(p)], lost, T),
           Becomes(p, s), acts' \in 0 .. MaxActs, lost' = lost
    PROVE  IInv'
<1>1. Other(p) \in Party /\ Other(p) # p
  BY Two
<1>2. net \in [Party -> Seq(Stanza)]
  BY DEF Typed
<1>3. s.out \in Seq(Stanza)
  BY <1>1, NowIs DEF Pair
<1>4. Transmitted(s) \in Seq(Stanza)
  BY <1>3 DEF Transmitted
<1>5. net[Other(p)] \o Transmitted(s) \in Seq(Stanza)
  BY <1>1, <1>2, <1>4
<1>6. /\ net' \in [Party -> Seq(Stanza)] /\ net'[p] = net[p]
      /\ net'[Other(p)] = net[Other(p)] \o Transmitted(s)
  BY <1>1, <1>2, <1>5 DEF Becomes
<1> QED
  BY <1>6, Became DEF Becomes

LEMMA ActIs ==
    ASSUME Typed, Act
    PROVE  acts' \in 0 .. MaxActs
BY Bounds DEF Typed, Act

-----------------------------------------------------------------------------
(* What becomes active takes a key that was not taken before.              *)

Fresh(s, t) ==
    \A i \in Id : t.session[i].status = "active" /\ s.session[i].status # "active"
                  => t.session[i].km_s \notin s.taken

\* Nothing becomes active
Steady(s, t) ==
    /\ t.taken = s.taken
    /\ \A i \in Id : t.session[i].status = "active" =>
          s.session[i].status = "active" /\ t.session[i].km_s = s.session[i].km_s

LEMMA SteadyFresh ==
    ASSUME NEW s, NEW t, NEW u
    PROVE  /\ Steady(s, t) => Fresh(s, t)
           /\ Steady(s, t) /\ Steady(t, u) => Steady(s, u)
           /\ Steady(s, t) /\ Fresh(t, u) => Fresh(s, u)
           /\ Fresh(s, t) /\ Steady(t, u) => Fresh(s, u)
BY DEF Steady, Fresh

LEMMA QuietSteady ==
    ASSUME NEW p, NEW s, NEW t, Quiet(p, s, t)
    PROVE  Steady(s, t)
<1>1. ASSUME NEW i \in Id, t.session[i].status = "active"
      PROVE  s.session[i].status = "active" /\ t.session[i].km_s = s.session[i].km_s
  BY <1>1 DEF Quiet, Calm, Calmed, Same, Streaming
<1> QED
  BY <1>1 DEF Steady, Quiet, Calm

LEMMA SentSteady ==
    ASSUME NEW s \in PartyState, NEW i \in Id, Linkable(s, i),
           NEW kind \in {"result", "init", "encrypted"}, NEW key \in Key \cup {None}
    PROVE  Steady(s, SendEncrypted(s, i, kind, key))
<1> DEFINE t == SendEncrypted(s, i, kind, key)
<1>1. SendsCounted(s, t, i, kind, key)
  BY SendEncryptedIs
<1>2. s.session[i] \in Session
  BY DEF PartyState
<1> HIDE DEF t
<1>3. t.session[i].status = s.session[i].status /\ t.session[i].km_s = s.session[i].km_s
  BY <1>1, <1>2 DEF SendsCounted, Session
<1>4. Steady(s, t)
  BY <1>1, <1>3 DEF SendsCounted, Steady
<1> QED
  BY <1>4 DEF t

\* One session turns, and is not active then
LEMMA TurnSteady ==
    ASSUME NEW s, NEW t, NEW i, Turns(s, t, i), t.session[i].status # "active"
    PROVE  Steady(s, t)
BY DEF Turns, Steady

LEMMA ActivateFresh ==
    ASSUME NEW p, NEW s, Right(p, s), NEW i, Linkable(s, i), NEW key \in Key,
           key \notin s.taken
    PROVE  /\ Fresh(s, Activate(s, i, key))
           /\ Activate(s, i, key) \in PartyState /\ Linkable(Activate(s, i, key), i)
<1> DEFINE c == [s EXCEPT !.session[i].c_o = Next1(@)]
           t == Activate(s, i, key)
<1>1. i \in Id /\ s \in PartyState
  BY DEF Linkable, Right
<1>2. Counts(s, c, i)
  BY <1>1, NextCounted
<1> HIDE DEF c
<1>3. Activates(c, t, i, key)
  BY <1>1, <1>2, ActivateIs
<1> HIDE DEF t
<1>4. \A j \in Id : /\ c.session[j].status = s.session[j].status
                    /\ c.session[j].thread_id = s.session[j].thread_id
  BY <1>1, <1>2, CountsIs
<1>5. t.session[i].km_s = key /\ t \in PartyState
      /\ t.session[i].thread_id = c.session[i].thread_id
      /\ \A j \in Id : j # i => t.session[j] = c.session[j]
  BY <1>3 DEF Activates
<1>6. Fresh(s, t)
  BY <1>4, <1>5 DEF Fresh
<1>7. Linkable(t, i)
  BY <1>1, <1>4, <1>5 DEF Linkable
<1> QED
  BY <1>5, <1>6, <1>7 DEF t

LEMMA NegotiationFresh ==
    ASSUME NEW p, NEW q, NEW s, NEW o, NEW w, NEW v, NEW l, NEW T, NEW i,
           Handles(p, q, s, o, w, v, l, T, i)
    PROVE  Fresh(s, HandleNegotiation(p, s, i, w[1]))
<1> DEFINE status == s.session[i].status
           t == HandleNegotiation(p, s, i, w[1])
<1>1. /\ Right(p, s) /\ Linkable(s, i) /\ s \in PartyState /\ p \in Party /\ i \in Id
      /\ w[1] \in Stanza /\ Sent(p, q, s, o, l, w[1]) /\ Local(p, q, s, o)
  BY HandlesIs DEF Linkable, Handles, Now, Both, One
<1>2. \A u : Quiet(p, s, u) => Fresh(s, u)
  BY QuietSteady, SteadyFresh
<1>3. CASE w[1].kind = "cancel"
  <2>1. Quiet(p, s, CancelledNegotiation(s, i))
    BY <1>1, CancelledTame DEF Tame
  <2> QED
    BY <1>2, <1>3, <2>1 DEF HandleNegotiation
<1>4. CASE w[1].kind = "form"
  <2> DEFINE b == s.rough \/ status # None
             u == [s EXCEPT !.rough = b]
  <2>1. t = RespondE2EBob(p, u, i, w[1])
    BY <1>4 DEF HandleNegotiation
  <2>2. b \in BOOLEAN
    BY <1>1 DEF PartyState
  <2> HIDE DEF b
  <2>3. Tame(p, s, u, i)
    BY <1>1, <2>2, RoughTame
  <2>4. u \in PartyState /\ Linkable(u, i) /\ w[1].half \in Half
    BY <1>1, <1>4, <2>3 DEF Tame, Quiet, Sent, Made
  <2> HIDE DEF u, t
  <2>5. Turns(u, t, i) /\ t.session[i].status = "responded-e2e"
    BY <1>1, <2>1, <2>4, RespondIs
  <2>6. Steady(u, t) /\ Steady(s, u)
    BY <2>3, <2>5, TurnSteady, QuietSteady DEF Tame
  <2>7. Fresh(s, t)
    BY <2>6, SteadyFresh
  <2> QED
    BY <2>7 DEF t
<1>5. CASE w[1].kind = "submit" /\ status = "requested-e2e"
  <2> DEFINE u == [s EXCEPT !.dialogs = @ \cup {[session |-> i, form |-> w[1]]}]
  <2>1. t \in {AcceptE2EAlice(s, i, w[1]), u}
    BY <1>5 DEF HandleNegotiation
  <2>2. Fresh(s, AcceptE2EAlice(s, i, w[1]))
    <3>1. s.session[i].x \in Half /\ s.session[i].x # None
      BY <1>1, <1>5 DEF Right, Made
    <3>2. w[1].half \in Half /\ w[1].logging \in {"may", "mustnot"}
      BY <1>1, <1>5, ESessionAssumption DEF Sent, Made, Handles, Pair
    <3>3. Accepts(s, AcceptE2EAlice(s, i, w[1]), i, w[1])
      BY <1>1, <3>1, <3>2, AcceptIs
    <3>4. Steady(s, AcceptE2EAlice(s, i, w[1]))
      BY <3>3, TurnSteady DEF Accepts
    <3> QED
      BY <3>4, SteadyFresh
  <2>3. Fresh(s, u)
    BY <1>1 DEF Fresh, PartyState
  <2> QED
    BY <2>1, <2>2, <2>3
<1>6. CASE w[1].kind = "result" /\ status = "responded-e2e"
  <2> DEFINE key == <<w[1].key[1], s.session[i].y>>
  <2>1. t = AcceptE2EBob(s, i, w[1])
    BY <1>6 DEF HandleNegotiation
  <2>2. Fresh(s, FailBadNegotiation(s, i))
    BY <1>1, <1>2, FailTame DEF Tame
  <2>3. key \in Key /\ key \notin s.taken
    <3>1. s.session[i].y \notin Done(s) /\ s.session[i].y \in Half /\ w[1].key \in Key
      BY <1>1, <1>6 DEF Local, Kept, Responded, Sent, Made
    <3> QED
      BY <3>1 DEF Key, Done
  <2> HIDE DEF key
  <2>4. /\ Fresh(s, Activate(s, i, key))
        /\ Activate(s, i, key) \in PartyState /\ Linkable(Activate(s, i, key), i)
    BY <1>1, <2>3, ActivateFresh
  <2>5. Steady(Activate(s, i, key), SendEncrypted(Activate(s, i, key), i, "init", key))
    BY <1>1, <2>3, <2>4, SentSteady
  <2>6. Fresh(s, SendEncrypted(Activate(s, i, key), i, "init", key))
    BY <2>4, <2>5, SteadyFresh
  <2> QED
    BY <2>1, <2>2, <2>6 DEF AcceptE2EBob, key
<1>7. CASE w[1].kind = "init" /\ status = "identified-alice"
  <2> DEFINE key == s.session[i].km_s
  <2>1. t = FinalStepsAlice(s, i, w[1])
    BY <1>7 DEF HandleNegotiation
  <2>2. Fresh(s, FailBadNegotiation(s, i))
    BY <1>1, <1>2, FailTame DEF Tame
  <2>3. key \in Key /\ key \notin s.taken
    BY <1>1, <1>7 DEF Local, Kept, Identified, Done
  <2> HIDE DEF key
  <2>4. Fresh(s, Activate(s, i, key))
    BY <1>1, <2>3, ActivateFresh
  <2> QED
    BY <2>1, <2>2, <2>4 DEF FinalStepsAlice, key
<1>8. CASE w[1].kind = "terminate" /\ status # "requested-e2e"
  <2> DEFINE b == s.rough \/ status \in Waiting
             r == [s EXCEPT !.rough = b]
             a == AcknowledgeTermination(r, i)
  <2>1. t = DeleteSession(a, i)
    BY <1>8 DEF HandleNegotiation
  <2>2. b \in BOOLEAN
    BY <1>1 DEF PartyState
  <2> HIDE DEF b, t
  <2>3. Tame(p, s, r, i)
    BY <1>1, <2>2, RoughTame
  <2> HIDE DEF r
  <2>4. Tame(p, r, a, i)
    BY <1>1, <2>3, AcknowledgeTame DEF Tame
  <2>5. Tame(p, s, a, i)
    BY <1>1, <2>3, <2>4, TameTransitive
  <2> HIDE DEF a
  <2>6. Quiet(p, a, t) /\ Quiet(p, s, a)
    BY <1>1, <2>1, <2>5, DeleteQuiet DEF Tame
  <2>7. Fresh(s, t)
    BY <2>6, QuietSteady, SteadyFresh
  <2> QED
    BY <2>7 DEF t
<1>9. CASE t = s
  BY <1>9 DEF Fresh
<1>10. CASE t = [s EXCEPT !.rough = TRUE]
  BY <1>1, <1>10 DEF Fresh, PartyState
<1> QED
  BY <1>3, <1>4, <1>5, <1>6, <1>7, <1>8, <1>9, <1>10 DEF HandleNegotiation

LEMMA MessageFresh ==
    ASSUME NEW p, NEW q, Pair(p, q), NEW s, NEW o, NEW w, NEW v, NEW l, NEW T,
           Now(p, q, s, o, w, v, l, T), s.online, w # <<>>, w[1].kind # "unavailable",
           s.table[w[1].thread] = None => Free(s) # {}, NEW popup \in BOOLEAN
    PROVE  Fresh(s, Message(p, s, w[1], popup))
<1> DEFINE t == Message(p, s, w[1], popup)
<1>1. PICK heard, i : /\ Quiet(p, s, heard) /\ Handles(p, q, heard, o, w, v, l, T, i)
                      /\ Dealt(p, heard, i, w[1], popup, t)
  BY MessageIs
<1> HIDE DEF t
<1>2. Right(p, heard) /\ Linkable(heard, i) /\ p \in Party /\ i \in Id /\ heard \in PartyState
  BY <1>1, HandlesIs DEF Linkable
<1>3. Steady(s, heard)
  BY <1>1, QuietSteady
<1>4. Fresh(heard, t)
  <2>1. Steady(heard, heard) /\ Fresh(heard, heard)
    BY DEF Steady, Fresh
  <2>2. Fresh(heard, Received(heard, i, popup))
    BY <1>2, ReceivedIs, QuietSteady, SteadyFresh
  <2>3. Fresh(heard, Received([heard EXCEPT !.session[i].c_o = Next1(@)], i, popup))
    <3> DEFINE c == [heard EXCEPT !.session[i].c_o = Next1(@)]
               u == Received(c, i, popup)
    <3>1. Counts(heard, c, i)
      BY <1>2, NextCounted
    <3>2. u.session = c.session
      BY DEF Received
    <3> HIDE DEF c, u
    <3>3. \A j \in Id : c.session[j].status = heard.session[j].status
      BY <1>2, <3>1, CountsIs
    <3>4. Fresh(heard, u)
      BY <3>2, <3>3 DEF Fresh
    <3> QED
      BY <3>4 DEF u, c
  <2>4. Fresh(heard, FailedDecrypt(p, heard, i))
    <3>1. Quiet(p, heard, FailedDecrypt(p, heard, i))
      BY <1>2, FailedDecryptIs
    <3>2. Steady(heard, FailedDecrypt(p, heard, i))
      BY <3>1, QuietSteady
    <3> QED
      BY <2>1, <3>2, SteadyFresh
  <2>5. Fresh(heard, HandleNegotiation(p, heard, i, w[1]))
    BY <1>1, NegotiationFresh
  <2> QED
    BY <1>1, <2>1, <2>2, <2>3, <2>4, <2>5 DEF Dealt
<1>5. Fresh(s, t)
  BY <1>3, <1>4, SteadyFresh
<1> QED
  BY <1>5 DEF t

\* p did a step
Moved(p) == Fresh(at[p], at'[p]) /\ at' = [at EXCEPT ![p] = at'[p]]

LEMMA AtEndSteady ==
    ASSUME NEW p \in Party, NEW s, Right(p, s)
    PROVE  Steady(s, AtEnd(s))
<1> DEFINE c == Collect(s)
<1>1. Quiet(p, s, c) /\ c \in PartyState
  BY CollectQuiet DEF Quiet
<1> HIDE DEF c
<1>2. [c EXCEPT !.out = <<>>].session = c.session /\ [c EXCEPT !.out = <<>>].taken = c.taken
  BY <1>1 DEF PartyState
<1>3. Steady(c, [c EXCEPT !.out = <<>>])
  BY <1>2 DEF Steady
<1>4. Steady(s, [c EXCEPT !.out = <<>>])
  BY <1>1, <1>3, QuietSteady, SteadyFresh
<1> QED
  BY <1>4 DEF c, AtEnd

LEMMA Moves ==
    ASSUME Typed, NEW p \in Party, NEW s, Right(p, s), Fresh(at[p], s),
           at' = [at EXCEPT ![p] = AtEnd(s)]
    PROVE  Moved(p)
<1>1. Fresh(at[p], AtEnd(s))
  BY AtEndSteady, SteadyFresh
<1>2. at'[p] = AtEnd(s)
  BY DEF Typed
<1> QED
  BY <1>1, <1>2 DEF Moved

-----------------------------------------------------------------------------
(* Each action keeps it.                                                   *)

LEMMA ReceiveKeeps ==
    ASSUME IInv, NEW p \in Party, NEW popup \in BOOLEAN, Receive(p, popup)
    PROVE  IInv' /\ Moved(p)
<1> DEFINE q == Other(p)
           e == Head(net[p])
           s == IF e.kind = "unavailable" THEN Unavailable(at[p])
                ELSE Message(p, at[p], e, popup)
<1>1. Pair(p, q) /\ Typed
  BY NowStarts
<1>2. PICK T : Now(p, q, at[p], at[q], net[p], net[q], lost, T)
  BY NowStarts
<1>3. /\ at[p].online /\ net[p] # <<>>
      /\ e.kind # "unavailable" /\ at[p].table[e.thread] = None => Free(at[p]) # {}
      /\ at' = [at EXCEPT ![p] = AtEnd(s)]
      /\ net' = [net EXCEPT ![p] = Tail(@), ![q] = @ \o Transmitted(s)]
      /\ acts' = acts /\ lost' = lost
  BY DEF Receive, MayMake
<1>4. net[p] \in Seq(Stanza) /\ net[q] \in Seq(Stanza) /\ net \in [Party -> Seq(Stanza)]
  BY <1>1 DEF Typed, Pair
<1>5. e = net[p][1] /\ Tail(net[p]) \in Seq(Stanza)
  BY <1>3, <1>4
<1> HIDE DEF q
<1>6. PICK T2 : Now(p, q, s, at[q], Tail(net[p]), net[q], lost, T2)
  <2>1. CASE e.kind = "unavailable"
    <3>1. Now(p, q, Unavailable(at[p]), at[q], Tail(net[p]), net[q], lost, T)
      BY <1>1, <1>2, <1>3, <1>5, <2>1, UnavailableHandled
    <3> QED
      BY <2>1, <3>1
  <2>2. CASE e.kind # "unavailable"
    <3>1. \E T2 : Now(p, q, Message(p, at[p], net[p][1], popup), at[q],
                      Tail(net[p]), net[q], lost, T2)
      <4>1. /\ net[p][1].kind # "unavailable"
            /\ at[p].table[net[p][1].thread] = None => Free(at[p]) # {}
        BY <1>3, <1>5, <2>2
      <4> QED
        BY <1>1, <1>2, <1>3, <4>1, MessageHandled
    <3> QED
      BY <1>5, <2>2, <3>1
  <2> QED
    BY <2>1, <2>2
<1> HIDE DEF s, e
<1>7. Transmitted(s) \in Seq(Stanza)
  BY <1>1, <1>6, NowIs DEF Transmitted
<1>8. /\ net' \in [Party -> Seq(Stanza)] /\ net'[p] = Tail(net[p])
      /\ net'[q] = net[q] \o Transmitted(s)
  <2> DEFINE z == Tail(net[p])
             u == net[q] \o Transmitted(s)
  <2>1. z \in Seq(Stanza) /\ u \in Seq(Stanza)
    BY <1>4, <1>5, <1>7
  <2>2. net' = [net EXCEPT ![p] = z, ![q] = u]
    BY <1>1, <1>3, <1>4 DEF Pair
  <2> HIDE DEF z, u
  <2>3. net' \in [Party -> Seq(Stanza)] /\ net'[p] = z /\ net'[q] = u
    BY <1>1, <1>4, <2>1, <2>2 DEF Pair
  <2> QED
    BY <2>3 DEF z, u
<1>9. acts' \in 0 .. MaxActs
  BY <1>1, <1>3 DEF Typed
<1>10. Fresh(at[p], s)
  <2>1. CASE e.kind = "unavailable"
    <3>1. Quiet(p, at[p], Unavailable(at[p]))
      BY <1>1, <1>2, NowIs, UnavailableIs
    <3> QED
      BY <2>1, <3>1, QuietSteady, SteadyFresh DEF s
  <2>2. CASE e.kind # "unavailable"
    <3>1. /\ net[p][1].kind # "unavailable"
          /\ at[p].table[net[p][1].thread] = None => Free(at[p]) # {}
      BY <1>3, <1>5, <2>2
    <3>2. Fresh(at[p], Message(p, at[p], net[p][1], popup))
      BY <1>1, <1>2, <1>3, <3>1, MessageFresh
    <3> QED
      BY <1>5, <2>2, <3>2 DEF s
  <2> QED
    BY <2>1, <2>2
<1>11. Moved(p)
  BY <1>1, <1>3, <1>6, <1>10, NowIs, Moves
<1> QED
  BY <1>1, <1>3, <1>6, <1>8, <1>9, <1>11, Became DEF q

LEMMA AnswerAccepts ==
    ASSUME NEW p, NEW q, Pair(p, q), NEW s, Right(p, s), NEW o, NEW w, NEW v, NEW l, NEW T,
           NEW i, NEW form, Answerable(p, q, s, o, w, v, l, T, i, form)
    PROVE  Accepts(s, AcceptE2EAlice(s, i, form), i, form)
<1>1. s \in PartyState /\ i \in Id /\ Linkable(s, i)
  BY DEF Right, Answerable, Linkable
<1>2. s.session[i].x \in Half /\ form.half \in Half
  BY <1>1 DEF Right, Answerable, Made
<1>3. form.logging \in {"may", "mustnot"}
  BY ESessionAssumption DEF Pair, Answerable
<1> QED
  BY <1>1, <1>2, <1>3, AcceptIs

\* A dialog leads to a session that has a thread
LEMMA DialogLinked ==
    ASSUME NEW p \in Party, NEW s, Right(p, s), NEW d \in s.dialogs
    PROVE  Linkable(s, d.session)
BY DEF Right, Linked, Linkable, PartyState

LEMMA AcceptKeeps ==
    ASSUME IInv, NEW p \in Party, NEW d \in at[p].dialogs, Accept(p, d)
    PROVE  IInv' /\ Moved(p)
<1> DEFINE q == Other(p)
           t == [at[p] EXCEPT !.dialogs = @ \ {d}]
<1>1. Pair(p, q) /\ Typed
  BY NowStarts
<1>2. PICK T : Now(p, q, at[p], at[q], net[p], net[q], lost, T)
  BY NowStarts
<1>3. Becomes(p, AcceptE2EAlice(t, d.session, d.form)) /\ acts' = acts /\ lost' = lost
  BY DEF Accept
<1>4. Right(p, at[p]) /\ at[p] \in PartyState
  BY <1>1, <1>2, NowIs
<1>5. /\ t \in PartyState /\ t.session = at[p].session /\ t.table = at[p].table
      /\ t.chat = at[p].chat /\ t.queue = at[p].queue /\ t.dialogs \subseteq at[p].dialogs
      /\ t.online = at[p].online /\ t.halves = at[p].halves /\ t.taken = at[p].taken
      /\ t.out = at[p].out
  BY <1>4 DEF PartyState
<1>6. /\ Answerable(p, q, t, at[q], net[p], Flight(net[q], at[p]), lost, T, d.session, d.form)
      /\ d.session \in Id /\ d.form \in Stanza
  BY <1>1, <1>2, DialogAnswerable DEF Now
<1> HIDE DEF t, q
<1>7. Flight(net[q], at[p]) = Flight(net[q], t)
  BY <1>5 DEF Flight, Transmitted
<1>8. Quiet(p, at[p], t)
  <2>1. /\ t.chat \in Id => Linkable(at[p], t.chat)
        /\ t.queue # None => Linkable(at[p], t.queue)
    BY <1>4, <1>5 DEF Right, Linked, Linkable, PartyState
  <2> QED
    BY <1>4, <1>5, <2>1, Pointed
<1>9. Now(p, q, t, at[q], net[p], net[q], lost, T)
  BY <1>1, <1>2, <1>8, NowQuiet
<1>10. Now(p, q, AcceptE2EAlice(t, d.session, d.form), at[q], net[p], net[q], lost, T)
  BY <1>1, <1>6, <1>7, <1>9, NowAccepts
<1>11. acts' \in 0 .. MaxActs
  BY <1>1, <1>3 DEF Typed
<1>12. Fresh(at[p], AcceptE2EAlice(t, d.session, d.form))
  <2>1. Accepts(t, AcceptE2EAlice(t, d.session, d.form), d.session, d.form)
    BY <1>1, <1>6, <1>9, NowIs, AnswerAccepts
  <2>2. Steady(t, AcceptE2EAlice(t, d.session, d.form))
    BY <2>1, TurnSteady DEF Accepts
  <2> QED
    BY <1>8, <2>2, QuietSteady, SteadyFresh
<1>13. Moved(p)
  BY <1>1, <1>3, <1>10, <1>12, NowIs, Moves DEF Becomes
<1> QED
  BY <1>1, <1>3, <1>10, <1>11, <1>13, BecomesKeeps DEF q

\* The steps that are quiet
LEMMA QuietStep ==
    ASSUME IInv, NEW p \in Party, NEW s, Quiet(p, at[p], s), Becomes(p, s),
           acts' \in 0 .. MaxActs, lost' = lost
    PROVE  IInv' /\ Moved(p)
<1>1. Pair(p, Other(p)) /\ Typed
  BY NowStarts
<1>2. PICK T : Now(p, Other(p), at[p], at[Other(p)], net[p], net[Other(p)], lost, T)
  BY NowStarts
<1>3. Now(p, Other(p), s, at[Other(p)], net[p], net[Other(p)], lost, T)
  BY <1>1, <1>2, NowQuiet
<1>4. Moved(p)
  BY <1>1, <1>3, NowIs, Moves, QuietSteady, SteadyFresh DEF Becomes
<1> QED
  BY <1>1, <1>3, <1>4, BecomesKeeps

LEMMA Rightly ==
    ASSUME IInv, NEW p \in Party
    PROVE  /\ Right(p, at[p]) /\ at[p] \in PartyState /\ Typed
           /\ at[p].chat \in Id => Linkable(at[p], at[p].chat)
           /\ at[p].queue # None => Linkable(at[p], at[p].queue)
<1>1. Right(p, at[p]) /\ at[p] \in PartyState /\ Typed
  BY NowStarts, NowIs
<1> QED
  BY <1>1 DEF Right, Linked, Linkable, PartyState

LEMMA RejectKeeps ==
    ASSUME IInv, NEW p \in Party, NEW d \in at[p].dialogs, Reject(p, d)
    PROVE  IInv' /\ Moved(p)
<1> DEFINE t == [at[p] EXCEPT !.dialogs = @ \ {d}]
<1>1. Becomes(p, RejectNegotiation(t, d.session)) /\ acts' = acts /\ lost' = lost
  BY DEF Reject
<1>2. /\ t \in PartyState /\ t.session = at[p].session /\ t.table = at[p].table
      /\ t.chat = at[p].chat /\ t.queue = at[p].queue /\ t.dialogs \subseteq at[p].dialogs
      /\ t.online = at[p].online /\ t.halves = at[p].halves /\ t.taken = at[p].taken
      /\ t.out = at[p].out
  BY Rightly DEF PartyState
<1> HIDE DEF t
<1>3. Quiet(p, at[p], t) /\ Right(p, t)
  BY <1>2, Rightly, Pointed
<1>4. Linkable(t, d.session)
  BY <1>2, Rightly, DialogLinked DEF Linkable
<1>5. Quiet(p, t, RejectNegotiation(t, d.session))
  BY <1>3, <1>4, RejectTame DEF Tame
<1>6. Quiet(p, at[p], RejectNegotiation(t, d.session))
  BY <1>3, <1>5, Rightly, QuietTransitive
<1>7. acts' \in 0 .. MaxActs
  BY <1>1, Rightly DEF Typed
<1> QED
  BY <1>1, <1>6, <1>7, QuietStep

\* A chat has got a session
Chats(p, s, t) == Quiet(p, s, t) /\ Linkable(t, t.chat)

LEMMA BegunChats ==
    ASSUME NEW p \in Party, NEW s, Right(p, s), Free(s) # {}, s.threads < MaxThreads,
           NEW bare \in BOOLEAN
    PROVE  LET made == NewThread(p, s, bare)
           IN Chats(p, s, [made EXCEPT !.chat = made.table[NextThread(p, s)]])
<1> DEFINE made == NewThread(p, s, bare)
           i == made.table[NextThread(p, s)]
           t == [made EXCEPT !.chat = i]
<1>1. Quiet(p, s, made) /\ Linkable(made, i)
  BY NewThreadIs
<1> HIDE DEF made, i
<1>2. Right(p, made) /\ made \in PartyState /\ i \in Id
  BY <1>1, QuietRight DEF Right, Linkable
<1>3. /\ t \in PartyState /\ t.session = made.session /\ t.table = made.table
      /\ t.chat = i /\ t.queue = made.queue /\ t.dialogs = made.dialogs
      /\ t.online = made.online /\ t.halves = made.halves /\ t.taken = made.taken
      /\ t.out = made.out
  BY <1>2 DEF PartyState
<1> HIDE DEF t
<1>4. t.queue # None => Linkable(made, t.queue)
  BY <1>2, <1>3 DEF Right, Linked, Linkable, PartyState
<1>5. Quiet(p, made, t)
  BY <1>1, <1>2, <1>3, <1>4, Pointed
<1>6. Quiet(p, s, t)
  BY <1>1, <1>5, QuietTransitive DEF Right
<1>7. Linkable(t, t.chat)
  BY <1>1, <1>3 DEF Linkable
<1>8. Chats(p, s, t)
  BY <1>6, <1>7 DEF Chats
<1> QED
  BY <1>8 DEF t, i, made

LEMMA WithSessionChats ==
    ASSUME NEW p \in Party, NEW s, Right(p, s), s.chat # Closed,
           s.chat = None /\ Controlless(s) = {} => Free(s) # {} /\ s.threads < MaxThreads,
           NEW t \in WithSession(p, s)
    PROVE  Chats(p, s, t)
<1>1. s \in PartyState
  BY DEF Right
<1>2. CASE s.chat # None
  <2>1. t = s /\ s.chat \in Id
    BY <1>1, <1>2 DEF WithSession, PartyState
  <2>2. Linkable(s, s.chat)
    BY <2>1 DEF Right, Linked, Linkable
  <2>3. Quiet(p, s, s)
    BY QuietSelf
  <2> QED
    BY <2>1, <2>2, <2>3 DEF Chats
<1>3. CASE s.chat = None /\ Controlless(s) # {}
  <2>1. PICK i \in Controlless(s) : t = [s EXCEPT !.chat = i]
    BY <1>3 DEF WithSession
  <2>2. i \in Id /\ Linkable(s, i)
    BY DEF Controlless, InTable, Linkable
  <2>3. /\ t \in PartyState /\ t.session = s.session /\ t.table = s.table
        /\ t.chat = i /\ t.queue = s.queue /\ t.dialogs = s.dialogs
        /\ t.online = s.online /\ t.halves = s.halves /\ t.taken = s.taken
        /\ t.out = s.out
    BY <1>1, <2>1, <2>2 DEF PartyState
  <2>4. t.queue # None => Linkable(s, t.queue)
    BY <1>1, <2>3 DEF Right, Linked, Linkable, PartyState
  <2>5. Quiet(p, s, t)
    BY <2>2, <2>3, <2>4, Pointed
  <2> QED
    BY <2>2, <2>3, <2>5 DEF Chats, Linkable
<1>4. CASE s.chat = None /\ Controlless(s) = {}
  <2>1. PICK bare \in BOOLEAN :
              LET made == NewThread(p, s, bare)
              IN t = [made EXCEPT !.chat = made.table[NextThread(p, s)]]
    BY <1>4 DEF WithSession
  <2>2. LET made == NewThread(p, s, bare)
        IN Chats(p, s, [made EXCEPT !.chat = made.table[NextThread(p, s)]])
    BY <1>4, BegunChats
  <2> QED
    BY <2>1, <2>2
<1> QED
  BY <1>2, <1>3, <1>4

LEMMA TypeKeeps ==
    ASSUME IInv, NEW p \in Party, Type(p)
    PROVE  IInv' /\ Moved(p)
<1> DEFINE q == Other(p)
<1>1. Pair(p, q) /\ Typed
  BY NowStarts
<1>2. PICK T : Now(p, q, at[p], at[q], net[p], net[q], lost, T)
  BY NowStarts
<1>3. /\ at[p].online /\ at[p].chat # Closed /\ lost' = lost
      /\ at[p].chat = None /\ Controlless(at[p]) = {}
         => Free(at[p]) # {} /\ at[p].threads < MaxThreads
  BY DEF Type, MayBegin, MayMake
<1>4. acts' \in 0 .. MaxActs
  BY <1>1, ActIs DEF Type
<1>5. PICK s \in WithSession(p, at[p]) : Becomes(p, SendMessage(s, s.chat))
  BY DEF Type
<1>6. Chats(p, at[p], s)
  BY <1>3, Rightly, WithSessionChats
<1> HIDE DEF q
<1>7. Now(p, q, s, at[q], net[p], net[q], lost, T)
  BY <1>1, <1>2, <1>6, NowQuiet DEF Chats
<1>8. s.online /\ Linkable(s, s.chat)
  BY <1>3, <1>6 DEF Chats, Quiet
<1>9. Now(p, q, SendMessage(s, s.chat), at[q], net[p], net[q], lost, T)
  BY <1>1, <1>7, <1>8, NowSendsMessage
<1>10. Fresh(at[p], SendMessage(s, s.chat))
  <2>1. s \in PartyState /\ s.chat \in Id
    BY <1>1, <1>7, <1>8, NowIs DEF Linkable
  <2>2. Fresh(s, SendMessage(s, s.chat))
    <3> DEFINE self == s.session[s.chat]
    <3>1. CASE self.enable_encryption
      <4>1. self.km_s \in Key \cup {None}
        BY <2>1 DEF PartyState, Session
      <4>2. Steady(s, SendEncrypted(s, s.chat, "encrypted", self.km_s))
        BY <1>8, <2>1, <4>1, SentSteady
      <4> QED
        BY <3>1, <4>2, SteadyFresh DEF SendMessage
    <3>2. CASE ~self.enable_encryption
      <4>1. Right(p, s)
        BY <1>1, <1>7, NowIs
      <4>2. Quiet(p, s, Send(s, s.chat, Of(s, s.chat, "chat")))
        BY <1>8, <2>1, <4>1, OfIdle, SendQuiet
      <4> QED
        BY <3>2, <4>2, QuietSteady, SteadyFresh DEF SendMessage
    <3> QED
      BY <3>1, <3>2
  <2> QED
    BY <1>6, <2>2, QuietSteady, SteadyFresh DEF Chats
<1>11. Moved(p)
  BY <1>1, <1>5, <1>9, <1>10, NowIs, Moves DEF Becomes
<1> QED
  BY <1>1, <1>3, <1>4, <1>5, <1>9, <1>11, BecomesKeeps DEF q

LEMMA StopEncryptionKeeps ==
    ASSUME IInv, NEW p \in Party, StopEncryption(p)
    PROVE  IInv' /\ Moved(p)
<1> DEFINE i == at[p].chat
           t == TerminateE2E(at[p], i)
           u == DeleteSession(t, i)
<1>1. i \in Id /\ Becomes(p, u) /\ lost' = lost
  BY DEF StopEncryption, Encrypts
<1>2. acts' \in 0 .. MaxActs
  BY Rightly, ActIs DEF StopEncryption
<1>3. Right(p, at[p]) /\ Linkable(at[p], i) /\ at[p] \in PartyState
  BY <1>1, Rightly
<1> HIDE DEF i
<1>4. Tame(p, at[p], t, i)
  BY <1>3, TerminateE2ETame
<1> HIDE DEF t
<1>5. Quiet(p, t, u)
  BY <1>4, DeleteQuiet DEF Tame
<1>6. Quiet(p, at[p], u)
  BY <1>3, <1>4, <1>5, QuietTransitive DEF Tame
<1> QED
  BY <1>1, <1>2, <1>6, QuietStep DEF u, t, i

LEMMA BeginE2ENegotiationKeeps ==
    ASSUME IInv, NEW p \in Party, BeginE2ENegotiation(p)
    PROVE  IInv' /\ Moved(p)
<1> DEFINE made == NewThread(p, at[p], FALSE)
           s == IF at[p].chat # None THEN at[p]
                ELSE [made EXCEPT !.chat = made.table[NextThread(p, at[p])]]
           b == s.rough \/ s.session[s.chat].status # None
           t == [s EXCEPT !.rough = b]
<1>1. Becomes(p, NegotiateE2E(p, t, s.chat)) /\ lost' = lost
  BY DEF BeginE2ENegotiation
<1>2. acts' \in 0 .. MaxActs
  BY Rightly, ActIs DEF BeginE2ENegotiation
<1>3. at[p].chat # Closed
      /\ (at[p].chat = None => Free(at[p]) # {} /\ at[p].threads < MaxThreads)
  BY DEF BeginE2ENegotiation, MayBegin, MayMake
<1>4. Chats(p, at[p], s)
  <2>1. CASE at[p].chat # None
    <3>1. Linkable(at[p], at[p].chat)
      BY <1>3, <2>1, Rightly DEF PartyState
    <3>2. Quiet(p, at[p], at[p])
      BY Rightly, QuietSelf
    <3> QED
      BY <2>1, <3>1, <3>2 DEF Chats
  <2>2. CASE at[p].chat = None
    <3>1. Chats(p, at[p], [made EXCEPT !.chat = made.table[NextThread(p, at[p])]])
      BY <1>3, <2>2, Rightly, BegunChats
    <3> QED
      BY <2>2, <3>1
  <2> QED
    BY <2>1, <2>2
<1> HIDE DEF s
<1>5. Quiet(p, at[p], s) /\ Linkable(s, s.chat) /\ Right(p, s) /\ s \in PartyState
  BY <1>4, Rightly, QuietRight DEF Chats, Quiet
<1>6. b \in BOOLEAN
  BY <1>5 DEF PartyState
<1> HIDE DEF b
<1>7. Tame(p, s, t, s.chat)
  BY <1>5, <1>6, RoughTame
<1> HIDE DEF t
<1>8. Tame(p, t, NegotiateE2E(p, t, s.chat), s.chat)
  BY <1>7, NegotiateTame DEF Tame
<1>9. Quiet(p, s, NegotiateE2E(p, t, s.chat))
  BY <1>7, <1>8, TameTransitive DEF Tame
<1>10. Quiet(p, at[p], NegotiateE2E(p, t, s.chat))
  BY <1>5, <1>9, Rightly, QuietTransitive
<1> QED
  BY <1>1, <1>2, <1>10, QuietStep DEF t, b

LEMMA OpenChatKeeps ==
    ASSUME IInv, NEW p \in Party, OpenChat(p)
    PROVE  IInv' /\ Moved(p)
<1>1. at[p].chat = Closed /\ lost' = lost /\ acts' \in 0 .. MaxActs
  BY Rightly, ActIs DEF OpenChat
<1>2. PICK i \in IF at[p].queue # None THEN {at[p].queue}
                 ELSE IF Controlless(at[p]) # {} THEN Controlless(at[p]) ELSE {None} :
          Becomes(p, [at[p] EXCEPT !.chat = i, !.queue = None,
                                   !.rough = @ \/ (i # None /\ ~InTable(at[p], i))])
  BY DEF OpenChat
<1> DEFINE b == at[p].rough \/ (i # None /\ ~InTable(at[p], i))
           t == [at[p] EXCEPT !.chat = i, !.queue = None, !.rough = b]
<1>3. i = None \/ (i \in Id /\ Linkable(at[p], i))
  BY Rightly DEF Controlless, InTable, Linkable, PartyState
<1>4. b \in BOOLEAN /\ at[p] \in PartyState
  BY Rightly DEF PartyState
<1>5. Becomes(p, t)
  BY <1>2
<1> HIDE DEF b
<1>6. /\ t \in PartyState /\ t.session = at[p].session /\ t.table = at[p].table
      /\ t.chat = i /\ t.queue = None /\ t.dialogs \subseteq at[p].dialogs
      /\ t.online = at[p].online /\ t.halves = at[p].halves /\ t.taken = at[p].taken
      /\ t.out = at[p].out
  BY <1>3, <1>4 DEF PartyState
<1> HIDE DEF t
<1>7. t.chat \in Id => Linkable(at[p], t.chat)
  BY <1>3, <1>6, Bounds
<1>8. Quiet(p, at[p], t)
  BY <1>6, <1>7, Rightly, Pointed
<1> QED
  BY <1>1, <1>5, <1>8, QuietStep

LEMMA CloseChatKeeps ==
    ASSUME IInv, NEW p \in Party, CloseChat(p)
    PROVE  IInv' /\ Moved(p)
<1> DEFINE t == [at[p] EXCEPT !.chat = Closed, !.queue = None]
<1>1. Becomes(p, t) /\ lost' = lost /\ acts' \in 0 .. MaxActs
  BY Rightly, ActIs DEF CloseChat
<1>2. /\ t \in PartyState /\ t.session = at[p].session /\ t.table = at[p].table
      /\ t.chat = Closed /\ t.queue = None /\ t.dialogs \subseteq at[p].dialogs
      /\ t.online = at[p].online /\ t.halves = at[p].halves /\ t.taken = at[p].taken
      /\ t.out = at[p].out
  BY Rightly DEF PartyState
<1> HIDE DEF t
<1>3. Quiet(p, at[p], t)
  BY <1>2, Bounds, Rightly, Pointed
<1> QED
  BY <1>1, <1>3, QuietStep

\* Who has been told that the other one left has been told by one who left
LEMMA ToldIs ==
    ASSUME NEW p, NEW q, Pair(p, q), NEW s, NEW o, NEW w, NEW v, NEW l, NEW T,
           Both(p, q, s, o, w, v, l, T), p \in l, l \subseteq Party
    PROVE  Told(w, l) \/ ~o.online => l = Party
<1>1. Party = {p, q}
  BY Two DEF Pair
<1>2. \A n \in DOMAIN w : w[n].kind = "unavailable" => q \in l
  BY DEF Both, One, Under, Sent
<1>3. ~o.online => q \in l
  BY DEF Both, One
<1> QED
  BY <1>1, <1>2, <1>3 DEF Told

LEMMA LeaveKeeps ==
    ASSUME IInv, NEW p \in Party, at[p].online, NEW s, Quiet(p, at[p], s), Leave(p, s)
    PROVE  IInv' /\ Moved(p)
<1> DEFINE q == Other(p)
           m == lost \cup {p}
           v == Flight(net[q], s)
           u == Append(v, Plain("unavailable", None))
           c == AtEnd(s)
           t == [c EXCEPT !.online = FALSE, !.rough = TRUE]
<1>1. Pair(p, q) /\ Typed
  BY NowStarts
<1>2. PICK T : Now(p, q, at[p], at[q], net[p], net[q], lost, T)
  BY NowStarts
<1>3. Now(p, q, s, at[q], net[p], net[q], lost, T)
  BY <1>1, <1>2, NowQuiet
<1>4. /\ at' = [at EXCEPT ![p] = t] /\ lost' = m
      /\ net' = [net EXCEPT ![p] = <<>>, ![q] = u]
  <2>1. at' = [at EXCEPT ![p] = t] /\ lost' = m
    BY DEF Leave
  <2>2. net' = [net EXCEPT ![p] = <<>>,
                           ![q] = Append(@ \o Transmitted(s), Plain("unavailable", None))]
    BY DEF Leave
  <2>3. net' = [net EXCEPT ![p] = <<>>, ![q] = u]
    BY <1>1, <2>2 DEF Flight, Pair, Typed
  <2> QED
    BY <2>1, <2>3
<1>5. acts' \in 0 .. MaxActs
  BY <1>1, ActIs DEF Leave
<1>6. p \in m /\ lost \subseteq m /\ m \subseteq Party
  BY <1>1 DEF Typed
<1>7. Right(p, s) /\ s.online
  BY <1>1, <1>3, NowIs DEF Quiet
<1>8. c \in PartyState /\ c.out = <<>> /\ c.online
  BY <1>7, AtEndIs
<1>9. Both(p, q, c, at[q], net[p], v, lost, T) /\ T \in Threads
  BY <1>1, <1>3, Finished DEF Now, Threads
<1>10. v \in Seq(Stanza)
  BY <1>1, <1>3, NowIs
<1>11. u \in Seq(Stanza) /\ u # <<>> /\ Len(u) \in DOMAIN u /\ u[Len(u)].kind = "unavailable"
  BY <1>10, PlainIs
<1> HIDE DEF q, m, v, c
<1>12. Both(p, q, c, at[q], net[p], v, m, T)
  BY <1>6, <1>9, LostGrows
<1>13. Right(p, c)
  BY <1>12 DEF Both, One, Local, Right, Kept, Asked
<1>14. Both(p, q, c, at[q], net[p], u, m, T)
  BY <1>1, <1>6, <1>8, <1>12, <1>13, Announced
<1> HIDE DEF u
<1>15. Told(u, m)
  BY <1>11 DEF Told
<1>16. Told(net[p], m) \/ ~at[q].online => m = Party
  BY <1>1, <1>6, <1>14, ToldIs
<1>17. Both(p, q, c, at[q], <<>>, u, m, T)
  <2>1. \A i \in Id : InTable(at[q], i) /\ at[q].session[i].enable_encryption
                      => Excused(p, at[q].session[i], u, m)
    BY <1>15 DEF Excused
  <2> QED
    BY <1>1, <1>14, <1>16, <2>1, AllLost
<1>18. /\ t \in PartyState /\ t.session = c.session /\ t.table = c.table /\ t.chat = c.chat
       /\ t.queue = c.queue /\ t.dialogs = c.dialogs /\ t.halves = c.halves
       /\ t.taken = c.taken /\ ~t.online /\ t.out = c.out
  BY <1>8 DEF PartyState
<1> HIDE DEF t
<1>19. Noticed(at[q], t, u, m)
  BY <1>11 DEF Noticed
<1>20. Both(p, q, t, at[q], <<>>, u, m, T)
  BY <1>1, <1>6, <1>17, <1>18, <1>19, Switched
<1>21. /\ net' \in [Party -> Seq(Stanza)] /\ net'[p] = <<>> /\ net'[q] = u
  <2>1. <<>> \in Seq(Stanza)
    OBVIOUS
  <2> QED
    BY <1>1, <1>4, <1>11, <2>1 DEF Pair, Typed
<1>22. t.out = <<>> /\ lost' \subseteq Party
       /\ Both(p, q, t, at[q], net'[p], net'[q], lost', T)
  BY <1>4, <1>6, <1>8, <1>18, <1>20, <1>21
<1>23. Moved(p)
  <2>1. Steady(at[p], c)
    BY <1>7, AtEndSteady, QuietSteady, SteadyFresh DEF c
  <2>2. Steady(c, t)
    BY <1>18 DEF Steady
  <2>3. at'[p] = t
    BY <1>1, <1>4 DEF Typed
  <2> QED
    BY <1>4, <2>1, <2>2, <2>3, SteadyFresh DEF Moved
<1> QED
  BY <1>1, <1>4, <1>5, <1>9, <1>18, <1>21, <1>22, <1>23, Stepped DEF q

LEMMA LoseConnectionKeeps ==
    ASSUME IInv, NEW p \in Party, LoseConnection(p)
    PROVE  IInv' /\ Moved(p)
<1>1. at[p].online /\ Leave(p, at[p])
  BY DEF LoseConnection
<1>2. Quiet(p, at[p], at[p])
  BY Rightly, QuietSelf
<1> QED
  BY <1>1, <1>2, LeaveKeeps

LEMMA GoOfflineKeeps ==
    ASSUME IInv, NEW p \in Party, GoOffline(p)
    PROVE  IInv' /\ Moved(p)
<1>1. at[p].online /\ Leave(p, EndEach(at[p], "all"))
  BY DEF GoOffline
<1>2. Quiet(p, at[p], EndEach(at[p], "all"))
  BY Rightly, EndEachIs
<1> QED
  BY <1>1, <1>2, LeaveKeeps

LEMMA ReconnectKeeps ==
    ASSUME IInv, NEW p \in Party, NEW kept \in BOOLEAN, Reconnect(p, kept)
    PROVE  IInv' /\ Moved(p)
<1> DEFINE q == Other(p)
           s == at[p]
           t == [s EXCEPT !.online = TRUE]
           z == IF kept THEN net[p] ELSE <<>>
<1>1. Pair(p, q) /\ Typed
  BY NowStarts
<1>2. PICK T \in Threads : Peers(p, T)
  BY DEF IInv
<1>3. Both(p, q, s, at[q], net[p], net[q], lost, T)
  BY <1>2 DEF Peers
<1>4. ~s.online /\ acts' = acts /\ lost' = lost
      /\ at' = [at EXCEPT ![p].online = TRUE] /\ net' = [net EXCEPT ![p] = z]
  BY <1>1 DEF Reconnect, Typed
<1>5. at' = [at EXCEPT ![p] = t]
  BY <1>1, <1>4 DEF Typed
<1>6. s \in PartyState /\ s.out = <<>> /\ net[p] \in Seq(Stanza) /\ net[q] \in Seq(Stanza)
  BY <1>1 DEF Typed, Pair
<1>7. p \in lost /\ lost \subseteq Party
  BY <1>1, <1>3, <1>4 DEF Both, One, Typed
<1>8. Both(p, q, s, at[q], z, net[q], lost, T)
  <2>1. CASE kept
    BY <1>3, <2>1
  <2>2. CASE ~kept
    <3>1. Told(net[p], lost) \/ ~at[q].online => lost = Party
      BY <1>1, <1>3, <1>7, ToldIs
    <3>2. Noticed(at[q], s, net[q], lost)
      BY <1>3 DEF Both, One
    <3>3. \A i \in Id : InTable(at[q], i) /\ at[q].session[i].enable_encryption
                        => Excused(p, at[q].session[i], net[q], lost)
      <4>1. net[q] # <<>> => Len(net[q]) \in DOMAIN net[q]
        BY <1>6
      <4> QED
        BY <1>4, <1>7, <3>2, <4>1 DEF Noticed, Told, Excused, Bared
    <3>4. Both(p, q, s, at[q], <<>>, net[q], lost, T)
      BY <1>1, <1>3, <3>1, <3>3, AllLost
    <3> QED
      BY <2>2, <3>4
  <2> QED
    BY <2>1, <2>2
<1> HIDE DEF q, s
<1>9. /\ t \in PartyState /\ t.session = s.session /\ t.table = s.table /\ t.chat = s.chat
      /\ t.queue = s.queue /\ t.dialogs = s.dialogs /\ t.halves = s.halves
      /\ t.taken = s.taken /\ t.online /\ t.out = s.out
  BY <1>6 DEF PartyState
<1> HIDE DEF t
<1>10. Noticed(at[q], t, net[q], lost)
  BY <1>9 DEF Noticed
<1>11. Both(p, q, t, at[q], z, net[q], lost, T)
  BY <1>1, <1>8, <1>9, <1>10, Switched
<1>12. /\ net' \in [Party -> Seq(Stanza)] /\ net'[p] = z /\ net'[q] = net[q]
  <2>1. z \in Seq(Stanza)
    BY <1>6
  <2> HIDE DEF z
  <2> QED
    BY <1>1, <1>4, <2>1 DEF Pair, Typed
<1>13. acts' \in 0 .. MaxActs /\ lost' = lost
  BY <1>1, <1>4 DEF Typed
<1> HIDE DEF z
<1>14. Moved(p)
  <2>1. Fresh(s, t) /\ at'[p] = t
    BY <1>1, <1>5, <1>9 DEF Fresh, Typed
  <2> QED
    BY <1>5, <2>1 DEF Moved, s
<1> QED
  BY <1>1, <1>5, <1>6, <1>7, <1>9, <1>11, <1>12, <1>13, <1>14, Stepped DEF q

LEMMA Inductive ==
    ASSUME IInv, [Next]_vars
    PROVE  IInv' /\ (at' = at \/ \E p \in Party : Moved(p))
<1>1. CASE Next
  <2>1. PICK p \in Party :
        \/ \E popup \in BOOLEAN : Receive(p, popup)
        \/ \E d \in at[p].dialogs : Accept(p, d) \/ Reject(p, d)
        \/ Type(p) \/ StopEncryption(p) \/ BeginE2ENegotiation(p)
        \/ OpenChat(p) \/ CloseChat(p)
        \/ LoseConnection(p) \/ GoOffline(p)
        \/ \E kept \in BOOLEAN : Reconnect(p, kept)
    BY <1>1 DEF Next
  <2>2. CASE \E popup \in BOOLEAN : Receive(p, popup)
    BY <2>2, ReceiveKeeps
  <2>3. CASE \E d \in at[p].dialogs : Accept(p, d) \/ Reject(p, d)
    BY <2>3, AcceptKeeps, RejectKeeps
  <2>4. CASE Type(p)
    BY <2>4, TypeKeeps
  <2>5. CASE StopEncryption(p)
    BY <2>5, StopEncryptionKeeps
  <2>6. CASE BeginE2ENegotiation(p)
    BY <2>6, BeginE2ENegotiationKeeps
  <2>7. CASE OpenChat(p)
    BY <2>7, OpenChatKeeps
  <2>8. CASE CloseChat(p)
    BY <2>8, CloseChatKeeps
  <2>9. CASE LoseConnection(p)
    BY <2>9, LoseConnectionKeeps
  <2>10. CASE GoOffline(p)
    BY <2>10, GoOfflineKeeps
  <2>11. CASE \E kept \in BOOLEAN : Reconnect(p, kept)
    BY <2>11, ReconnectKeeps
  <2> QED
    BY <2>1, <2>2, <2>3, <2>4, <2>5, <2>6, <2>7, <2>8, <2>9, <2>10, <2>11
<1>2. CASE UNCHANGED vars
  BY <1>2 DEF vars, IInv, Typed, Peers, Threads
<1> QED
  BY <1>1, <1>2

LEMMA Starts ==
    ASSUME Init
    PROVE  IInv
<1> DEFINE T == [h \in Half |-> None]
           first(chat) == [session |-> [i \in Id |-> Unused],
                           table |-> [th \in Thread |-> None],
                           chat |-> chat, queue |-> None, dialogs |-> {}, online |-> TRUE,
                           threads |-> 0, halves |-> 0, out |-> <<>>,
                           taken |-> {}, rough |-> FALSE]
<1>1. ASSUME NEW p \in Party
      PROVE  /\ at[p] \in PartyState /\ at[p].session = [i \in Id |-> Unused]
             /\ at[p].table = [th \in Thread |-> None] /\ at[p].chat \in {None, Closed}
             /\ at[p].queue = None /\ at[p].dialogs = {} /\ at[p].online /\ at[p].halves = 0
             /\ at[p].out = <<>> /\ at[p].taken = {}
  <2>1. PICK chat \in {None, Closed} : at[p] = first(chat)
    BY DEF Init
  <2>2. /\ [i \in Id |-> Unused] \in [Id -> Session]
        /\ [th \in Thread |-> None] \in [Thread -> Id \cup {None}]
        /\ 0 \in 0 .. MaxThreads /\ <<>> \in Seq(Stanza)
    BY UnusedIs, Bounds
  <2>3. first(chat) \in PartyState
    BY <2>2 DEF PartyState
  <2> QED
    BY <2>1, <2>3
<1>2. \A p \in Party : net[p] = <<>>
  BY DEF Init
<1>3. Typed
  <2>1. DOMAIN at = Party /\ at = [p \in Party |-> at[p]]
    BY DEF Init
  <2>2. at \in [Party -> PartyState]
    BY <1>1, <2>1
  <2>3. net \in [Party -> Seq(Stanza)]
    <3>1. <<>> \in Seq(Stanza)
      OBVIOUS
    <3> QED
      BY <3>1 DEF Init
  <2> QED
    BY <1>1, <2>2, <2>3, Bounds DEF Init, Typed
<1>4. T \in Threads
  BY DEF Threads
<1> HIDE DEF T
<1>5. ASSUME NEW p \in Party, NEW q \in Party
      PROVE  One(p, q, at[p], at[q], net[p], net[q], lost, T)
  <2> DEFINE s == at[p]
             o == at[q]
  <2>1. /\ s \in PartyState /\ s.dialogs = {} /\ s.online /\ s.taken = {} /\ o.online
        /\ s.table = [th \in Thread |-> None] /\ s.chat \in {None, Closed} /\ s.queue = None
        /\ net[p] = <<>> /\ net[q] = <<>>
    BY <1>1, <1>2
  <2>2. \A i \in Id : s.session[i] = Unused
    BY <1>1
  <2> HIDE DEF s, o
  <2>3. \A i \in Id : ~InTable(s, i)
    BY <2>2, UnusedIs DEF InTable
  <2>4. Local(p, q, s, o)
    <3>1. \A i \in Id : Kept(p, q, s, o, s.session[i])
      BY <2>2, UnusedIs, NoneIs DEF Kept, Responded, Identified, Active, Streaming
    <3>2. Linked(s)
      BY <2>1, Bounds DEF Linked
    <3>3. Apart(s)
      BY <2>2, UnusedIs DEF Apart
    <3> QED
      BY <2>1, <3>1, <3>2, <3>3 DEF Local, Asked, Taken
  <2>5. \A w : w = <<>> => DOMAIN w = {} /\ w \in Seq(Stanza)
    OBVIOUS
  <2>6. Under(p, q, s, o, lost, net[p]) /\ Once(net[p])
    BY <2>1, <2>5 DEF Under, Once
  <2>7. Unanswered(s, o, net[p], net[q])
    BY <2>1, <2>5 DEF Unanswered, Pending, Submitted, Dialogs
  <2>8. Identity(s, net[p]) /\ Matched(q, s, o, net[p], net[q], lost)
        /\ Answers(q, s, o, net[p], net[q], lost) /\ Noticed(s, o, net[p], lost)
    BY <2>1, <2>3, <2>5 DEF Identity, Matched, Answers, Noticed
  <2>9. Threaded(s, net[p], T)
    BY <2>1, <2>2, <2>5, UnusedIs DEF Threaded
  <2> QED
    BY <2>1, <2>4, <2>6, <2>7, <2>8, <2>9 DEF One, s, o
<1>6. \A p \in Party : Peers(p, T)
  BY <1>5, Two DEF Peers, Both
<1> QED
  BY <1>3, <1>4, <1>6 DEF IInv

-----------------------------------------------------------------------------
(* What follows.                                                           *)

\* IInv holds of all behaviours
THEOREM Invariance == Spec => []IInv
<1>1. Init => IInv
  BY Starts
<1>2. IInv /\ [Next]_vars => IInv'
  BY Inductive
<1> QED
  BY <1>1, <1>2, PTL DEF Spec

\* Sessions, stanzas and all else have the types that the code gives them: no
\* method leads to a session that has no thread, and no control to none
THEOREM TypeCorrect == Spec => []TypeOK
<1>1. IInv => TypeOK
  BY DEF IInv, Typed, TypeOK
<1> QED
  BY <1>1, Invariance, PTL

\* Sessions in the table that are active with the same key
LEMMA Peering ==
    ASSUME IInv, NEW p \in Party, NEW s \in Sessions(p), NEW r \in Sessions(Other(p)),
           s.status = "active", r.status = "active", s.km_s \in {r.km_s, r.km_o}
    PROVE  /\ Other(p) \in Party /\ Base(s) = Base(r) /\ r.km_o = r.km_s
           /\ s.c_o[1] = Base(s) /\ r.c_o[1] = Base(r)
           /\ s.logging = Prefers[Base(s)[1]] /\ r.logging = Prefers[Base(r)[1]]
           /\ s.logging = "mustnot" => ~s.loggable /\ (r.logging = "mustnot" => ~r.loggable)
           /\ \/ Ordered(net[Other(p)], Base(s), r.c_o[2], s.c_s[2])
              \/ Told(net[p], lost)
              \/ s.bare /\ Other(p) \in lost
<1> DEFINE q == Other(p)
<1>1. q \in Party
  BY Two
<1>2. PICK T \in Threads : Peers(p, T)
  BY DEF IInv
<1>3. Local(p, q, at[p], at[q]) /\ Local(q, p, at[q], at[p])
      /\ Matched(q, at[p], at[q], net[p], net[q], lost)
  BY <1>2 DEF Peers, Both, One
<1>4. PICK i \in Id : InTable(at[p], i) /\ s = at[p].session[i]
  BY DEF Sessions
<1>5. PICK j \in Id : InTable(at[q], j) /\ r = at[q].session[j]
  BY DEF Sessions
<1> HIDE DEF q
<1>6. Kept(p, q, at[p], at[q], s) /\ Kept(q, p, at[q], at[p], r)
  BY <1>3, <1>4, <1>5 DEF Local
<1>7. Base(s) = Base(r)
  BY <1>6 DEF Kept, Active
<1>8. \/ Ordered(net[q], Base(s), r.c_o[2], s.c_s[2])
      \/ Excused(q, s, net[p], lost) \/ Unidentified(r, net[q])
  BY <1>3, <1>4, <1>5, <1>7 DEF Matched, Streaming
<1>9. \/ Ordered(net[q], Base(s), r.c_o[2], s.c_s[2])
      \/ Told(net[p], lost)
      \/ s.bare /\ q \in lost
  BY <1>8 DEF Excused, Unidentified
<1>10. /\ r.km_o = r.km_s /\ s.c_o[1] = Base(s) /\ r.c_o[1] = Base(r)
       /\ s.logging = Prefers[Base(s)[1]] /\ r.logging = Prefers[Base(r)[1]]
       /\ s.logging = "mustnot" => ~s.loggable /\ (r.logging = "mustnot" => ~r.loggable)
  BY <1>6 DEF Kept, Active
<1> QED
  BY <1>1, <1>7, <1>9, <1>10 DEF q

\* What both agreed not to log is not logged by either: who is active has what
\* Bob chose, and Bob is the one whose counter both started from
THEOREM LoggingAgreedAlways == Spec => []LoggingAgreed
<1>1. ASSUME IInv PROVE LoggingAgreed
  <2> SUFFICES ASSUME NEW p \in Party, NEW s \in Sessions(p), NEW r \in Sessions(Other(p)),
                      s.status = "active", r.status = "active", s.km_s = r.km_s
               PROVE  /\ s.logging = r.logging
                      /\ s.logging = "mustnot" => ~s.loggable /\ ~r.loggable
    BY DEF LoggingAgreed
  <2> QED
    BY <1>1, Peering
<1> QED
  BY <1>1, Invariance, PTL

\* Counters under way in order, as a set of them
LEMMA OrderedInOrder ==
    ASSUME NEW q, net[q] \in Seq(Stanza), NEW h, NEW first \in Nat, NEW next \in Nat,
           Ordered(net[q], h, first, next)
    PROVE  InOrder(q, h, first, next)
<1>1. Flow(q, h) = Runs(net[q], h)
  BY DEF Flow, Runs
<1>2. \A n \in DOMAIN net[q] : net[q][n].counter[2] \in Nat
  BY CounterIs
<1>3. {net[q][n].counter[2] : n \in Flow(q, h)} \subseteq first .. next - 1
  <2> SUFFICES ASSUME NEW n \in Flow(q, h) PROVE net[q][n].counter[2] \in first .. next - 1
    OBVIOUS
  <2>1. net[q][n].counter[2] \in Nat
    BY <1>2 DEF Flow
  <2>2. net[q][n].counter[2] >= first /\ net[q][n].counter[2] < next
    BY <1>1 DEF Ordered
  <2> QED
    BY <2>1, <2>2
<1>4. first .. next - 1 \subseteq {net[q][n].counter[2] : n \in Flow(q, h)}
  BY <1>1 DEF Ordered
<1> QED
  BY <1>1, <1>3, <1>4 DEF Ordered, InOrder

\* When both ends are active with the same key, what is under way with their
\* counter is what the one decrypts next, until what the other encrypts next;
\* or the sender is going to be told that some of it was lost, or it has a
\* session that was begun in a bare chat, of which the other end lost some
THEOREM InStepAlways == Spec => []InStep
<1>1. ASSUME IInv PROVE InStep
  <2> SUFFICES ASSUME NEW p \in Party, NEW s \in Sessions(p), NEW r \in Sessions(Other(p)),
                      s.status = "active", r.status = "active", s.km_s = r.km_o
               PROVE  /\ s.c_s[1] = r.c_o[1]
                      /\ \/ InOrder(Other(p), s.c_s[1], r.c_o[2], s.c_s[2])
                         \/ ToldOfLoss(p)
                         \/ s.bare /\ Other(p) \in lost
    BY DEF InStep
  <2>1. /\ Other(p) \in Party /\ Base(s) = Base(r) /\ r.c_o[1] = Base(r)
        /\ \/ Ordered(net[Other(p)], Base(s), r.c_o[2], s.c_s[2])
           \/ Told(net[p], lost)
           \/ s.bare /\ Other(p) \in lost
    BY <1>1, Peering
  <2>2. net[Other(p)] \in Seq(Stanza) /\ s \in Session /\ r \in Session
    BY <1>1, <2>1 DEF IInv, Typed, Sessions, PartyState
  <2>3. r.c_o[2] \in Nat /\ s.c_s[2] \in Nat
    BY <2>2 DEF Session, Counter
  <2>4. s.c_s[1] = r.c_o[1] /\ Base(s) = s.c_s[1]
    BY <2>1 DEF Base
  <2>5. CASE Told(net[p], lost)
    BY <2>4, <2>5 DEF Told, ToldOfLoss
  <2>6. CASE Ordered(net[Other(p)], Base(s), r.c_o[2], s.c_s[2])
    <3>1. InOrder(Other(p), Base(s), r.c_o[2], s.c_s[2])
      BY <2>2, <2>3, <2>6, OrderedInOrder
    <3> QED
      BY <2>4, <3>1
  <2> QED
    BY <2>1, <2>4, <2>5, <2>6
<1> QED
  BY <1>1, Invariance, PTL

LEMMA KeyTaken ==
    ASSUME IInv', NEW p \in Party, NEW i \in Id, at'[p].session[i].status = "active"
    PROVE  LET key == at'[p].session[i].km_s
           IN key[1][1] = p => key \in at'[Other(p)].taken
<1> DEFINE s == at'[p]
           o == at'[Other(p)]
<1>1. \E T \in Threads' : \A r \in Party : Peers(r, T)'
  BY DEF IInv
<1>2. Local(p, Other(p), s, o)
  BY <1>1 DEF Peers, Both, One
<1> HIDE DEF s, o
<1>3. s.session[i].status = "active" => s.session[i].km_s \in s.taken
  BY <1>2 DEF Local, Kept, Active
<1> QED
  BY <1>2, <1>3 DEF Local, Taken, s, o

\* Nobody takes a key twice, and who began takes it after the other one did:
\* the order of the four messages of a negotiation, whatever else happens
THEOREM KeyAgreedAlways == Spec => KeyAgreed
<1> DEFINE Agreeing == \A p \in Party : \A i \in Id :
          /\ at'[p].session[i].status = "active"
          /\ at[p].session[i].status # "active"
          => LET key == at'[p].session[i].km_s
             IN /\ key \notin at[p].taken
                /\ key[1][1] = p => key \in at[Other(p)].taken
<1>1. ASSUME IInv, [Next]_vars PROVE Agreeing
  <2>1. IInv' /\ (at' = at \/ \E r \in Party : Moved(r))
    BY <1>1, Inductive
  <2> SUFFICES ASSUME NEW p \in Party, NEW i \in Id,
                      at'[p].session[i].status = "active",
                      at[p].session[i].status # "active"
               PROVE  LET key == at'[p].session[i].km_s
                      IN /\ key \notin at[p].taken
                         /\ key[1][1] = p => key \in at[Other(p)].taken
    OBVIOUS
  <2>2. PICK r \in Party : Moved(r)
    BY <2>1
  <2>3. \A x \in Party : x # r => at'[x] = at[x]
    BY <1>1, <2>2 DEF Moved, IInv, Typed
  <2>4. r = p
    BY <2>3
  <2>5. at'[p].session[i].km_s \notin at[p].taken
    BY <2>2, <2>4 DEF Moved, Fresh
  <2>6. at'[Other(p)] = at[Other(p)]
    BY <2>3, <2>4, Two
  <2>7. LET key == at'[p].session[i].km_s
        IN key[1][1] = p => key \in at'[Other(p)].taken
    BY <2>1, KeyTaken
  <2> QED
    BY <2>5, <2>6, <2>7
<1>2. Spec => [][Agreeing]_vars
  BY <1>1, Invariance, PTL DEF Spec
<1> QED
  BY <1>2 DEF KeyAgreed

=============================================================================
