------------------------- MODULE SocksReceiver_proofs -------------------------
(***************************************************************************)
(* Proofs about SocksReceiver, for any streamhosts, any size of the file   *)
(* and any outcome of what is tried: its type invariant and the four       *)
(* safety invariants, and that the race implements Download.               *)
(***************************************************************************)
EXTENDS SocksReceiver, Loops

\* connect() of a socket that does not block reports EINPROGRESS first
InProgressFirst == "connected" \notin AtOnce

-----------------------------------------------------------------------------
(* The inductive invariant.                                                *)

Plugged(s, h) == s.rcv[h].plugged # "no"
Closed(s) == \A h \in Host : ~Plugged(s, h)
Used(s) == \E h \in Host : s.state[h] = 1
IsOver(s) == s.error # 0 \/ s.completed \/ s.stopped

\* A receiver, and what is known of its streamhost: who waits for an event is
\* listed and neither failed nor stopped, and has the state that the event is
\* for; the one in use is the one that receives.
Wired(s, h) ==
    LET r == s.rcv[h]
    IN /\ r.timer => r.plugged # "no"
       /\ r.plugged # "no" => r.listed
       /\ r.listed => s.idx[h] = "set"
       /\ s.state[h] < 0 => r.plugged = "no"
       /\ s.state[h] = 1 => r.plugged # "no" /\ r.state = 6
       /\ r.state >= 5 => s.state[h] = 1
       /\ r.plugged = "out" => r.state \in {0, 1, 3}
       /\ r.plugged \in {"in", "hup"} => r.state \in {2, 4, 6}

\* Who is connected is alone, and what was stopped is tried again all together
Connecting(s, h) == Plugged(s, h) /\ s.rcv[h].state = 0
ConnectsOf(s, h) == Plugged(s, h) /\ s.rcv[h].state >= 1
Alone(s) == \A g, h \in Host : ConnectsOf(s, g) /\ Plugged(s, h) => g = h
NoneStopped(s) == \A g, h \in Host : Connecting(s, g) => s.state[h] # -2

\* Before the sender has named its streamhosts
Offered(s) ==
    /\ \A h \in Host : s.rcv[h] = Unused /\ s.state[h] = 0 /\ s.idx[h] = "none"
    /\ s.error = 0 /\ ~s.completed /\ s.told = <<>> /\ s.received = None
    /\ s.replied = 0 /\ ~s.fd /\ ~s.paused /\ ~s.failure_cb
Started(s) ==
    /\ s.continue_cb \in Host
    /\ \A h \in Host : s.idx[h] # "none"

\* What is over, and reported, has no socket left; nor has what can no longer
\* be reported
Final(s) == \/ s.completed \/ s.error # 0 \/ s.told # <<>>
            \/ s.started /\ ~s.failure_cb
            \/ s.stopped /\ ~CancelEarly

\* What was received, and told to the sender, is of a streamhost in use
Accepts(s) ==
    /\ s.received # None \/ s.replied # 0 => Used(s) \/ Closed(s)
    /\ s.replied <= 1
    /\ s.fd => s.received # None
    /\ Used(s) /\ ~s.fd => s.received \in {None, 0}
    /\ s.received # None /\ s.received >= Size => Closed(s)

\* What was told to the user
Tells(s) ==
    /\ s.told \in {<<>>, <<"failed">>, <<"completed">>, <<"stopped">>}
    /\ s.told = <<"failed">> => /\ \A h \in Host : s.state[h] = -1
                                /\ s.received = None /\ s.replied = 0
    /\ s.told = <<"completed">> => /\ s.received \in Size .. 2 * Size /\ ~s.fd
                                   /\ s.error = 0 /\ s.completed
    /\ s.told = <<"stopped">> => s.error = -1

\* A streamhost that is being tried waits for an event, and so does one that
\* is paused, until it goes on
Waits(s) ==
    /\ \A h \in Host : s.started /\ s.state[h] = 0 => Plugged(s, h) \/ s.unnoticed
    /\ \A h \in Host : ~s.paused /\ s.rcv[h].plugged = "hup" => s.unnoticed

Core(s) ==
    /\ s \in Transfer
    /\ \A h \in Host : Wired(s, h)
    /\ Alone(s)
    /\ NoneStopped(s)
    /\ s.started => Started(s)
    /\ ~s.started => Offered(s) /\ (s.stopped => CancelEarly)
    /\ Final(s) => Closed(s)
    /\ Accepts(s)
    /\ Tells(s)
    /\ Waits(s)

\* What is not over waits for something, or was lost on one of the paths that
\* tell nobody
Awaited(s) == s.started /\ ~IsOver(s) /\ Closed(s) => s.unnoticed

IInv == Core(ft) /\ Awaited(ft)

-----------------------------------------------------------------------------
(* What the operators do, field by field.                                  *)

\* The fields of a transfer that are about no streamhost
Same(s, t) ==
    /\ t.started = s.started /\ t.paused = s.paused /\ t.stalled = s.stalled
    /\ t.completed = s.completed /\ t.stopped = s.stopped /\ t.error = s.error
    /\ t.received = s.received /\ t.fd = s.fd /\ t.failure_cb = s.failure_cb
    /\ t.continue_cb = s.continue_cb /\ t.online = s.online
    /\ t.replied = s.replied /\ t.told = s.told

\* Nothing but what is known of h may differ
SameBut(s, t, h) ==
    \A g \in Host \ {h} : t.rcv[g] = s.rcv[g] /\ t.state[g] = s.state[g] /\ t.idx[g] = s.idx[g]

\* A transfer with another receiver and another state for one streamhost
Put(s, h, r, x) ==
    [s EXCEPT !.rcv = [@ EXCEPT ![h] = r], !.state = [@ EXCEPT ![h] = x]]

\* t differs from s in these only
Puts(s, t, h) ==
    /\ t \in Transfer /\ Same(s, t) /\ SameBut(s, t, h)
    /\ t.unnoticed = s.unnoticed /\ t.idx = s.idx

LEMMA PutFacts ==
    ASSUME NEW s \in Transfer, NEW h \in Host, NEW r \in Receiver, NEW x \in -2 .. 1
    PROVE  /\ Puts(s, Put(s, h, r, x), h)
           /\ Put(s, h, r, x).rcv[h] = r /\ Put(s, h, r, x).state[h] = x
<1> DEFINE p == Put(s, h, r, x)
<1>1. [s.rcv EXCEPT ![h] = r] \in [Host -> Receiver]
  BY DEF Transfer
<1>2. [s.state EXCEPT ![h] = x] \in [Host -> -2 .. 1]
  BY DEF Transfer
<1>3. p \in Transfer
  BY <1>1, <1>2 DEF Transfer, Put
<1>4. p.rcv = [s.rcv EXCEPT ![h] = r] /\ p.state = [s.state EXCEPT ![h] = x]
  BY DEF Transfer, Put
<1>5. p.rcv[h] = r /\ \A g \in Host \ {h} : p.rcv[g] = s.rcv[g]
  BY <1>4 DEF Transfer
<1>6. p.state[h] = x /\ \A g \in Host \ {h} : p.state[g] = s.state[g]
  BY <1>4 DEF Transfer
<1>7. Same(s, p) /\ p.unnoticed = s.unnoticed /\ p.idx = s.idx
  BY DEF Transfer, Same, Put
<1> HIDE DEF p
<1>8. SameBut(s, p, h)
  BY <1>5, <1>6, <1>7 DEF SameBut
<1>9. p \in Transfer /\ Same(s, p) /\ SameBut(s, p, h) /\ p.unnoticed = s.unnoticed
      /\ p.idx = s.idx /\ p.rcv[h] = r /\ p.state[h] = x
  BY <1>3, <1>5, <1>6, <1>7, <1>8
<1> QED
  BY <1>9 DEF p, Puts

LEMMA PutsTwice ==
    ASSUME NEW s, NEW t, NEW u, NEW h, Puts(s, t, h), Puts(t, u, h)
    PROVE  Puts(s, u, h)
BY DEF Puts, Same, SameBut

\* A receiver that waits for nothing, and one that is closed
Off(r) == [state |-> r.state, plugged |-> "no", timer |-> FALSE, listed |-> r.listed]
Left(r) == [state |-> r.state, plugged |-> "no", timer |-> FALSE, listed |-> FALSE]
Shut == [state |-> -1, plugged |-> "no", timer |-> FALSE, listed |-> FALSE]

LEMMA ReceiverTyped ==
    /\ Shut \in Receiver /\ Unused \in Receiver
    /\ \A r \in Receiver : Off(r) \in Receiver /\ Left(r) \in Receiver
BY DEF Shut, Unused, Receiver, Off, Left

LEMMA ReceiverEqual ==
    ASSUME NEW q \in Receiver, NEW r \in Receiver,
           q.state = r.state, q.plugged = r.plugged, q.timer = r.timer,
           q.listed = r.listed
    PROVE  q = r
BY Z3 DEF Receiver

LEMMA ReceiverExcept ==
    ASSUME NEW r \in Receiver
    PROVE  /\ [r EXCEPT !.plugged = "no", !.timer = FALSE] = Off(r)
           /\ [Off(r) EXCEPT !.listed = FALSE] = Left(r)
           /\ [Off(r) EXCEPT !.state = -1].listed = r.listed
           /\ ~r.listed => [Off(r) EXCEPT !.state = -1] = Shut
           /\ Left([Off(r) EXCEPT !.state = -1]) = Shut
<1> DEFINE q == [r EXCEPT !.plugged = "no", !.timer = FALSE]
           o == [Off(r) EXCEPT !.listed = FALSE]
           u == [Off(r) EXCEPT !.state = -1]
<1>1. q \in Receiver /\ q.state = r.state /\ q.plugged = "no" /\ q.timer = FALSE
      /\ q.listed = r.listed
  BY DEF Receiver
<1>2. Off(r) \in Receiver /\ Left(r) \in Receiver /\ Shut \in Receiver
  BY ReceiverTyped
<1>3. Off(r).state = r.state /\ Off(r).plugged = "no" /\ Off(r).timer = FALSE
      /\ Off(r).listed = r.listed
  BY DEF Off
<1>4. Left(r).state = r.state /\ Left(r).plugged = "no" /\ Left(r).timer = FALSE
      /\ Left(r).listed = FALSE
  BY DEF Left
<1>5. o \in Receiver /\ o.state = r.state /\ o.plugged = "no" /\ o.timer = FALSE
      /\ o.listed = FALSE
  <2> DEFINE f == Off(r)
  <2>1. f \in Receiver /\ f.state = r.state /\ f.plugged = "no" /\ f.timer = FALSE
    BY <1>2, <1>3
  <2> HIDE DEF f
  <2>2. [f EXCEPT !.listed = FALSE] \in Receiver
        /\ [f EXCEPT !.listed = FALSE].state = f.state
        /\ [f EXCEPT !.listed = FALSE].plugged = f.plugged
        /\ [f EXCEPT !.listed = FALSE].timer = f.timer
        /\ [f EXCEPT !.listed = FALSE].listed = FALSE
    BY <2>1 DEF Receiver
  <2> QED
    BY <2>1, <2>2 DEF f
<1>6. u \in Receiver /\ u.state = -1 /\ u.plugged = "no" /\ u.timer = FALSE
      /\ u.listed = r.listed
  <2> DEFINE f == Off(r)
  <2>1. f \in Receiver /\ f.listed = r.listed /\ f.plugged = "no" /\ f.timer = FALSE
    BY <1>2, <1>3
  <2> HIDE DEF f
  <2>2. [f EXCEPT !.state = -1] \in Receiver
        /\ [f EXCEPT !.state = -1].state = -1
        /\ [f EXCEPT !.state = -1].plugged = f.plugged
        /\ [f EXCEPT !.state = -1].timer = f.timer
        /\ [f EXCEPT !.state = -1].listed = f.listed
    BY <2>1 DEF Receiver
  <2> QED
    BY <2>1, <2>2 DEF f
<1>7. Shut.state = -1 /\ Shut.plugged = "no" /\ Shut.timer = FALSE /\ Shut.listed = FALSE
  BY DEF Shut
<1>8. q = Off(r)
  BY <1>1, <1>2, <1>3, ReceiverEqual
<1>9. o = Left(r)
  BY <1>2, <1>4, <1>5, ReceiverEqual
<1>10. ASSUME ~r.listed PROVE u = Shut
  <2>1. u.listed = FALSE
    BY <1>6, <1>10 DEF Receiver
  <2> QED
    BY <1>2, <1>6, <1>7, <2>1, ReceiverEqual
<1>11. Left(u) = Shut
  BY <1>6 DEF Left, Shut
<1> QED
  BY <1>6, <1>8, <1>9, <1>10, <1>11

\* What closes receivers, as such a transfer
LEMMA Unplugs ==
    ASSUME NEW s \in Transfer, NEW h \in Host
    PROVE  /\ Puts(s, Unplug(s, h), h)
           /\ Unplug(s, h).rcv[h] = Off(s.rcv[h]) /\ Unplug(s, h).state[h] = s.state[h]
<1>1. [s.state EXCEPT ![h] = s.state[h]] = s.state
  BY DEF Transfer
<1>2. s.rcv[h] \in Receiver /\ s.state[h] \in -2 .. 1
  BY DEF Transfer
<1>3. Off(s.rcv[h]) = [s.rcv[h] EXCEPT !.plugged = "no", !.timer = FALSE]
  BY <1>2, ReceiverExcept
<1>4. Unplug(s, h) = [s EXCEPT !.rcv = [@ EXCEPT ![h] = Off(s.rcv[h])]]
  BY <1>3 DEF Unplug, Transfer
<1>5. Unplug(s, h) = Put(s, h, Off(s.rcv[h]), s.state[h])
  BY <1>1, <1>4 DEF Put, Transfer
<1> QED
  BY <1>2, <1>5, PutFacts, ReceiverTyped

LEMMA Unlists ==
    ASSUME NEW s \in Transfer, NEW h \in Host
    PROVE  /\ Puts(s, Unlist(s, h), h)
           /\ s.rcv[h].listed => /\ Unlist(s, h).rcv[h] = Left(s.rcv[h])
                                 /\ Unlist(s, h).state[h] = -1
           /\ ~s.rcv[h].listed => Unlist(s, h) = s
<1>1. s.rcv[h] \in Receiver
  BY DEF Transfer
<1>2. CASE s.rcv[h].listed
  <2> DEFINE u == Unplug(s, h)
             t == Unlist(s, h)
  <2>1. t = [u EXCEPT !.state[h] = -1, !.rcv[h].listed = FALSE]
    BY <1>2 DEF Unlist
  <2>2. Puts(s, u, h) /\ u \in Transfer /\ u.rcv[h] = Off(s.rcv[h])
    BY Unplugs DEF Puts
  <2> HIDE DEF u, t
  <2>3. t = Put(u, h, [u.rcv[h] EXCEPT !.listed = FALSE], -1)
    BY <2>1, <2>2 DEF Put, Transfer
  <2>4. t = Put(u, h, Left(s.rcv[h]), -1) /\ Left(s.rcv[h]) \in Receiver
    BY <1>1, <2>2, <2>3, ReceiverExcept, ReceiverTyped
  <2>5. Puts(u, t, h) /\ t.rcv[h] = Left(s.rcv[h]) /\ t.state[h] = -1
    BY <2>2, <2>4, PutFacts
  <2>6. Puts(s, t, h)
    BY <2>2, <2>5, PutsTwice
  <2> QED
    BY <1>2, <2>5, <2>6 DEF t
<1>3. CASE ~s.rcv[h].listed
  BY <1>3 DEF Unlist, Puts, Same, SameBut
<1> QED
  BY <1>2, <1>3

LEMMA Disconnects ==
    ASSUME NEW s \in Transfer, NEW h \in Host
    PROVE  /\ Puts(s, Disconnect(s, h), h)
           /\ Disconnect(s, h).rcv[h] = Shut
           /\ Disconnect(s, h).state[h] = IF s.rcv[h].listed THEN -1 ELSE s.state[h]
<1> DEFINE r == [Off(s.rcv[h]) EXCEPT !.state = -1]
           v == Unplug(s, h)
           u == [v EXCEPT !.rcv[h].state = -1]
           t == Disconnect(s, h)
<1>1. s.rcv[h] \in Receiver /\ s.state[h] \in -2 .. 1
  BY DEF Transfer
<1>2. r \in Receiver /\ r.listed = s.rcv[h].listed /\ Left(r) = Shut
      /\ (~s.rcv[h].listed => r = Shut)
  <2>1. Off(s.rcv[h]) \in Receiver
    BY <1>1, ReceiverTyped
  <2>2. r \in Receiver
    BY <2>1 DEF Receiver
  <2> QED
    BY <1>1, <2>2, ReceiverExcept
<1>3. Puts(s, v, h) /\ v \in Transfer /\ v.rcv[h] = Off(s.rcv[h]) /\ v.state[h] = s.state[h]
  BY Unplugs DEF Puts
<1>4. u = [v EXCEPT !.rcv = [@ EXCEPT ![h] = r]]
  <2> HIDE DEF v
  <2> QED
    BY <1>3 DEF Transfer
<1>5. [v.state EXCEPT ![h] = v.state[h]] = v.state
  BY <1>3 DEF Transfer
<1>6. u = Put(v, h, r, v.state[h])
  <2> HIDE DEF v, r, u
  <2> QED
    BY <1>3, <1>4, <1>5 DEF Put, Transfer
<1>7. t = Unlist(u, h)
  BY DEF Disconnect
<1> HIDE DEF r, v, u, t
<1>8. Puts(v, u, h) /\ u \in Transfer /\ u.rcv[h] = r /\ u.state[h] = s.state[h]
  <2>1. v.state[h] \in -2 .. 1
    BY <1>1, <1>3
  <2>2. Puts(v, u, h) /\ u.rcv[h] = r /\ u.state[h] = v.state[h]
    BY <1>2, <1>3, <1>6, <2>1, PutFacts
  <2>3. u \in Transfer
    BY <2>2 DEF Puts
  <2> QED
    BY <1>3, <2>2, <2>3
<1>9. Puts(u, t, h)
      /\ (r.listed => t.rcv[h] = Left(r) /\ t.state[h] = -1) /\ (~r.listed => t = u)
  BY <1>7, <1>8, Unlists
<1>10. Puts(s, t, h)
  BY <1>3, <1>8, <1>9, PutsTwice
<1>11. t.rcv[h] = Shut /\ t.state[h] = IF s.rcv[h].listed THEN -1 ELSE s.state[h]
  BY <1>2, <1>8, <1>9
<1> QED
  BY <1>10, <1>11 DEF t

\* remove_receiver of some, and of all, streamhosts
LEMMA Removes ==
    ASSUME NEW s \in Transfer, NEW S \in SUBSET Host
    PROVE  LET t == RemoveReceivers(s, S)
               L == {h \in S : s.idx[h] = "set" /\ s.rcv[h].listed}
           IN /\ t \in Transfer /\ Same(s, t) /\ t.unnoticed = s.unnoticed /\ t.idx = s.idx
              /\ \A h \in L : t.rcv[h] = Shut /\ t.state[h] = -1
              /\ \A h \in Host \ L : t.rcv[h] = s.rcv[h] /\ t.state[h] = s.state[h]
<1> DEFINE L == {h \in S : s.idx[h] = "set" /\ s.rcv[h].listed}
           r == [h \in Host |-> IF h \in L THEN Shut ELSE s.rcv[h]]
           x == [h \in Host |-> IF h \in L THEN -1 ELSE s.state[h]]
           t == RemoveReceivers(s, S)
<1>1. [Unused EXCEPT !.state = -1] = Shut
  <2>1. [Unused EXCEPT !.state = -1] \in Receiver /\ Shut \in Receiver
    <3>1. Unused \in Receiver /\ Shut \in Receiver
      BY ReceiverTyped
    <3> QED
      BY <3>1 DEF Receiver
  <2>2. [Unused EXCEPT !.state = -1].state = Shut.state
        /\ [Unused EXCEPT !.state = -1].plugged = Shut.plugged
        /\ [Unused EXCEPT !.state = -1].timer = Shut.timer
        /\ [Unused EXCEPT !.state = -1].listed = Shut.listed
    BY DEF Unused, Shut
  <2> QED
    BY <2>1, <2>2, ReceiverEqual
<1>2. L \subseteq Host /\ r \in [Host -> Receiver] /\ x \in [Host -> -2 .. 1]
  BY ReceiverTyped DEF Transfer
<1>3. t = [s EXCEPT !.rcv = r, !.state = x]
  BY <1>1 DEF RemoveReceivers, Transfer
<1>4. t \in Transfer
  <2> HIDE DEF r, x, t
  <2> QED
    BY <1>2, <1>3 DEF Transfer
<1>5. t.rcv = r /\ t.state = x /\ t.idx = s.idx /\ t.unnoticed = s.unnoticed
  <2> HIDE DEF r, x, t
  <2> QED
    BY <1>3 DEF Transfer
<1>6. Same(s, t)
  <2> HIDE DEF r, x, t
  <2> QED
    BY <1>3 DEF Transfer, Same
<1>7. \A h \in L : r[h] = Shut /\ x[h] = -1
  BY <1>2
<1>8. \A h \in Host \ L : r[h] = s.rcv[h] /\ x[h] = s.state[h]
  OBVIOUS
<1> HIDE DEF L, r, x, t
<1>9. /\ t \in Transfer /\ Same(s, t) /\ t.unnoticed = s.unnoticed /\ t.idx = s.idx
      /\ \A h \in L : t.rcv[h] = Shut /\ t.state[h] = -1
      /\ \A h \in Host \ L : t.rcv[h] = s.rcv[h] /\ t.state[h] = s.state[h]
  BY <1>4, <1>5, <1>6, <1>7, <1>8
<1> QED
  BY <1>9 DEF L, t

-----------------------------------------------------------------------------
(* The kinds of steps, as relations of the transfer before and after.      *)

\* One receiver goes on, and waits for the next event: the negotiation
LEMMA GoesOn ==
    ASSUME NEW s, NEW t, NEW h \in Host,
           Core(s), Awaited(s), Puts(s, t, h), t.state[h] = s.state[h],
           Plugged(s, h), Plugged(t, h), t.rcv[h].listed,
           s.rcv[h].state = 0 <=> t.rcv[h].state = 0,
           s.rcv[h].state >= 1 <=> t.rcv[h].state >= 1,
           s.rcv[h].state >= 5 <=> t.rcv[h].state >= 5,
           t.rcv[h].plugged = "out" => t.rcv[h].state \in {0, 1, 3},
           t.rcv[h].plugged \in {"in", "hup"} => t.rcv[h].state \in {2, 4, 6},
           t.rcv[h].plugged = "hup" => s.paused \/ s.unnoticed
    PROVE  Core(t) /\ Awaited(t)
<1>1. s \in Transfer /\ t \in Transfer /\ Same(s, t) /\ t.unnoticed = s.unnoticed
      /\ t.idx = s.idx
  BY DEF Core, Puts
<1>2. \A g \in Host : /\ t.state[g] = s.state[g]
                      /\ g # h => t.rcv[g] = s.rcv[g]
  BY DEF Puts, SameBut
<1>3. \A g \in Host : Plugged(t, g) <=> Plugged(s, g)
  BY <1>2 DEF Plugged
<1>4. \A g \in Host : s.rcv[g] \in Receiver /\ t.rcv[g] \in Receiver /\ s.state[g] \in -2 .. 1
  BY <1>1 DEF Transfer
<1>5. \A g \in Host : Wired(t, g)
  <2>1. \A g \in Host : Wired(s, g)
    BY DEF Core
  <2>2. \A g \in Host : g # h => Wired(t, g)
    BY <1>1, <1>2, <2>1 DEF Wired
  <2>3. Wired(t, h)
    <3>1. Wired(s, h)
      BY <2>1
    <3>2. t.rcv[h].state \in -1 .. 8 /\ s.rcv[h].state \in -1 .. 8
      BY <1>4 DEF Receiver
    <3>3. s.state[h] = 1 => t.rcv[h].state = 6
      BY <3>1, <3>2, <1>4 DEF Wired, Plugged, Receiver
    <3> QED
      BY <1>1, <1>2, <3>1, <3>2, <3>3 DEF Wired, Plugged
  <2> QED
    BY <2>2, <2>3
<1>6. Alone(t)
  BY <1>2, <1>3 DEF Core, Alone, ConnectsOf
<1>7. NoneStopped(t)
  BY <1>2, <1>3 DEF Core, NoneStopped, Connecting
<1>8. Closed(t) <=> Closed(s)
  BY <1>3 DEF Closed
<1>9. Used(t) <=> Used(s)
  BY <1>2 DEF Used
<1>10. s.started
  BY <1>4 DEF Core, Offered, Plugged, Unused
<1>11. t.started /\ Started(t)
  BY <1>1, <1>10 DEF Core, Started, Same
<1>12. Final(t) => Closed(t)
  BY <1>1, <1>8 DEF Core, Final, Same
<1>13. Accepts(t)
  BY <1>1, <1>8, <1>9 DEF Core, Accepts, Same
<1>14. Tells(t)
  BY <1>1, <1>2 DEF Core, Tells, Same
<1>15. Waits(t)
  BY <1>1, <1>2, <1>3 DEF Core, Waits, Same
<1>16. Awaited(t)
  BY <1>1, <1>8 DEF Awaited, Same, IsOver
<1> QED
  BY <1>1, <1>5, <1>6, <1>7, <1>11, <1>12, <1>13, <1>14, <1>15, <1>16 DEF Core

\* One receiver is given up: Gone is what is left to do something about, before
\* anybody does
Drops(s, t, h) ==
    /\ Puts(s, t, h)
    /\ ~Plugged(t, h) /\ ~t.rcv[h].timer /\ t.rcv[h].state < 5
    /\ t.rcv[h].listed => s.rcv[h].listed
    /\ t.state[h] = -1

\* Nobody has been connected, or has failed for good
Untried(s) ==
    /\ s.told = <<>> /\ s.failure_cb /\ s.error = 0 /\ ~s.completed
    /\ s.stopped => CancelEarly
    /\ s.received = None /\ s.replied = 0 /\ ~s.fd

\* Before a streamhost is in use, the one that waits for an event is all there
\* is to what was received and told
LEMMA UnusedIsUntried ==
    ASSUME NEW s, NEW h \in Host, Core(s), Plugged(s, h), s.rcv[h].state < 5
    PROVE  /\ Untried(s) /\ ~Used(s) /\ s.started /\ s.state[h] = 0
           /\ s.rcv[h].listed
<1>1. s \in Transfer
  BY DEF Core
<1>2. s.rcv[h] \in Receiver /\ s.state[h] \in -2 .. 1
  BY <1>1 DEF Transfer
<1>3. s.started
  BY DEF Core, Offered, Plugged, Unused
<1>4. Wired(s, h)
  BY DEF Core
<1>5. s.state[h] = 0 /\ s.rcv[h].listed
  BY <1>2, <1>4 DEF Wired, Plugged, Receiver
<1>6. ~Used(s)
  <2> SUFFICES ASSUME NEW g \in Host, s.state[g] = 1 PROVE FALSE
    BY DEF Used
  <2>1. Wired(s, g)
    BY DEF Core
  <2>2. s.rcv[g].plugged # "no" /\ s.rcv[g].state = 6
    BY <2>1 DEF Wired
  <2>3. ConnectsOf(s, g)
    BY <2>2 DEF ConnectsOf, Plugged
  <2>4. g = h
    BY <2>3 DEF Core, Alone
  <2> QED
    BY <2>2, <2>4
<1>7. ~Closed(s)
  BY DEF Closed
<1>8. ~Final(s)
  BY <1>7 DEF Core
<1>9. s.received = None /\ s.replied = 0
  BY <1>6, <1>7 DEF Core, Accepts
<1>10. ~s.fd
  BY <1>9 DEF Core, Accepts
<1> QED
  BY <1>3, <1>5, <1>6, <1>8, <1>9, <1>10 DEF Final, Untried

LEMMA Dropped ==
    ASSUME NEW s, NEW t, NEW h \in Host,
           Core(s), Plugged(s, h), s.rcv[h].state < 5, Drops(s, t, h)
    PROVE  Core(t) /\ Untried(t) /\ ~Used(t) /\ t.started
<1>1. s \in Transfer /\ t \in Transfer /\ Same(s, t) /\ t.unnoticed = s.unnoticed
      /\ t.idx = s.idx
  BY DEF Core, Puts, Drops
<1>2. \A g \in Host : g # h => t.rcv[g] = s.rcv[g] /\ t.state[g] = s.state[g]
  BY DEF Puts, SameBut, Drops
<1>3. /\ Untried(s) /\ ~Used(s) /\ s.started /\ s.state[h] = 0
      /\ s.rcv[h].listed
  BY UnusedIsUntried
<1>4. Untried(t)
  BY <1>1, <1>3 DEF Untried, Same
<1>5. ~Used(t)
  BY <1>2, <1>3 DEF Used, Drops
<1>6. t.started /\ Started(t)
  BY <1>1, <1>3 DEF Core, Started, Same
<1>7. \A g \in Host : Plugged(t, g) => g # h /\ Plugged(s, g)
  BY <1>2 DEF Drops, Plugged
<1>8. \A g \in Host : Wired(t, g)
  <2>1. \A g \in Host : Wired(s, g)
    BY DEF Core
  <2>2. \A g \in Host : g # h => Wired(t, g)
    BY <1>1, <1>2, <2>1 DEF Wired
  <2>3. t.rcv[h].state \in -1 .. 8
    BY <1>1 DEF Transfer, Receiver
  <2>4. Wired(t, h)
    BY <1>1, <2>1, <2>3 DEF Wired, Drops, Plugged
  <2> QED
    BY <2>2, <2>4
<1>9. Alone(t)
  BY <1>2, <1>7 DEF Core, Alone, ConnectsOf
<1>10. NoneStopped(t)
  <2> SUFFICES ASSUME NEW g \in Host, NEW k \in Host, Connecting(t, g), t.state[k] = -2
               PROVE  FALSE
    BY DEF NoneStopped
  <2>1. k # h
    BY DEF Drops
  <2>2. s.state[k] = -2 /\ Connecting(s, g)
    BY <1>2, <1>7, <2>1 DEF Connecting
  <2> QED
    BY <2>2 DEF Core, NoneStopped
<1>11. ~Final(t) \/ (t.stopped /\ ~CancelEarly)
  BY <1>4, <1>6 DEF Final, Untried
<1>12. Accepts(t)
  BY <1>4, <1>5 DEF Accepts, Untried
<1>13. Tells(t)
  BY <1>4 DEF Tells, Untried
<1>14. Waits(t)
  BY <1>1, <1>2, <1>7 DEF Core, Waits, Same, Plugged, Drops
<1>15. ~Final(t)
  BY <1>4, <1>11 DEF Untried
<1>16. Core(t)
  BY <1>1, <1>6, <1>8, <1>9, <1>10, <1>12, <1>13, <1>14, <1>15 DEF Core
<1> QED
  BY <1>4, <1>5, <1>6, <1>16

-----------------------------------------------------------------------------
(* All streamhosts have failed.                                            *)

Failed(s) ==
    /\ \A h \in Host : s.state[h] = -1
    /\ s.received = None /\ s.replied = 0 /\ ~s.fd /\ ~s.completed /\ ~s.failure_cb
    /\ \/ s.error = -3 /\ s.stopped /\ s.told = <<"failed">>
       \/ s.error = 0 /\ s.unnoticed /\ s.told = <<>> /\ (s.stopped => CancelEarly)

\* _connect_error, when it is right
LEMMA ConnectErrs ==
    ASSUME NEW s \in Transfer, Untried(s), \A h \in Host : s.state[h] = -1
    PROVE  LET t == ConnectError(s)
           IN /\ t \in Transfer /\ Failed(t) /\ t.idx = s.idx
              /\ \A h \in Host : t.rcv[h] \in {s.rcv[h], Shut}
              /\ t.started = s.started /\ t.paused = s.paused
              /\ t.continue_cb = s.continue_cb
<1> DEFINE d == DisconnectTransfer(s)
           e == [d EXCEPT !.error = -3, !.stopped = TRUE]
           f == Tell(e, "failed")
           t == ConnectError(s)
<1>1. /\ d \in Transfer /\ Same(s, d) /\ d.unnoticed = s.unnoticed /\ d.idx = s.idx
      /\ \A h \in Host : d.rcv[h] \in {s.rcv[h], Shut} /\ d.state[h] = -1
  BY Removes DEF DisconnectTransfer
<1>2. CASE s.online
  <2>1. t = [f EXCEPT !.failure_cb = FALSE]
    BY <1>2 DEF ConnectError
  <2>2. d.told = <<>>
    BY <1>1 DEF Untried, Same
  <2>3. f = [d EXCEPT !.error = -3, !.stopped = TRUE, !.told = <<"failed">>]
    <3> HIDE DEF d
    <3>1. e \in Transfer /\ e.told = <<>>
      BY <1>1, <2>2 DEF Transfer
    <3>2. f = [e EXCEPT !.told = Append(e.told, "failed")]
      BY DEF Tell
    <3>3. Append(<<>>, "failed") = <<"failed">>
      OBVIOUS
    <3>4. f = [e EXCEPT !.told = <<"failed">>]
      BY <3>1, <3>2, <3>3
    <3> QED
      BY <1>1, <3>4 DEF Transfer
  <2>4. t = [d EXCEPT !.error = -3, !.stopped = TRUE, !.told = <<"failed">>,
                      !.failure_cb = FALSE]
    <3> HIDE DEF d, t, f
    <3> QED
      BY <1>1, <2>1, <2>3 DEF Transfer
  <2>5. <<"failed">> \in Seq({"completed", "stopped", "failed"})
    OBVIOUS
  <2> HIDE DEF d, t
  <2>6. t \in Transfer
    BY <1>1, <2>4, <2>5 DEF Transfer
  <2>7. /\ t.error = -3 /\ t.stopped /\ t.told = <<"failed">> /\ ~t.failure_cb
        /\ t.state = d.state /\ t.idx = d.idx /\ t.rcv = d.rcv
        /\ t.started = d.started /\ t.paused = d.paused /\ t.continue_cb = d.continue_cb
        /\ t.received = d.received /\ t.replied = d.replied /\ t.fd = d.fd
        /\ t.completed = d.completed
    BY <1>1, <2>4 DEF Transfer
  <2> HIDE DEF e, f
  <2>8. Failed(t)
    BY <1>1, <2>7 DEF Failed, Untried, Same
  <2>9. /\ t.idx = s.idx /\ (\A h \in Host : t.rcv[h] \in {s.rcv[h], Shut})
        /\ t.started = s.started /\ t.paused = s.paused
        /\ t.continue_cb = s.continue_cb
    BY <1>1, <2>7 DEF Same
  <2> QED
    BY <2>6, <2>8, <2>9 DEF t
<1>3. CASE ~s.online
  <2>1. t = [s EXCEPT !.unnoticed = TRUE, !.failure_cb = FALSE]
    BY <1>3 DEF ConnectError, Transfer
  <2> HIDE DEF t, d
  <2>2. t \in Transfer
    BY <2>1 DEF Transfer
  <2>3. /\ t.error = s.error /\ t.stopped = s.stopped /\ t.told = s.told /\ ~t.failure_cb
        /\ t.state = s.state /\ t.idx = s.idx /\ t.rcv = s.rcv
        /\ t.started = s.started /\ t.paused = s.paused /\ t.continue_cb = s.continue_cb
        /\ t.received = s.received /\ t.replied = s.replied /\ t.fd = s.fd
        /\ t.completed = s.completed /\ t.unnoticed
    BY <2>1 DEF Transfer
  <2>4. Failed(t)
    BY <2>3 DEF Failed, Untried
  <2> QED
    BY <2>2, <2>3, <2>4 DEF t
<1> QED
  BY <1>2, <1>3

\* _connection_refused
LEMMA Refuses ==
    ASSUME NEW s \in Transfer, NEW h \in Host, Untried(s)
    PROVE  LET t == ConnectionRefused(s, h)
           IN /\ t \in Transfer /\ t.idx = s.idx
              /\ t.state[h] = -1
              /\ s.rcv[h].listed => t.rcv[h] \in {Left(s.rcv[h]), Shut}
              /\ ~s.rcv[h].listed => t.rcv[h] \in {s.rcv[h], Shut}
              /\ t.started = s.started /\ t.paused = s.paused
              /\ t.continue_cb = s.continue_cb
              /\ \/ /\ SameBut(s, t, h) /\ Same(s, t) /\ t.unnoticed = s.unnoticed
                    /\ ~ \A g \in Host : t.state[g] = -1
                 \/ /\ Failed(t) /\ \A g \in Host \ {h} : s.state[g] = -1
                    /\ \A g \in Host \ {h} : t.rcv[g] \in {s.rcv[g], Shut}
<1> DEFINE m == [s EXCEPT !.state[h] = -1]
           r == Unlist(m, h)
           t == ConnectionRefused(s, h)
<1>1. s.rcv[h] \in Receiver
  BY DEF Transfer
<1>2. m = Put(s, h, s.rcv[h], -1)
  <2>1. [s.rcv EXCEPT ![h] = s.rcv[h]] = s.rcv
    BY DEF Transfer
  <2> QED
    BY <2>1 DEF Put, Transfer
<1>3. Puts(s, m, h) /\ m.rcv[h] = s.rcv[h] /\ m.state[h] = -1
  <2> HIDE DEF m
  <2>1. -1 \in -2 .. 1
    OBVIOUS
  <2> QED
    BY <1>1, <1>2, <2>1, PutFacts
<1>4. m \in Transfer
  BY <1>3 DEF Puts
<1> HIDE DEF m
<1>5. /\ Puts(m, r, h)
      /\ m.rcv[h].listed => r.rcv[h] = Left(m.rcv[h]) /\ r.state[h] = -1
      /\ ~m.rcv[h].listed => r = m
  BY <1>4, Unlists
<1> HIDE DEF r
<1>6. /\ Puts(s, r, h) /\ r.state[h] = -1
      /\ s.rcv[h].listed => r.rcv[h] = Left(s.rcv[h])
      /\ ~s.rcv[h].listed => r.rcv[h] = s.rcv[h]
  BY <1>3, <1>5, PutsTwice
<1>7. r \in Transfer /\ Same(s, r) /\ SameBut(s, r, h) /\ r.unnoticed = s.unnoticed
      /\ r.idx = s.idx
  BY <1>6 DEF Puts
<1>8. Untried(r)
  BY <1>7 DEF Untried, Same
<1>9. t = IF \A g \in Host : r.state[g] = -1 THEN ConnectError(r) ELSE r
  BY <1>8 DEF ConnectionRefused, Untried, r, m
<1> HIDE DEF t
<1>10. CASE \A g \in Host : r.state[g] = -1
  <2>1. /\ t \in Transfer /\ Failed(t) /\ t.idx = r.idx
        /\ \A g \in Host : t.rcv[g] \in {r.rcv[g], Shut}
        /\ t.started = r.started /\ t.paused = r.paused
        /\ t.continue_cb = r.continue_cb
    BY <1>7, <1>8, <1>9, <1>10, ConnectErrs
  <2>2. \A g \in Host \ {h} : s.state[g] = -1 /\ t.rcv[g] \in {s.rcv[g], Shut}
    BY <1>7, <1>10, <2>1 DEF SameBut
  <2>3. t.state[h] = -1
    BY <2>1 DEF Failed
  <2>4. t.started = s.started /\ t.paused = s.paused /\ t.continue_cb = s.continue_cb
    BY <1>7, <2>1 DEF Same
  <2> QED
    BY <1>6, <1>7, <2>1, <2>2, <2>3, <2>4 DEF t
<1>11. CASE ~ \A g \in Host : r.state[g] = -1
  <2>1. t = r
    BY <1>9, <1>11
  <2>2. t.started = s.started /\ t.paused = s.paused /\ t.continue_cb = s.continue_cb
    BY <1>7, <2>1 DEF Same
  <2> QED
    BY <1>6, <1>7, <1>11, <2>1, <2>2 DEF t
<1> QED
  BY <1>10, <1>11

-----------------------------------------------------------------------------
(* One more attempt: add_receiver.                                         *)

\* Not all have failed
Remains(s) == \E h \in Host : s.state[h] # -1

\* What holds while streamhosts are being tried, one after the other
Trying(s) ==
    /\ s \in Transfer /\ ~Used(s)
    /\ \A h \in Host :
          /\ Wired(s, h)
          /\ Plugged(s, h) => s.rcv[h].state = 0
          /\ s.state[h] = 0 /\ s.idx[h] # "none" => Plugged(s, h) \/ s.unnoticed
    /\ (Untried(s) /\ Remains(s)) \/ Failed(s)

New(outcome) == [state |-> 0, timer |-> FALSE, listed |-> TRUE,
                 plugged |-> IF outcome = "unresolved" THEN "no" ELSE "out"]

\* What becomes of the others when h is tried: nothing, or they had all failed
OnlyTried(s, t, h) ==
    \/ SameBut(s, t, h) /\ Untried(t)
    \/ /\ Failed(t) /\ \A g \in Host \ {h} : s.state[g] = -1 /\ t.idx[g] = s.idx[g]

\* With a new receiver for h
Fresh(s, h, outcome) ==
    [s EXCEPT
        !.rcv[h] = [state |-> 0, timer |-> FALSE, listed |-> TRUE,
                    plugged |-> IF outcome = "unresolved" THEN "no" ELSE "out"],
        !.started = TRUE, !.paused = FALSE, !.stalled = FALSE,
        !.completed = FALSE, !.error = 0, !.continue_cb = h,
        !.unnoticed = @ \/ outcome = "unresolved"]

LEMMA NewReceiver ==
    ASSUME NEW s \in Transfer, Untried(s), NEW h \in Host, NEW outcome
    PROVE  /\ Fresh(s, h, outcome) \in Transfer /\ Untried(Fresh(s, h, outcome))
           /\ SameBut(s, Fresh(s, h, outcome), h)
           /\ Fresh(s, h, outcome).rcv[h] = New(outcome)
           /\ Fresh(s, h, outcome).state = s.state /\ Fresh(s, h, outcome).idx = s.idx
           /\ Fresh(s, h, outcome).started /\ ~Fresh(s, h, outcome).paused
           /\ Fresh(s, h, outcome).continue_cb = h
           /\ (s.unnoticed \/ outcome = "unresolved") => Fresh(s, h, outcome).unnoticed
<1> DEFINE v == s.unnoticed \/ outcome = "unresolved"
           n == [s EXCEPT
                !.rcv = [s.rcv EXCEPT ![h] = New(outcome)],
                !.started = TRUE, !.paused = FALSE, !.stalled = FALSE,
                !.completed = FALSE, !.error = 0, !.continue_cb = h, !.unnoticed = v]
<1>1. New(outcome) \in Receiver
  BY DEF New, Receiver
<1>2. [s.rcv EXCEPT ![h] = New(outcome)] \in [Host -> Receiver]
  BY <1>1 DEF Transfer
<1>3. v \in BOOLEAN
  BY DEF Transfer
<1> HIDE DEF v
<1>4. n \in Transfer
  BY <1>2, <1>3 DEF Transfer
<1>5. /\ n.rcv = [s.rcv EXCEPT ![h] = New(outcome)] /\ n.state = s.state /\ n.idx = s.idx
      /\ n.started /\ ~n.paused /\ ~n.completed /\ n.error = 0 /\ n.continue_cb = h
      /\ n.told = s.told /\ n.failure_cb = s.failure_cb /\ n.stopped = s.stopped
      /\ n.received = s.received /\ n.replied = s.replied /\ n.fd = s.fd
      /\ n.unnoticed = v
  BY DEF Transfer
<1> HIDE DEF n
<1>6. n.rcv[h] = New(outcome) /\ \A g \in Host \ {h} : n.rcv[g] = s.rcv[g]
  BY <1>5 DEF Transfer
<1>7. Untried(n) /\ SameBut(s, n, h)
  BY <1>5, <1>6 DEF Untried, SameBut
<1>8. /\ n \in Transfer /\ Untried(n) /\ SameBut(s, n, h)
      /\ n.rcv[h] = New(outcome) /\ n.state = s.state /\ n.idx = s.idx
      /\ n.started /\ ~n.paused /\ n.continue_cb = h
      /\ (s.unnoticed \/ outcome = "unresolved") => n.unnoticed
  BY <1>4, <1>5, <1>6, <1>7 DEF v
<1> QED
  <2>1. Fresh(s, h, outcome) = n
    BY DEF n, v, New, Fresh, Transfer
  <2> QED
    BY <1>8, <2>1

\* Its last two assignments
LEMMA Timed ==
    ASSUME NEW u \in Transfer, NEW h \in Host
    PROVE  LET t == [u EXCEPT !.idx[h] = "set",
                              !.rcv[h].timer = u.rcv[h].plugged # "no"]
           IN /\ t \in Transfer /\ Same(u, t) /\ SameBut(u, t, h)
              /\ t.state = u.state /\ t.unnoticed = u.unnoticed /\ t.idx[h] = "set"
              /\ t.rcv[h].state = u.rcv[h].state /\ t.rcv[h].listed = u.rcv[h].listed
              /\ t.rcv[h].plugged = u.rcv[h].plugged
              /\ t.rcv[h].timer <=> u.rcv[h].plugged # "no"
<1> DEFINE b == u.rcv[h].plugged # "no"
           q == u.rcv[h]
           r == [q EXCEPT !.timer = b]
           t == [u EXCEPT !.idx = [u.idx EXCEPT ![h] = "set"],
                          !.rcv = [u.rcv EXCEPT ![h] = r]]
<1>1. q \in Receiver /\ b \in BOOLEAN
  BY DEF Transfer
<1>2. t = [u EXCEPT !.idx[h] = "set", !.rcv[h].timer = u.rcv[h].plugged # "no"]
  BY DEF Transfer
<1>3. r \in Receiver /\ r.state = q.state /\ r.listed = q.listed /\ r.plugged = q.plugged
      /\ (r.timer <=> b)
  <2> HIDE DEF q, b
  <2> QED
    BY <1>1 DEF Receiver
<1> HIDE DEF r
<1>4. /\ [u.rcv EXCEPT ![h] = r] \in [Host -> Receiver]
      /\ [u.idx EXCEPT ![h] = "set"] \in [Host -> {"none", "set", "gone"}]
  BY <1>3 DEF Transfer
<1>5. t \in Transfer
  BY <1>4 DEF Transfer
<1>6. /\ t.rcv = [u.rcv EXCEPT ![h] = r] /\ t.idx = [u.idx EXCEPT ![h] = "set"]
      /\ t.state = u.state /\ t.unnoticed = u.unnoticed
  BY DEF Transfer
<1>7. Same(u, t)
  BY DEF Transfer, Same
<1> HIDE DEF t
<1>8. t.rcv[h] = r /\ t.idx[h] = "set" /\ SameBut(u, t, h)
  BY <1>6 DEF Transfer, SameBut
<1>9. /\ t \in Transfer /\ Same(u, t) /\ SameBut(u, t, h)
      /\ t.state = u.state /\ t.unnoticed = u.unnoticed /\ t.idx[h] = "set"
      /\ t.rcv[h].state = u.rcv[h].state /\ t.rcv[h].listed = u.rcv[h].listed
      /\ t.rcv[h].plugged = u.rcv[h].plugged
      /\ t.rcv[h].timer <=> u.rcv[h].plugged # "no"
  BY <1>3, <1>5, <1>6, <1>7, <1>8
<1> QED
  BY <1>2, <1>9

\* With h to be tried
ToTry(s, h) == [s EXCEPT !.state[h] = 0]

\* One attempt, of a streamhost that nobody is connected to
LEMMA AddOne ==
    ASSUME InProgressFirst, NEW q, Trying(q), Untried(q), NEW h \in Host, ~Plugged(q, h),
           NEW outcome \in Outcome
    PROVE  LET t == AddReceiver(ToTry(q, h), h, outcome)
           IN /\ Trying(t) /\ OnlyTried(q, t, h)
              /\ t.started /\ ~t.paused /\ t.continue_cb = h
              /\ t.idx[h] = "set" /\ t.state[h] \in {-1, 0}
<1> DEFINE m == ToTry(q, h)
           n == Fresh(m, h, outcome)
           u == IF outcome = "refused" THEN ConnectionRefused(n, h) ELSE n
           t == AddReceiver(m, h, outcome)
<1>1. q \in Transfer /\ ~Used(q)
  BY DEF Trying
<1>2. Puts(q, m, h) /\ m.state[h] = 0
  <2>1. q.rcv[h] \in Receiver /\ [q.rcv EXCEPT ![h] = q.rcv[h]] = q.rcv
    BY <1>1 DEF Transfer
  <2>2. m = Put(q, h, q.rcv[h], 0)
    BY <1>1, <2>1 DEF Put, Transfer, ToTry
  <2>3. 0 \in -2 .. 1
    OBVIOUS
  <2> HIDE DEF m
  <2> QED
    BY <1>1, <2>1, <2>2, <2>3, PutFacts
<1>3. m \in Transfer /\ Untried(m) /\ SameBut(q, m, h) /\ m.idx = q.idx
      /\ m.unnoticed = q.unnoticed
  BY <1>2 DEF Puts, Untried, Same
<1> HIDE DEF m
<1>4. /\ n \in Transfer /\ Untried(n) /\ SameBut(m, n, h)
      /\ n.rcv[h] = New(outcome) /\ n.state = m.state /\ n.idx = m.idx
      /\ n.started /\ ~n.paused /\ n.continue_cb = h
      /\ (m.unnoticed \/ outcome = "unresolved") => n.unnoticed
  <2>1. m \in Transfer
    BY <1>3
  <2>2. Untried(m)
    BY <1>3
  <2> QED
    BY <2>1, <2>2, NewReceiver
<1>5. outcome \in {"progress", "unresolved", "refused"}
  BY SocksReceiverAssumption DEF Outcome, InProgressFirst
<1>6. t = [u EXCEPT !.idx[h] = "set", !.rcv[h].timer = u.rcv[h].plugged # "no"]
  BY <1>5 DEF AddReceiver, Fresh
<1> HIDE DEF n
<1>7. /\ u \in Transfer /\ u.idx = n.idx
      /\ u.started /\ ~u.paused /\ u.continue_cb = h
      /\ u.state[h] \in {-1, 0}
      /\ u.state[h] = 0 => u.rcv[h].plugged = "out" \/ u.unnoticed
      /\ u.rcv[h].plugged \in {"no", "out"} /\ u.rcv[h].state \in {-1, 0}
      /\ u.rcv[h].plugged = "out" => /\ u.rcv[h].listed
                                     /\ u.state[h] = 0 /\ u.rcv[h].state = 0
      /\ \/ SameBut(n, u, h) /\ Untried(u) /\ Remains(u) /\ u.unnoticed = n.unnoticed
         \/ /\ Failed(u) /\ \A g \in Host \ {h} : n.state[g] = -1
            /\ \A g \in Host \ {h} : u.rcv[g] \in {n.rcv[g], Shut}
  <2>1. CASE outcome # "refused"
    <3>1. u = n
      BY <2>1
    <3>2. n.rcv[h].plugged = IF outcome = "unresolved" THEN "no" ELSE "out"
      BY <1>4 DEF New
    <3>3. n.rcv[h].state = 0 /\ n.rcv[h].listed
      BY <1>4 DEF New
    <3>4. n.state[h] = 0
      BY <1>2, <1>4
    <3>5. n.rcv[h].plugged = "out" \/ n.unnoticed
      BY <1>4, <3>2
    <3>6. SameBut(n, n, h)
      BY DEF SameBut
    <3> HIDE DEF u
    <3> QED
      BY <1>4, <3>1, <3>2, <3>3, <3>4, <3>5, <3>6 DEF Remains
  <2>2. CASE outcome = "refused"
    <3>1. u = ConnectionRefused(n, h)
      BY <2>2
    <3>2. n.rcv[h].listed /\ Left(n.rcv[h]).state = 0 /\ Left(n.rcv[h]).plugged = "no"
      BY <1>4 DEF New, Left
    <3>3. Shut.state = -1 /\ Shut.plugged = "no"
      BY DEF Shut
    <3> HIDE DEF u
    <3>4. /\ u \in Transfer /\ u.idx = n.idx
          /\ u.state[h] = -1
          /\ u.rcv[h] \in {Left(n.rcv[h]), Shut}
          /\ u.started = n.started /\ u.paused = n.paused
          /\ u.continue_cb = n.continue_cb
          /\ \/ /\ SameBut(n, u, h) /\ Same(n, u) /\ u.unnoticed = n.unnoticed
                /\ ~ \A g \in Host : u.state[g] = -1
             \/ /\ Failed(u) /\ \A g \in Host \ {h} : n.state[g] = -1
                /\ \A g \in Host \ {h} : u.rcv[g] \in {n.rcv[g], Shut}
      <4>1. n \in Transfer
        BY <1>4
      <4>2. Untried(n)
        BY <1>4
      <4> QED
        BY <3>1, <3>2, <4>1, <4>2, Refuses
    <3>5. Same(n, u) => Untried(u)
      BY <1>4 DEF Untried, Same
    <3>6. u.rcv[h].plugged = "no" /\ u.rcv[h].state \in {-1, 0}
      BY <3>2, <3>3, <3>4
    <3> QED
      BY <1>4, <3>4, <3>5, <3>6 DEF Remains
  <2> QED
    BY <2>1, <2>2
<1> HIDE DEF u
<1>8. /\ t \in Transfer /\ Same(u, t) /\ SameBut(u, t, h)
      /\ t.state = u.state /\ t.unnoticed = u.unnoticed /\ t.idx[h] = "set"
      /\ t.rcv[h].state = u.rcv[h].state /\ t.rcv[h].listed = u.rcv[h].listed
      /\ t.rcv[h].plugged = u.rcv[h].plugged
      /\ t.rcv[h].timer <=> u.rcv[h].plugged # "no"
  <2>1. u \in Transfer
    BY <1>7
  <2> HIDE DEF t
  <2> QED
    BY <1>6, <2>1, Timed
<1> HIDE DEF t
<1>9. t.started /\ ~t.paused /\ t.continue_cb = h /\ t.state[h] \in {-1, 0}
  BY <1>7, <1>8 DEF Same
<1>10. Wired(t, h)
  BY <1>7, <1>8 DEF Wired
<1>11. Plugged(t, h) => t.rcv[h].state = 0
  BY <1>7, <1>8 DEF Plugged
<1>12. t.state[h] = 0 => Plugged(t, h) \/ t.unnoticed
  BY <1>7, <1>8 DEF Plugged
<1>13. \A g \in Host \ {h} : t.idx[g] = q.idx[g] /\ n.rcv[g] = q.rcv[g] /\ n.state[g] = q.state[g]
  BY <1>3, <1>4, <1>7, <1>8 DEF SameBut
<1>14. CASE SameBut(n, u, h) /\ Untried(u) /\ Remains(u) /\ u.unnoticed = n.unnoticed
  <2>1. SameBut(q, t, h)
    BY <1>8, <1>13, <1>14 DEF SameBut
  <2>2. Untried(t) /\ Remains(t)
    BY <1>8, <1>14 DEF Untried, Same, Remains
  <2>3. q.unnoticed => t.unnoticed
    BY <1>3, <1>4, <1>8, <1>14
  <2>4. \A g \in Host \ {h} :
          /\ Wired(t, g) /\ (Plugged(t, g) => t.rcv[g].state = 0)
          /\ t.state[g] = 0 /\ t.idx[g] # "none" => Plugged(t, g) \/ t.unnoticed
    BY <2>1, <2>3 DEF SameBut, Trying, Wired, Plugged
  <2>5. ~Used(t)
    BY <1>1, <1>9, <2>1 DEF Used, SameBut
  <2>6. Trying(t)
    BY <1>8, <1>10, <1>11, <1>12, <2>2, <2>4, <2>5 DEF Trying
  <2> QED
    BY <1>8, <1>9, <2>1, <2>2, <2>6 DEF OnlyTried, t, m
<1>15. CASE /\ Failed(u) /\ \A g \in Host \ {h} : n.state[g] = -1
            /\ \A g \in Host \ {h} : u.rcv[g] \in {n.rcv[g], Shut}
  <2>1. Failed(t)
    BY <1>8, <1>15 DEF Failed, Same
  <2>2. \A g \in Host \ {h} : q.state[g] = -1 /\ t.rcv[g] \in {q.rcv[g], Shut}
                              /\ t.state[g] = -1
    BY <1>8, <1>13, <1>15, <2>1 DEF SameBut, Failed
  <2>3. Shut.plugged = "no" /\ Shut.timer = FALSE /\ Shut.listed = FALSE /\ Shut.state = -1
    BY DEF Shut
  <2>4. \A g \in Host \ {h} :
          /\ Wired(t, g) /\ (Plugged(t, g) => t.rcv[g].state = 0)
          /\ t.state[g] = 0 /\ t.idx[g] # "none" => Plugged(t, g) \/ t.unnoticed
    <3> SUFFICES ASSUME NEW g \in Host \ {h}
                 PROVE  Wired(t, g) /\ (Plugged(t, g) => t.rcv[g].state = 0)
      BY <2>2
    <3>1. Wired(q, g) /\ (Plugged(q, g) => q.rcv[g].state = 0)
      BY DEF Trying
    <3>2. CASE t.rcv[g] = q.rcv[g]
      BY <1>13, <2>2, <3>1, <3>2 DEF Wired, Plugged
    <3>3. CASE t.rcv[g] = Shut
      BY <2>2, <2>3, <3>3 DEF Wired, Plugged
    <3> QED
      BY <2>2, <3>2, <3>3
  <2>5. ~Used(t)
    BY <2>1 DEF Used, Failed
  <2>6. Trying(t)
    BY <1>8, <1>10, <1>11, <1>12, <2>1, <2>4, <2>5 DEF Trying
  <2> QED
    BY <1>8, <1>9, <1>13, <2>1, <2>2, <2>6 DEF OnlyTried, t, m
<1> QED
  BY <1>7, <1>14, <1>15

-----------------------------------------------------------------------------
(* The loops over the streamhosts, by induction.                           *)

LEMMA HostFacts ==
    /\ Len(Hosts) \in Nat /\ Len(Hosts) # 0
    /\ \A i \in 1 .. Len(Hosts) : Hosts[i] \in Host
    /\ \A h \in Host : \E i \in 1 .. Len(Hosts) : Hosts[i] = h
    /\ \A i, j \in 1 .. Len(Hosts) : Hosts[i] = Hosts[j] => i = j
BY SocksReceiverAssumption DEF Host, ToSet, IsInjective

\* When all have been tried, and none is left out
LEMMA TriedAll ==
    ASSUME NEW t, Trying(t), t.started, Started(t),
           \A h \in Host : t.state[h] # -2
    PROVE  Core(t) /\ Awaited(t)
<1>1. t \in Transfer /\ ~Used(t) /\ \A h \in Host : Wired(t, h)
  BY DEF Trying
<1>2. \A h \in Host : t.rcv[h] \in Receiver /\ t.state[h] \in {-1, 0}
  BY <1>1 DEF Transfer, Used
<1>3. \A h \in Host : Plugged(t, h) => t.rcv[h].state = 0
  BY DEF Trying
<1>4. \A h \in Host : t.state[h] = 0 => Plugged(t, h) \/ t.unnoticed
  BY DEF Trying, Started
<1>5. Alone(t)
  BY <1>3 DEF Alone, ConnectsOf
<1>6. NoneStopped(t)
  BY DEF NoneStopped
<1>7. \A h \in Host : t.rcv[h].plugged # "hup"
  BY <1>1, <1>2, <1>3 DEF Wired, Plugged
<1>8. Waits(t)
  BY <1>4, <1>7 DEF Waits
<1>9. t.received = None /\ t.replied = 0 /\ ~t.fd
  BY DEF Trying, Untried, Failed
<1>10. Accepts(t)
  BY <1>1, <1>9 DEF Accepts
<1>11. Tells(t)
  <2>1. t.told = <<>> \/ /\ t.told = <<"failed">>
                         /\ \A h \in Host : t.state[h] = -1
    BY DEF Trying, Untried, Failed
  <2>2. /\ <<>> # <<"failed">> /\ <<>> # <<"completed">> /\ <<>> # <<"stopped">>
        /\ <<"failed">> # <<"completed">> /\ <<"failed">> # <<"stopped">>
    OBVIOUS
  <2> QED
    BY <1>9, <2>1, <2>2 DEF Tells
<1>12. CASE Untried(t) /\ Remains(t)
  <2>1. ~Final(t)
    BY <1>12 DEF Untried, Final
  <2>2. Closed(t) => t.unnoticed
    BY <1>2, <1>4, <1>12 DEF Closed, Remains
  <2> QED
    BY <1>1, <1>5, <1>6, <1>8, <1>10, <1>11, <2>1, <2>2 DEF Core, Awaited
<1>13. CASE Failed(t)
  <2>1. Closed(t)
    BY <1>1, <1>13 DEF Closed, Wired, Plugged, Failed
  <2>2. IsOver(t) \/ t.unnoticed
    BY <1>13 DEF Failed, IsOver
  <2> QED
    BY <1>1, <1>5, <1>6, <1>8, <1>10, <1>11, <2>1, <2>2 DEF Core, Awaited
<1> QED
  BY <1>12, <1>13 DEF Trying

\* reconnect_receiver tries again what was stopped
LEMMA TriesAgain ==
    ASSUME InProgressFirst, NEW s, Core(s), Untried(s), ~Used(s), s.started,
           Remains(s), \A h \in Host : s.state[h] \in {-1, -2},
           NEW outcome \in [Host -> Outcome]
    PROVE  LET t == TryAgain(s, outcome)
           IN Core(t) /\ Awaited(t) /\ (Untried(t) \/ Failed(t)) /\ ~Used(t) /\ t.started
<1> DEFINE N == Len(Hosts)
           Is(x, n) ==
              /\ Trying(x) /\ x.started /\ Started(x)
              /\ \A i \in 1 .. N : IF i <= n THEN x.state[Hosts[i]] # -2
                                   ELSE x.state[Hosts[i]] \in {-1, -2}
           P == [n \in 0 .. N |-> {x \in Transfer : Is(x, n)}]
           F == [n \in 1 .. N |-> [x \in Transfer |-> Again(x, Hosts[n], outcome[Hosts[n]])]]
           Step(n, g) == IF n = 0 THEN s ELSE Again(g[n - 1], Hosts[n], outcome[Hosts[n]])
           f == CHOOSE f : f = [n \in 0 .. N |->
                   IF n = 0 THEN s ELSE Again(f[n - 1], Hosts[n], outcome[Hosts[n]])]
<1>1. N \in Nat
  BY HostFacts
<1>2. s \in Transfer /\ Is(s, 0)
  <2>1. s \in Transfer /\ (\A h \in Host : Wired(s, h)) /\ Started(s)
    BY DEF Core
  <2>2. \A h \in Host : ~Plugged(s, h)
    BY <2>1 DEF Wired, Plugged
  <2>3. Trying(s)
    BY <2>1, <2>2 DEF Trying
  <2> QED
    BY <2>1, <2>3, HostFacts
<1>3. ASSUME NEW n \in 1 .. N, NEW x \in Transfer, Is(x, n - 1)
      PROVE  Again(x, Hosts[n], outcome[Hosts[n]]) \in Transfer
             /\ Is(Again(x, Hosts[n], outcome[Hosts[n]]), n)
  <2> DEFINE h == Hosts[n]
             t == Again(x, h, outcome[h])
  <2>1. h \in Host /\ outcome[h] \in Outcome
    BY HostFacts
  <2>2. \A i \in 1 .. N : Hosts[i] \in Host /\ (Hosts[i] = h => i = n)
    BY HostFacts
  <2>3. CASE x.state[h] # -2
    <3>1. t = x
      BY <2>3 DEF Again
    <3>2. \A i \in 1 .. N : IF i <= n THEN x.state[Hosts[i]] # -2
                            ELSE x.state[Hosts[i]] \in {-1, -2}
      <4> TAKE i \in 1 .. N
      <4>1. CASE i = n
        BY <2>3, <4>1
      <4>2. CASE i # n
        <5>1. i <= n <=> i <= n - 1
          BY <1>1, <4>2
        <5> QED
          BY <1>3, <5>1
      <4> QED
        BY <4>1, <4>2
    <3> QED
      BY <1>3, <3>1, <3>2
  <2>4. CASE x.state[h] = -2
    <3>1. t = AddReceiver(ToTry(x, h), h, outcome[h])
      BY <2>4 DEF Again, ToTry
    <3>2. Trying(x)
      BY <1>3
    <3>3. Untried(x)
      BY <2>1, <2>4, <3>2 DEF Trying, Failed
    <3>4. ~Plugged(x, h)
      BY <2>1, <2>4, <3>2 DEF Trying, Wired, Plugged
    <3>5. h \in Host
      BY <2>1
    <3>6. outcome[h] \in Outcome
      BY <2>1
    <3> HIDE DEF h, t
    <3>7. /\ Trying(t) /\ OnlyTried(x, t, h)
          /\ t.started /\ ~t.paused /\ t.continue_cb = h
          /\ t.idx[h] = "set" /\ t.state[h] \in {-1, 0}
      BY <3>5, <3>6, <3>1, <3>2, <3>3, <3>4, AddOne
    <3>8. \A g \in Host \ {h} : t.state[g] = x.state[g] /\ t.idx[g] = x.idx[g]
      BY <3>7 DEF OnlyTried, SameBut, Failed
    <3>9. Started(t)
      BY <1>3, <2>1, <3>7, <3>8 DEF Started
    <3>10. \A i \in 1 .. N : IF i <= n THEN t.state[Hosts[i]] # -2
                            ELSE t.state[Hosts[i]] \in {-1, -2}
      <4> TAKE i \in 1 .. N
      <4>1. CASE i = n
        BY <3>7, <4>1 DEF h
      <4>2. CASE i # n
        <5>1. i <= n <=> i <= n - 1
          BY <1>1, <4>2
        <5>2. t.state[Hosts[i]] = x.state[Hosts[i]]
          BY <2>2, <3>8, <4>2
        <5> QED
          BY <1>3, <5>1, <5>2
      <4> QED
        BY <4>1, <4>2
    <3>11. t \in Transfer
      BY <3>7 DEF Trying
    <3> QED
      BY <3>7, <3>9, <3>10, <3>11 DEF t, h
  <2> QED
    BY <2>3, <2>4
<1> HIDE DEF Is
<1>4. s \in P[0]
  BY <1>1, <1>2
<1>5. P \in [0 .. N -> SUBSET Transfer]
  BY <1>1
<1>6. \A n \in 1 .. N : \A x \in P[n - 1] : F[n][x] \in P[n]
  <2> TAKE n \in 1 .. N
  <2> TAKE x \in P[n - 1]
  <2>1. n - 1 \in 0 .. N /\ n \in 0 .. N
    BY <1>1
  <2>2. x \in Transfer /\ Is(x, n - 1)
    BY <2>1
  <2>3. F[n][x] = Again(x, Hosts[n], outcome[Hosts[n]])
    BY <2>2
  <2> QED
    BY <1>3, <2>1, <2>2, <2>3
<1>7. StepsTo(N, Transfer, P, F)
  <2> HIDE DEF P, F, N, f
  <2> QED
    BY <1>6, <1>5 DEF StepsTo
<1>8. PICK g \in [0 .. N -> Transfer] : Computes(N, P, F, s, g)
  <2> HIDE DEF P, F, N, f
  <2> QED
    BY <1>1, <1>4, <1>7, LoopExists
<1>9. /\ g[0] = s
      /\ \A n \in 1 .. N : g[n] = F[n][g[n - 1]]
      /\ \A n \in 0 .. N : g[n] \in P[n]
  BY <1>8 DEF Computes
<1>10. g = [n \in 0 .. N |-> IF n = 0 THEN s
                            ELSE Again(g[n - 1], Hosts[n], outcome[Hosts[n]])]
  <2>1. \A n \in 0 .. N : g[n] = IF n = 0 THEN s
                                 ELSE Again(g[n - 1], Hosts[n], outcome[Hosts[n]])
    <3> TAKE n \in 0 .. N
    <3>1. CASE n # 0
      <4>1. n \in 1 .. N /\ n - 1 \in 0 .. N
        BY <1>1, <3>1
      <4>2. g[n - 1] \in Transfer
        BY <1>8, <4>1
      <4> QED
        BY <1>9, <3>1, <4>1, <4>2
    <3> QED
      BY <1>9, <3>1
  <2> HIDE DEF P, F, N
  <2> QED
    BY <2>1
<1>11. f = [n \in 0 .. N |-> IF n = 0 THEN s
                            ELSE Again(f[n - 1], Hosts[n], outcome[Hosts[n]])]
  BY <1>10
<1>12. TryAgain(s, outcome) = f[N]
  BY DEF TryAgain
<1> HIDE DEF f
<1>13. f[0] \in P[0]
  BY <1>1, <1>4, <1>11
<1>14. \A n \in 1 .. N : f[n - 1] \in P[n - 1] => f[n] \in P[n]
  <2> TAKE n \in 1 .. N
  <2> HAVE f[n - 1] \in P[n - 1]
  <2>1. n \in 0 .. N /\ n # 0 /\ n - 1 \in 0 .. N
    BY <1>1
  <2>2. f[n] = Again(f[n - 1], Hosts[n], outcome[Hosts[n]])
    BY <1>11, <2>1
  <2>3. f[n - 1] \in Transfer /\ Is(f[n - 1], n - 1)
    BY <2>1
  <2> QED
    BY <1>3, <2>1, <2>2, <2>3
<1>15. f[N] \in P[N]
  <2> HIDE DEF P, N
  <2> QED
    BY <1>1, <1>13, <1>14, LoopKeeps
<1> DEFINE t == TryAgain(s, outcome)
<1>16. t \in Transfer /\ Is(t, N)
  BY <1>1, <1>12, <1>15
<1> HIDE DEF t
<1>17. \A h \in Host : t.state[h] # -2
  BY <1>1, <1>16, HostFacts DEF Is
<1>18. Trying(t) /\ t.started /\ Started(t)
  BY <1>16 DEF Is
<1>19. Core(t) /\ Awaited(t)
  BY <1>17, <1>18, TriedAll
<1>20. (Untried(t) \/ Failed(t)) /\ ~Used(t)
  BY <1>18 DEF Trying
<1> QED
  BY <1>18, <1>19, <1>20 DEF t

\* connect_to_hosts tries all
LEMMA TriesAll ==
    ASSUME InProgressFirst, NEW s, Core(s), ~s.started,
           NEW outcome \in [Host -> Outcome]
    PROVE  LET t == ConnectToHosts(s, outcome)
           IN Core(t) /\ Awaited(t) /\ (Untried(t) \/ Failed(t)) /\ ~Used(t) /\ t.started
<1> DEFINE N == Len(Hosts)
           a == [s EXCEPT !.failure_cb = TRUE]
           Is(x, n) ==
              /\ Trying(x)
              /\ n # 0 => x.started /\ x.continue_cb \in Host
              /\ \A i \in 1 .. N : IF i <= n THEN x.idx[Hosts[i]] # "none" /\ x.state[Hosts[i]] # -2
                                   ELSE x.state[Hosts[i]] = 0 /\ ~Plugged(x, Hosts[i])
           P == [n \in 0 .. N |-> {x \in Transfer : Is(x, n)}]
           F == [n \in 1 .. N |-> [x \in Transfer |-> AddReceiver(x, Hosts[n], outcome[Hosts[n]])]]
           f == CHOOSE f : f = [n \in 0 .. N |->
                   IF n = 0 THEN a ELSE AddReceiver(f[n - 1], Hosts[n], outcome[Hosts[n]])]
<1>1. N \in Nat /\ N # 0
  BY HostFacts
<1>2. a \in Transfer /\ Is(a, 0)
  <2>1. s \in Transfer /\ Offered(s) /\ (s.stopped => CancelEarly)
    BY DEF Core
  <2>2. /\ a \in Transfer /\ a.state = s.state /\ a.idx = s.idx /\ a.rcv = s.rcv
        /\ a.told = s.told /\ a.failure_cb /\ a.error = s.error /\ a.completed = s.completed
        /\ a.stopped = s.stopped /\ a.received = s.received /\ a.replied = s.replied
        /\ a.fd = s.fd /\ a.paused = s.paused
    BY <2>1 DEF Transfer
  <2> HIDE DEF a
  <2>3. \A h \in Host : a.rcv[h] = Unused /\ a.state[h] = 0 /\ a.idx[h] = "none"
    BY <2>1, <2>2 DEF Offered
  <2>4. \A h \in Host : Wired(a, h) /\ ~Plugged(a, h)
    BY <2>3 DEF Wired, Plugged, Unused
  <2>5. Untried(a)
    BY <2>1, <2>2 DEF Untried, Offered
  <2>6. Hosts[1] \in Host
    BY <1>1, HostFacts
  <2>7. Remains(a) /\ ~Used(a)
    BY <2>3, <2>6 DEF Remains, Used
  <2>8. Trying(a)
    BY <2>2, <2>3, <2>4, <2>5, <2>7 DEF Trying
  <2>9. \A i \in 1 .. N : ~(i <= 0) /\ Hosts[i] \in Host
    BY HostFacts
  <2> QED
    BY <2>2, <2>3, <2>4, <2>5, <2>8, <2>9
<1>3. ASSUME NEW n \in 1 .. N, NEW x \in Transfer, Is(x, n - 1)
      PROVE  AddReceiver(x, Hosts[n], outcome[Hosts[n]]) \in Transfer
             /\ Is(AddReceiver(x, Hosts[n], outcome[Hosts[n]]), n)
  <2> DEFINE h == Hosts[n]
             t == AddReceiver(x, h, outcome[h])
  <2>1. h \in Host
    BY HostFacts
  <2>2. outcome[h] \in Outcome
    BY <2>1
  <2>3. \A i \in 1 .. N : Hosts[i] \in Host /\ (Hosts[i] = h => i = n)
    BY HostFacts
  <2>4. x.state[h] = 0 /\ ~Plugged(x, h)
    <3>1. ~(n <= n - 1)
      BY <1>1
    <3> QED
      BY <1>3, <3>1
  <2>5. ToTry(x, h) = x
    <3> HIDE DEF h
    <3> QED
      BY <2>1, <2>4 DEF ToTry, Transfer
  <2>6. Trying(x)
    BY <1>3
  <2>7. Untried(x)
    BY <2>1, <2>4, <2>6 DEF Trying, Failed
  <2>8. ~Plugged(x, h)
    BY <2>4
  <2>9. t = AddReceiver(ToTry(x, h), h, outcome[h])
    BY <2>5
  <2> HIDE DEF h, t
  <2>10. /\ Trying(t) /\ OnlyTried(x, t, h)
         /\ t.started /\ ~t.paused /\ t.continue_cb = h
         /\ t.idx[h] = "set" /\ t.state[h] \in {-1, 0}
    BY <2>1, <2>2, <2>6, <2>7, <2>8, <2>9, AddOne
  <2>11. \A i \in 1 .. N : IF i <= n THEN t.idx[Hosts[i]] # "none" /\ t.state[Hosts[i]] # -2
                           ELSE t.state[Hosts[i]] = 0 /\ ~Plugged(t, Hosts[i])
    <3> TAKE i \in 1 .. N
    <3>1. CASE i = n
      BY <2>10, <3>1 DEF h
    <3>2. CASE i # n
      <4>1. i <= n <=> i <= n - 1
        BY <1>1, <3>2
      <4>2. Hosts[i] \in Host \ {h}
        BY <2>3, <3>2
      <4>3. CASE SameBut(x, t, h)
        <5>1. /\ t.state[Hosts[i]] = x.state[Hosts[i]] /\ t.idx[Hosts[i]] = x.idx[Hosts[i]]
              /\ Plugged(t, Hosts[i]) <=> Plugged(x, Hosts[i])
          BY <4>2, <4>3 DEF SameBut, Plugged
        <5> QED
          BY <1>3, <4>1, <5>1
      <4>4. CASE Failed(t) /\ \A g \in Host \ {h} : x.state[g] = -1 /\ t.idx[g] = x.idx[g]
        <5>1. /\ t.state[Hosts[i]] = -1 /\ t.idx[Hosts[i]] = x.idx[Hosts[i]]
              /\ x.state[Hosts[i]] = -1
          BY <4>2, <4>4 DEF Failed
        <5> QED
          BY <1>3, <4>1, <5>1
      <4> QED
        BY <2>10, <4>3, <4>4 DEF OnlyTried
    <3> QED
      BY <3>1, <3>2
  <2>12. t \in Transfer
    BY <2>10 DEF Trying
  <2> QED
    BY <2>1, <2>10, <2>11, <2>12 DEF t, h
<1> HIDE DEF Is, a
<1>4. a \in P[0]
  BY <1>1, <1>2
<1>5. \A n \in 1 .. N : \A x \in P[n - 1] : F[n][x] \in P[n]
  <2> TAKE n \in 1 .. N
  <2> TAKE x \in P[n - 1]
  <2>1. n - 1 \in 0 .. N /\ n \in 0 .. N
    BY <1>1
  <2>2. x \in Transfer /\ Is(x, n - 1)
    BY <2>1
  <2>3. F[n][x] = AddReceiver(x, Hosts[n], outcome[Hosts[n]])
    BY <2>2
  <2> QED
    BY <1>3, <2>1, <2>2, <2>3
<1>6. StepsTo(N, Transfer, P, F)
  <2>1. P \in [0 .. N -> SUBSET Transfer]
    BY <1>1
  <2> HIDE DEF P, F, N, f
  <2> QED
    BY <1>5, <2>1 DEF StepsTo
<1>7. PICK g \in [0 .. N -> Transfer] : Computes(N, P, F, a, g)
  <2> HIDE DEF P, F, N, f
  <2> QED
    BY <1>1, <1>4, <1>6, LoopExists
<1>8. g[0] = a /\ \A n \in 1 .. N : g[n] = F[n][g[n - 1]]
  BY <1>7 DEF Computes
<1>9. g = [n \in 0 .. N |-> IF n = 0 THEN a
                            ELSE AddReceiver(g[n - 1], Hosts[n], outcome[Hosts[n]])]
  <2>1. \A n \in 0 .. N : g[n] = IF n = 0 THEN a
                                 ELSE AddReceiver(g[n - 1], Hosts[n], outcome[Hosts[n]])
    <3> TAKE n \in 0 .. N
    <3>1. CASE n # 0
      <4>1. n \in 1 .. N /\ n - 1 \in 0 .. N
        BY <1>1, <3>1
      <4>2. g[n - 1] \in Transfer
        BY <1>7, <4>1
      <4> QED
        BY <1>8, <3>1, <4>1, <4>2
    <3> QED
      BY <1>8, <3>1
  <2> HIDE DEF P, F, N
  <2> QED
    BY <2>1
<1>10. f = [n \in 0 .. N |-> IF n = 0 THEN a
                             ELSE AddReceiver(f[n - 1], Hosts[n], outcome[Hosts[n]])]
  BY <1>9
<1>11. ConnectToHosts(s, outcome) = f[N]
  BY DEF ConnectToHosts, a
<1> HIDE DEF f
<1>12. f[0] \in P[0]
  BY <1>1, <1>4, <1>10
<1>13. \A n \in 1 .. N : f[n - 1] \in P[n - 1] => f[n] \in P[n]
  <2> TAKE n \in 1 .. N
  <2> HAVE f[n - 1] \in P[n - 1]
  <2>1. n \in 0 .. N /\ n # 0 /\ n - 1 \in 0 .. N
    BY <1>1
  <2>2. f[n] = AddReceiver(f[n - 1], Hosts[n], outcome[Hosts[n]])
    BY <1>10, <2>1
  <2>3. f[n - 1] \in Transfer /\ Is(f[n - 1], n - 1)
    BY <2>1
  <2> QED
    BY <1>3, <2>1, <2>2, <2>3
<1>14. f[N] \in P[N]
  <2> HIDE DEF P, N
  <2> QED
    BY <1>1, <1>12, <1>13, LoopKeeps
<1> DEFINE t == ConnectToHosts(s, outcome)
<1>15. t \in Transfer /\ Is(t, N)
  BY <1>1, <1>11, <1>14
<1> HIDE DEF t
<1>16. \A h \in Host : t.state[h] # -2 /\ t.idx[h] # "none"
  BY <1>1, <1>15, HostFacts DEF Is
<1>17. Trying(t) /\ t.started /\ Started(t)
  BY <1>1, <1>15, <1>16 DEF Is, Started
<1>18. Core(t) /\ Awaited(t)
  BY <1>16, <1>17, TriedAll
<1>19. (Untried(t) \/ Failed(t)) /\ ~Used(t)
  BY <1>17 DEF Trying
<1> QED
  BY <1>17, <1>18, <1>19 DEF t

-----------------------------------------------------------------------------
(* A streamhost that fails, and what is done about it.                     *)

\* Only failed ones are left
LEMMA FailsAll ==
    ASSUME NEW s, Core(s), s.started, NEW h \in Host, NEW t \in Transfer, Failed(t),
           t.idx = s.idx, t.started = s.started, t.continue_cb = s.continue_cb,
           t.rcv[h].plugged = "no", ~t.rcv[h].timer, t.rcv[h].state < 5,
           t.rcv[h].listed => s.rcv[h].listed,
           \A g \in Host \ {h} : s.state[g] = -1 /\ t.rcv[g] \in {s.rcv[g], Shut}
    PROVE  Core(t) /\ Awaited(t) /\ ~Used(t) /\ t.started
<1>1. \A g \in Host : Wired(s, g)
  BY DEF Core
<1>2. \A g \in Host : t.state[g] = -1
  BY DEF Failed
<1>3. Shut.plugged = "no" /\ Shut.timer = FALSE /\ Shut.listed = FALSE /\ Shut.state = -1
  BY DEF Shut
<1>4. Wired(t, h)
  <2>1. t.rcv[h].state \in -1 .. 8
    BY DEF Transfer, Receiver
  <2> QED
    BY <1>1, <1>2, <2>1 DEF Wired
<1>5. ASSUME NEW g \in Host \ {h} PROVE Wired(t, g)
  <2>1. Wired(s, g) /\ s.state[g] = -1 /\ t.state[g] = -1 /\ t.idx[g] = s.idx[g]
    BY <1>1, <1>2
  <2>2. CASE t.rcv[g] = s.rcv[g]
    BY <2>1, <2>2 DEF Wired
  <2>3. CASE t.rcv[g] = Shut
    BY <1>3, <2>1, <2>3 DEF Wired
  <2> QED
    BY <2>2, <2>3
<1>6. \A g \in Host : Wired(t, g) /\ ~Plugged(t, g)
  BY <1>2, <1>4, <1>5 DEF Wired, Plugged
<1>7. ~Used(t)
  BY <1>2 DEF Used
<1>8. Trying(t)
  BY <1>2, <1>6, <1>7 DEF Trying
<1>9. Started(t)
  BY DEF Core, Started
<1>10. \A g \in Host : t.state[g] # -2
  BY <1>2
<1> QED
  BY <1>7, <1>8, <1>9, <1>10, TriedAll

Gone(s, h) == [Unplug(s, h) EXCEPT !.state[h] = -1]

LEMMA IsGone ==
    ASSUME NEW s \in Transfer, NEW h \in Host
    PROVE  /\ Puts(s, Gone(s, h), h)
           /\ Gone(s, h).rcv[h] = Off(s.rcv[h]) /\ Gone(s, h).state[h] = -1
<1> DEFINE u == Unplug(s, h)
           g == Gone(s, h)
<1>1. Puts(s, u, h) /\ u \in Transfer /\ u.rcv[h] = Off(s.rcv[h])
  BY Unplugs DEF Puts
<1>2. g = [u EXCEPT !.state[h] = -1]
  BY DEF Gone
<1> HIDE DEF u, g
<1>3. g = Put(u, h, u.rcv[h], -1) /\ u.rcv[h] \in Receiver
  <2>1. [u.rcv EXCEPT ![h] = u.rcv[h]] = u.rcv /\ u.rcv[h] \in Receiver
    BY <1>1 DEF Transfer
  <2> QED
    BY <1>1, <1>2, <2>1 DEF Put, Transfer
<1>4. Puts(u, g, h) /\ g.rcv[h] = u.rcv[h] /\ g.state[h] = -1
  <2>1. -1 \in -2 .. 1
    OBVIOUS
  <2> QED
    BY <1>1, <1>3, <2>1, PutFacts
<1>5. Puts(s, g, h)
  BY <1>1, <1>4, PutsTwice
<1> QED
  BY <1>1, <1>4, <1>5 DEF g

\* reconnect_receiver, of one that was not in use
LEMMA Reconnects ==
    ASSUME InProgressFirst, NEW s, Core(s), NEW h \in Host, Plugged(s, h), s.rcv[h].state < 5,
           NEW q \in Transfer, Drops(s, Gone(q, h), h), NEW outcome \in [Host -> Outcome]
    PROVE  LET t == ReconnectReceiver(q, h, outcome)
           IN Core(t) /\ Awaited(t) /\ (Untried(t) \/ Failed(t)) /\ ~Used(t) /\ t.started
<1> DEFINE e == Gone(q, h)
           t == ReconnectReceiver(q, h, outcome)
           Tested(n) == \E g \in Host : e.idx[g] # "none" /\ e.state[g] \in n
<1>1. Core(e) /\ Untried(e) /\ ~Used(e) /\ e.started
  BY Dropped
<1>2. e \in Transfer /\ Started(e) /\ e.state[h] = -1 /\ ~Plugged(e, h) /\ ~e.rcv[h].timer
      /\ e.rcv[h].state < 5
  BY <1>1 DEF Core, Drops
<1>3. e.received = None
  BY <1>1 DEF Untried
<1>4. t = IF Tested({0, 1}) THEN e
          ELSE IF Tested({-2}) THEN TryAgain(e, outcome)
          ELSE ConnectionRefused(e, h)
  BY <1>3 DEF ReconnectReceiver, Gone
<1>5. \A g \in Host : e.state[g] \in -2 .. 1 /\ e.state[g] # 1 /\ e.idx[g] # "none"
  BY <1>1, <1>2 DEF Transfer, Used, Started
<1> HIDE DEF e, t
<1>6. CASE Tested({0, 1})
  <2>1. t = e
    BY <1>4, <1>6
  <2>2. PICK g \in Host : e.state[g] = 0
    BY <1>5, <1>6
  <2>3. Plugged(e, g) \/ e.unnoticed
    BY <1>1, <2>2 DEF Core, Waits
  <2>4. Awaited(e)
    BY <2>3 DEF Awaited, Closed
  <2> QED
    BY <1>1, <2>1, <2>4 DEF t
<1>7. CASE ~Tested({0, 1}) /\ Tested({-2})
  <2>1. t = TryAgain(e, outcome)
    BY <1>4, <1>7
  <2>2. \A g \in Host : e.state[g] \in {-1, -2}
    <3> TAKE g \in Host
    <3>1. e.state[g] # 0
      BY <1>5, <1>7
    <3> QED
      BY <1>5, <3>1
  <2>3. Remains(e)
    BY <1>7 DEF Remains
  <2>4. LET u == TryAgain(e, outcome)
        IN Core(u) /\ Awaited(u) /\ (Untried(u) \/ Failed(u)) /\ ~Used(u) /\ u.started
    BY <1>1, <2>2, <2>3, TriesAgain
  <2> QED
    BY <2>1, <2>4 DEF t
<1>8. CASE ~Tested({0, 1}) /\ ~Tested({-2})
  <2>1. t = ConnectionRefused(e, h)
    BY <1>4, <1>8
  <2>2. \A g \in Host : e.state[g] = -1
    <3> TAKE g \in Host
    <3>1. e.state[g] # 0 /\ e.state[g] # -2
      BY <1>5, <1>8
    <3> QED
      BY <1>5, <3>1
  <2>3. Untried(e)
    BY <1>1
  <2>4. /\ t \in Transfer /\ t.idx = e.idx
        /\ t.state[h] = -1
        /\ e.rcv[h].listed => t.rcv[h] \in {Left(e.rcv[h]), Shut}
        /\ ~e.rcv[h].listed => t.rcv[h] \in {e.rcv[h], Shut}
        /\ t.started = e.started /\ t.paused = e.paused
        /\ t.continue_cb = e.continue_cb
        /\ \/ /\ SameBut(e, t, h) /\ Same(e, t) /\ t.unnoticed = e.unnoticed
              /\ ~ \A g \in Host : t.state[g] = -1
           \/ /\ Failed(t) /\ \A g \in Host \ {h} : e.state[g] = -1
              /\ \A g \in Host \ {h} : t.rcv[g] \in {e.rcv[g], Shut}
    BY <1>2, <2>1, <2>3, Refuses
  <2>5. Failed(t) /\ \A g \in Host \ {h} : t.rcv[g] \in {e.rcv[g], Shut}
    BY <2>2, <2>4 DEF SameBut
  <2>6. /\ t.rcv[h].plugged = "no" /\ ~t.rcv[h].timer /\ t.rcv[h].state < 5
        /\ t.rcv[h].listed => e.rcv[h].listed
    <3>1. /\ Shut.plugged = "no" /\ Shut.timer = FALSE /\ Shut.listed = FALSE /\ Shut.state = -1
          /\ Left(e.rcv[h]).plugged = "no" /\ Left(e.rcv[h]).timer = FALSE
          /\ Left(e.rcv[h]).listed = FALSE /\ Left(e.rcv[h]).state = e.rcv[h].state
      BY DEF Shut, Left
    <3>2. e.rcv[h].plugged = "no"
      BY <1>2 DEF Plugged
    <3>3. t.rcv[h] \in {Left(e.rcv[h]), Shut, e.rcv[h]}
      BY <2>4
    <3> QED
      BY <1>2, <3>1, <3>2, <3>3
  <2>7. Core(t) /\ Awaited(t) /\ ~Used(t) /\ t.started
    BY <1>1, <2>2, <2>4, <2>5, <2>6, FailsAll
  <2> QED
    BY <2>5, <2>7 DEF t
<1> QED
  BY <1>6, <1>7, <1>8

\* connect() fails later
LEMMA RefusedLater ==
    ASSUME NEW s, Core(s), NEW h \in Host, Connecting(s, h),
           NEW q \in Transfer, Puts(s, q, h), q.rcv[h].listed, q.rcv[h].state = 0
    PROVE  LET t == ConnectionRefused(q, h)
           IN Core(t) /\ Awaited(t) /\ (Untried(t) \/ Failed(t)) /\ ~Used(t) /\ t.started
<1> DEFINE t == ConnectionRefused(q, h)
<1>1. Plugged(s, h) /\ s.rcv[h].state < 5
  BY DEF Connecting
<1>2. Untried(s) /\ ~Used(s) /\ s.started /\ s.rcv[h].listed
  BY <1>1, UnusedIsUntried
<1>3. Untried(q)
  BY <1>2 DEF Puts, Untried, Same
<1> HIDE DEF t
<1>4. /\ t \in Transfer /\ t.idx = q.idx
      /\ t.state[h] = -1
      /\ t.rcv[h] \in {Left(q.rcv[h]), Shut}
      /\ t.started = q.started /\ t.paused = q.paused
      /\ t.continue_cb = q.continue_cb
      /\ \/ /\ SameBut(q, t, h) /\ Same(q, t) /\ t.unnoticed = q.unnoticed
            /\ ~ \A g \in Host : t.state[g] = -1
         \/ /\ Failed(t) /\ \A g \in Host \ {h} : q.state[g] = -1
            /\ \A g \in Host \ {h} : t.rcv[g] \in {q.rcv[g], Shut}
  BY <1>3, Refuses DEF t
<1>5. /\ t.rcv[h].plugged = "no" /\ ~t.rcv[h].timer /\ t.rcv[h].state < 5
      /\ ~t.rcv[h].listed
  <2>1. /\ Shut.plugged = "no" /\ Shut.timer = FALSE /\ Shut.listed = FALSE /\ Shut.state = -1
        /\ Left(q.rcv[h]).plugged = "no" /\ Left(q.rcv[h]).timer = FALSE
        /\ Left(q.rcv[h]).listed = FALSE /\ Left(q.rcv[h]).state = 0
    BY DEF Shut, Left
  <2> QED
    BY <1>4, <2>1
<1>6. CASE /\ SameBut(q, t, h) /\ Same(q, t) /\ t.unnoticed = q.unnoticed
           /\ ~ \A g \in Host : t.state[g] = -1
  <2>1. Puts(q, t, h)
    BY <1>4, <1>6 DEF Puts
  <2>2. Puts(s, t, h)
    BY <2>1, PutsTwice
  <2>3. Drops(s, t, h)
    BY <1>4, <1>5, <2>2 DEF Drops, Plugged
  <2>4. Core(t) /\ Untried(t) /\ ~Used(t) /\ t.started
    BY <1>1, <2>3, Dropped
  <2>5. PICK g \in Host : t.state[g] # -1
    BY <1>6
  <2>6. t.state[g] # -2
    <3>1. s.state[g] = t.state[g]
      BY <1>4, <2>2, <2>5 DEF Puts, SameBut
    <3> QED
      BY <3>1 DEF Core, NoneStopped
  <2>7. t.state[g] = 0
    BY <1>4, <2>4, <2>5, <2>6 DEF Transfer, Used
  <2>8. Plugged(t, g) \/ t.unnoticed
    BY <2>4, <2>7 DEF Core, Waits
  <2>9. Awaited(t)
    BY <2>8 DEF Awaited, Closed
  <2> QED
    BY <2>4, <2>9 DEF t
<1>7. CASE /\ Failed(t) /\ \A g \in Host \ {h} : q.state[g] = -1
           /\ \A g \in Host \ {h} : t.rcv[g] \in {q.rcv[g], Shut}
  <2>1. /\ \A g \in Host \ {h} : s.state[g] = -1 /\ t.rcv[g] \in {s.rcv[g], Shut}
        /\ t.idx = s.idx /\ t.started = s.started /\ t.continue_cb = s.continue_cb
    BY <1>4, <1>7 DEF Puts, SameBut, Same
  <2>2. Core(t) /\ Awaited(t) /\ ~Used(t) /\ t.started
    BY <1>2, <1>4, <1>5, <1>7, <2>1, FailsAll
  <2> QED
    BY <1>7, <2>2 DEF t
<1> QED
  BY <1>4, <1>6, <1>7

-----------------------------------------------------------------------------
(* The first that is connected stops the others.                           *)

\* h is connected in t, and the others are stopped
Wins(s, t, h) ==
    /\ t \in Transfer /\ Same(s, t) /\ t.unnoticed = s.unnoticed
    /\ t.rcv[h].listed /\ t.rcv[h].plugged = "out" /\ t.rcv[h].state = 1
    /\ t.state[h] = s.state[h] /\ t.idx[h] = s.idx[h]
    /\ \A g \in Host \ {h} :
          \/ /\ s.state[g] >= 0 /\ t.state[g] = -2 /\ t.idx[g] = "gone"
             /\ t.rcv[g] = Shut \/ (~t.rcv[g].listed /\ t.rcv[g] = s.rcv[g])
          \/ /\ s.state[g] < 0 /\ t.state[g] = s.state[g] /\ t.idx[g] = s.idx[g]
             /\ t.rcv[g] = s.rcv[g]

LEMMA Won ==
    ASSUME NEW s, Core(s), NEW h \in Host, Connecting(s, h), NEW t, Wins(s, t, h)
    PROVE  Core(t) /\ Awaited(t) /\ Untried(t) /\ ~Used(t) /\ t.started
<1>1. Plugged(s, h) /\ s.rcv[h].state < 5
  BY DEF Connecting
<1>2. Untried(s) /\ ~Used(s) /\ s.started /\ s.state[h] = 0 /\ s.rcv[h].listed
  BY <1>1, UnusedIsUntried
<1>3. \A g \in Host : Wired(s, g)
  BY DEF Core
<1>4. Shut.plugged = "no" /\ Shut.timer = FALSE /\ Shut.listed = FALSE /\ Shut.state = -1
  BY DEF Shut
<1>5. s \in Transfer /\ t \in Transfer
  BY DEF Core, Wins
<1>6. \A g \in Host : s.state[g] \in -2 .. 1 /\ s.state[g] # 1
  BY <1>2, <1>5 DEF Transfer, Used
<1>7. \A g \in Host : g # h => ~Plugged(t, g) /\ t.state[g] < 0 /\ Wired(t, g)
  <2> TAKE g \in Host
  <2> HAVE g # h
  <2>1. CASE s.state[g] < 0
    <3>1. t.state[g] = s.state[g] /\ t.idx[g] = s.idx[g] /\ t.rcv[g] = s.rcv[g]
      BY <2>1, <1>6 DEF Wins
    <3> QED
      BY <1>3, <2>1, <3>1 DEF Wired, Plugged
  <2>2. CASE s.state[g] = 0
    <3>1. t.state[g] = -2 /\ t.idx[g] = "gone"
          /\ (t.rcv[g] = Shut \/ (~t.rcv[g].listed /\ t.rcv[g] = s.rcv[g]))
      BY <2>2 DEF Wins
    <3>2. CASE t.rcv[g] = Shut
      BY <1>4, <3>1, <3>2 DEF Wired, Plugged
    <3>3. CASE ~t.rcv[g].listed /\ t.rcv[g] = s.rcv[g]
      BY <1>3, <2>2, <3>1, <3>3 DEF Wired, Plugged
    <3> QED
      BY <3>1, <3>2, <3>3
  <2> QED
    BY <1>6, <2>1, <2>2
<1>8. Wired(t, h) /\ Plugged(t, h)
  BY <1>2, <1>3 DEF Wired, Wins, Plugged
<1>9. \A g \in Host : Wired(t, g)
  BY <1>7, <1>8
<1>10. Alone(t)
  BY <1>7 DEF Alone, ConnectsOf
<1>11. NoneStopped(t)
  BY <1>7 DEF NoneStopped, Connecting, Wins
<1>12. Untried(t)
  BY <1>2 DEF Untried, Same, Wins
<1>13. t.state[h] = 0
  BY <1>2 DEF Wins
<1>14. ~Used(t)
  BY <1>7, <1>13 DEF Used
<1>15. t.started /\ Started(t)
  <2>1. Started(s)
    BY <1>2 DEF Core
  <2>2. \A g \in Host : t.idx[g] # "none"
    BY <2>1 DEF Started, Wins
  <2> QED
    BY <1>2, <2>1, <2>2 DEF Started, Wins, Same
<1>16. ~Final(t)
  BY <1>12, <1>15 DEF Final, Untried
<1>17. Accepts(t)
  BY <1>12, <1>14 DEF Accepts, Untried
<1>18. Tells(t)
  BY <1>12 DEF Tells, Untried
<1>19. Waits(t)
  <2>1. \A g \in Host : t.state[g] = 0 => Plugged(t, g)
    BY <1>7, <1>8
  <2>2. \A g \in Host : t.rcv[g].plugged # "hup"
    BY <1>7 DEF Plugged, Wins
  <2> QED
    BY <2>1, <2>2 DEF Waits
<1>20. Awaited(t)
  BY <1>8 DEF Awaited, Closed
<1> QED
  BY <1>5, <1>9, <1>10, <1>11, <1>12, <1>14, <1>15, <1>16, <1>17, <1>18, <1>19, <1>20
  DEF Core

\* do_connect, when the socket is connected
LEMMA ConnectedWins ==
    ASSUME NEW s, Core(s), NEW h \in Host, Connecting(s, h),
           NEW q \in Transfer, Puts(s, q, h), q.state[h] = s.state[h],
           q.rcv[h].listed
    PROVE  Wins(s, Connected(q, h), h)
<1> DEFINE m == [q EXCEPT !.rcv[h].state = 1]
           others == {g \in Host \ {h} : m.idx[g] # "none"}
           used == {g \in others : m.state[g] = 1}
           stopped == {g \in others : m.state[g] >= 0 /\ \A u \in used : Before(g, u)}
           k == RemoveReceivers(m, stopped)
           a == [k EXCEPT
                    !.idx = [g \in Host |-> IF g \in stopped THEN "gone" ELSE @[g]],
                    !.state = [g \in Host |-> IF g \in stopped THEN -2 ELSE @[g]]]
           t == Connected(q, h)
<1>1. Plugged(s, h) /\ s.rcv[h].state < 5
  BY DEF Connecting
<1>2. ~Used(s) /\ s.started
  BY <1>1, UnusedIsUntried
<1>3. /\ m \in Transfer /\ Same(q, m) /\ m.unnoticed = q.unnoticed /\ m.idx = q.idx
      /\ m.state = q.state /\ m.rcv[h].listed /\ m.rcv[h].state = 1
      /\ \A g \in Host \ {h} : m.rcv[g] = q.rcv[g]
  <2> DEFINE c == q.rcv[h]
             r == [c EXCEPT !.state = 1]
  <2>1. c \in Receiver
    BY DEF Transfer
  <2>2. r \in Receiver /\ r.state = 1 /\ r.listed = c.listed
    <3> HIDE DEF c
    <3> QED
      BY <2>1 DEF Receiver
  <2>3. m = Put(q, h, r, q.state[h])
    <3>1. [q.state EXCEPT ![h] = q.state[h]] = q.state
      BY DEF Transfer
    <3> QED
      BY <3>1 DEF Put, Transfer
  <2>4. q.state[h] \in -2 .. 1
    BY DEF Transfer
  <2> HIDE DEF m, r, c
  <2>5. Puts(q, m, h) /\ m.rcv[h] = r /\ m.state[h] = q.state[h]
    BY <2>2, <2>3, <2>4, PutFacts
  <2>6. m.state = q.state
    BY <2>3 DEF Put, Transfer
  <2> QED
    BY <2>2, <2>5, <2>6 DEF Puts, SameBut, c
<1>4. t = LET z == IF used = {} THEN a ELSE RemoveReceivers(a, {h})
          IN IF z.rcv[h].listed THEN [z EXCEPT !.rcv[h].plugged = "out"] ELSE z
  BY DEF Connected, SocketConnected
<1> HIDE DEF m
<1>5. /\ Same(s, m) /\ m.unnoticed = s.unnoticed /\ m.idx = s.idx /\ m.state[h] = s.state[h]
      /\ \A g \in Host \ {h} : m.rcv[g] = s.rcv[g] /\ m.state[g] = s.state[g]
  BY <1>3 DEF Puts, Same, SameBut
<1>6. \A g \in Host : s.state[g] \in -2 .. 1 /\ s.state[g] # 1 /\ s.idx[g] # "none"
  BY <1>2 DEF Core, Started, Used, Transfer
<1>7. used = {}
  BY <1>5, <1>6
<1>8. \A g \in Host : g \in stopped <=> g # h /\ s.state[g] >= 0
  BY <1>5, <1>6, <1>7
<1>9. stopped \in SUBSET Host
  OBVIOUS
<1> HIDE DEF used, others, stopped
<1> DEFINE L == {g \in stopped : m.idx[g] = "set" /\ m.rcv[g].listed}
<1>10. /\ k \in Transfer /\ Same(m, k) /\ k.unnoticed = m.unnoticed /\ k.idx = m.idx
       /\ \A g \in L : k.rcv[g] = Shut /\ k.state[g] = -1
       /\ \A g \in Host \ L : k.rcv[g] = m.rcv[g] /\ k.state[g] = m.state[g]
  BY <1>3, <1>9, Removes
<1> HIDE DEF k
<1>11. /\ a \in Transfer /\ Same(k, a) /\ a.unnoticed = k.unnoticed /\ a.rcv = k.rcv
       /\ \A g \in stopped : a.idx[g] = "gone" /\ a.state[g] = -2
       /\ \A g \in Host \ stopped : a.idx[g] = k.idx[g] /\ a.state[g] = k.state[g]
  <2> DEFINE i == [g \in Host |-> IF g \in stopped THEN "gone" ELSE k.idx[g]]
             x == [g \in Host |-> IF g \in stopped THEN -2 ELSE k.state[g]]
  <2>1. i \in [Host -> {"none", "set", "gone"}] /\ x \in [Host -> -2 .. 1]
    BY <1>10 DEF Transfer
  <2>2. a = [k EXCEPT !.idx = i, !.state = x]
    BY <1>10 DEF Transfer
  <2>3. /\ \A g \in stopped : i[g] = "gone" /\ x[g] = -2
        /\ \A g \in Host \ stopped : i[g] = k.idx[g] /\ x[g] = k.state[g]
    BY <1>9
  <2> HIDE DEF i, x, a
  <2>4. a \in Transfer
    BY <1>10, <2>1, <2>2 DEF Transfer
  <2>5. a.idx = i /\ a.state = x /\ a.rcv = k.rcv /\ a.unnoticed = k.unnoticed
    BY <1>10, <2>2 DEF Transfer
  <2>6. Same(k, a)
    BY <1>10, <2>2 DEF Transfer, Same
  <2> QED
    BY <2>3, <2>4, <2>5, <2>6
<1>12. h \notin stopped /\ h \notin L
  BY <1>8
<1>13. a.rcv[h] = m.rcv[h] /\ a.state[h] = s.state[h] /\ a.idx[h] = s.idx[h]
  BY <1>5, <1>10, <1>11, <1>12
<1>14. a.rcv[h].listed
  BY <1>3, <1>13
<1>15. t = [a EXCEPT !.rcv[h].plugged = "out"]
  <2> HIDE DEF a
  <2> QED
    BY <1>4, <1>7, <1>14
<1> HIDE DEF a, t
<1>16. /\ Puts(a, t, h) /\ t.rcv[h].plugged = "out" /\ t.rcv[h].listed /\ t.rcv[h].state = 1
       /\ t.state[h] = a.state[h]
  <2> DEFINE c == a.rcv[h]
             r == [c EXCEPT !.plugged = "out"]
  <2>1. c \in Receiver /\ c.state = 1 /\ c.listed
    BY <1>3, <1>11, <1>13 DEF Transfer
  <2>2. r \in Receiver /\ r.state = 1 /\ r.listed /\ r.plugged = "out"
    <3> HIDE DEF c
    <3> QED
      BY <2>1 DEF Receiver
  <2>3. t = Put(a, h, r, a.state[h])
    <3>1. [a.state EXCEPT ![h] = a.state[h]] = a.state
      BY <1>11 DEF Transfer
    <3> QED
      BY <1>11, <1>15, <3>1 DEF Put, Transfer
  <2>4. a.state[h] \in -2 .. 1
    BY <1>11 DEF Transfer
  <2> HIDE DEF r, c
  <2>5. Puts(a, t, h) /\ t.rcv[h] = r /\ t.state[h] = a.state[h]
    BY <1>11, <2>2, <2>3, <2>4, PutFacts
  <2> QED
    BY <2>2, <2>5
<1>17. /\ t \in Transfer /\ Same(s, t) /\ t.unnoticed = s.unnoticed
       /\ t.state[h] = s.state[h] /\ t.idx[h] = s.idx[h]
  BY <1>5, <1>10, <1>11, <1>13, <1>16 DEF Puts, Same
<1>18. ASSUME NEW g \in Host \ {h}
       PROVE  \/ /\ s.state[g] >= 0 /\ t.state[g] = -2 /\ t.idx[g] = "gone"
                 /\ t.rcv[g] = Shut \/ (~t.rcv[g].listed /\ t.rcv[g] = s.rcv[g])
              \/ /\ s.state[g] < 0 /\ t.state[g] = s.state[g] /\ t.idx[g] = s.idx[g]
                 /\ t.rcv[g] = s.rcv[g]
  <2>1. t.rcv[g] = a.rcv[g] /\ t.state[g] = a.state[g] /\ t.idx[g] = a.idx[g]
    BY <1>16 DEF Puts, SameBut
  <2>2. CASE g \in stopped
    <3>1. s.state[g] >= 0 /\ t.state[g] = -2 /\ t.idx[g] = "gone"
      BY <1>8, <1>11, <2>1, <2>2
    <3>2. CASE g \in L
      BY <1>10, <1>11, <2>1, <3>1, <3>2
    <3>3. CASE g \notin L
      <4>1. t.rcv[g] = m.rcv[g] /\ m.rcv[g] = s.rcv[g] /\ m.idx[g] = s.idx[g]
        BY <1>5, <1>10, <1>11, <2>1, <3>3
      <4>2. ~(m.idx[g] = "set" /\ m.rcv[g].listed)
        BY <2>2, <3>3
      <4>3. Wired(s, g)
        BY DEF Core
      <4> QED
        BY <3>1, <4>1, <4>2, <4>3 DEF Wired
    <3> QED
      BY <3>2, <3>3
  <2>3. CASE g \notin stopped
    <3>1. g \notin L
      BY <2>3
    <3>2. ~(s.state[g] >= 0)
      BY <1>8, <2>3
    <3>3. t.state[g] = s.state[g] /\ t.idx[g] = s.idx[g] /\ t.rcv[g] = s.rcv[g]
      BY <1>5, <1>10, <1>11, <2>1, <2>3, <3>1
    <3> QED
      BY <1>6, <3>2, <3>3
  <2> QED
    BY <2>2, <2>3
<1>19. Wins(s, t, h)
  BY <1>16, <1>17, <1>18 DEF Wins
<1> QED
  BY <1>19 DEF t

-----------------------------------------------------------------------------
(* The steps of Download, as a relation.                                   *)

PhaseOf(s) ==
    IF s.completed THEN "completed"
    ELSE IF s.error = -3 THEN "failed"
    ELSE IF s.stopped THEN "stopped"
    ELSE IF Used(s) THEN "receiving"
    ELSE IF s.started THEN "trying" ELSE "offered"

GotOf(s) == IF s.received = None THEN 0 ELSE s.received

Moves(s, t) ==
    LET p == PhaseOf(s)
        q == PhaseOf(t)
        m == GotOf(s)
        n == GotOf(t)
    IN \/ q = p /\ n = m
       \/ p = "offered" /\ q \in {"trying", "failed"} /\ n = m
       \/ p = "trying" /\ q \in {"receiving", "failed"} /\ n = m
       \/ p = "receiving" /\ q = p /\ n \in Nat /\ n > m /\ n < Size
       \/ p = "receiving" /\ q = "completed" /\ n \in Nat /\ n > m /\ n >= Size
       \/ /\ p \notin {"completed", "failed", "stopped"} /\ q = "stopped"
          /\ n \in Nat /\ n >= m
          /\ p # "receiving" => n = m

\* What a step has to show
Good(s, t) == Core(t) /\ Awaited(t) /\ (~CancelEarly => Moves(s, t))

\* The race goes on: nothing is accepted, or all have failed
Races(s) == (Untried(s) \/ Failed(s)) /\ ~Used(s) /\ s.started

LEMMA RacePhase ==
    ASSUME NEW s, Races(s), ~CancelEarly
    PROVE  /\ PhaseOf(s) \in {"trying", "failed"} /\ GotOf(s) = 0
           /\ Untried(s) => PhaseOf(s) = "trying"
<1>1. GotOf(s) = 0
  BY DEF Races, Untried, Failed, GotOf
<1>2. ~s.completed /\ ~Used(s) /\ s.started
  BY DEF Races, Untried, Failed
<1>3. Untried(s) => PhaseOf(s) = "trying"
  BY <1>2 DEF Untried, PhaseOf
<1>4. Failed(s) => PhaseOf(s) \in {"trying", "failed"}
  BY <1>2 DEF Failed, PhaseOf
<1> QED
  BY <1>1, <1>3, <1>4 DEF Races

\* A step of a receiver that is neither in use nor going to be
LEMMA RaceMoves ==
    ASSUME NEW s, NEW h \in Host, NEW t, Core(s), Plugged(s, h), s.rcv[h].state < 5, Races(t)
    PROVE  ~CancelEarly => Moves(s, t)
<1> SUFFICES ASSUME ~CancelEarly PROVE Moves(s, t)
  OBVIOUS
<1>1. Untried(s) /\ Races(s)
  BY UnusedIsUntried DEF Races
<1>2. PhaseOf(s) = "trying" /\ GotOf(s) = 0
  BY <1>1, RacePhase
<1>3. PhaseOf(t) \in {"trying", "failed"} /\ GotOf(t) = 0
  BY RacePhase
<1> QED
  BY <1>2, <1>3 DEF Moves

\* A step that changes no phase
LEMMA StutterMoves ==
    ASSUME NEW s, NEW t, t.completed = s.completed, t.error = s.error, t.stopped = s.stopped,
           t.started = s.started, \A g \in Host : t.state[g] = s.state[g],
           GotOf(t) = GotOf(s)
    PROVE  Moves(s, t)
<1>1. Used(t) <=> Used(s)
  BY DEF Used
<1>2. PhaseOf(t) = PhaseOf(s)
  BY <1>1 DEF PhaseOf
<1> QED
  BY <1>2 DEF Moves

\* One receiver goes on
LEMMA GoesOnGood ==
    ASSUME NEW s, NEW t, NEW h \in Host,
           Core(s), Awaited(s), Puts(s, t, h), t.state[h] = s.state[h],
           Plugged(s, h), Plugged(t, h), t.rcv[h].listed,
           s.rcv[h].state = 0 <=> t.rcv[h].state = 0,
           s.rcv[h].state >= 1 <=> t.rcv[h].state >= 1,
           s.rcv[h].state >= 5 <=> t.rcv[h].state >= 5,
           t.rcv[h].plugged = "out" => t.rcv[h].state \in {0, 1, 3},
           t.rcv[h].plugged \in {"in", "hup"} => t.rcv[h].state \in {2, 4, 6},
           t.rcv[h].plugged = "hup" => s.paused \/ s.unnoticed
    PROVE  Good(s, t)
<1>1. Core(t) /\ Awaited(t)
  BY GoesOn
<1>2. Moves(s, t)
  <2>1. \A g \in Host : t.state[g] = s.state[g]
    BY DEF Puts, SameBut
  <2>2. /\ t.completed = s.completed /\ t.error = s.error /\ t.stopped = s.stopped
        /\ t.started = s.started /\ t.received = s.received
    BY DEF Puts, Same
  <2>3. GotOf(t) = GotOf(s)
    BY <2>2 DEF GotOf
  <2> QED
    BY <2>1, <2>2, <2>3, StutterMoves
<1> QED
  BY <1>1, <1>2 DEF Good

\* What is closed, and over
LEMMA Closes ==
    ASSUME NEW s, Core(s), s.started, NEW t \in Transfer, t.started = s.started,
           t.idx = s.idx, t.continue_cb = s.continue_cb, t.replied = s.replied,
           t.fd => t.received # None, Tells(t), IsOver(t),
           \A g \in Host : Wired(t, g) /\ ~Plugged(t, g) /\ (t.state[g] = 0 => t.unnoticed)
    PROVE  Core(t) /\ Awaited(t)
<1>1. Closed(t)
  BY DEF Closed
<1>2. ~Used(t)
  BY DEF Used, Wired, Plugged
<1>3. Alone(t) /\ NoneStopped(t)
  BY DEF Alone, NoneStopped, Connecting
<1>4. Accepts(t)
  BY <1>1, <1>2 DEF Core, Accepts
<1>5. Waits(t)
  BY DEF Waits, Plugged
<1>6. Started(t)
  BY DEF Core, Started
<1>7. Awaited(t)
  BY DEF Awaited
<1> QED
  BY <1>1, <1>3, <1>4, <1>5, <1>6, <1>7 DEF Core

\* The one that is in use: the others wait for nothing, and nothing is over
LEMMA UsedIsAlone ==
    ASSUME NEW s, Core(s), NEW h \in Host, Plugged(s, h), s.rcv[h].state >= 5
    PROVE  /\ s.state[h] = 1 /\ s.rcv[h].state = 6 /\ Used(s) /\ s.started
           /\ s.rcv[h].listed /\ s.rcv[h].plugged \in {"in", "hup"}
           /\ \A g \in Host \ {h} : ~Plugged(s, g) /\ (s.state[g] = 0 => s.unnoticed)
           /\ ~Final(s) /\ s.told = <<>> /\ s.error = 0 /\ ~s.completed
           /\ (~CancelEarly => PhaseOf(s) = "receiving")
           /\ GotOf(s) \in Nat /\ GotOf(s) < Size
           /\ s.fd => s.received # None
<1>1. s \in Transfer /\ \A g \in Host : Wired(s, g)
  BY DEF Core
<1>2. s.rcv[h] \in Receiver
  BY <1>1 DEF Transfer
<1>3. Wired(s, h)
  BY <1>1
<1>4. s.state[h] = 1 /\ s.rcv[h].state = 6 /\ s.rcv[h].listed
      /\ s.rcv[h].plugged \in {"in", "hup"}
  BY <1>2, <1>3 DEF Wired, Plugged, Receiver
<1>5. Used(s)
  BY <1>4 DEF Used
<1>6. s.started
  <2>1. s.rcv[h] # Unused
    BY <1>4 DEF Unused
  <2> QED
    BY <2>1 DEF Core, Offered
<1>7. ConnectsOf(s, h)
  BY <1>4 DEF ConnectsOf
<1>8. \A g \in Host \ {h} : ~Plugged(s, g) /\ (s.state[g] = 0 => s.unnoticed)
  BY <1>6, <1>7 DEF Core, Alone, Waits
<1>9. ~Closed(s)
  BY DEF Closed
<1>10. ~Final(s)
  BY <1>9 DEF Core
<1>11. s.told = <<>> /\ s.error = 0 /\ ~s.completed /\ (~CancelEarly => ~s.stopped)
  BY <1>10 DEF Final
<1>12. ~CancelEarly => PhaseOf(s) = "receiving"
  BY <1>5, <1>11 DEF PhaseOf
<1>13. GotOf(s) \in Nat /\ GotOf(s) < Size
  <2>1. s.received \in {None} \cup 0 .. 2 * Size - 1
    BY <1>1 DEF Transfer
  <2>2. s.received = None \/ ~(s.received >= Size)
    BY <1>9 DEF Core, Accepts
  <2>3. Size \in Nat \ {0}
    BY SocksReceiverAssumption
  <2> QED
    BY <2>1, <2>2, <2>3 DEF GotOf
<1>14. s.fd => s.received # None
  BY DEF Core, Accepts
<1> QED
  BY <1>4, <1>5, <1>6, <1>8, <1>10, <1>11, <1>12, <1>13, <1>14

-----------------------------------------------------------------------------
(* The end of a transfer.                                                  *)

\* Nothing differs but the receivers, what was received, and how it ends
Alike(s, t) ==
    /\ t.idx = s.idx /\ t.started = s.started /\ t.continue_cb = s.continue_cb
    /\ t.replied = s.replied /\ t.unnoticed = s.unnoticed /\ t.told = s.told
    /\ t.stopped = s.stopped

LEMMA Completes ==
    ASSUME NEW e \in Transfer, e.told = <<>>
    PROVE  LET t == Complete(e)
           IN /\ t \in Transfer /\ t.rcv = e.rcv /\ t.state = e.state /\ t.idx = e.idx
              /\ t.started = e.started /\ t.continue_cb = e.continue_cb
              /\ t.replied = e.replied /\ t.unnoticed = e.unnoticed
              /\ t.completed = e.completed /\ t.error = e.error
              /\ t.received = e.received /\ t.fd = e.fd
              /\ t.paused = e.paused /\ t.stalled = e.stalled
              /\ t.failure_cb = e.failure_cb
              /\ t.stopped <=> e.stopped \/ e.error # 0
              /\ \/ t.told = <<>>
                 \/ t.told = <<"completed">> /\ e.error = 0 /\ ~e.stalled
                 \/ t.told = <<"stopped">> /\ e.error \notin {0, -6} /\ ~e.stalled
<1> DEFINE v == e.stopped \/ e.error # 0
           w == [e EXCEPT !.stopped = v]
           what == IF w.error = 0 THEN "completed" ELSE "stopped"
           t == Complete(e)
<1>1. v \in BOOLEAN
  BY DEF Transfer
<1>2. t = IF e.stalled \/ e.paused \/ e.error = -6 THEN w
          ELSE [w EXCEPT !.told = Append(@, IF e.error = 0 THEN "completed" ELSE "stopped")]
  BY DEF Complete, Tell
<1> HIDE DEF v
<1>3. /\ w \in Transfer /\ w.rcv = e.rcv /\ w.state = e.state /\ w.idx = e.idx
      /\ w.started = e.started /\ w.continue_cb = e.continue_cb
      /\ w.replied = e.replied /\ w.unnoticed = e.unnoticed
      /\ w.completed = e.completed /\ w.error = e.error
      /\ w.received = e.received /\ w.fd = e.fd
      /\ w.paused = e.paused /\ w.stalled = e.stalled
      /\ w.failure_cb = e.failure_cb
      /\ w.stopped = v /\ w.told = <<>>
  BY <1>1 DEF Transfer
<1> HIDE DEF w, t
<1>4. CASE e.stalled \/ e.paused \/ e.error = -6
  <2>1. t = w
    BY <1>2, <1>4
  <2> QED
    BY <1>3, <2>1 DEF t, v
<1>5. CASE ~(e.stalled \/ e.paused \/ e.error = -6)
  <2> DEFINE z == IF e.error = 0 THEN <<"completed">> ELSE <<"stopped">>
  <2>1. Append(<<>>, "completed") = <<"completed">> /\ Append(<<>>, "stopped") = <<"stopped">>
    OBVIOUS
  <2>2. /\ <<"completed">> \in Seq({"completed", "stopped", "failed"})
        /\ <<"stopped">> \in Seq({"completed", "stopped", "failed"})
    OBVIOUS
  <2>3. t = [w EXCEPT !.told = Append(w.told, IF e.error = 0 THEN "completed" ELSE "stopped")]
    BY <1>2, <1>5
  <2>4. Append(w.told, IF e.error = 0 THEN "completed" ELSE "stopped") = z
    BY <1>3, <2>1
  <2>5. t = [w EXCEPT !.told = z]
    BY <2>3, <2>4
  <2>6. z \in Seq({"completed", "stopped", "failed"})
    BY <2>2
  <2> HIDE DEF z
  <2>7. /\ t \in Transfer /\ t.rcv = w.rcv /\ t.state = w.state /\ t.idx = w.idx
        /\ t.started = w.started /\ t.continue_cb = w.continue_cb
        /\ t.replied = w.replied /\ t.unnoticed = w.unnoticed
        /\ t.completed = w.completed /\ t.error = w.error
        /\ t.received = w.received /\ t.fd = w.fd
        /\ t.paused = w.paused /\ t.stalled = w.stalled
        /\ t.failure_cb = w.failure_cb
        /\ t.stopped = w.stopped /\ t.told = z
    BY <1>3, <2>5, <2>6 DEF Transfer
  <2>8. \/ t.told = <<"completed">> /\ e.error = 0 /\ ~e.stalled
        \/ t.told = <<"stopped">> /\ e.error \notin {0, -6} /\ ~e.stalled
    BY <1>5, <2>7 DEF z
  <2> QED
    BY <1>3, <2>7, <2>8 DEF t, v
<1> QED
  BY <1>4, <1>5

\* The one in use is closed, and it is told
LEMMA EndsGood ==
    ASSUME NEW s, Core(s), NEW h \in Host, Plugged(s, h), s.rcv[h].state >= 5,
           NEW e \in Transfer, Alike(s, e), e.rcv[h] = Shut, e.state[h] = -1,
           \A g \in Host \ {h} : e.rcv[g] = s.rcv[g] /\ e.state[g] = s.state[g],
           e.fd => e.received # None, GotOf(e) \in Nat,
           \/ e.error \in {-1, -6} /\ ~e.completed /\ GotOf(e) >= GotOf(s)
           \/ /\ e.error = 0 /\ e.completed /\ ~e.fd
              /\ e.received \in Size .. 2 * Size /\ GotOf(e) > GotOf(s) /\ GotOf(e) >= Size
    PROVE  Good(s, Complete(e))
<1> DEFINE t == Complete(e)
<1>1. /\ s.state[h] = 1 /\ s.rcv[h].state = 6 /\ Used(s) /\ s.started
      /\ s.rcv[h].listed /\ s.rcv[h].plugged \in {"in", "hup"}
      /\ \A g \in Host \ {h} : ~Plugged(s, g) /\ (s.state[g] = 0 => s.unnoticed)
      /\ ~Final(s) /\ s.told = <<>> /\ s.error = 0 /\ ~s.completed
      /\ (~CancelEarly => PhaseOf(s) = "receiving")
      /\ GotOf(s) \in Nat /\ GotOf(s) < Size
      /\ s.fd => s.received # None
  BY UsedIsAlone
<1>2. e.told = <<>>
  BY <1>1 DEF Alike
<1> HIDE DEF t
<1>3. /\ t \in Transfer /\ t.rcv = e.rcv /\ t.state = e.state /\ t.idx = e.idx
      /\ t.started = e.started /\ t.continue_cb = e.continue_cb
      /\ t.replied = e.replied /\ t.unnoticed = e.unnoticed
      /\ t.completed = e.completed /\ t.error = e.error
      /\ t.received = e.received /\ t.fd = e.fd
      /\ t.paused = e.paused /\ t.stalled = e.stalled
      /\ t.failure_cb = e.failure_cb
      /\ t.stopped <=> e.stopped \/ e.error # 0
      /\ \/ t.told = <<>>
         \/ t.told = <<"completed">> /\ e.error = 0 /\ ~e.stalled
         \/ t.told = <<"stopped">> /\ e.error \notin {0, -6} /\ ~e.stalled
  BY <1>2, Completes DEF t
<1>4. /\ t.idx = s.idx /\ t.started = s.started /\ t.continue_cb = s.continue_cb
      /\ t.replied = s.replied /\ t.unnoticed = s.unnoticed
  BY <1>3 DEF Alike
<1>5. IsOver(t)
  BY <1>3 DEF IsOver
<1>6. Tells(t)
  <2>1. /\ <<>> # <<"failed">> /\ <<>> # <<"completed">> /\ <<>> # <<"stopped">>
        /\ <<"failed">> # <<"completed">> /\ <<"failed">> # <<"stopped">>
        /\ <<"completed">> # <<"stopped">>
    OBVIOUS
  <2>2. CASE t.told = <<>>
    BY <2>1, <2>2 DEF Tells
  <2>3. CASE t.told = <<"completed">> /\ e.error = 0
    BY <1>3, <2>1, <2>3 DEF Tells
  <2>4. CASE t.told = <<"stopped">> /\ e.error \notin {0, -6}
    BY <1>3, <2>1, <2>4 DEF Tells
  <2> QED
    BY <1>3, <2>2, <2>3, <2>4
<1>7. Shut.plugged = "no" /\ Shut.timer = FALSE /\ Shut.listed = FALSE /\ Shut.state = -1
  BY DEF Shut
<1>8. \A g \in Host : Wired(t, g) /\ ~Plugged(t, g) /\ (t.state[g] = 0 => t.unnoticed)
  <2> TAKE g \in Host
  <2>1. CASE g = h
    BY <1>3, <1>7, <2>1 DEF Wired, Plugged
  <2>2. CASE g # h
    <3>1. t.rcv[g] = s.rcv[g] /\ t.state[g] = s.state[g] /\ t.idx[g] = s.idx[g]
      BY <1>3, <1>4, <2>2
    <3>2. Wired(s, g)
      BY DEF Core
    <3>3. Wired(t, g)
      BY <3>1, <3>2 DEF Wired
    <3> QED
      BY <1>1, <1>4, <2>2, <3>1, <3>3 DEF Plugged
  <2> QED
    BY <2>1, <2>2
<1>9. t.fd => t.received # None
  BY <1>3
<1>10. Core(t) /\ Awaited(t)
  BY <1>1, <1>3, <1>4, <1>5, <1>6, <1>8, <1>9, Closes
<1>11. ASSUME ~CancelEarly PROVE Moves(s, t)
  <2>1. GotOf(t) = GotOf(e)
    BY <1>3 DEF GotOf
  <2>2. PhaseOf(s) = "receiving"
    BY <1>1, <1>11
  <2>3. CASE e.error \in {-1, -6} /\ ~e.completed /\ GotOf(e) >= GotOf(s)
    <3>1. PhaseOf(t) = "stopped"
      BY <1>3, <2>3 DEF PhaseOf
    <3> QED
      BY <2>1, <2>2, <2>3, <3>1 DEF Moves
  <2>4. CASE e.completed /\ GotOf(e) > GotOf(s) /\ GotOf(e) >= Size
    <3>1. PhaseOf(t) = "completed"
      BY <1>3, <2>4 DEF PhaseOf
    <3> QED
      BY <2>1, <2>2, <2>4, <3>1 DEF Moves
  <2> QED
    BY <2>3, <2>4
<1> QED
  BY <1>10, <1>11 DEF Good, t

\* Some error, -1, or -6 if the file cannot be written
LEMMA BreakGood ==
    ASSUME NEW s, Core(s), NEW h \in Host, Plugged(s, h), s.rcv[h].state >= 5,
           NEW q \in Transfer, Alike(s, q), q.rcv = s.rcv, q.state = s.state, ~q.completed,
           q.fd => q.received # None, GotOf(q) \in Nat, GotOf(q) >= GotOf(s),
           NEW error \in {-1, -6}
    PROVE  Good(s, Complete([Disconnect(q, h) EXCEPT !.error = error]))
<1> DEFINE d == Disconnect(q, h)
           e == [d EXCEPT !.error = error]
<1>1. s.rcv[h].listed
  BY UsedIsAlone
<1>2. Puts(q, d, h) /\ d.rcv[h] = Shut /\ d.state[h] = -1
  BY <1>1, Disconnects
<1>3. d \in Transfer /\ Same(q, d) /\ SameBut(q, d, h) /\ d.unnoticed = q.unnoticed
      /\ d.idx = q.idx
  BY <1>2 DEF Puts
<1> HIDE DEF d
<1>4. /\ e \in Transfer /\ e.error = error /\ e.rcv = d.rcv /\ e.state = d.state
      /\ e.idx = d.idx /\ e.started = d.started /\ e.continue_cb = d.continue_cb
      /\ e.replied = d.replied /\ e.unnoticed = d.unnoticed /\ e.told = d.told
      /\ e.stopped = d.stopped /\ e.completed = d.completed /\ e.fd = d.fd
      /\ e.received = d.received
  BY <1>3 DEF Transfer
<1> HIDE DEF e
<1>5. Alike(s, e)
  BY <1>3, <1>4 DEF Alike, Same
<1>6. e.rcv[h] = Shut /\ e.state[h] = -1
  BY <1>2, <1>4
<1>7. \A g \in Host \ {h} : e.rcv[g] = s.rcv[g] /\ e.state[g] = s.state[g]
  BY <1>3, <1>4 DEF SameBut
<1>8. GotOf(e) = GotOf(q)
  BY <1>3, <1>4 DEF GotOf, Same
<1>9. (e.fd => e.received # None) /\ ~e.completed
  BY <1>3, <1>4 DEF Same
<1>10. GotOf(e) \in Nat /\ e.error \in {-1, -6} /\ GotOf(e) >= GotOf(s)
  BY <1>4, <1>8
<1>11. Good(s, Complete(e))
  BY <1>4, <1>5, <1>6, <1>7, <1>9, <1>10, EndsGood
<1> QED
  BY <1>11 DEF e, d

-----------------------------------------------------------------------------
(* The actions: the race.                                                  *)

LEMMA BytestreamGood ==
    ASSUME InProgressFirst, IInv, NEW outcome \in [Host -> Outcome], Bytestream(outcome)
    PROVE  Good(ft, ft')
<1>1. Core(ft) /\ ~ft.started /\ ft' = ConnectToHosts(ft, outcome)
  BY DEF IInv, Bytestream
<1>2. Core(ft') /\ Awaited(ft') /\ (Untried(ft') \/ Failed(ft')) /\ ~Used(ft') /\ ft'.started
  BY <1>1, TriesAll
<1>3. ASSUME ~CancelEarly PROVE Moves(ft, ft')
  <2>1. PhaseOf(ft') \in {"trying", "failed"} /\ GotOf(ft') = 0
    BY <1>2, <1>3, RacePhase DEF Races
  <2>2. PhaseOf(ft) = "offered" /\ GotOf(ft) = 0
    BY <1>1, <1>3 DEF Core, Offered, PhaseOf, GotOf, Used
  <2> QED
    BY <2>1, <2>2 DEF Moves
<1> QED
  BY <1>2, <1>3 DEF Good

\* A receiver with some fields changed
Changed(s, h, x, p, b) ==
    [s EXCEPT !.rcv[h].state = x, !.rcv[h].plugged = p, !.rcv[h].timer = b]

\* What the state of a receiver may be
Stage == -1 .. 8

LEMMA Changes ==
    ASSUME NEW s \in Transfer, NEW h \in Host, NEW x \in Stage,
           NEW p \in {"no", "in", "out", "hup"}, NEW b \in BOOLEAN,
           NEW t, t = Changed(s, h, x, p, b)
    PROVE  /\ Puts(s, t, h) /\ t.state = s.state
           /\ t.rcv[h].state = x /\ t.rcv[h].plugged = p /\ t.rcv[h].timer = b
           /\ t.rcv[h].listed = s.rcv[h].listed
<1> DEFINE c == s.rcv[h]
           r == [c EXCEPT !.state = x, !.plugged = p, !.timer = b]
<1>1. c \in Receiver /\ s.state[h] \in -2 .. 1
  BY DEF Transfer
<1>2. /\ r \in Receiver /\ r.state = x /\ r.plugged = p /\ r.timer = b
      /\ r.listed = c.listed
  <2> HIDE DEF c
  <2> QED
    BY <1>1 DEF Receiver, Stage
<1>3. t = Put(s, h, r, s.state[h])
  <2>1. [s.state EXCEPT ![h] = s.state[h]] = s.state
    BY DEF Transfer
  <2>2. t = [s EXCEPT !.rcv = [@ EXCEPT ![h] = r]]
    BY DEF Transfer, Changed
  <2> QED
    BY <2>1, <2>2 DEF Put, Transfer
<1>4. t.state = s.state
  BY DEF Transfer, Changed
<1> HIDE DEF r
<1>5. Puts(s, t, h) /\ t.rcv[h] = r
  BY <1>1, <1>2, <1>3, PutFacts
<1> QED
  BY <1>2, <1>4, <1>5

\* What x and p are for a receiver that is not further than the code it waits in
AsFar(s, h, x, p) ==
    /\ s.rcv[h].state = 0 <=> x = 0
    /\ s.rcv[h].state >= 1 <=> x >= 1
    /\ s.rcv[h].state >= 5 <=> x >= 5
    /\ p = "out" => x \in {0, 1, 3}
    /\ p \in {"in", "hup"} => x \in {2, 4, 6}
    /\ p = "hup" => s.paused

\* pollout and pollin of one that negotiates
LEMMA NegotiatesGood ==
    ASSUME IInv, NEW h \in Host, Plugged(ft, h), NEW x \in Stage,
           NEW p \in {"in", "out", "hup"}, NEW b \in BOOLEAN,
           AsFar(ft, h, x, p), NEW t, t = Changed(ft, h, x, p, b)
    PROVE  Good(ft, t)
<1>1. Core(ft) /\ Awaited(ft) /\ ft \in Transfer /\ Wired(ft, h)
  BY DEF IInv, Core
<1>2. /\ Puts(ft, t, h) /\ t.state = ft.state
      /\ t.rcv[h].state = x /\ t.rcv[h].plugged = p /\ t.rcv[h].timer = b
      /\ t.rcv[h].listed = ft.rcv[h].listed
  BY <1>1, Changes
<1>3. t.rcv[h].listed /\ Plugged(t, h)
  BY <1>1, <1>2 DEF Wired, Plugged
<1>4. t.state[h] = ft.state[h]
  BY <1>2
<1> QED
  BY <1>1, <1>2, <1>3, <1>4, GoesOnGood DEF AsFar

LEMMA RequestGood ==
    ASSUME IInv, NEW h \in Host, Request(h)
    PROVE  Good(ft, ft')
<1> DEFINE x == ft.rcv[h].state + 1
<1>1. ft \in Transfer /\ Plugged(ft, h) /\ ft.rcv[h].state \in {1, 3}
  BY DEF IInv, Core, Request, Plugged
<1>2. ft' = Changed(ft, h, x, "in", TRUE)
  BY <1>1 DEF Request, WaitFor, Transfer, Receiver, Changed
<1>3. x \in Stage /\ x \in {2, 4}
  BY <1>1 DEF Stage
<1> HIDE DEF x
<1>4. AsFar(ft, h, x, "in")
  BY <1>1, <1>3 DEF AsFar, x
<1> QED
  BY <1>1, <1>2, <1>3, <1>4, NegotiatesGood

LEMMA AuthenticatedGood ==
    ASSUME IInv, NEW h \in Host, Authenticated(h)
    PROVE  Good(ft, ft')
<1>1. ft \in Transfer /\ Plugged(ft, h) /\ ft.rcv[h].state = 2
  BY DEF IInv, Core, Authenticated, Readable, Plugged
<1>2. ft' = Changed(ft, h, 3, "out", TRUE)
  BY <1>1 DEF Authenticated, WaitFor, Transfer, Receiver, Changed
<1>3. AsFar(ft, h, 3, "out") /\ 3 \in Stage
  BY <1>1 DEF AsFar, Stage
<1> QED
  BY <1>1, <1>2, <1>3, NegotiatesGood

LEMMA ShortAnswerGood ==
    ASSUME IInv, NEW h \in Host, ShortAnswer(h)
    PROVE  Good(ft, ft')
<1> DEFINE x == ft.rcv[h].state
<1>1. ft \in Transfer /\ Plugged(ft, h) /\ x \in {2, 4} /\ x \in Stage
  BY DEF IInv, Core, ShortAnswer, Readable, Plugged, Stage
<1>2. ft' = Changed(ft, h, x, "in", TRUE)
  BY <1>1 DEF ShortAnswer, WaitFor, Transfer, Receiver, Changed
<1>3. AsFar(ft, h, x, "in")
  BY <1>1 DEF AsFar
<1> HIDE DEF x
<1> QED
  BY <1>1, <1>2, <1>3, NegotiatesGood

LEMMA NoticePauseGood ==
    ASSUME IInv, NEW h \in Host, NoticePause(h)
    PROVE  Good(ft, ft')
<1> DEFINE x == ft.rcv[h].state
<1>1. ft \in Transfer /\ Plugged(ft, h) /\ ft.rcv[h].plugged = "in" /\ ft.paused
      /\ Wired(ft, h)
  BY DEF IInv, Core, NoticePause, Plugged
<1>2. x \in {2, 4, 6} /\ x \in Stage
  BY <1>1 DEF Wired, Stage
<1>3. ft' = Changed(ft, h, x, "hup", FALSE)
  BY <1>1 DEF NoticePause, Transfer, Receiver, Changed
<1>4. AsFar(ft, h, x, "hup")
  BY <1>1, <1>2 DEF AsFar
<1> HIDE DEF x
<1> QED
  BY <1>1, <1>2, <1>3, <1>4, NegotiatesGood

LEMMA Untimed ==
    ASSUME NEW s \in Transfer, NEW h \in Host
    PROVE  LET t == [s EXCEPT !.rcv[h].timer = FALSE]
           IN /\ Puts(s, t, h) /\ t.state = s.state /\ t.rcv[h].state = s.rcv[h].state
              /\ t.rcv[h].plugged = s.rcv[h].plugged
              /\ t.rcv[h].listed = s.rcv[h].listed
<1> DEFINE c == s.rcv[h]
           r == [c EXCEPT !.timer = FALSE]
           t == [s EXCEPT !.rcv[h].timer = FALSE]
<1>1. c \in Receiver /\ s.state[h] \in -2 .. 1
  BY DEF Transfer
<1>2. r \in Receiver /\ r.state = c.state /\ r.plugged = c.plugged /\ r.listed = c.listed
  <2> HIDE DEF c
  <2> QED
    BY <1>1 DEF Receiver
<1>3. t = Put(s, h, r, s.state[h])
  <2>1. [s.state EXCEPT ![h] = s.state[h]] = s.state
    BY DEF Transfer
  <2> QED
    BY <2>1 DEF Put, Transfer
<1>4. t.state = s.state
  BY DEF Transfer
<1> HIDE DEF r, t
<1>5. Puts(s, t, h) /\ t.rcv[h] = r
  BY <1>1, <1>2, <1>3, PutFacts
<1> QED
  BY <1>2, <1>4, <1>5 DEF t

LEMMA ConnectEndsGood ==
    ASSUME IInv, NEW h \in Host, NEW outcome \in {"connected", "refused", "error"},
           ConnectEnds(h, outcome)
    PROVE  Good(ft, ft')
<1> DEFINE q == [ft EXCEPT !.rcv[h].timer = FALSE]
<1>1. Core(ft) /\ Awaited(ft) /\ ft \in Transfer /\ Wired(ft, h)
  BY DEF IInv, Core
<1>2. ft.rcv[h].plugged = "out" /\ ft.rcv[h].state = 0 /\ Connecting(ft, h) /\ Plugged(ft, h)
      /\ ft.rcv[h].listed
  BY <1>1 DEF ConnectEnds, Connecting, Plugged, Wired
<1> HIDE DEF q
<1>3. ft' = CASE outcome = "connected" -> Connected(q, h)
              [] outcome = "refused" -> ConnectionRefused(q, h)
              [] OTHER -> q
  BY DEF ConnectEnds, q
<1>4. /\ Puts(ft, q, h) /\ q.state = ft.state
      /\ q.rcv[h].state = 0 /\ q.rcv[h].listed /\ q.rcv[h].plugged = "out"
  <2>1. /\ Puts(ft, q, h) /\ q.state = ft.state /\ q.rcv[h].state = ft.rcv[h].state
        /\ q.rcv[h].plugged = ft.rcv[h].plugged
        /\ q.rcv[h].listed = ft.rcv[h].listed
    BY <1>1, Untimed DEF q
  <2> QED
    BY <1>2, <2>1
<1>5. q \in Transfer /\ q.state[h] = ft.state[h]
  BY <1>4 DEF Puts
<1>6. CASE outcome = "connected"
  <2>1. ft' = Connected(q, h)
    BY <1>3, <1>6
  <2>2. Wins(ft, ft', h)
    BY <1>1, <1>2, <1>4, <1>5, <2>1, ConnectedWins
  <2>3. Core(ft') /\ Awaited(ft') /\ Untried(ft') /\ ~Used(ft') /\ ft'.started
    BY <1>1, <1>2, <2>2, Won
  <2>4. Races(ft')
    BY <2>3 DEF Races
  <2>5. ~CancelEarly => Moves(ft, ft')
    BY <1>1, <1>2, <2>4, RaceMoves
  <2> QED
    BY <2>3, <2>5 DEF Good
<1>7. CASE outcome = "refused"
  <2>1. ft' = ConnectionRefused(q, h)
    BY <1>3, <1>7
  <2>2. /\ Core(ft') /\ Awaited(ft') /\ (Untried(ft') \/ Failed(ft')) /\ ~Used(ft')
        /\ ft'.started
    BY <1>1, <1>2, <1>4, <1>5, <2>1, RefusedLater
  <2>3. Races(ft')
    BY <2>2 DEF Races
  <2>4. ~CancelEarly => Moves(ft, ft')
    BY <1>1, <1>2, <2>3, RaceMoves
  <2> QED
    BY <2>2, <2>4 DEF Good
<1>8. CASE outcome = "error"
  <2>1. ft' = q
    BY <1>3, <1>8
  <2>2. Good(ft, q)
    BY <1>1, <1>2, <1>4, GoesOnGood DEF Plugged
  <2> QED
    BY <2>1, <2>2
<1> QED
  BY <1>6, <1>7, <1>8

\* Something goes wrong that nobody notices
Lost(s) == [s EXCEPT !.unnoticed = TRUE]

LEMMA LostFacts ==
    ASSUME NEW s \in Transfer
    PROVE  /\ Lost(s) \in Transfer /\ Same(s, Lost(s)) /\ Lost(s).unnoticed
           /\ Lost(s).rcv = s.rcv /\ Lost(s).state = s.state /\ Lost(s).idx = s.idx
BY DEF Lost, Transfer, Same

LEMMA LostCore ==
    ASSUME NEW s, Core(s)
    PROVE  Core(Lost(s)) /\ Awaited(Lost(s))
<1> DEFINE t == Lost(s)
<1>1. s \in Transfer
  BY DEF Core
<1>2. /\ t \in Transfer /\ Same(s, t) /\ t.unnoticed
      /\ t.rcv = s.rcv /\ t.state = s.state /\ t.idx = s.idx
  BY <1>1, LostFacts
<1> HIDE DEF t
<1>3. /\ \A g \in Host : Wired(t, g)
      /\ Alone(t) /\ NoneStopped(t)
  BY <1>2 DEF Core, Wired, Alone, NoneStopped, ConnectsOf, Connecting, Plugged
<1>4. (Closed(t) <=> Closed(s)) /\ (Used(t) <=> Used(s))
  BY <1>2 DEF Closed, Used, Plugged
<1>5. /\ t.started => Started(t)
      /\ ~t.started => Offered(t) /\ (t.stopped => CancelEarly)
  BY <1>2 DEF Core, Started, Offered, Same
<1>6. Final(t) => Closed(t)
  BY <1>2, <1>4 DEF Core, Final, Same
<1>7. Accepts(t)
  BY <1>2, <1>4 DEF Core, Accepts, Same
<1>8. Tells(t)
  BY <1>2 DEF Core, Tells, Same
<1>9. Waits(t) /\ Awaited(t)
  BY <1>2 DEF Waits, Awaited
<1> QED
  BY <1>2, <1>3, <1>5, <1>6, <1>7, <1>8, <1>9 DEF Core, t

\* The socket is closed, and the handler goes on with the next state
LEMMA ClosedUnnoticed ==
    ASSUME IInv, NEW h \in Host, Plugged(ft, h), ft.rcv[h].state < 5,
           ft' = [Disconnect(ft, h) EXCEPT !.rcv[h].state = 0, !.unnoticed = TRUE]
    PROVE  Good(ft, ft')
<1> DEFINE d == Disconnect(ft, h)
           e == [d EXCEPT !.rcv[h].state = 0]
<1>1. Core(ft) /\ ft \in Transfer
  BY DEF IInv, Core
<1>2. Untried(ft) /\ ~Used(ft) /\ ft.started /\ ft.state[h] = 0 /\ ft.rcv[h].listed
  BY <1>1, UnusedIsUntried
<1>3. Puts(ft, d, h) /\ d.rcv[h] = Shut /\ d.state[h] = -1
  BY <1>1, <1>2, Disconnects
<1>4. d \in Transfer
  BY <1>3 DEF Puts
<1>5. ft' = Lost(e)
  <2>1. ft' = [d EXCEPT !.rcv[h].state = 0, !.unnoticed = TRUE]
    OBVIOUS
  <2> HIDE DEF d
  <2> QED
    BY <1>4, <2>1 DEF Lost, Transfer
<1> HIDE DEF d
<1>6. /\ Puts(d, e, h) /\ e.state[h] = -1
      /\ e.rcv[h].plugged = "no" /\ e.rcv[h].timer = FALSE /\ e.rcv[h].listed = FALSE
      /\ e.rcv[h].state = 0
  <2> DEFINE c == d.rcv[h]
             r == [c EXCEPT !.state = 0]
  <2>1. c \in Receiver /\ c.plugged = "no" /\ c.timer = FALSE /\ c.listed = FALSE
        /\ d.state[h] \in -2 .. 1
    BY <1>3, <1>4 DEF Transfer, Shut
  <2>2. r \in Receiver /\ r.state = 0 /\ r.plugged = "no" /\ r.timer = FALSE /\ r.listed = FALSE
    <3> HIDE DEF c
    <3> QED
      BY <2>1 DEF Receiver
  <2>3. e = Put(d, h, r, d.state[h])
    <3>1. [d.state EXCEPT ![h] = d.state[h]] = d.state
      BY <1>4 DEF Transfer
    <3> QED
      BY <1>4, <3>1 DEF Put, Transfer
  <2> HIDE DEF r, c, e
  <2>4. Puts(d, e, h) /\ e.rcv[h] = r /\ e.state[h] = d.state[h]
    BY <1>4, <2>1, <2>2, <2>3, PutFacts
  <2> QED
    BY <1>3, <2>2, <2>4
<1> HIDE DEF e
<1>7. Puts(ft, e, h)
  BY <1>3, <1>6, PutsTwice
<1>8. Drops(ft, e, h)
  BY <1>6, <1>7 DEF Drops, Plugged
<1>9. Core(e) /\ Untried(e) /\ ~Used(e) /\ e.started
  BY <1>1, <1>8, Dropped
<1>10. Core(ft') /\ Awaited(ft')
  BY <1>5, <1>9, LostCore
<1>11. Races(ft')
  <2>1. e \in Transfer
    BY <1>9 DEF Core
  <2>2. Same(e, ft') /\ ft'.state = e.state
    BY <1>5, <2>1, LostFacts
  <2> QED
    BY <1>9, <2>2 DEF Races, Untried, Used, Same
<1>12. ~CancelEarly => Moves(ft, ft')
  BY <1>1, <1>11, RaceMoves
<1> QED
  BY <1>10, <1>12 DEF Good

LEMMA RequestFailsGood ==
    ASSUME IInv, NEW h \in Host, RequestFails(h) \/ NotAuthenticated(h)
    PROVE  Good(ft, ft')
<1>1. Plugged(ft, h) /\ ft.rcv[h].state < 5
  BY DEF RequestFails, NotAuthenticated, Readable, Plugged
<1>2. ft' = [Disconnect(ft, h) EXCEPT !.rcv[h].state = 0, !.unnoticed = TRUE]
  BY DEF RequestFails, NotAuthenticated
<1> QED
  BY <1>1, <1>2, ClosedUnnoticed

\* reconnect_receiver, whatever was done to the receiver before
LEMMA ReconnectGood ==
    ASSUME InProgressFirst, IInv, NEW h \in Host, Plugged(ft, h), ft.rcv[h].state < 5,
           NEW q \in {ft, Unplug(ft, h), Disconnect(ft, h)},
           NEW outcome \in [Host -> Outcome], ft' = ReconnectReceiver(q, h, outcome)
    PROVE  Good(ft, ft')
<1>1. Core(ft) /\ ft \in Transfer
  BY DEF IInv, Core
<1>2. ft.rcv[h].listed
  BY <1>1, UnusedIsUntried
<1>3. Puts(ft, q, h) /\ q \in Transfer /\ q.rcv[h] \in {ft.rcv[h], Off(ft.rcv[h]), Shut}
  <2>1. CASE q = ft
    BY <1>1, <2>1 DEF Puts, Same, SameBut
  <2>2. CASE q = Unplug(ft, h)
    BY <1>1, <2>2, Unplugs DEF Puts
  <2>3. CASE q = Disconnect(ft, h)
    BY <1>1, <2>3, Disconnects DEF Puts
  <2> QED
    BY <2>1, <2>2, <2>3
<1> DEFINE e == Gone(q, h)
<1>4. Puts(q, e, h) /\ e.rcv[h] = Off(q.rcv[h]) /\ e.state[h] = -1
  BY <1>3, IsGone
<1> HIDE DEF e
<1>5. Puts(ft, e, h)
  BY <1>3, <1>4, PutsTwice
<1>6. e.rcv[h].plugged = "no" /\ e.rcv[h].timer = FALSE /\ e.rcv[h].state < 5
  BY <1>3, <1>4 DEF Off, Shut
<1>7. Drops(ft, e, h)
  BY <1>2, <1>4, <1>5, <1>6 DEF Drops, Plugged
<1>8. Drops(ft, Gone(q, h), h)
  BY <1>7 DEF e
<1>9. /\ Core(ft') /\ Awaited(ft') /\ (Untried(ft') \/ Failed(ft')) /\ ~Used(ft')
      /\ ft'.started
  BY <1>1, <1>3, <1>8, Reconnects
<1>10. ~CancelEarly => Moves(ft, ft')
  BY <1>1, <1>9, RaceMoves DEF Races
<1> QED
  BY <1>9, <1>10 DEF Good

LEMMA HangUpGood ==
    ASSUME InProgressFirst, IInv, NEW h \in Host, NEW outcome \in [Host -> Outcome],
           HangUp(h, outcome)
    PROVE  Good(ft, ft')
<1>1. Plugged(ft, h) /\ ft.rcv[h].state < 5
  BY DEF HangUp, Readable, Plugged
<1>2. ft' = ReconnectReceiver(Disconnect(ft, h), h, outcome)
  BY DEF HangUp
<1> QED
  BY <1>1, <1>2, ReconnectGood

LEMMA ConnectTimeoutGood ==
    ASSUME InProgressFirst, IInv, NEW h \in Host, NEW outcome \in [Host -> Outcome],
           ConnectTimeout(h, outcome)
    PROVE  Good(ft, ft')
<1>1. Wired(ft, h) /\ ft \in Transfer
  BY DEF IInv, Core
<1>2. ft.rcv[h] \in Receiver
  BY <1>1 DEF Transfer
<1>3. Plugged(ft, h) /\ ft.rcv[h].state < 5
  BY <1>1, <1>2 DEF ConnectTimeout, Wired, Plugged, Receiver
<1>4. ft' = ReconnectReceiver(ft, h, outcome)
  BY DEF ConnectTimeout
<1> QED
  BY <1>3, <1>4, ReconnectGood

LEMMA PollEndGood ==
    ASSUME InProgressFirst, IInv, NEW h \in Host, NEW outcome \in [Host -> Outcome],
           PollEnd(h, outcome)
    PROVE  Good(ft, ft')
<1>1. Plugged(ft, h) /\ Core(ft) /\ ft \in Transfer
  BY DEF PollEnd, Plugged, IInv, Core
<1>2. CASE ft.rcv[h].state >= 5
  <2>1. ft' = Complete([Disconnect(ft, h) EXCEPT !.error = -1])
    BY <1>2 DEF PollEnd, Break
  <2>2. ~ft.completed /\ GotOf(ft) \in Nat /\ (ft.fd => ft.received # None)
    BY <1>1, <1>2, UsedIsAlone
  <2>3. Alike(ft, ft) /\ GotOf(ft) >= GotOf(ft)
    BY <2>2 DEF Alike
  <2>4. Good(ft, Complete([Disconnect(ft, h) EXCEPT !.error = -1]))
    BY <1>1, <1>2, <2>2, <2>3, BreakGood
  <2> QED
    BY <2>1, <2>4
<1>3. CASE ~(ft.rcv[h].state >= 5)
  <2>1. ft' = ReconnectReceiver(Unplug(ft, h), h, outcome)
    BY <1>3 DEF PollEnd
  <2>2. ft.rcv[h].state < 5
    BY <1>1, <1>3 DEF Transfer, Receiver
  <2> QED
    BY <1>1, <2>1, <2>2, ReconnectGood
<1> QED
  BY <1>2, <1>3

-----------------------------------------------------------------------------
(* The actions: one streamhost is in use, and the user.                    *)

\* Whoever waits goes on waiting; something may have been received
LEMMA Continues ==
    ASSUME NEW s, Core(s), Awaited(s), NEW t \in Transfer,
           t.idx = s.idx, t.state = s.state, t.started = s.started,
           t.continue_cb = s.continue_cb, t.replied = s.replied, t.told = s.told,
           t.completed = s.completed, t.stopped = s.stopped, t.error = s.error,
           t.failure_cb = s.failure_cb, s.unnoticed => t.unnoticed,
           s.started \/ ~t.paused,
           \A g \in Host :
              /\ \/ t.rcv[g] = s.rcv[g]
                 \/ /\ Plugged(s, g) /\ t.rcv[g].plugged = "in"
                    /\ t.rcv[g].state = s.rcv[g].state /\ t.rcv[g].listed = s.rcv[g].listed
                    /\ s.rcv[g].state \in {2, 4, 6}
              /\ ~t.paused /\ t.rcv[g].plugged = "hup" => t.unnoticed,
           \/ t.received = s.received /\ t.fd = s.fd
           \/ /\ Used(s) /\ ~Closed(s) /\ t.received \in Nat /\ t.received < Size
              /\ ~t.fd => t.received = 0
    PROVE  Core(t) /\ Awaited(t)
<1>1. s \in Transfer /\ \A g \in Host : Wired(s, g)
  BY DEF Core
<1>2. \A g \in Host : s.rcv[g] \in Receiver
  BY <1>1 DEF Transfer
<1>3. \A g \in Host : /\ Plugged(t, g) <=> Plugged(s, g)
                      /\ t.rcv[g].state = s.rcv[g].state
  BY DEF Plugged
<1>4. \A g \in Host : Wired(t, g)
  <2> TAKE g \in Host
  <2>1. Wired(s, g) /\ t.state[g] = s.state[g] /\ t.idx[g] = s.idx[g]
    BY <1>1
  <2>2. CASE t.rcv[g] = s.rcv[g]
    BY <2>1, <2>2 DEF Wired
  <2>3. CASE /\ Plugged(s, g) /\ t.rcv[g].plugged = "in"
             /\ t.rcv[g].state = s.rcv[g].state /\ t.rcv[g].listed = s.rcv[g].listed
             /\ s.rcv[g].state \in {2, 4, 6}
    BY <2>1, <2>3 DEF Wired, Plugged
  <2> QED
    BY <2>2, <2>3
<1>5. Alone(t) /\ NoneStopped(t)
  BY <1>3 DEF Core, Alone, NoneStopped, ConnectsOf, Connecting
<1>6. (Closed(t) <=> Closed(s)) /\ (Used(t) <=> Used(s))
  BY <1>3 DEF Closed, Used
<1>7. t.started => Started(t)
  BY DEF Core, Started
<1>8. ASSUME ~s.started
      PROVE  \A g \in Host : ~Plugged(s, g) /\ s.rcv[g] = Unused /\ s.state[g] = 0
  <2>1. \A g \in Host : s.rcv[g] = Unused /\ s.state[g] = 0
    BY <1>8 DEF Core, Offered
  <2>2. Unused.plugged = "no"
    BY DEF Unused
  <2> QED
    BY <2>1, <2>2 DEF Plugged
<1>9. ~t.started => Offered(t) /\ (t.stopped => CancelEarly)
  <2> SUFFICES ASSUME ~s.started PROVE Offered(t) /\ (t.stopped => CancelEarly)
    OBVIOUS
  <2>1. Offered(s) /\ (s.stopped => CancelEarly)
    BY DEF Core
  <2>2. ~Used(s)
    BY <1>8 DEF Used
  <2>3. t.received = s.received /\ t.fd = s.fd
    BY <2>2
  <2>4. \A g \in Host : t.rcv[g] = s.rcv[g]
    BY <1>8
  <2> QED
    BY <2>1, <2>3, <2>4 DEF Offered
<1>10. Final(t) => Closed(t)
  BY <1>6 DEF Core, Final
<1>11. CASE t.received = s.received /\ t.fd = s.fd
  <2>1. Accepts(t) /\ Tells(t)
    BY <1>6, <1>11 DEF Core, Accepts, Tells
  <2>2. Waits(t)
    BY <1>3 DEF Core, Waits
  <2>3. Awaited(t)
    BY <1>6 DEF Awaited, IsOver
  <2> QED
    BY <1>4, <1>5, <1>7, <1>9, <1>10, <2>1, <2>2, <2>3 DEF Core
<1>12. CASE /\ Used(s) /\ ~Closed(s) /\ t.received \in Nat /\ t.received < Size
            /\ ~t.fd => t.received = 0
  <2>1. ~Final(s)
    BY <1>12 DEF Core
  <2>2. t.told = <<>>
    BY <2>1 DEF Final
  <2>3. /\ <<>> # <<"failed">> /\ <<>> # <<"completed">> /\ <<>> # <<"stopped">>
    OBVIOUS
  <2>4. Tells(t)
    BY <2>2, <2>3 DEF Tells
  <2>5. t.received # None /\ ~(t.received >= Size)
    BY <1>12, SocksReceiverAssumption
  <2>6. Accepts(t)
    BY <1>6, <1>12, <2>5 DEF Core, Accepts
  <2>7. Waits(t)
    BY <1>3 DEF Core, Waits
  <2>8. Awaited(t)
    BY <1>6 DEF Awaited, IsOver
  <2> QED
    BY <1>4, <1>5, <1>7, <1>9, <1>10, <2>4, <2>6, <2>7, <2>8 DEF Core
<1> QED
  BY <1>11, <1>12

LEMMA PauseGood ==
    ASSUME IInv, Pause
    PROVE  Good(ft, ft')
<1>1. Core(ft) /\ Awaited(ft) /\ ft \in Transfer
  BY DEF IInv, Core
<1>2. ft.started /\ ft' = [ft EXCEPT !.paused = TRUE]
  BY DEF Pause
<1>3. /\ ft' \in Transfer /\ ft'.idx = ft.idx /\ ft'.state = ft.state
      /\ ft'.started = ft.started
      /\ ft'.continue_cb = ft.continue_cb /\ ft'.replied = ft.replied /\ ft'.told = ft.told
      /\ ft'.completed = ft.completed /\ ft'.stopped = ft.stopped /\ ft'.error = ft.error
      /\ ft'.failure_cb = ft.failure_cb /\ ft'.unnoticed = ft.unnoticed
      /\ ft'.rcv = ft.rcv /\ ft'.received = ft.received /\ ft'.fd = ft.fd /\ ft'.paused
  BY <1>1, <1>2 DEF Transfer
<1>4. Core(ft') /\ Awaited(ft')
  BY <1>1, <1>2, <1>3, Continues
<1>5. GotOf(ft') = GotOf(ft)
  BY <1>3 DEF GotOf
<1>6. Moves(ft, ft')
  BY <1>3, <1>5, StutterMoves
<1> QED
  BY <1>4, <1>6 DEF Good

LEMMA GoOnOffGood ==
    ASSUME IInv, GoOnOff
    PROVE  Good(ft, ft')
<1>1. Core(ft) /\ Awaited(ft) /\ ft \in Transfer
  BY DEF IInv, Core
<1>2. ft' = [ft EXCEPT !.online = ~@]
  BY DEF GoOnOff
<1>3. /\ ft' \in Transfer /\ ft'.idx = ft.idx /\ ft'.state = ft.state
      /\ ft'.started = ft.started
      /\ ft'.continue_cb = ft.continue_cb /\ ft'.replied = ft.replied /\ ft'.told = ft.told
      /\ ft'.completed = ft.completed /\ ft'.stopped = ft.stopped /\ ft'.error = ft.error
      /\ ft'.failure_cb = ft.failure_cb /\ ft'.unnoticed = ft.unnoticed
      /\ ft'.rcv = ft.rcv /\ ft'.received = ft.received /\ ft'.fd = ft.fd
      /\ ft'.paused = ft.paused
  BY <1>1, <1>2 DEF Transfer
<1>4. ft.started \/ ~ft'.paused
  BY <1>1, <1>3 DEF Core, Offered
<1>5. \A g \in Host : ~ft'.paused /\ ft'.rcv[g].plugged = "hup" => ft'.unnoticed
  BY <1>1, <1>3 DEF Core, Waits
<1>6. Core(ft') /\ Awaited(ft')
  BY <1>1, <1>3, <1>4, <1>5, Continues
<1>7. GotOf(ft') = GotOf(ft)
  BY <1>3 DEF GotOf
<1>8. Moves(ft, ft')
  BY <1>3, <1>7, StutterMoves
<1> QED
  BY <1>6, <1>8 DEF Good

LEMMA ContinueGood ==
    ASSUME IInv, Continue
    PROVE  Good(ft, ft')
<1> DEFINE h == ft.continue_cb
           s == [ft EXCEPT !.paused = FALSE]
<1>1. Core(ft) /\ Awaited(ft) /\ ft \in Transfer
  BY DEF IInv, Core
<1>2. ft.paused
  BY DEF Continue
<1>3. ft.started /\ h \in Host
  BY <1>1, <1>2 DEF Core, Offered, Started
<1>4. /\ s \in Transfer /\ s.idx = ft.idx /\ s.state = ft.state /\ s.started = ft.started
      /\ s.continue_cb = ft.continue_cb /\ s.replied = ft.replied /\ s.told = ft.told
      /\ s.completed = ft.completed /\ s.stopped = ft.stopped /\ s.error = ft.error
      /\ s.failure_cb = ft.failure_cb /\ s.unnoticed = ft.unnoticed
      /\ s.rcv = ft.rcv /\ s.received = ft.received /\ s.fd = ft.fd
      /\ ~s.paused
  BY <1>1 DEF Transfer
<1>5. ft' = IF s.rcv[h].state >= 5 THEN [s EXCEPT !.rcv[h].plugged = "in"]
            ELSE [s EXCEPT !.unnoticed = @ \/ \E g \in Host : s.rcv[g].plugged = "hup"]
  BY DEF Continue
<1> HIDE DEF s, h
<1>6. CASE s.rcv[h].state >= 5
  <2> DEFINE c == s.rcv[h]
             r == [c EXCEPT !.plugged = "in"]
  <2>1. ft' = [s EXCEPT !.rcv[h].plugged = "in"]
    BY <1>5, <1>6
  <2>2. Wired(ft, h) /\ ft.rcv[h].state >= 5
    BY <1>1, <1>3, <1>4, <1>6 DEF Core
  <2>3. Plugged(ft, h) /\ ft.rcv[h].state = 6 /\ ft.state[h] = 1
    BY <2>2 DEF Wired, Plugged
  <2>4. c \in Receiver /\ s.state[h] \in -2 .. 1
    BY <1>3, <1>4 DEF Transfer
  <2>5. r \in Receiver /\ r.state = c.state /\ r.plugged = "in" /\ r.listed = c.listed
    <3> HIDE DEF c
    <3> QED
      BY <2>4 DEF Receiver
  <2>6. ft' = [s EXCEPT !.rcv = [s.rcv EXCEPT ![h] = r]]
    BY <1>4, <2>1 DEF Transfer
  <2>7. [s.rcv EXCEPT ![h] = r] \in [Host -> Receiver]
    <3> HIDE DEF r
    <3> QED
      BY <1>4, <2>5 DEF Transfer
  <2> HIDE DEF c, r
  <2>8. ft' \in Transfer /\ ft'.rcv = [s.rcv EXCEPT ![h] = r]
    BY <1>4, <2>6, <2>7 DEF Transfer
  <2>9. /\ ft'.idx = ft.idx /\ ft'.state = ft.state /\ ft'.started = ft.started
        /\ ft'.continue_cb = ft.continue_cb /\ ft'.replied = ft.replied /\ ft'.told = ft.told
        /\ ft'.completed = ft.completed /\ ft'.stopped = ft.stopped /\ ft'.error = ft.error
        /\ ft'.failure_cb = ft.failure_cb /\ ft'.unnoticed = ft.unnoticed
        /\ ft'.received = ft.received /\ ft'.fd = ft.fd
    BY <1>4, <2>6 DEF Transfer
  <2>10. ft'.rcv[h] = r /\ \A g \in Host \ {h} : ft'.rcv[g] = ft.rcv[g]
    BY <1>3, <1>4, <2>8 DEF Transfer
  <2>11. \A g \in Host \ {h} : ~Plugged(ft, g)
    BY <1>1, <1>3, <2>2, <2>3, UsedIsAlone
  <2>12. \A g \in Host :
           /\ \/ ft'.rcv[g] = ft.rcv[g]
              \/ /\ Plugged(ft, g) /\ ft'.rcv[g].plugged = "in"
                 /\ ft'.rcv[g].state = ft.rcv[g].state /\ ft'.rcv[g].listed = ft.rcv[g].listed
                 /\ ft.rcv[g].state \in {2, 4, 6}
           /\ ~ft'.paused /\ ft'.rcv[g].plugged = "hup" => ft'.unnoticed
    <3> TAKE g \in Host
    <3>1. CASE g = h
      BY <1>4, <2>3, <2>5, <2>10, <3>1 DEF c
    <3>2. CASE g # h
      <4>1. ft'.rcv[g] = ft.rcv[g] /\ ft.rcv[g].plugged = "no"
        BY <2>10, <2>11, <3>2 DEF Plugged
      <4> QED
        BY <4>1
    <3> QED
      BY <3>1, <3>2
  <2>13. Core(ft') /\ Awaited(ft')
    BY <1>1, <1>3, <2>8, <2>9, <2>12, Continues
  <2>14. Moves(ft, ft')
    <3>1. GotOf(ft') = GotOf(ft)
      BY <2>9 DEF GotOf
    <3> QED
      BY <2>9, <3>1, StutterMoves
  <2> QED
    BY <2>13, <2>14 DEF Good
<1>7. CASE ~(s.rcv[h].state >= 5)
  <2> DEFINE v == s.unnoticed \/ \E g \in Host : s.rcv[g].plugged = "hup"
  <2>1. ft' = [s EXCEPT !.unnoticed = v]
    BY <1>4, <1>5, <1>7 DEF Transfer
  <2>2. v \in BOOLEAN
    BY <1>4 DEF Transfer
  <2>3. \A g \in Host : ft.rcv[g].plugged = "hup" => v
    BY <1>4
  <2>4. ft.unnoticed => v
    BY <1>4
  <2> HIDE DEF v
  <2>5. /\ ft' \in Transfer /\ ft'.idx = ft.idx /\ ft'.state = ft.state
        /\ ft'.started = ft.started
        /\ ft'.continue_cb = ft.continue_cb /\ ft'.replied = ft.replied /\ ft'.told = ft.told
        /\ ft'.completed = ft.completed /\ ft'.stopped = ft.stopped /\ ft'.error = ft.error
        /\ ft'.failure_cb = ft.failure_cb /\ ft'.unnoticed = v
        /\ ft'.rcv = ft.rcv /\ ft'.received = ft.received /\ ft'.fd = ft.fd
    BY <1>4, <2>1, <2>2 DEF Transfer
  <2>6. Core(ft') /\ Awaited(ft')
    BY <1>1, <1>3, <2>3, <2>4, <2>5, Continues
  <2>7. GotOf(ft') = GotOf(ft)
    BY <2>5 DEF GotOf
  <2>8. Moves(ft, ft')
    BY <2>5, <2>7, StutterMoves
  <2> QED
    BY <2>6, <2>8 DEF Good
<1> QED
  BY <1>6, <1>7

LEMMA GotTyped ==
    ASSUME NEW s \in Transfer
    PROVE  GotOf(s) \in Nat
BY SocksReceiverAssumption DEF Transfer, GotOf

LEMMA CancelGood ==
    ASSUME IInv, Cancel
    PROVE  Good(ft, ft')
<1> DEFINE d == DisconnectTransfer(ft)
           L == {h \in Host : ft.idx[h] = "set" /\ ft.rcv[h].listed}
<1>1. Core(ft) /\ Awaited(ft) /\ ft \in Transfer
  BY DEF IInv, Core
<1>2. ft' = [d EXCEPT !.stopped = TRUE] /\ (ft.started \/ CancelEarly)
      /\ ft.error = 0 /\ ~ft.completed /\ ~ft.stopped
  BY DEF Cancel, Over
<1>3. /\ d \in Transfer /\ Same(ft, d) /\ d.unnoticed = ft.unnoticed /\ d.idx = ft.idx
      /\ \A h \in L : d.rcv[h] = Shut /\ d.state[h] = -1
      /\ \A h \in Host \ L : d.rcv[h] = ft.rcv[h] /\ d.state[h] = ft.state[h]
  BY <1>1, Removes DEF DisconnectTransfer
<1> HIDE DEF d
<1>4. /\ ft' \in Transfer /\ ft'.rcv = d.rcv /\ ft'.state = d.state /\ ft'.idx = d.idx
      /\ ft'.unnoticed = d.unnoticed /\ ft'.stopped
      /\ ft'.started = d.started /\ ft'.paused = d.paused /\ ft'.completed = d.completed
      /\ ft'.error = d.error /\ ft'.received = d.received /\ ft'.fd = d.fd
      /\ ft'.failure_cb = d.failure_cb /\ ft'.continue_cb = d.continue_cb
      /\ ft'.replied = d.replied /\ ft'.told = d.told
  BY <1>2, <1>3 DEF Transfer
<1>5. /\ ft'.idx = ft.idx /\ ft'.unnoticed = ft.unnoticed
      /\ ft'.started = ft.started /\ ft'.paused = ft.paused /\ ft'.completed = ft.completed
      /\ ft'.error = ft.error /\ ft'.received = ft.received /\ ft'.fd = ft.fd
      /\ ft'.failure_cb = ft.failure_cb /\ ft'.continue_cb = ft.continue_cb
      /\ ft'.replied = ft.replied /\ ft'.told = ft.told
  BY <1>3, <1>4 DEF Same
<1>6. Shut.plugged = "no" /\ Shut.timer = FALSE /\ Shut.listed = FALSE /\ Shut.state = -1
  BY DEF Shut
<1>7. \A g \in Host :
        \/ g \in L /\ ft'.rcv[g] = Shut /\ ft'.state[g] = -1
        \/ /\ ~ft.rcv[g].listed /\ ~Plugged(ft, g)
           /\ ft'.rcv[g] = ft.rcv[g] /\ ft'.state[g] = ft.state[g]
  <2> TAKE g \in Host
  <2>1. Wired(ft, g)
    BY <1>1 DEF Core
  <2>2. g \notin L => ~ft.rcv[g].listed /\ ~Plugged(ft, g)
    BY <2>1 DEF Wired, Plugged
  <2> QED
    BY <1>3, <1>4, <2>2
<1>8. \A g \in Host : Wired(ft', g) /\ ~Plugged(ft', g)
  <2> TAKE g \in Host
  <2>1. Wired(ft, g)
    BY <1>1 DEF Core
  <2>2. CASE ft'.rcv[g] = Shut /\ ft'.state[g] = -1
    BY <1>5, <1>6, <2>2 DEF Wired, Plugged
  <2>3. CASE /\ ~ft.rcv[g].listed /\ ~Plugged(ft, g)
             /\ ft'.rcv[g] = ft.rcv[g] /\ ft'.state[g] = ft.state[g]
    BY <1>5, <2>1, <2>3 DEF Wired, Plugged
  <2> QED
    BY <1>7, <2>2, <2>3
<1> HIDE DEF L
<1>9. CASE ft.started
  <2>1. \A g \in Host : ft'.state[g] = 0 => ft'.unnoticed
    BY <1>1, <1>5, <1>7, <1>9 DEF Core, Waits
  <2>2. ft'.fd => ft'.received # None
    BY <1>1, <1>5 DEF Core, Accepts
  <2>3. Tells(ft')
    <3>1. ft.told = <<>> \/ ft.told = <<"failed">>
      BY <1>1, <1>2 DEF Core, Tells
    <3>2. /\ <<>> # <<"failed">> /\ <<>> # <<"completed">> /\ <<>> # <<"stopped">>
          /\ <<"failed">> # <<"completed">> /\ <<"failed">> # <<"stopped">>
      OBVIOUS
    <3>3. ft.told = <<"failed">> => /\ \A g \in Host : ft'.state[g] = -1
                                    /\ ft.received = None /\ ft.replied = 0
      BY <1>1, <1>7 DEF Core, Tells
    <3> QED
      BY <1>5, <3>1, <3>2, <3>3 DEF Tells
  <2>4. IsOver(ft')
    BY <1>4 DEF IsOver
  <2>5. Core(ft') /\ Awaited(ft')
    BY <1>1, <1>4, <1>5, <1>8, <1>9, <2>1, <2>2, <2>3, <2>4, Closes
  <2>6. ASSUME ~CancelEarly PROVE Moves(ft, ft')
    <3>1. PhaseOf(ft) \in {"trying", "receiving"}
      BY <1>2, <1>9 DEF PhaseOf
    <3>2. PhaseOf(ft') = "stopped"
      BY <1>2, <1>4, <1>5 DEF PhaseOf
    <3>3. GotOf(ft') = GotOf(ft) /\ GotOf(ft) \in Nat
      BY <1>1, <1>5, GotTyped DEF GotOf
    <3> QED
      BY <3>1, <3>2, <3>3 DEF Moves
  <2> QED
    BY <2>5, <2>6 DEF Good
<1>10. CASE ~ft.started
  <2>1. CancelEarly
    BY <1>2, <1>10
  <2>2. Offered(ft)
    BY <1>1, <1>10 DEF Core
  <2>3. \A g \in Host : ft'.rcv[g] = ft.rcv[g] /\ ft'.state[g] = ft.state[g]
    <3> TAKE g \in Host
    <3>1. ft.rcv[g].listed = FALSE
      BY <2>2 DEF Offered, Unused
    <3> QED
      BY <1>3, <1>4, <3>1 DEF L
  <2>4. Offered(ft')
    BY <1>5, <2>2, <2>3 DEF Offered
  <2>5. Closed(ft')
    BY <1>8 DEF Closed
  <2>6. Alone(ft') /\ NoneStopped(ft')
    BY <1>8 DEF Alone, NoneStopped, Connecting
  <2>7. Accepts(ft')
    BY <2>4 DEF Accepts, Offered
  <2>8. Tells(ft')
    <3>1. <<>> # <<"failed">> /\ <<>> # <<"completed">> /\ <<>> # <<"stopped">>
      OBVIOUS
    <3> QED
      BY <2>4, <3>1 DEF Tells, Offered
  <2>9. Waits(ft') /\ Awaited(ft')
    BY <1>5, <1>8, <1>10 DEF Waits, Awaited, Plugged
  <2>10. Core(ft')
    BY <1>4, <1>5, <1>8, <1>10, <2>1, <2>4, <2>5, <2>6, <2>7, <2>8, <2>9 DEF Core
  <2> QED
    BY <2>1, <2>9, <2>10 DEF Good
<1> QED
  BY <1>9, <1>10

\* The request is approved: this streamhost is used
LEMMA ApprovedGood ==
    ASSUME IInv, NEW h \in Host, Approved(h)
    PROVE  Good(ft, ft')
<1> DEFINE c == ft.rcv[h]
           on == TRUE
           six == 6
           r == [c EXCEPT !.state = six, !.plugged = "in", !.timer = on]
           n == ft.replied + (IF ft.online THEN 1 ELSE 0)
<1>1. Core(ft) /\ Awaited(ft) /\ ft \in Transfer /\ Wired(ft, h)
  BY DEF IInv, Core
<1>2. ft.rcv[h].plugged = "in" /\ ~ft.paused /\ ft.rcv[h].state = 4 /\ Plugged(ft, h)
  BY DEF Approved, Readable, Plugged
<1>3. Untried(ft) /\ ~Used(ft) /\ ft.started /\ ft.state[h] = 0 /\ ft.rcv[h].listed
  BY <1>1, <1>2, UnusedIsUntried
<1>4. ft' = WaitFor([ft EXCEPT !.rcv[h].state = 6, !.state[h] = 1,
                               !.replied = @ + (IF ft.online THEN 1 ELSE 0),
                               !.continue_cb = h], h, "in")
  BY <1>3 DEF Approved
<1> DEFINE w == [ft EXCEPT !.rcv[h].state = six, !.state[h] = 1,
                           !.replied = @ + (IF ft.online THEN 1 ELSE 0),
                           !.continue_cb = h]
           v == [w EXCEPT !.rcv[h].plugged = "in", !.rcv[h].timer = on]
<1>5. ft' = v
  BY <1>4 DEF WaitFor
<1>6. on \in BOOLEAN /\ six \in -1 .. 8 /\ six = 6
  OBVIOUS
<1> HIDE DEF on, six
<1>7. ft' = [ft EXCEPT !.rcv = [ft.rcv EXCEPT ![h] = r], !.state = [ft.state EXCEPT ![h] = 1],
                       !.replied = n, !.continue_cb = h]
  <2>1. h \in Host /\ ft.rcv \in [Host -> Receiver]
    BY <1>1 DEF Transfer
  <2> HIDE DEF n
  <2>2. w = [ft EXCEPT !.rcv = [ft.rcv EXCEPT ![h] = [c EXCEPT !.state = six]],
                       !.state = [ft.state EXCEPT ![h] = 1],
                       !.replied = n, !.continue_cb = h]
    BY <1>1 DEF Transfer, n
  <2>3. v = [w EXCEPT !.rcv = [w.rcv EXCEPT ![h] =
                  [w.rcv[h] EXCEPT !.plugged = "in", !.timer = on]]]
    <3> HIDE DEF w
    <3> QED
      OBVIOUS
  <2>4. w.rcv = [ft.rcv EXCEPT ![h] = [c EXCEPT !.state = six]]
    BY <1>1, <2>2 DEF Transfer
  <2>5. w.rcv[h] = [c EXCEPT !.state = six]
    BY <2>1, <2>4
  <2>6. [w.rcv EXCEPT ![h] = r] = [ft.rcv EXCEPT ![h] = r]
    BY <2>1, <2>4
  <2>7. [w.rcv[h] EXCEPT !.plugged = "in", !.timer = on] = r
    BY <2>5
  <2> HIDE DEF v, r
  <2>8. v = [w EXCEPT !.rcv = [ft.rcv EXCEPT ![h] = r]]
    BY <2>3, <2>6, <2>7
  <2> HIDE DEF w
  <2> QED
    BY <1>1, <1>5, <2>2, <2>8 DEF Transfer
<1> HIDE DEF v, w
<1>8. r \in Receiver /\ r.state = 6 /\ r.plugged = "in" /\ r.listed = c.listed
  <2>1. c \in Receiver
    BY <1>1 DEF Transfer
  <2> HIDE DEF c
  <2> QED
    BY <1>6, <2>1 DEF Receiver
<1>9. n \in 0 .. 1
  BY <1>3 DEF Untried
<1> HIDE DEF r, n
<1>10. /\ [ft.rcv EXCEPT ![h] = r] \in [Host -> Receiver]
      /\ [ft.state EXCEPT ![h] = 1] \in [Host -> -2 .. 1]
  BY <1>1, <1>8 DEF Transfer
<1>11. ft' \in Transfer
  <2> DEFINE rr == [ft.rcv EXCEPT ![h] = r]
             xx == [ft.state EXCEPT ![h] = 1]
  <2>1. /\ rr \in [Host -> Receiver] /\ xx \in [Host -> -2 .. 1] /\ n \in Nat
        /\ h \in {None} \cup Host
    BY <1>9, <1>10
  <2>2. ft' = [ft EXCEPT !.rcv = rr, !.state = xx, !.replied = n, !.continue_cb = h]
    BY <1>7
  <2> HIDE DEF rr, xx
  <2> QED
    BY <1>1, <2>1, <2>2 DEF Transfer
<1>12. /\ ft'.rcv = [ft.rcv EXCEPT ![h] = r] /\ ft'.state = [ft.state EXCEPT ![h] = 1]
       /\ ft'.replied = n /\ ft'.continue_cb = h /\ ft'.idx = ft.idx
       /\ ft'.unnoticed = ft.unnoticed /\ ft'.stopped = ft.stopped
       /\ ft'.started = ft.started /\ ft'.paused = ft.paused /\ ft'.completed = ft.completed
       /\ ft'.error = ft.error /\ ft'.received = ft.received /\ ft'.fd = ft.fd
       /\ ft'.failure_cb = ft.failure_cb /\ ft'.told = ft.told
  BY <1>1, <1>7 DEF Transfer
<1>13. ft'.rcv[h] = r /\ ft'.state[h] = 1
  BY <1>1, <1>12 DEF Transfer
<1>14. \A g \in Host : g # h => ft'.rcv[g] = ft.rcv[g] /\ ft'.state[g] = ft.state[g]
  BY <1>1, <1>12 DEF Transfer
<1>15. \A g \in Host : g # h => ~Plugged(ft, g)
  <2>1. ConnectsOf(ft, h)
    BY <1>2 DEF ConnectsOf
  <2> QED
    BY <1>1, <2>1 DEF Core, Alone
<1>16. \A g \in Host : g # h => ~Plugged(ft', g)
  BY <1>14, <1>15 DEF Plugged
<1>17. Wired(ft', h) /\ Plugged(ft', h)
  <2>1. ft.idx[h] = "set"
    BY <1>1, <1>3 DEF Wired
  <2>2. /\ ft'.rcv[h].plugged = "in" /\ ft'.rcv[h].state = 6 /\ ft'.rcv[h].listed
        /\ ft'.idx[h] = "set" /\ ft'.state[h] = 1
    BY <1>3, <1>8, <1>12, <1>13, <2>1
  <2> QED
    BY <2>2 DEF Wired, Plugged
<1>18. \A g \in Host : Wired(ft', g)
  <2>1. \A g \in Host : g # h => Wired(ft', g)
    BY <1>1, <1>12, <1>14 DEF Core, Wired
  <2> QED
    BY <1>17, <2>1
<1>19. Alone(ft') /\ NoneStopped(ft')
  BY <1>8, <1>13, <1>16 DEF Alone, NoneStopped, ConnectsOf, Connecting
<1>20. Used(ft')
  BY <1>13 DEF Used
<1>21. Started(ft')
  BY <1>1, <1>3, <1>12 DEF Core, Started
<1>22. ~Final(ft')
  BY <1>3, <1>12 DEF Final, Untried
<1>23. Accepts(ft')
  BY <1>3, <1>9, <1>12, <1>20 DEF Accepts, Untried
<1>24. Tells(ft')
  <2>1. <<>> # <<"failed">> /\ <<>> # <<"completed">> /\ <<>> # <<"stopped">>
    OBVIOUS
  <2> QED
    BY <1>3, <1>12, <2>1 DEF Tells, Untried
<1>25. Waits(ft')
  <2>1. \A g \in Host : ft'.state[g] = 0 => ft'.unnoticed
    <3> TAKE g \in Host
    <3> HAVE ft'.state[g] = 0
    <3>1. g # h /\ ft.state[g] = 0
      BY <1>13, <1>14
    <3> QED
      BY <1>1, <1>3, <1>12, <1>15, <3>1 DEF Core, Waits
  <2>2. \A g \in Host : ft'.rcv[g].plugged # "hup"
    BY <1>8, <1>13, <1>16 DEF Plugged
  <2> QED
    BY <2>1, <2>2 DEF Waits
<1>26. Awaited(ft')
  BY <1>17 DEF Awaited, Closed
<1>27. Core(ft')
  BY <1>3, <1>11, <1>12, <1>18, <1>19, <1>21, <1>22, <1>23, <1>24, <1>25 DEF Core
<1>28. ASSUME ~CancelEarly PROVE Moves(ft, ft')
  <2>1. PhaseOf(ft) = "trying" /\ GotOf(ft) = 0
    BY <1>3, <1>28, RacePhase DEF Races
  <2>2. PhaseOf(ft') = "receiving"
    BY <1>3, <1>12, <1>20, <1>28 DEF PhaseOf, Untried
  <2>3. GotOf(ft') = GotOf(ft)
    BY <1>12 DEF GotOf
  <2> QED
    BY <2>1, <2>2, <2>3 DEF Moves
<1> QED
  BY <1>26, <1>27, <1>28 DEF Good

\* get_fd, of the streamhost in use
LEMMA GetsFd ==
    ASSUME NEW s, Core(s), NEW h \in Host, Plugged(s, h), s.rcv[h].state >= 5
    PROVE  LET g == GetFd(s)
           IN /\ g \in Transfer /\ Alike(s, g) /\ g.rcv = s.rcv /\ g.state = s.state
              /\ g.completed = s.completed /\ g.error = s.error /\ g.failure_cb = s.failure_cb
              /\ g.paused = s.paused /\ g.fd /\ g.received = GotOf(s)
<1> DEFINE g == GetFd(s)
<1>1. s \in Transfer
  BY DEF Core
<1>2. Used(s) /\ (s.fd => s.received # None)
  BY UsedIsAlone
<1>3. ~s.fd => s.received \in {None, 0}
  BY <1>2 DEF Core, Accepts
<1>4. CASE s.fd
  <2>1. g = s
    BY <1>4 DEF GetFd
  <2>2. s.received = GotOf(s)
    BY <1>2, <1>4 DEF GotOf
  <2> QED
    BY <1>1, <1>4, <2>1, <2>2 DEF Alike
<1>5. CASE ~s.fd
  <2>1. g = [s EXCEPT !.fd = TRUE, !.received = 0]
    BY <1>5 DEF GetFd
  <2>2. 0 \in {None} \cup 0 .. 2 * Size - 1
    BY SocksReceiverAssumption
  <2>3. GotOf(s) = 0
    BY <1>3, <1>5 DEF GotOf
  <2> HIDE DEF g
  <2>4. g \in Transfer
    BY <1>1, <2>1, <2>2 DEF Transfer
  <2>5. /\ g.rcv = s.rcv /\ g.state = s.state
        /\ g.completed = s.completed /\ g.error = s.error /\ g.failure_cb = s.failure_cb
        /\ g.paused = s.paused /\ g.fd /\ g.received = 0
    BY <1>1, <2>1 DEF Transfer
  <2>6. Alike(s, g)
    BY <1>1, <2>1 DEF Transfer, Alike
  <2> QED
    BY <2>3, <2>4, <2>5, <2>6 DEF g
<1> QED
  BY <1>4, <1>5

LEMMA ReceiveGood ==
    ASSUME IInv, NEW h \in Host, NEW n \in 1 .. Size, Receive(h, n)
    PROVE  Good(ft, ft')
<1> DEFINE s == GetFd(ft)
           m == s.received + n
           t == [s EXCEPT !.received = m]
           d == Disconnect(t, h)
           e == [d EXCEPT !.fd = FALSE, !.error = 0, !.completed = TRUE]
           u == [t EXCEPT !.stalled = FALSE]
<1>1. Core(ft) /\ Awaited(ft) /\ ft \in Transfer /\ Wired(ft, h)
  BY DEF IInv, Core
<1>2. Plugged(ft, h) /\ ft.rcv[h].state >= 5 /\ ft.rcv[h].state = 6
      /\ ft.rcv[h].plugged = "in" /\ ~ft.paused
  BY DEF Receive, Readable, Plugged
<1>3. /\ ft.state[h] = 1 /\ Used(ft) /\ ft.started /\ ft.rcv[h].listed
      /\ \A g \in Host \ {h} : ~Plugged(ft, g) /\ (ft.state[g] = 0 => ft.unnoticed)
      /\ ft.told = <<>> /\ ft.error = 0 /\ ~ft.completed
      /\ (~CancelEarly => PhaseOf(ft) = "receiving")
      /\ GotOf(ft) \in Nat /\ GotOf(ft) < Size
  BY <1>1, <1>2, UsedIsAlone
<1>4. /\ s \in Transfer /\ Alike(ft, s) /\ s.rcv = ft.rcv /\ s.state = ft.state
      /\ s.completed = ft.completed /\ s.error = ft.error /\ s.failure_cb = ft.failure_cb
      /\ s.paused = ft.paused /\ s.fd /\ s.received = GotOf(ft)
  BY <1>1, <1>2, GetsFd
<1>5. ft' = IF t.received >= Size THEN Complete(e) ELSE WaitFor(u, h, "in")
  BY DEF Receive
<1>6. Size \in Nat /\ n \in Nat /\ n >= 1 /\ n <= Size
  BY SocksReceiverAssumption
<1> HIDE DEF s
<1>7. m \in Nat /\ m > GotOf(ft) /\ m <= 2 * Size - 1 /\ m # None
  BY <1>3, <1>4, <1>6, SocksReceiverAssumption
<1> HIDE DEF m
<1>8. /\ t \in Transfer /\ t.received = m /\ t.rcv = ft.rcv /\ t.state = ft.state
      /\ Alike(ft, t) /\ t.completed = ft.completed /\ t.error = ft.error
      /\ t.failure_cb = ft.failure_cb /\ t.paused = ft.paused /\ t.fd
  <2>1. m \in {None} \cup 0 .. 2 * Size - 1
    BY <1>6, <1>7
  <2>2. t \in Transfer
    BY <1>4, <2>1 DEF Transfer
  <2>3. /\ t.received = m /\ t.rcv = s.rcv /\ t.state = s.state /\ t.completed = s.completed
        /\ t.error = s.error /\ t.failure_cb = s.failure_cb /\ t.paused = s.paused
        /\ t.fd = s.fd /\ Alike(s, t)
    BY <1>4 DEF Transfer, Alike
  <2> HIDE DEF t
  <2> QED
    BY <1>4, <2>2, <2>3 DEF Alike
<1> HIDE DEF t
<1>9. GotOf(t) = m
  BY <1>7, <1>8 DEF GotOf
<1>10. CASE m >= Size
  <2>1. ft' = Complete(e)
    BY <1>5, <1>8, <1>10
  <2>2. Puts(t, d, h) /\ d.rcv[h] = Shut /\ d.state[h] = -1
    BY <1>3, <1>8, Disconnects
  <2>3. d \in Transfer /\ Same(t, d) /\ SameBut(t, d, h) /\ d.unnoticed = t.unnoticed
        /\ d.idx = t.idx
    BY <2>2 DEF Puts
  <2> HIDE DEF d
  <2>4. /\ e \in Transfer /\ e.rcv = d.rcv /\ e.state = d.state /\ e.error = 0
        /\ e.completed /\ ~e.fd /\ e.received = d.received
        /\ Alike(d, e)
    BY <2>3 DEF Transfer, Alike
  <2> HIDE DEF e
  <2>5. Alike(ft, e)
    BY <1>8, <2>3, <2>4 DEF Alike, Same
  <2>6. e.rcv[h] = Shut /\ e.state[h] = -1
    BY <2>2, <2>4
  <2>7. \A g \in Host \ {h} : e.rcv[g] = ft.rcv[g] /\ e.state[g] = ft.state[g]
    BY <1>8, <2>3, <2>4 DEF SameBut
  <2>8. e.received = m
    BY <1>8, <2>3, <2>4 DEF Same
  <2>9. GotOf(e) = m
    BY <1>7, <2>8 DEF GotOf
  <2>10. e.received \in Size .. 2 * Size
    BY <1>6, <1>7, <1>10, <2>8
  <2>11. GotOf(e) \in Nat /\ GotOf(e) > GotOf(ft) /\ GotOf(e) >= Size
    BY <1>7, <1>10, <2>9
  <2>12. Good(ft, Complete(e))
    BY <1>1, <1>2, <2>4, <2>5, <2>6, <2>7, <2>10, <2>11, EndsGood
  <2> QED
    BY <2>1, <2>12
<1>11. CASE ~(m >= Size)
  <2> DEFINE c == ft.rcv[h]
             on == TRUE
             r == [c EXCEPT !.plugged = "in", !.timer = on]
  <2>1. ft' = WaitFor(u, h, "in")
    BY <1>5, <1>8, <1>11
  <2>2. /\ u \in Transfer /\ u.received = m /\ u.rcv = ft.rcv /\ u.state = ft.state
        /\ Alike(ft, u) /\ u.completed = ft.completed /\ u.error = ft.error
        /\ u.failure_cb = ft.failure_cb /\ u.paused = ft.paused /\ u.fd
    <3>1. u \in Transfer
      BY <1>8 DEF Transfer
    <3>2. /\ u.received = t.received /\ u.rcv = t.rcv /\ u.state = t.state
          /\ u.completed = t.completed /\ u.error = t.error
          /\ u.failure_cb = t.failure_cb /\ u.paused = t.paused /\ u.fd = t.fd
          /\ Alike(t, u)
      BY <1>8 DEF Transfer, Alike
    <3> HIDE DEF u
    <3> QED
      BY <1>8, <3>1, <3>2 DEF Alike
  <2> HIDE DEF u
  <2>3. on \in BOOLEAN
    OBVIOUS
  <2>4. ft' = [u EXCEPT !.rcv = [u.rcv EXCEPT ![h] = r]]
    BY <2>1, <2>2 DEF WaitFor, Transfer
  <2> HIDE DEF on
  <2>5. r \in Receiver /\ r.state = c.state /\ r.plugged = "in" /\ r.listed = c.listed
    <3>1. c \in Receiver
      BY <1>1 DEF Transfer
    <3> HIDE DEF c
    <3> QED
      BY <2>3, <3>1 DEF Receiver
  <2> HIDE DEF r
  <2>6. [u.rcv EXCEPT ![h] = r] \in [Host -> Receiver]
    BY <2>2, <2>5 DEF Transfer
  <2>7. ft' \in Transfer /\ ft'.rcv = [u.rcv EXCEPT ![h] = r]
    BY <2>2, <2>4, <2>6 DEF Transfer
  <2>8. /\ ft'.received = u.received /\ ft'.state = u.state
        /\ ft'.completed = u.completed /\ ft'.error = u.error
        /\ ft'.failure_cb = u.failure_cb /\ ft'.paused = u.paused /\ ft'.fd = u.fd
        /\ Alike(u, ft')
    BY <2>2, <2>4 DEF Transfer, Alike
  <2>9. /\ ft'.received = m /\ ft'.state = ft.state
        /\ ft'.completed = ft.completed /\ ft'.error = ft.error
        /\ ft'.failure_cb = ft.failure_cb /\ ~ft'.paused /\ ft'.fd
        /\ Alike(ft, ft')
    BY <1>2, <2>2, <2>8 DEF Alike
  <2>10. ft'.rcv[h] = r /\ \A g \in Host \ {h} : ft'.rcv[g] = ft.rcv[g]
    BY <2>2, <2>7 DEF Transfer
  <2>11. \A g \in Host :
           /\ \/ ft'.rcv[g] = ft.rcv[g]
              \/ /\ Plugged(ft, g) /\ ft'.rcv[g].plugged = "in"
                 /\ ft'.rcv[g].state = ft.rcv[g].state /\ ft'.rcv[g].listed = ft.rcv[g].listed
                 /\ ft.rcv[g].state \in {2, 4, 6}
           /\ ~ft'.paused /\ ft'.rcv[g].plugged = "hup" => ft'.unnoticed
    <3> TAKE g \in Host
    <3>1. CASE g = h
      BY <1>2, <2>5, <2>10, <3>1
    <3>2. CASE g # h
      <4>1. ft'.rcv[g] = ft.rcv[g] /\ ft.rcv[g].plugged = "no"
        BY <1>3, <2>10, <3>2 DEF Plugged
      <4> QED
        BY <4>1
    <3> QED
      BY <3>1, <3>2
  <2>12. ~Closed(ft)
    BY <1>2 DEF Closed
  <2>13. m \in Nat /\ m < Size
    BY <1>6, <1>7, <1>11
  <2>14. Core(ft') /\ Awaited(ft')
    BY <1>1, <1>3, <2>7, <2>9, <2>11, <2>12, <2>13, Continues DEF Alike
  <2>15. ASSUME ~CancelEarly PROVE Moves(ft, ft')
    <3>1. GotOf(ft') = m
      BY <1>7, <2>9 DEF GotOf
    <3>2. PhaseOf(ft') = PhaseOf(ft)
      BY <2>9 DEF PhaseOf, Used, Alike
    <3> QED
      BY <1>3, <1>7, <2>13, <2>15, <3>1, <3>2 DEF Moves
  <2> QED
    BY <2>14, <2>15 DEF Good
<1> QED
  BY <1>7, <1>6, <1>10, <1>11

LEMMA ReceiveEndsGood ==
    ASSUME IInv, NEW h \in Host, ReceiveEnds(h)
    PROVE  Good(ft, ft')
<1> DEFINE s == GetFd(ft)
           q == [s EXCEPT !.fd = FALSE]
<1>1. Core(ft)
  BY DEF IInv
<1>2. Plugged(ft, h) /\ ft.rcv[h].state >= 5
  BY DEF ReceiveEnds, Readable, Plugged
<1>3. ~ft.completed /\ GotOf(ft) \in Nat
  BY <1>1, <1>2, UsedIsAlone
<1>4. /\ s \in Transfer /\ Alike(ft, s) /\ s.rcv = ft.rcv /\ s.state = ft.state
      /\ s.completed = ft.completed /\ s.error = ft.error /\ s.failure_cb = ft.failure_cb
      /\ s.paused = ft.paused /\ s.fd /\ s.received = GotOf(ft)
  BY <1>1, <1>2, GetsFd
<1>5. ft' = Complete([Disconnect(q, h) EXCEPT !.error = -1])
  BY DEF ReceiveEnds, Break
<1> HIDE DEF s
<1>6. /\ q \in Transfer /\ q.rcv = s.rcv /\ q.state = s.state /\ q.completed = s.completed
      /\ ~q.fd /\ q.received = s.received /\ Alike(s, q)
  BY <1>4 DEF Transfer, Alike
<1> HIDE DEF q
<1>7. Alike(ft, q)
  BY <1>4, <1>6 DEF Alike
<1>8. GotOf(q) = GotOf(ft)
  BY <1>3, <1>4, <1>6, SocksReceiverAssumption DEF GotOf
<1>9. GotOf(q) \in Nat /\ GotOf(q) >= GotOf(ft)
  BY <1>3, <1>8
<1>10. -1 \in {-1, -6}
  OBVIOUS
<1>11. Good(ft, Complete([Disconnect(q, h) EXCEPT !.error = -1]))
  BY <1>1, <1>2, <1>3, <1>4, <1>6, <1>7, <1>9, <1>10, BreakGood
<1> QED
  BY <1>5, <1>11

LEMMA WriteFailsGood ==
    ASSUME IInv, NEW h \in Host, NEW n \in 1 .. Size, WriteFails(h, n)
    PROVE  Good(ft, ft')
<1> DEFINE s == GetFd(ft)
           m == s.received + n
           off == FALSE
           q == [s EXCEPT !.received = m, !.fd = off]
<1>1. Core(ft)
  BY DEF IInv
<1>2. Plugged(ft, h) /\ ft.rcv[h].state >= 5
  BY DEF WriteFails, Readable, Plugged
<1>3. ~ft.completed /\ GotOf(ft) \in Nat /\ GotOf(ft) < Size
  BY <1>1, <1>2, UsedIsAlone
<1>4. /\ s \in Transfer /\ Alike(ft, s) /\ s.rcv = ft.rcv /\ s.state = ft.state
      /\ s.completed = ft.completed /\ s.error = ft.error /\ s.failure_cb = ft.failure_cb
      /\ s.paused = ft.paused /\ s.fd /\ s.received = GotOf(ft)
  BY <1>1, <1>2, GetsFd
<1>5. ft' = Complete([Disconnect(q, h) EXCEPT !.error = -6])
  BY DEF WriteFails
<1>6. Size \in Nat /\ n \in Nat /\ n <= Size
  BY SocksReceiverAssumption
<1> HIDE DEF s
<1>7. m \in Nat /\ m >= GotOf(ft) /\ m <= 2 * Size - 1 /\ m # None
  BY <1>3, <1>4, <1>6, SocksReceiverAssumption
<1>8. m \in {None} \cup 0 .. 2 * Size - 1
  BY <1>6, <1>7
<1>9. off \in BOOLEAN /\ ~off
  OBVIOUS
<1> HIDE DEF m, off
<1>10. /\ q \in Transfer /\ q.rcv = s.rcv /\ q.state = s.state /\ q.completed = s.completed
      /\ q.fd = off /\ q.received = m /\ Alike(s, q)
  BY <1>4, <1>8, <1>9 DEF Transfer, Alike
<1> HIDE DEF q
<1>11. Alike(ft, q)
  BY <1>4, <1>10 DEF Alike
<1>12. GotOf(q) = m
  BY <1>7, <1>10 DEF GotOf
<1>13. GotOf(q) \in Nat /\ GotOf(q) >= GotOf(ft)
  BY <1>7, <1>12
<1>14. -6 \in {-1, -6}
  OBVIOUS
<1>15. Good(ft, Complete([Disconnect(q, h) EXCEPT !.error = -6]))
  BY <1>1, <1>2, <1>3, <1>4, <1>10, <1>11, <1>13, <1>14, <1>9, BreakGood
<1> QED
  BY <1>5, <1>15

LEMMA StallGood ==
    ASSUME IInv, NEW h \in Host, Stall(h)
    PROVE  Good(ft, ft')
<1>1. Core(ft) /\ Awaited(ft) /\ ft \in Transfer /\ Wired(ft, h)
  BY DEF IInv, Core
<1>2. ft.rcv[h] \in Receiver
  BY <1>1 DEF Transfer
<1>3. Plugged(ft, h) /\ ft.rcv[h].state >= 5
  BY <1>1, <1>2 DEF Stall, Wired, Plugged, Receiver
<1>4. /\ Used(ft) /\ ft.started /\ ft.told = <<>> /\ ft.error = 0 /\ ~ft.completed
      /\ GotOf(ft) \in Nat /\ GotOf(ft) < Size /\ (ft.fd => ft.received # None)
  BY <1>1, <1>3, UsedIsAlone
<1>5. CASE ft.stalled
  <2>1. ft' = Complete([Disconnect(ft, h) EXCEPT !.error = -1])
    BY <1>5 DEF Stall, Break
  <2>2. Alike(ft, ft) /\ GotOf(ft) >= GotOf(ft) /\ -1 \in {-1, -6}
    BY <1>4 DEF Alike
  <2>3. Good(ft, Complete([Disconnect(ft, h) EXCEPT !.error = -1]))
    BY <1>1, <1>3, <1>4, <2>2, BreakGood
  <2> QED
    BY <2>1, <2>3
<1>6. CASE ~ft.stalled
  <2> DEFINE e == [ft EXCEPT !.stalled = TRUE]
             t == Complete(e)
  <2>1. ft' = [t EXCEPT !.received = IF @ = None THEN 0 ELSE @]
    BY <1>6 DEF Stall
  <2>2. /\ e \in Transfer /\ e.rcv = ft.rcv /\ e.state = ft.state /\ Alike(ft, e)
        /\ e.completed = ft.completed /\ e.error = ft.error /\ e.failure_cb = ft.failure_cb
        /\ e.received = ft.received /\ e.fd = ft.fd /\ e.paused = ft.paused /\ e.stalled
    BY <1>1 DEF Transfer, Alike
  <2> HIDE DEF e
  <2>3. e.told = <<>>
    BY <1>4, <2>2 DEF Alike
  <2>4. /\ t \in Transfer /\ t.rcv = e.rcv /\ t.state = e.state /\ t.idx = e.idx
        /\ t.started = e.started /\ t.continue_cb = e.continue_cb
        /\ t.replied = e.replied /\ t.unnoticed = e.unnoticed
        /\ t.completed = e.completed /\ t.error = e.error
        /\ t.received = e.received /\ t.fd = e.fd
        /\ t.paused = e.paused /\ t.stalled = e.stalled
        /\ t.failure_cb = e.failure_cb
        /\ t.stopped <=> e.stopped \/ e.error # 0
        /\ \/ t.told = <<>>
           \/ t.told = <<"completed">> /\ e.error = 0 /\ ~e.stalled
           \/ t.told = <<"stopped">> /\ e.error \notin {0, -6} /\ ~e.stalled
    BY <2>2, <2>3, Completes
  <2> HIDE DEF t
  <2>5. t.told = <<>> /\ t.stopped = ft.stopped
    <3>1. t.stopped \in BOOLEAN /\ ft.stopped \in BOOLEAN
      BY <1>1, <2>4 DEF Transfer
    <3>2. t.stopped <=> ft.stopped
      BY <1>4, <2>2, <2>4 DEF Alike
    <3> QED
      BY <2>2, <2>4, <3>1, <3>2
  <2>6. Alike(ft, t)
    BY <1>4, <2>2, <2>4, <2>5 DEF Alike
  <2> DEFINE m == IF t.received = None THEN 0 ELSE t.received
  <2>7. m = GotOf(ft)
    BY <2>2, <2>4 DEF GotOf
  <2>8. m \in Nat /\ m < Size
    BY <1>4, <2>7
  <2>9. ft' = [t EXCEPT !.received = m]
    BY <2>1, <2>4 DEF Transfer
  <2>10. m \in {None} \cup 0 .. 2 * Size - 1
    BY <2>8, SocksReceiverAssumption
  <2> HIDE DEF m
  <2>11. /\ ft' \in Transfer /\ ft'.rcv = t.rcv /\ ft'.state = t.state /\ Alike(t, ft')
         /\ ft'.completed = t.completed /\ ft'.error = t.error
         /\ ft'.failure_cb = t.failure_cb
         /\ ft'.received = m /\ ft'.fd = t.fd /\ ft'.paused = t.paused
    BY <2>4, <2>9, <2>10 DEF Transfer, Alike
  <2>12. /\ ft'.rcv = ft.rcv /\ ft'.state = ft.state /\ Alike(ft, ft')
         /\ ft'.completed = ft.completed /\ ft'.error = ft.error
         /\ ft'.failure_cb = ft.failure_cb /\ ft'.fd = ft.fd /\ ft'.paused = ft.paused
    BY <2>2, <2>4, <2>6, <2>11 DEF Alike
  <2>13. \A g \in Host : ~ft'.paused /\ ft'.rcv[g].plugged = "hup" => ft'.unnoticed
    BY <1>1, <2>12 DEF Core, Waits, Alike
  <2>14. ~ft'.fd => ft'.received = 0
    <3>1. ~ft.fd => ft.received \in {None, 0}
      BY <1>1, <1>4 DEF Core, Accepts
    <3> QED
      BY <2>7, <2>11, <2>12, <3>1 DEF GotOf
  <2>15. ~Closed(ft)
    BY <1>3 DEF Closed
  <2>16. Core(ft') /\ Awaited(ft')
    BY <1>1, <1>4, <2>8, <2>11, <2>12, <2>13, <2>14, <2>15, Continues DEF Alike
  <2>17. GotOf(ft') = GotOf(ft)
    BY <2>7, <2>8, <2>11, SocksReceiverAssumption DEF GotOf
  <2>18. Moves(ft, ft')
    BY <2>12, <2>17, StutterMoves DEF Alike
  <2> QED
    BY <2>16, <2>18 DEF Good
<1> QED
  BY <1>5, <1>6

-----------------------------------------------------------------------------
(* The invariant holds initially, and every step shows what it has to.     *)


LEMMA InitIInv ==
    ASSUME Init
    PROVE  IInv /\ PhaseOf(ft) = "offered" /\ GotOf(ft) = 0
<1>1. Unused \in Receiver
  BY DEF Unused, Receiver
<1>2. 0 \in -2 .. 1 /\ 0 \in {0, -1, -3, -6} /\ 0 \in Nat
  OBVIOUS
<1>3. <<>> \in Seq({"completed", "stopped", "failed"})
  OBVIOUS
<1>4. ft \in Transfer
  BY <1>1, <1>2, <1>3 DEF Init, Transfer
<1>5. /\ \A h \in Host : ft.rcv[h] = Unused /\ ft.state[h] = 0 /\ ft.idx[h] = "none"
      /\ ft.error = 0 /\ ~ft.completed /\ ft.told = <<>> /\ ft.received = None
      /\ ft.replied = 0 /\ ~ft.fd /\ ~ft.paused /\ ~ft.failure_cb /\ ~ft.started
      /\ ~ft.stopped
  BY DEF Init
<1>6. Closed(ft) /\ ~Used(ft)
  BY <1>5 DEF Closed, Plugged, Used, Unused
<1>7. \A h \in Host : Wired(ft, h)
  BY <1>5 DEF Wired, Unused
<1>8. Alone(ft) /\ NoneStopped(ft)
  BY <1>6 DEF Alone, NoneStopped, Closed, Connecting, ConnectsOf
<1>9. Offered(ft)
  BY <1>5 DEF Offered
<1>10. <<>> # <<"failed">> /\ <<>> # <<"completed">> /\ <<>> # <<"stopped">>
  OBVIOUS
<1>11. Tells(ft)
  BY <1>5, <1>10 DEF Tells
<1>12. Accepts(ft)
  BY <1>5, <1>6 DEF Accepts
<1>13. Waits(ft)
  BY <1>5, <1>6 DEF Waits, Closed, Plugged, Unused
<1>14. Core(ft)
  BY <1>4, <1>5, <1>6, <1>7, <1>8, <1>9, <1>11, <1>12, <1>13 DEF Core
<1>15. Awaited(ft)
  BY <1>5 DEF Awaited
<1> QED
  BY <1>5, <1>6, <1>14, <1>15 DEF IInv, PhaseOf, GotOf

LEMMA StepGood ==
    ASSUME InProgressFirst, IInv, Next
    PROVE  Good(ft, ft')
<1>1. CASE \E outcome \in [Host -> Outcome] :
              \/ Bytestream(outcome)
              \/ \E h \in Host : \/ HangUp(h, outcome) \/ PollEnd(h, outcome)
                                 \/ ConnectTimeout(h, outcome)
  <2>1. PICK outcome \in [Host -> Outcome] :
              \/ Bytestream(outcome)
              \/ \E h \in Host : \/ HangUp(h, outcome) \/ PollEnd(h, outcome)
                                 \/ ConnectTimeout(h, outcome)
    BY <1>1
  <2>2. CASE Bytestream(outcome)
    BY <2>2, BytestreamGood
  <2>3. ASSUME NEW h \in Host, HangUp(h, outcome)
        PROVE  Good(ft, ft')
    BY <2>3, HangUpGood
  <2>4. ASSUME NEW h \in Host, PollEnd(h, outcome)
        PROVE  Good(ft, ft')
    BY <2>4, PollEndGood
  <2>5. ASSUME NEW h \in Host, ConnectTimeout(h, outcome)
        PROVE  Good(ft, ft')
    BY <2>5, ConnectTimeoutGood
  <2> QED
    BY <2>1, <2>2, <2>3, <2>4, <2>5
<1>2. ASSUME NEW h \in Host,
             \/ \E outcome \in {"connected", "refused", "error"} : ConnectEnds(h, outcome)
             \/ Request(h) \/ RequestFails(h) \/ NoticePause(h)
             \/ Authenticated(h) \/ NotAuthenticated(h) \/ ShortAnswer(h) \/ Approved(h)
             \/ \E n \in 1 .. Size : Receive(h, n) \/ WriteFails(h, n)
             \/ ReceiveEnds(h) \/ Stall(h)
      PROVE  Good(ft, ft')
  <2>1. ASSUME NEW outcome \in {"connected", "refused", "error"}, ConnectEnds(h, outcome)
        PROVE  Good(ft, ft')
    BY <2>1, ConnectEndsGood
  <2>2. CASE Request(h)
    BY <2>2, RequestGood
  <2>3. CASE RequestFails(h) \/ NotAuthenticated(h)
    BY <2>3, RequestFailsGood
  <2>4. CASE NoticePause(h)
    BY <2>4, NoticePauseGood
  <2>5. CASE Authenticated(h)
    BY <2>5, AuthenticatedGood
  <2>6. CASE ShortAnswer(h)
    BY <2>6, ShortAnswerGood
  <2>7. CASE Approved(h)
    BY <2>7, ApprovedGood
  <2>8. ASSUME NEW n \in 1 .. Size, Receive(h, n)
        PROVE  Good(ft, ft')
    BY <2>8, ReceiveGood
  <2>9. ASSUME NEW n \in 1 .. Size, WriteFails(h, n)
        PROVE  Good(ft, ft')
    BY <2>9, WriteFailsGood
  <2>10. CASE ReceiveEnds(h)
    BY <2>10, ReceiveEndsGood
  <2>11. CASE Stall(h)
    BY <2>11, StallGood
  <2> QED
    BY <1>2, <2>1, <2>2, <2>3, <2>4, <2>5, <2>6, <2>7, <2>8, <2>9, <2>10, <2>11
<1>3. CASE Pause
  BY <1>3, PauseGood
<1>4. CASE Continue
  BY <1>4, ContinueGood
<1>5. CASE Cancel
  BY <1>5, CancelGood
<1>6. CASE GoOnOff
  BY <1>6, GoOnOffGood
<1> QED
  BY <1>1, <1>2, <1>3, <1>4, <1>5, <1>6 DEF Next

LEMMA StepIInv ==
    ASSUME InProgressFirst, IInv, [Next]_ft
    PROVE  IInv'
<1>1. CASE Next
  BY <1>1, StepGood DEF Good, IInv
<1>2. CASE UNCHANGED ft
  BY <1>2 DEF IInv
<1> QED
  BY <1>1, <1>2

LEMMA AlwaysIInv ==
    ASSUME InProgressFirst
    PROVE  Spec => []IInv
<1>1. Init => IInv
  BY InitIInv
<1>2. IInv /\ [Next]_ft => IInv'
  BY StepIInv
<1> QED
  BY <1>1, <1>2, PTL DEF Spec

-----------------------------------------------------------------------------
(* The theorems.                                                           *)

\* Whatever the streamhosts, the transfer has the fields and the values that
\* file_props and the receivers of socks5.py may have: no attempt that is
\* refused, stopped or tried again leaves a state that no case is written for.
THEOREM TypeCorrect ==
    ASSUME InProgressFirst
    PROVE  Spec => []TypeOK
<1>1. IInv => TypeOK
  BY DEF IInv, Core, TypeOK
<1> QED
  BY <1>1, AlwaysIInv, PTL

\* Of any number of streamhosts that race, one is connected at any time, and
\* the sender is told of one in the whole transfer: the attempts that
\* _socket_connected stops may be started again by reconnect_receiver, but
\* never once a streamhost was accepted.
THEOREM OneStreamhostAlways ==
    ASSUME InProgressFirst
    PROVE  Spec => []OneStreamhost
<1>1. ASSUME IInv
      PROVE  OneStreamhost
  <2>1. Core(ft) /\ ft \in Transfer /\ Alone(ft) /\ ft.replied <= 1
    BY <1>1 DEF IInv, Core, Accepts
  <2>2. ASSUME NEW g \in Host, NEW h \in Host, Connects(g), Connects(h)
        PROVE  g = h
    BY <2>1, <2>2 DEF Connects, ConnectsOf, Plugged, Alone
  <2> QED
    BY <2>1, <2>2 DEF OneStreamhost
<1>2. IInv => OneStreamhost
  BY <1>1
<1> QED
  BY <1>2, AlwaysIInv, PTL

\* A transfer that has started, is not over and is not paused waits for a
\* socket or a timeout, or has lost its last socket on one of the paths of
\* socks5.py that tell nobody: no order of refusals, timeouts and new attempts
\* leaves it waiting for nothing.
THEOREM SomethingIsAwaitedAlways ==
    ASSUME InProgressFirst
    PROVE  Spec => []SomethingIsAwaited
<1>1. ASSUME IInv
      PROVE  SomethingIsAwaited
  <2>1. Core(ft) /\ Awaited(ft) /\ ft \in Transfer /\ Waits(ft)
    BY <1>1 DEF IInv, Core
  <2>2. SUFFICES ASSUME ft.started, ~Over, ~ft.paused
                 PROVE  \/ \E h \in Host : ft.rcv[h].plugged \in {"in", "out"}
                        \/ ft.unnoticed
    BY DEF SomethingIsAwaited
  <2>3. CASE Closed(ft)
    BY <2>1, <2>2, <2>3 DEF Awaited, IsOver, Over
  <2>4. ASSUME NEW h \in Host, Plugged(ft, h)
        PROVE  ft.rcv[h].plugged \in {"in", "out"} \/ ft.unnoticed
    <3>1. ft.rcv[h] \in Receiver
      BY <2>1 DEF Transfer
    <3>2. ft.rcv[h].plugged \in {"in", "out", "hup"}
      BY <2>4, <3>1 DEF Plugged, Receiver
    <3> QED
      BY <2>1, <2>2, <3>2 DEF Waits
  <2> QED
    BY <2>3, <2>4 DEF Closed
<1>2. IInv => SomethingIsAwaited
  BY <1>1
<1> QED
  BY <1>2, AlwaysIInv, PTL

\* The user is told of one end at most, and of the right one: that the
\* download failed only when every streamhost has and nothing was accepted,
\* that it is complete only with the whole file, closed, and that it stopped
\* only when one was in use (process_result and _connect_error).
THEOREM ToldRightAlways ==
    ASSUME InProgressFirst
    PROVE  Spec => []ToldRight
<1>1. ASSUME IInv
      PROVE  ToldRight
  <2>1. Core(ft) /\ Tells(ft)
    BY <1>1 DEF IInv, Core
  <2>2. /\ Len(<<>>) = 0 /\ Len(<<"failed">>) = 1
        /\ Len(<<"completed">>) = 1 /\ Len(<<"stopped">>) = 1
    OBVIOUS
  <2>3. Len(ft.told) <= 1
    <3>1. Len(ft.told) = 0 \/ Len(ft.told) = 1
      BY <2>1, <2>2, Zenon DEF Tells
    <3>2. 0 <= 1 /\ 1 <= 1
      OBVIOUS
    <3> QED
      BY <3>1, <3>2, Zenon
  <2> QED
    BY <2>1, <2>3 DEF Tells, ToldRight
<1>2. IInv => ToldRight
  BY <1>1
<1> QED
  BY <1>2, AlwaysIInv, PTL

\* A transfer that is complete, cancelled or stopped has no socket and no
\* timeout left that may continue it, when it cannot be cancelled before the
\* sender has named its streamhosts.
THEOREM EndedIsClosedAlways ==
    ASSUME InProgressFirst, ~CancelEarly
    PROVE  Spec => []EndedIsClosed
<1>1. ASSUME IInv
      PROVE  EndedIsClosed
  <2>1. /\ Core(ft) /\ ft \in Transfer /\ (Final(ft) => Closed(ft))
        /\ \A h \in Host : Wired(ft, h)
    BY <1>1 DEF IInv, Core
  <2>2. ft.stopped \/ ft.completed => Closed(ft)
    BY <2>1 DEF Final
  <2>3. ASSUME Closed(ft), NEW h \in Host
        PROVE  ft.rcv[h].plugged = "no" /\ ~ft.rcv[h].timer
    BY <2>1, <2>3 DEF Closed, Plugged, Wired
  <2> QED
    BY <2>2, <2>3 DEF EndedIsClosed
<1>2. IInv => EndedIsClosed
  BY <1>1
<1> QED
  BY <1>2, AlwaysIInv, PTL

\* Every step of the race is a step of Download, or none of its business: the
\* download is tried once, settles on a streamhost for good, receives more and
\* more of the file from it, and ends once.
THEOREM DownloadImplemented ==
    ASSUME InProgressFirst, ~CancelEarly
    PROVE  Spec => ImplementsDownload
<1> DEFINE got == IF ft.received = None THEN 0 ELSE ft.received
<1>1. Init => Abstract!Init
  BY InitIInv DEF Abstract!Init, GotOf, Phase, PhaseOf, Used
<1>2. ASSUME IInv, [Next]_ft
      PROVE  [Abstract!Next]_<<Phase, got>>
  <2>1. CASE UNCHANGED ft
    BY <2>1 DEF Phase
  <2>2. CASE Next
    <3>1. Moves(ft, ft')
      BY <1>2, <2>2, StepGood DEF Good
    <3>2. Phase = PhaseOf(ft) /\ Phase' = PhaseOf(ft')
      BY DEF Phase, PhaseOf, Used
    <3>3. got = GotOf(ft) /\ got' = GotOf(ft')
      BY DEF GotOf
    <3> QED
      BY <3>1, <3>2, <3>3 DEF Moves, Abstract!Next, Abstract!Try, Abstract!Accept,
            Abstract!Fail, Abstract!Receive, Abstract!Complete, Abstract!Stop, Abstract!Ended
  <2> QED
    BY <1>2, <2>1, <2>2
<1>3. IInv /\ [Next]_ft => [Abstract!Next]_(Abstract!vars)
  BY <1>2 DEF Abstract!vars
<1> QED
  BY <1>1, <1>3, AlwaysIInv, PTL DEF Spec, ImplementsDownload, Abstract!Spec

=============================================================================
