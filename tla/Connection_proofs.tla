-------------------------- MODULE Connection_proofs --------------------------
(***************************************************************************)
(* What holds of Connection for every set of clients and all the options   *)
(* of the account.  The invariant, Good, is a predicate on the values of   *)
(* acc.  The operators of Connection are composed, so there is one lemma   *)
(* for each of them: from a good state it leads to a good one.  The step   *)
(* lemmas of the actions then follow from these.                           *)
(***************************************************************************)
EXTENDS Connection, TLAPS

Using(s) ==
    s.connection # None =>
        /\ s.connection = s.last_connection
        /\ s.con[s.connection] \in Accepted \cup {"closing"}

Last(s) == \A c \in Con : s.con[c] \in Open => s.last_connection = c

Reconnects(s) ==
    s.connected = ERROR => /\ s.shown = "error"
                           /\ s.time_to_reconnect
                           /\ s.reconnect_alarms > 0

Sound(s) == s \in State /\ Using(s) /\ Last(s)

Good(s) == Sound(s) /\ Reconnects(s)

\* What the operators that give a connection up have in common
Drops(s, t) ==
    /\ t.connection = None
    /\ s.connection = None => t.con = s.con /\ t.last_connection = s.last_connection
    /\ s.connection # None => \A c \in Con : t.con[c] \notin Open

Shown == {"offline", "connecting", "error", "online", "invisible"}

-----------------------------------------------------------------------------
(* Closing.                                                                *)

\* To tell a status changes only what is shown.
LEMMA TellLemma ==
    ASSUME NEW s \in State, NEW status \in Shown
    PROVE  /\ Tell(s, status) \in State
           /\ Tell(s, status) = [s EXCEPT !.shown = status]
           /\ Tell(s, status).con = s.con
           /\ Tell(s, status).connected = s.connected
           /\ Tell(s, status).connection = s.connection
           /\ Tell(s, status).last_connection = s.last_connection
           /\ Tell(s, status).on_purpose = s.on_purpose
BY DEF State, Tell, Shown

\* Without a connection the account is offline, and only a connection that
\* is forgotten takes last_connection with it.
LEMMA ForgetLemma ==
    ASSUME NEW s \in State
    PROVE  /\ Forget(s) \in State
           /\ Forget(s).con = s.con
           /\ Forget(s).connected = OFFLINE
           /\ Forget(s).connection = None
           /\ Forget(s).last_connection =
                IF s.connection = None THEN s.last_connection ELSE None
BY DEF State, Forget, OFFLINE

\* To note the show an account had leaves its clients alone.
LEMMA RememberLemma ==
    ASSUME NEW s \in State
    PROVE  /\ Remember(s) \in State
           /\ Remember(s).con = s.con
           /\ Remember(s).connected = OFFLINE
           /\ Remember(s).connection = s.connection
           /\ Remember(s).last_connection = s.last_connection
           /\ Remember(s).on_purpose = s.on_purpose
BY DEF State, Remember, OFFLINE, ShowAt

\* Told offline and then forgotten, the account is offline and needs no
\* alarm.
LEMMA ForgetToldLemma ==
    ASSUME NEW s \in State
    PROVE  /\ Forget(Tell(s, "offline")) \in State
           /\ Forget(Tell(s, "offline")).con = s.con
           /\ Forget(Tell(s, "offline")).connection = None
           /\ Forget(Tell(s, "offline")).connected = OFFLINE
           /\ Reconnects(Forget(Tell(s, "offline")))
<1>1. /\ Tell(s, "offline") \in State
      /\ Tell(s, "offline").con = s.con
  BY TellLemma DEF Shown
<1>. QED  BY <1>1, ForgetLemma DEF Reconnects, ERROR, OFFLINE

\* The same in the other order.
LEMMA ToldForgottenLemma ==
    ASSUME NEW s \in State
    PROVE  /\ Tell(Forget(s), "offline") \in State
           /\ Tell(Forget(s), "offline").con = s.con
           /\ Tell(Forget(s), "offline").connection = None
           /\ Tell(Forget(s), "offline").connected = OFFLINE
           /\ s.connection = None =>
                Tell(Forget(s), "offline").last_connection = s.last_connection
           /\ Reconnects(Tell(Forget(s), "offline"))
<1>1. /\ Forget(s) \in State
      /\ Forget(s).con = s.con
      /\ Forget(s).connection = None
      /\ Forget(s).connected = OFFLINE
      /\ s.connection = None => Forget(s).last_connection = s.last_connection
  BY ForgetLemma
<1>. DEFINE t == Forget(s)
<1>. HIDE DEF t
<1>2. /\ Tell(t, "offline") \in State
      /\ Tell(t, "offline").con = t.con
      /\ Tell(t, "offline").connected = t.connected
      /\ Tell(t, "offline").connection = t.connection
      /\ Tell(t, "offline").last_connection = t.last_connection
  BY <1>1, TellLemma DEF Shown, t
<1>. QED  BY <1>1, <1>2 DEF t, Reconnects, ERROR, OFFLINE

\* A lost connection ends as one that is offline or one that will reconnect.
LEMMA AfterLossLemma ==
    ASSUME NEW s \in State, s.connection = None, Reconnects(s)
    PROVE  /\ AfterLoss(s) \in State
           /\ AfterLoss(s).con = s.con
           /\ AfterLoss(s).connection = None
           /\ AfterLoss(s).last_connection = s.last_connection
           /\ Reconnects(AfterLoss(s))
<1>1. Armed(s.reconnect_alarms) \in 0 .. MaxAlarms /\ Armed(s.reconnect_alarms) > 0
  BY ConnectionAssumption DEF State, Armed
<1>2. CASE AutoReconnect
  <2>. DEFINE t == [s EXCEPT !.connected = ERROR, !.shown = "error",
                            !.time_to_reconnect = TRUE,
                            !.reconnect_alarms = Armed(@), !.on_purpose = FALSE]
  <2>1. AfterLoss(s) = t
    BY <1>2 DEF AfterLoss
  <2>2. t \in State
    BY <1>1 DEF State, ERROR
  <2>3. /\ t.con = s.con /\ t.connection = None
        /\ t.last_connection = s.last_connection
        /\ Reconnects(t)
    BY <1>1 DEF State, Reconnects
  <2>. QED  BY <2>1, <2>2, <2>3
<1>3. CASE ~AutoReconnect /\ s.on_connect_failure
  <2>. DEFINE t == [s EXCEPT !.on_connect_failure = FALSE, !.on_purpose = FALSE]
  <2>1. AfterLoss(s) = t
    BY <1>3 DEF AfterLoss
  <2>2. /\ t \in State /\ t.con = s.con /\ t.connection = None
        /\ t.last_connection = s.last_connection
        /\ Reconnects(t)
    BY DEF State, Reconnects
  <2>. QED  BY <2>1, <2>2
<1>4. CASE ~AutoReconnect /\ ~s.on_connect_failure
  <2>1. AfterLoss(s) = Tell(Forget(s), "offline")
    BY <1>4 DEF AfterLoss
  <2>. QED  BY <2>1, ToldForgottenLemma
<1>. QED  BY <1>2, <1>3, <1>4

\* A loss ends without a connection, offline if it was on purpose, and with
\* an alarm if it ends in error.
LEMMA HandleLossLemma ==
    ASSUME NEW s \in State
    PROVE  /\ HandleLoss(s) \in State
           /\ HandleLoss(s).con = s.con
           /\ HandleLoss(s).connection = None
           /\ Reconnects(HandleLoss(s))
           /\ s.on_purpose => HandleLoss(s).connected = OFFLINE
<1>1. CASE s.on_purpose
  BY <1>1, RememberLemma, ForgetLemma DEF HandleLoss, Reconnects, ERROR, OFFLINE
<1>2. CASE ~s.on_purpose
  <2>. DEFINE t == Forget(Tell(Remember(s), "offline"))
  <2>1. /\ t \in State /\ t.con = s.con
        /\ t.connection = None /\ t.connected = OFFLINE
    BY RememberLemma, TellLemma, ForgetLemma DEF Shown
  <2>2. Reconnects(t)
    BY <2>1 DEF Reconnects, ERROR, OFFLINE
  <2>3. HandleLoss(s) = AfterLoss(t)
    BY <1>2 DEF HandleLoss
  <2>. QED  BY <1>2, <2>1, <2>2, <2>3, AfterLossLemma
<1>. QED  BY <1>1, <1>2 DEF State

\* Closing a client keeps a state good.  Nothing is open after the client that
\* was open is closed, and nothing is in use after the one in use is.
LEMMA CloseSocketLemma ==
    ASSUME NEW s, Good(s), NEW c \in Con
    PROVE  /\ Good(CloseSocket(s, c))
           /\ CloseSocket(s, c).con = [s.con EXCEPT ![c] = "closed"]
           /\ s.connection \in {None, c} => CloseSocket(s, c).connection = None
           /\ s.connection = c /\ s.on_purpose
                => CloseSocket(s, c).connected = OFFLINE
<1>. DEFINE was == s.con[c]
            closed == SocketClosed(s, c)
            new == CloseSocket(s, c)
<1>0. s \in State /\ Using(s) /\ Last(s) /\ Reconnects(s)
  BY DEF Good, Sound, Sound
<1>1. /\ closed \in State
      /\ closed.con = [s.con EXCEPT ![c] = "closed"]
      /\ closed.connection = s.connection
      /\ closed.last_connection = s.last_connection
      /\ closed.on_purpose = s.on_purpose
      /\ Reconnects(closed)
  <2>. DEFINE q == s.stale_question \/ was = "asking"
              i == s.invisible_asked /\ was \notin Established
  <2>1. q \in BOOLEAN /\ i \in BOOLEAN
    OBVIOUS
  <2>2. closed = [s EXCEPT !.con[c] = "closed", !.stale_question = q,
                           !.invisible_asked = i]
    BY DEF SocketClosed
  <2>. HIDE DEF q, i, was, closed
  <2>. QED  BY <1>0, <2>1, <2>2 DEF State, Phase, Reconnects
<1>2. s.con \in [Con -> Phase] /\ None \notin Con
  BY <1>0, ConnectionAssumption DEF State
<1>3. CASE was \in Asked \cup Accepted \cup {"closing"}
  <2>1. /\ new \in State /\ new.con = closed.con
        /\ new.connection = None /\ Reconnects(new)
        /\ s.connection = c /\ s.on_purpose => new.connected = OFFLINE
    <3>1. CASE was \in Asked
      <4>1. new = Forget(Tell(closed, "offline"))
        BY <3>1 DEF CloseSocket, Accepted, Asked, Established
      <4>. QED  BY <4>1, <1>1, ForgetToldLemma
    <3>2. CASE was \in Accepted
      <4>1. new = HandleLoss(closed)
        BY <3>2 DEF CloseSocket, Accepted, Asked, Established
      <4>. QED  BY <4>1, <1>1, HandleLossLemma
    <3>3. CASE was = "closing"
      <4>1. new = Forget(Tell(HandleLoss(closed), "offline"))
        BY <3>3 DEF CloseSocket, Accepted, Asked, Established
      <4>2. HandleLoss(closed) \in State /\ HandleLoss(closed).con = closed.con
        BY <1>1, HandleLossLemma
      <4>. QED  BY <4>1, <4>2, ForgetToldLemma
    <3>. QED  BY <1>3, <3>1, <3>2, <3>3
  <2>2. \A d \in Con : new.con[d] \notin Open
    <3>1. was \in Open
      BY <1>3 DEF Open
    <3>2. s.last_connection = c
      BY <3>1, <1>0 DEF Last
    <3>. QED  BY <1>0, <1>1, <1>2, <2>1, <3>2
              DEF Last, Open, Asked, Accepted, Established
  <2>. QED  BY <1>1, <2>1, <2>2 DEF Good, Sound, Using, Last
<1>4. CASE was \notin Asked \cup Accepted \cup {"closing"}
  <2>1. new = closed
    BY <1>4 DEF CloseSocket, Accepted, Asked, Established
  <2>2. s.connection # c
    BY <1>0, <1>2, <1>4 DEF Using
  <2>3. Last(new)
    BY <1>0, <1>1, <1>2, <2>1 DEF Last, Open, Asked, Accepted, Established
  <2>4. Using(new)
    BY <1>0, <1>1, <1>2, <2>1, <2>2 DEF Using, State
  <2>. QED  BY <1>1, <2>1, <2>2, <2>3, <2>4 DEF Good, Sound
<1>. QED  BY <1>3, <1>4

\* A client is in use only while it is open, so it is the one opened last.
LEMMA DisconnectLemma ==
    ASSUME NEW s, Sound(s), NEW on_purpose \in BOOLEAN
    PROVE  /\ Good(Disconnect(s, on_purpose))
           /\ Drops(s, Disconnect(s, on_purpose))
           /\ on_purpose = TRUE => Disconnect(s, on_purpose).connected = OFFLINE
           /\ s.connection = None
                => Disconnect(s, on_purpose).connected = OFFLINE
<1>. DEFINE t == [s EXCEPT !.on_purpose = on_purpose, !.connected = OFFLINE,
                           !.time_to_reconnect = FALSE,
                           !.privacy_rules_supported = FALSE]
            new == Disconnect(s, on_purpose)
<1>0. s \in State /\ Using(s) /\ Last(s) /\ None \notin Con
  BY ConnectionAssumption DEF Sound
<1>1. /\ t \in State /\ t.con = s.con /\ t.connected = OFFLINE
      /\ t.connection = s.connection
      /\ t.last_connection = s.last_connection
      /\ t.on_purpose = on_purpose
  BY <1>0 DEF State, OFFLINE
<1>2. Good(t)
  BY <1>0, <1>1 DEF Good, Sound, Using, Last, Reconnects, ERROR, OFFLINE
<1>. HIDE DEF t
<1>3. CASE s.connection = None
  <2>1. new = t
    BY <1>3 DEF Disconnect, t
  <2>. QED  BY <1>1, <1>2, <1>3, <2>1 DEF Drops
<1>4. CASE s.connection # None
  <2>. DEFINE u == CloseSocket(t, s.connection)
  <2>1. s.connection \in Con
    BY <1>0, <1>4 DEF State
  <2>2. /\ Good(u)
        /\ u.con = [s.con EXCEPT ![s.connection] = "closed"]
        /\ u.connection = None
        /\ on_purpose => u.connected = OFFLINE
    BY <1>1, <1>2, <2>1, CloseSocketLemma
  <2>3. new = [u EXCEPT !.last_connection = None, !.connection = None]
    BY <1>4 DEF Disconnect, t
  <2>4. u \in State /\ Reconnects(u)
    BY <2>2 DEF Good, Sound
  <2>. HIDE DEF u
  <2>5. /\ new \in State /\ new.con = u.con /\ new.connection = None
        /\ new.connected = u.connected /\ Reconnects(new)
    BY <2>3, <2>4 DEF State, Reconnects
  <2>6. \A c \in Con : new.con[c] \notin Open
    <3>1. s.con[s.connection] \in Open /\ s.last_connection = s.connection
      BY <1>0, <1>4 DEF Using, Open
    <3>2. s.con \in [Con -> Phase]
      BY <1>0 DEF State
    <3>. SUFFICES ASSUME NEW c \in Con PROVE new.con[c] \notin Open
      OBVIOUS
    <3>3. CASE c = s.connection
      BY <2>2, <2>5, <3>2, <3>3 DEF Open, Asked, Accepted, Established
    <3>4. CASE c # s.connection
      <4>1. new.con[c] = s.con[c]
        BY <2>2, <2>5, <3>2, <3>4
      <4>. QED  BY <1>0, <3>1, <3>4, <4>1 DEF Last
    <3>. QED  BY <3>3, <3>4
  <2>. QED  BY <1>4, <2>2, <2>5, <2>6 DEF Drops, Good, Sound, Using, Last
<1>. QED  BY <1>3, <1>4

\* Good is about clients, the connection and the alarm only.
LEMMA SameClients ==
    ASSUME NEW s, Sound(s), NEW t \in State, Reconnects(t), t.con = s.con,
           t.connection = s.connection, t.last_connection = s.last_connection
    PROVE  Good(t)
BY DEF Good, Sound, Using, Last

\* To tell a status keeps the clients sound, and the account good unless it
\* was in error.
LEMMA TellSound ==
    ASSUME NEW s, Sound(s), NEW status \in Shown
    PROVE  /\ Sound(Tell(s, status))
           /\ s.connected # ERROR => Good(Tell(s, status))
           /\ Tell(s, status).con = s.con
           /\ Tell(s, status).connected = s.connected
           /\ Tell(s, status).connection = s.connection
           /\ Tell(s, status).last_connection = s.last_connection
BY TellLemma DEF Good, Sound, Using, Last, Reconnects

\* The case of TellSound that most operators need.
LEMMA ToldOffline ==
    ASSUME NEW s, Sound(s)
    PROVE  /\ Sound(Tell(s, "offline"))
           /\ s.connected # ERROR => Good(Tell(s, "offline"))
           /\ Tell(s, "offline").con = s.con
           /\ Tell(s, "offline").connected = s.connected
           /\ Tell(s, "offline").connection = s.connection
           /\ Tell(s, "offline").last_connection = s.last_connection
BY TellSound DEF Shown

\* _on_disconnected gives the connection up.
LEMMA OnDisconnectedLemma ==
    ASSUME NEW s, Sound(s)
    PROVE  Good(OnDisconnected(s)) /\ Drops(s, OnDisconnected(s))
BY ToldOffline, DisconnectLemma DEF OnDisconnected, Drops

\* To abandon an attempt gives the connection up, and leaves the account
\* offline.
LEMMA AbandonLemma ==
    ASSUME NEW s, Sound(s)
    PROVE  /\ Good(Abandon(s)) /\ Drops(s, Abandon(s))
           /\ Abandon(s).connected = OFFLINE
<1>. DEFINE d == Disconnect(s, TRUE)
<1>1. Good(d) /\ Drops(s, d) /\ d.connected = OFFLINE
  BY DisconnectLemma
<1>2. Abandon(s) = Tell(d, "offline")
  BY DEF Abandon
<1>. HIDE DEF d
<1>3. Sound(d) /\ d.connected # ERROR
  BY <1>1 DEF Good, ERROR, OFFLINE
<1>. QED  BY <1>1, <1>2, <1>3, ToldOffline DEF Drops

\* _disconnectedReconnCB gives the connection up, although closing the
\* socket calls it again.
LEMMA DisconnectedReconnCBLemma ==
    ASSUME NEW s, Sound(s)
    PROVE  Good(DisconnectedReconnCB(s)) /\ Drops(s, DisconnectedReconnCB(s))
<1>. DEFINE r == Remember(s)
<1>1. /\ Sound(r) /\ r.con = s.con /\ r.connection = s.connection
      /\ r.last_connection = s.last_connection
  BY RememberLemma DEF Sound, Using, Last
<1>. HIDE DEF r
<1>2. CASE s.on_purpose
  <2>. DEFINE d == Disconnect(r, FALSE)
              t == [d EXCEPT !.on_purpose = FALSE]
  <2>1. Good(d) /\ Drops(s, d)
    BY <1>1, DisconnectLemma DEF Drops
  <2>2. Sound(d) /\ d \in State /\ Reconnects(d)
    BY <2>1 DEF Good, Sound
  <2>. HIDE DEF d
  <2>3. /\ t \in State /\ t.con = d.con /\ t.connection = d.connection
        /\ t.last_connection = d.last_connection /\ Reconnects(t)
    BY <2>2 DEF State, Reconnects
  <2>4. DisconnectedReconnCB(s) = t
    BY <1>2 DEF DisconnectedReconnCB, d, r
  <2>. HIDE DEF t
  <2>. QED  BY <2>1, <2>2, <2>3, <2>4, SameClients DEF Drops
<1>3. CASE ~s.on_purpose
  <2>. DEFINE u == Tell(r, "offline")
              d == Disconnect(u, FALSE)
  <2>1. Sound(u) /\ u.con = s.con /\ u.connection = s.connection
        /\ u.last_connection = s.last_connection
    BY <1>1, ToldOffline
  <2>. HIDE DEF u
  <2>2. Good(d) /\ Drops(s, d)
    BY <2>1, DisconnectLemma DEF Drops
  <2>3. Sound(d) /\ d \in State /\ Reconnects(d) /\ d.connection = None
    BY <2>2 DEF Good, Sound, Drops
  <2>4. DisconnectedReconnCB(s) = AfterLoss(d)
    BY <1>3 DEF DisconnectedReconnCB, d, u, r
  <2>. HIDE DEF d
  <2>5. /\ AfterLoss(d) \in State /\ Reconnects(AfterLoss(d))
        /\ AfterLoss(d).con = d.con
        /\ AfterLoss(d).connection = d.connection
        /\ AfterLoss(d).last_connection = d.last_connection
    BY <2>3, AfterLossLemma
  <2>. QED  BY <2>2, <2>3, <2>4, <2>5, SameClients DEF Drops
<1>. QED  BY <1>2, <1>3

-----------------------------------------------------------------------------
(* Connecting.                                                             *)

\* When no host is left, nothing is in use, and whatever is told last is true.
LEMMA GiveUpLemma ==
    ASSUME NEW s, Good(s), s.connection = None, NEW retry \in BOOLEAN
    PROVE  Good(GiveUp(s, retry))
<1>. DEFINE t == [s EXCEPT !.time_to_reconnect = FALSE]
<1>0. Sound(s) /\ s \in State
  BY DEF Good, Sound
<1>1. /\ t \in State /\ t.con = s.con /\ t.connection = None
      /\ t.last_connection = s.last_connection
      /\ t.connected = s.connected /\ t.retrycount = s.retrycount
  BY <1>0 DEF State
<1>2. Sound(t)
  BY <1>0, <1>1 DEF Sound, Using, Last
<1>. HIDE DEF t
<1>3. CASE retry \/ s.retrycount # 0
  BY <1>0, <1>3, DisconnectedReconnCBLemma DEF GiveUp
<1>4. CASE ~retry /\ s.retrycount = 0 /\ s.on_connect_failure
  <2>. DEFINE f == ConnectFailure(t)
              g == [f EXCEPT !.on_connect_failure = FALSE]
  <2>1. Good(f)
    <3>1. CASE s.connected # OFFLINE
      BY <1>1, <1>2, <1>4, <3>1, AbandonLemma DEF ConnectFailure
    <3>2. CASE s.connected = OFFLINE
      BY <1>1, <1>2, <3>2 DEF ConnectFailure, Good, Reconnects, ERROR, OFFLINE
    <3>. QED  BY <3>1, <3>2
  <2>2. Sound(f) /\ f \in State /\ Reconnects(f)
    BY <2>1 DEF Good, Sound
  <2>. HIDE DEF f
  <2>3. /\ g \in State /\ g.con = f.con /\ g.connection = f.connection
        /\ g.last_connection = f.last_connection /\ Reconnects(g)
    BY <2>2 DEF State, Reconnects
  <2>4. GiveUp(s, retry) = g
    BY <1>4 DEF GiveUp, f, t
  <2>. HIDE DEF g
  <2>. QED  BY <2>2, <2>3, <2>4, SameClients
<1>5. CASE ~retry /\ s.retrycount = 0 /\ ~s.on_connect_failure
  <2>. DEFINE d == Disconnect(t, FALSE)
  <2>1. Good(d) /\ d.connected = OFFLINE
    BY <1>1, <1>2, DisconnectLemma
  <2>2. GiveUp(s, retry) = Tell(d, "offline")
    BY <1>5 DEF GiveUp, ConnectionLost, t
  <2>. HIDE DEF d
  <2>3. Sound(d) /\ d.connected # ERROR
    BY <2>1 DEF Good, ERROR, OFFLINE
  <2>. QED  BY <2>2, <2>3, ToldOffline
<1>. QED  BY <1>3, <1>4, <1>5

\* There is always a value for a new client.
LEMMA FreshLemma ==
    ASSUME NEW s
    PROVE  Fresh(s) \in Con
<1>. DEFINE P(c) == (\E d \in Con : s.con[d] = "closed") => s.con[c] = "closed"
<1>1. \E c \in Con : P(c)
  BY ConnectionAssumption
<1>. QED  BY <1>1 DEF Fresh

\* The attempt before is closed first, so that the new client is alone.
LEMMA NextAttemptLemma ==
    ASSUME NEW s, Good(s), NEW retry \in BOOLEAN, NEW fail \in 0 .. MaxAttempts,
           s.attempts = 0 => s.connection = None
    PROVE  Good(NextAttempt(s, retry, fail))
<1>. DEFINE old == IF s.last_connection = None THEN s
                   ELSE CloseSocket(s, s.last_connection)
            dropped == [old EXCEPT !.last_connection = None,
                                   !.connection = None]
            new == Fresh(dropped)
            given == [dropped EXCEPT !.attempts = 0]
            next == [dropped EXCEPT !.attempts = s.attempts - fail - 1,
                                    !.con[new] = "opening",
                                    !.last_connection = new]
<1>0. Sound(s) /\ Last(s) /\ s \in State /\ None \notin Con
  BY ConnectionAssumption DEF Good, Sound
<1>1. Good(old) /\ \A c \in Con : old.con[c] \notin Open
  <2>1. CASE s.last_connection = None
    BY <1>0, <2>1 DEF Last
  <2>2. CASE s.last_connection # None
    <3>1. s.last_connection \in Con
      BY <1>0, <2>2 DEF State
    <3>2. /\ Good(old)
          /\ old.con = [s.con EXCEPT ![s.last_connection] = "closed"]
      BY <2>2, <3>1, CloseSocketLemma
    <3>. QED  BY <1>0, <3>1, <3>2
              DEF Last, State, Open, Asked, Accepted, Established
  <2>. QED  BY <2>1, <2>2
<1>. HIDE DEF old
<1>2. /\ dropped \in State /\ dropped.connection = None
      /\ dropped.last_connection = None /\ dropped.con = old.con
      /\ Reconnects(dropped)
  BY <1>1 DEF Good, Sound, State, Reconnects
<1>. HIDE DEF dropped
<1>3. new \in Con
  BY FreshLemma
<1>. HIDE DEF new
<1>4. CASE s.attempts = 0
  BY <1>4, GiveUpLemma DEF NextAttempt
<1>5. CASE s.attempts # 0 /\ fail >= s.attempts
  <2>1. /\ given \in State /\ given.con = old.con /\ given.connection = None
        /\ Reconnects(given)
    BY <1>2, ConnectionAssumption DEF State, Reconnects
  <2>2. Good(given)
    BY <1>1, <2>1 DEF Good, Sound, Using, Last
  <2>3. NextAttempt(s, retry, fail) = GiveUp(given, FALSE)
    BY <1>5 DEF NextAttempt, dropped, old
  <2>. HIDE DEF given
  <2>. QED  BY <2>1, <2>2, <2>3, GiveUpLemma
<1>6. CASE s.attempts # 0 /\ ~(fail >= s.attempts)
  <2>1. s.attempts - fail - 1 \in 0 .. MaxAttempts
    BY <1>0, <1>6, ConnectionAssumption DEF State
  <2>2. /\ next \in State /\ next.con = [old.con EXCEPT ![new] = "opening"]
        /\ next.connection = None /\ next.last_connection = new
        /\ Reconnects(next)
    BY <1>2, <1>3, <2>1 DEF State, Reconnects, Phase, Open
  <2>3. old.con \in [Con -> Phase]
    BY <1>1 DEF Good, Sound, State
  <2>4. NextAttempt(s, retry, fail) = next
    BY <1>6 DEF NextAttempt, new, dropped, old
  <2>. HIDE DEF next
  <2>5. Last(next)
    BY <1>1, <1>3, <2>2, <2>3 DEF Last
  <2>. QED  BY <2>2, <2>4, <2>5 DEF Good, Sound, Using
<1>. QED  BY <1>4, <1>5, <1>6

\* The answer of a lookup, late or not, leaves a good account.
LEMMA OnResolveLemma ==
    ASSUME NEW s, Good(s), NEW a \in Answer
    PROVE  Good(OnResolve(s, a))
<1>. DEFINE t == [s EXCEPT !.attempts = a.hosts]
<1>0. /\ Sound(s) /\ s \in State /\ Reconnects(s)
      /\ a.hosts \in 1 .. MaxAttempts /\ a.fail \in 0 .. MaxAttempts
      /\ MaxAttempts \in Nat
  BY ConnectionAssumption DEF Good, Sound, Answer
<1>1. /\ t \in State /\ t.con = s.con /\ t.connection = s.connection
      /\ t.last_connection = s.last_connection /\ Reconnects(t)
      /\ t.attempts # 0
  BY <1>0 DEF State, Reconnects
<1>2. OnResolve(s, a) = NextAttempt(t, FALSE, a.fail)
  BY DEF OnResolve
<1>. HIDE DEF t
<1>3. Good(t)
  BY <1>0, <1>1, SameClients
<1>. QED  BY <1>0, <1>1, <1>2, <1>3, NextAttemptLemma

\* So does connect,
LEMMA ConnectLemma ==
    ASSUME NEW s, Good(s), NEW a \in Answer
    PROVE  Good(Connect(s, a))
<1>. DEFINE t == [s EXCEPT !.connected = CONNECTING]
            w == [t EXCEPT !.resolving = IF @ < MaxResolving THEN @ + 1 ELSE @]
<1>0. Sound(s) /\ s \in State
  BY DEF Good, Sound
<1>1. /\ t \in State /\ t.con = s.con /\ t.connection = s.connection
      /\ t.last_connection = s.last_connection /\ t.connected = CONNECTING
  BY <1>0 DEF State
<1>. HIDE DEF t
<1>2. Good(t)
  BY <1>0, <1>1, SameClients DEF Reconnects, ERROR, CONNECTING
<1>3. /\ w \in State /\ w.con = s.con /\ w.connection = s.connection
      /\ w.last_connection = s.last_connection /\ w.connected = CONNECTING
  <2>. DEFINE n == IF t.resolving < MaxResolving THEN t.resolving + 1
                   ELSE t.resolving
  <2>1. n \in 0 .. MaxResolving
    BY <1>1, ConnectionAssumption DEF State
  <2>2. w = [t EXCEPT !.resolving = n]
    OBVIOUS
  <2>. HIDE DEF n, w
  <2>. QED  BY <1>1, <2>1, <2>2 DEF State
<1>4. CASE s.connection # None
  BY <1>4 DEF Connect
<1>5. CASE s.connection = None /\ ~s.resolved
  <2>1. Connect(s, a) = w
    BY <1>5 DEF Connect, t
  <2>. HIDE DEF w
  <2>. QED  BY <1>0, <1>3, <2>1, SameClients DEF Reconnects, ERROR, CONNECTING
<1>6. CASE s.connection = None /\ s.resolved
  <2>1. Connect(s, a) = OnResolve(t, a)
    BY <1>6 DEF Connect, t
  <2>. QED  BY <1>2, <2>1, OnResolveLemma
<1>. QED  BY <1>4, <1>5, <1>6

\* connect_and_init,
LEMMA ConnectAndInitLemma ==
    ASSUME NEW s, Good(s), NEW show \in {"online", "invisible"}, NEW a \in Answer
    PROVE  Good(ConnectAndInit(s, show, a))
<1>. DEFINE t == [s EXCEPT !.continue_connect_info = show,
                           !.on_connect_auth = TRUE,
                           !.on_connect_failure = TRUE]
<1>0. Sound(s) /\ s \in State /\ Reconnects(s)
  BY DEF Good, Sound
<1>1. /\ t \in State /\ t.con = s.con /\ t.connection = s.connection
      /\ t.last_connection = s.last_connection /\ Reconnects(t)
  BY <1>0 DEF State, Reconnects
<1>2. ConnectAndInit(s, show, a) = Connect(t, a)
  BY DEF ConnectAndInit
<1>. HIDE DEF t
<1>. QED  BY <1>0, <1>1, <1>2, SameClients, ConnectLemma

\* The error state is left as soon as time_to_reconnect is reset.
LEMMA ReconnectLemma ==
    ASSUME NEW s, Sound(s), NEW a \in Answer
    PROVE  Good(Reconnect(s, a))
<1>. DEFINE t == [s EXCEPT !.time_to_reconnect = FALSE]
            n == IF s.retrycount = 1 THEN 2 ELSE 1
            u == [t EXCEPT !.connected = CONNECTING, !.shown = "connecting",
                           !.retrycount = n]
            v == [t EXCEPT !.retrycount = 0]
<1>0. s \in State
  BY DEF Sound
<1>1. CASE s.connected < 2
  <2>0. n \in {0, 1, 2}
    OBVIOUS
  <2>1. /\ u \in State /\ u.con = s.con /\ u.connection = s.connection
        /\ u.last_connection = s.last_connection /\ u.connected = CONNECTING
    <3>. HIDE DEF n
    <3>. QED  BY <1>0, <2>0 DEF State
  <2>2. Reconnect(s, a) = ConnectAndInit(u, s.old_show, a)
    BY <1>1 DEF Reconnect
  <2>3. s.old_show \in {"online", "invisible"}
    BY <1>0 DEF State
  <2>. HIDE DEF u
  <2>4. Good(u)
    BY <2>1, SameClients DEF Reconnects, ERROR, CONNECTING
  <2>. QED  BY <2>2, <2>3, <2>4, ConnectAndInitLemma
<1>2. CASE ~(s.connected < 2)
  <2>1. /\ v \in State /\ v.con = s.con /\ v.connection = s.connection
        /\ v.last_connection = s.last_connection /\ v.connected = s.connected
    BY <1>0 DEF State
  <2>2. Reconnect(s, a) = v
    BY <1>2 DEF Reconnect
  <2>3. s.connected # ERROR
    BY <1>0, <1>2 DEF State, ERROR, OFFLINE, CONNECTING
  <2>. HIDE DEF v
  <2>. QED  BY <2>1, <2>2, <2>3, SameClients DEF Reconnects
<1>. QED  BY <1>1, <1>2

\* One client changes its phase.
LEMMA SetPhase ==
    ASSUME NEW s, Sound(s), NEW t \in State, Reconnects(t),
           NEW c \in Con, NEW phase,
           t.con = [s.con EXCEPT ![c] = phase],
           t.connection = s.connection, t.last_connection = s.last_connection,
           phase \in Open => s.last_connection = c,
           s.connection = c => phase \in Accepted \cup {"closing"}
    PROVE  Good(t)
<1>1. s.con \in [Con -> Phase] /\ s.connection \in Con \cup {None}
  BY DEF Sound, State
<1>2. Using(t)
  BY <1>1 DEF Sound, Using
<1>3. Last(t)
  BY <1>1 DEF Sound, Last
<1>. QED  BY <1>2, <1>3 DEF Good, Sound

\* the acceptance of a connection,
LEMMA ConnectionAcceptedLemma ==
    ASSUME NEW s, Good(s), NEW c \in Con
    PROVE  Good(ConnectionAccepted(s, c))
<1>. DEFINE t == [s EXCEPT !.on_connect_failure = FALSE, !.connection = c,
                           !.con[c] = "auth"]
<1>0. /\ Sound(s) /\ Last(s) /\ s \in State /\ Reconnects(s)
      /\ s.con \in [Con -> Phase]
  BY DEF Good, Sound, State
<1>1. CASE s.con[c] \notin Open
  BY <1>0, <1>1, AbandonLemma DEF ConnectionAccepted
<1>2. CASE s.con[c] \in Open
  <2>1. /\ t \in State /\ t.con = [s.con EXCEPT ![c] = "auth"]
        /\ t.connection = c /\ t.last_connection = s.last_connection
        /\ Reconnects(t)
    BY <1>0 DEF State, Phase, Open, Accepted, Reconnects
  <2>2. ConnectionAccepted(s, c) = t
    BY <1>2 DEF ConnectionAccepted
  <2>. HIDE DEF t
  <2>3. s.last_connection = c
    BY <1>0, <1>2 DEF Last
  <2>4. Using(t)
    BY <1>0, <2>1, <2>3 DEF Using, Accepted
  <2>5. Last(t)
    BY <1>0, <2>1, <2>3 DEF Last
  <2>. QED  BY <2>1, <2>2, <2>4, <2>5 DEF Good, Sound
<1>. QED  BY <1>1, <1>2

-----------------------------------------------------------------------------
(* The user, and logging in.                                               *)

\* A client that start_disconnect leaves behind is not open any more.
LEMMA ZombieLemma ==
    ASSUME NEW s, Good(s), s.connection = None, NEW c \in Con
    PROVE  Good([s EXCEPT !.con[c] = "zombie"])
<1>. DEFINE t == [s EXCEPT !.con[c] = "zombie"]
<1>0. Sound(s) /\ s \in State /\ Reconnects(s) /\ None \notin Con
  BY ConnectionAssumption DEF Good, Sound
<1>1. /\ t \in State /\ t.con = [s.con EXCEPT ![c] = "zombie"]
      /\ t.connection = s.connection /\ t.last_connection = s.last_connection
      /\ Reconnects(t)
  BY <1>0 DEF State, Phase, Reconnects
<1>2. "zombie" \notin Open
  BY DEF Open, Asked, Accepted, Established
<1>. HIDE DEF t
<1>3. Good(t)
  BY <1>0, <1>1, <1>2, SetPhase
<1>. QED  BY <1>3 DEF t

\* the start of an orderly disconnection, even one that fails at once,
LEMMA StartDisconnectLemma ==
    ASSUME NEW s, Good(s), NEW c \in Con, s.connection = c, NEW fails \in BOOLEAN
    PROVE  Good(StartDisconnect(s, c, fails))
<1>. DEFINE t == [s EXCEPT !.con[c] = "closing"]
<1>0. /\ Sound(s) /\ Using(s) /\ s \in State /\ Reconnects(s)
      /\ None \notin Con /\ s.last_connection = c
  BY ConnectionAssumption DEF Good, Sound, Using
<1>1. /\ t \in State /\ t.con = [s.con EXCEPT ![c] = "closing"]
      /\ t.connection = c /\ t.last_connection = c /\ Reconnects(t)
  BY <1>0 DEF State, Phase, Open, Reconnects
<1>. HIDE DEF t
<1>2. Good(t)
  BY <1>0, <1>1, SetPhase
<1>3. CASE ~fails
  BY <1>2, <1>3 DEF StartDisconnect, t
<1>4. CASE fails /\ s.con[c] = "closing"
  <2>1. Good(CloseSocket(s, c)) /\ CloseSocket(s, c).connection = None
    BY CloseSocketLemma
  <2>2. StartDisconnect(s, c, fails) = [CloseSocket(s, c) EXCEPT !.con[c] = "zombie"]
    BY <1>4 DEF StartDisconnect
  <2>. QED  BY <2>1, <2>2, ZombieLemma
<1>5. CASE fails /\ s.con[c] # "closing"
  <2>. DEFINE d == DisconnectedReconnCB(t)
  <2>1. Good(d) /\ d.connection = None
    BY <1>2, DisconnectedReconnCBLemma DEF Good, Drops
  <2>2. StartDisconnect(s, c, fails) = [d EXCEPT !.con[c] = "zombie"]
    BY <1>5 DEF StartDisconnect, t
  <2>. HIDE DEF d
  <2>. QED  BY <2>1, <2>2, ZombieLemma
<1>. QED  BY <1>3, <1>4, <1>5

\* going invisible
LEMMA SendInvisiblePresenceLemma ==
    ASSUME NEW s, Good(s), s.connected # ERROR
    PROVE  Good(SendInvisiblePresence(s))
<1>0. Sound(s) /\ s \in State
  BY DEF Good, Sound
<1>1. CASE s.connection = None
  BY <1>1 DEF SendInvisiblePresence
<1>2. CASE s.connection # None /\ ~s.privacy_rules_supported
  <2>1. ShowAt(s.connected) \in Shown
    BY DEF ShowAt, Shown
  <2>. QED  BY <1>0, <1>2, <2>1, TellSound DEF SendInvisiblePresence
<1>3. CASE s.connection # None /\ s.privacy_rules_supported
  <2>. DEFINE p == s.on_purpose \/ s.connected > 1
              i == s.con[s.connection] \in Established
              t == [s EXCEPT !.on_purpose = p, !.invisible_asked = i]
  <2>1. p \in BOOLEAN /\ i \in BOOLEAN
    OBVIOUS
  <2>2. SendInvisiblePresence(s) = t
    BY <1>3 DEF SendInvisiblePresence
  <2>. HIDE DEF p, i
  <2>3. /\ t \in State /\ t.con = s.con /\ t.connection = s.connection
        /\ t.last_connection = s.last_connection /\ t.connected = s.connected
    BY <1>0, <2>1 DEF State
  <2>. HIDE DEF t
  <2>. QED  BY <1>0, <2>2, <2>3, SameClients DEF Reconnects
<1>. QED  BY <1>1, <1>2, <1>3

\* and the first presence.
LEMMA SendFirstPresenceLemma ==
    ASSUME NEW s, Good(s)
    PROVE  Good(SendFirstPresence(s))
<1>. DEFINE show == s.continue_connect_info
            t == [s EXCEPT !.connected = Index(show)]
            u == [t EXCEPT !.shown = show, !.continue_connect_info = "none"]
<1>0. Sound(s) /\ s \in State /\ show \in {"online", "invisible", "none"}
  BY DEF Good, Sound, State
<1>1. /\ t \in State /\ t.con = s.con /\ t.connection = s.connection
      /\ t.last_connection = s.last_connection /\ t.connected # ERROR
  BY <1>0 DEF State, Index, ERROR
<1>2. Good(t)
  BY <1>0, <1>1, SameClients DEF Reconnects
<1>3. CASE show = "none"
  BY <1>3 DEF SendFirstPresence
<1>4. CASE show = "invisible"
  BY <1>1, <1>2, <1>4, SendInvisiblePresenceLemma DEF SendFirstPresence
<1>5. CASE show = "online"
  <2>1. SendFirstPresence(s) = u
    BY <1>5 DEF SendFirstPresence
  <2>. HIDE DEF t
  <2>2. /\ u \in State /\ u.con = s.con /\ u.connection = s.connection
        /\ u.last_connection = s.last_connection
        /\ u.connected = t.connected
    BY <1>1, <1>5 DEF State
  <2>. HIDE DEF u
  <2>. QED  BY <1>0, <1>1, <2>1, <2>2, SameClients DEF Reconnects
<1>. QED  BY <1>0, <1>3, <1>4, <1>5

\* After the first of two calls there is nothing left to continue with.
LEMMA OnAuthLemma ==
    ASSUME NEW s, Good(s), NEW c \in Con, NEW auth \in BOOLEAN,
           s.on_connect_auth => s.con[c] \in Accepted /\ s.last_connection = c
    PROVE  /\ Good(OnAuth(s, c, auth))
           /\ ~OnAuth(s, c, auth).on_connect_auth
<1>. DEFINE new == OnAuth(s, c, auth)
<1>0. /\ Sound(s) /\ Last(s) /\ Using(s) /\ s \in State /\ Reconnects(s)
      /\ s.con \in [Con -> Phase] /\ None \notin Con
  BY ConnectionAssumption DEF Good, Sound, State
<1>1. CASE s.connected = OFFLINE /\ s.on_connect_auth
  <2>. DEFINE t == [s EXCEPT !.connection = None, !.on_connect_auth = FALSE,
                             !.con[c] = "detached"]
  <2>1. /\ t \in State /\ t.con = [s.con EXCEPT ![c] = "detached"]
        /\ t.connection = None /\ t.last_connection = c
        /\ Reconnects(t) /\ ~t.on_connect_auth
    BY <1>0, <1>1 DEF State, Phase, Open, Accepted, Reconnects
  <2>2. new = t
    BY <1>1 DEF OnAuth
  <2>. HIDE DEF t
  <2>3. Last(t)
    BY <1>0, <1>1, <2>1 DEF Last
  <2>. QED  BY <2>1, <2>2, <2>3 DEF Good, Sound, Using
<1>2. CASE ~(s.connected = OFFLINE /\ s.on_connect_auth) /\ auth
  <2>. DEFINE next == IF s.on_connect_auth THEN c ELSE s.connection
              phase == IF s.on_connect_auth THEN "privacy" ELSE s.con[c]
              t == [s EXCEPT !.connected = 2, !.retrycount = 0,
                             !.on_connect_auth = FALSE,
                             !.connection = next, !.con[c] = phase]
  <2>1. new = t
    BY <1>2 DEF OnAuth
  <2>2. next \in Con \cup {None} /\ phase \in Phase
    BY <1>0 DEF State, Phase, Open, Accepted, Established
  <2>3. /\ s.on_connect_auth => next = c /\ phase = "privacy"
        /\ ~s.on_connect_auth => next = s.connection /\ phase = s.con[c]
    OBVIOUS
  <2>. HIDE DEF next, phase
  <2>4. /\ t \in State /\ t.con = [s.con EXCEPT ![c] = phase]
        /\ t.connection = next /\ t.last_connection = s.last_connection
        /\ t.connected = 2 /\ t.on_connect_auth = FALSE
    BY <1>0, <2>2 DEF State
  <2>. HIDE DEF t
  <2>5. Using(t)
    <3>1. CASE s.on_connect_auth
      BY <1>0, <2>3, <2>4, <3>1 DEF Using, Accepted, Established
    <3>2. CASE ~s.on_connect_auth
      BY <1>0, <2>3, <2>4, <3>2 DEF Using, State
    <3>. QED  BY <3>1, <3>2
  <2>6. Last(t)
    <3>1. CASE s.on_connect_auth
      BY <1>0, <2>3, <2>4, <3>1 DEF Last
    <3>2. CASE ~s.on_connect_auth
      <4>1. t.con = s.con
        BY <1>0, <2>3, <2>4, <3>2
      <4>. QED  BY <1>0, <2>4, <4>1 DEF Last
    <3>. QED  BY <3>1, <3>2
  <2>. QED  BY <2>1, <2>4, <2>5, <2>6 DEF Good, Sound, Reconnects, ERROR
<1>3. CASE ~(s.connected = OFFLINE /\ s.on_connect_auth) /\ ~auth
  <2>. DEFINE d == Abandon(s)
              t == [d EXCEPT !.on_connect_auth = FALSE]
  <2>1. Good(d)
    BY <1>0, AbandonLemma
  <2>2. new = t
    BY <1>3 DEF OnAuth
  <2>. HIDE DEF d
  <2>3. Sound(d) /\ d \in State /\ Reconnects(d)
    BY <2>1 DEF Good, Sound
  <2>4. /\ t \in State /\ t.con = d.con /\ t.connection = d.connection
        /\ t.last_connection = d.last_connection /\ Reconnects(t)
        /\ t.on_connect_auth = FALSE
    BY <2>3 DEF State, Reconnects
  <2>. HIDE DEF t
  <2>. QED  BY <2>2, <2>3, <2>4, SameClients
<1>. QED  BY <1>1, <1>2, <1>3

-----------------------------------------------------------------------------
(* Steps.  Each lemma is about the actions of one of the groups of Next.   *)

\* What the user does keeps the account good.
LEMMA UserStep ==
    ASSUME Good(acc), User
    PROVE  Good(acc')
<1>0. /\ Sound(acc) /\ acc \in State /\ Reconnects(acc) /\ None \notin Con
      /\ Shows \subseteq {"online", "invisible"}
  BY ConnectionAssumption DEF Good, Sound
<1>1. ASSUME NEW show \in Shows, NEW a \in Answer, GoOnline(show, a)
      PROVE  Good(acc')
  <2>. DEFINE t == [acc EXCEPT !.old_show = show, !.on_purpose = FALSE]
  <2>1. show \in {"online", "invisible"}
    BY <1>0
  <2>2. /\ t \in State /\ t.con = acc.con /\ t.connection = acc.connection
        /\ t.last_connection = acc.last_connection /\ Reconnects(t)
    BY <1>0, <2>1 DEF State, Reconnects
  <2>3. acc' = ConnectAndInit(t, show, a)
    BY <1>1 DEF GoOnline
  <2>. HIDE DEF t
  <2>4. Good(t)
    BY <1>0, <2>2, SameClients
  <2>. QED  BY <2>1, <2>3, <2>4, ConnectAndInitLemma
<1>2. ASSUME NEW fails \in BOOLEAN, GoOffline(fails)
      PROVE  Good(acc')
  <2>. DEFINE t == [acc EXCEPT !.connected = OFFLINE, !.time_to_reconnect = FALSE]
              u == [t EXCEPT !.on_purpose = TRUE]
  <2>1. /\ t \in State /\ t.con = acc.con /\ t.connection = acc.connection
        /\ t.last_connection = acc.last_connection
    BY <1>0 DEF State
  <2>2. /\ u \in State /\ u.con = acc.con /\ u.connection = acc.connection
        /\ u.last_connection = acc.last_connection /\ u.connected = OFFLINE
    BY <1>0 DEF State
  <2>3. acc' = IF acc.connection # None
               THEN StartDisconnect(u, acc.connection, fails)
               ELSE OnDisconnected(t)
    BY <1>2 DEF GoOffline
  <2>. HIDE DEF t, u
  <2>4. Sound(t)
    BY <1>0, <2>1 DEF Sound, Using, Last
  <2>5. Good(u)
    BY <1>0, <2>2, SameClients DEF Reconnects, ERROR, OFFLINE
  <2>6. CASE acc.connection # None
    <3>1. acc.connection \in Con
      BY <1>0, <2>6 DEF State
    <3>. QED  BY <2>2, <2>3, <2>5, <2>6, <3>1, StartDisconnectLemma
  <2>7. CASE acc.connection = None
    BY <2>3, <2>4, <2>7, OnDisconnectedLemma
  <2>. QED  BY <2>6, <2>7
<1>3. ASSUME NEW show \in Shows, ChangeShow(show)
      PROVE  Good(acc')
  <2>. DEFINE t == [acc EXCEPT !.connected = Index(show), !.shown = show]
  <2>1. acc.connected # ERROR
    BY <1>0, <1>3 DEF ChangeShow, State, ERROR, CONNECTING, OFFLINE
  <2>3. acc' \in {acc, SendInvisiblePresence(acc), t}
    BY <1>3 DEF ChangeShow
  <2>5. Index(show) \in {2, 7} /\ show \in {"online", "invisible"}
    BY <1>0 DEF Index
  <2>2. /\ t \in State /\ t.con = acc.con /\ t.connection = acc.connection
        /\ t.last_connection = acc.last_connection
        /\ t.connected \in {2, 7}
    BY <1>0, <2>5 DEF State
  <2>. HIDE DEF t
  <2>4. Good(t)
    BY <1>0, <2>2, SameClients DEF Reconnects, ERROR
  <2>. QED  BY <2>1, <2>3, <2>4, SendInvisiblePresenceLemma
<1>. QED  BY <1>1, <1>2, <1>3 DEF User

\* So do the answers to dialogs, at whatever time they come,
LEMMA DialogStep ==
    ASSUME Good(acc), Dialog
    PROVE  Good(acc')
<1>0. /\ Sound(acc) /\ acc \in State /\ Reconnects(acc) /\ None \notin Con
      /\ Using(acc) /\ Last(acc)
  BY ConnectionAssumption DEF Good, Sound
<1>1. ASSUME NEW accept \in BOOLEAN, AnswerQuestion(accept)
      PROVE  Good(acc')
  <2>1. ASSUME NEW c \in Con, acc.con[c] = "asking", accept,
               acc' = ConnectionAccepted(acc, c)
        PROVE  Good(acc')
    BY <2>1, ConnectionAcceptedLemma
  \* The client of the question is not in use: it stays open, alone.
  <2>2. ASSUME NEW c \in Con, acc.con[c] = "asking", ~accept,
               acc' = [Abandon(acc) EXCEPT !.con[c] = "declined"]
        PROVE  Good(acc')
    <3>. DEFINE d == Abandon(acc)
                t == [d EXCEPT !.con[c] = "declined"]
    <3>1. acc.last_connection = c
      BY <1>0, <2>2 DEF Last, Open, Asked
    <3>2. acc.connection = None
      BY <1>0, <2>2, <3>1 DEF Using, Accepted, Established
    <3>3. Good(d) /\ d.connection = None /\ d.last_connection = c
      BY <1>0, <3>1, <3>2, AbandonLemma DEF Drops
    <3>. HIDE DEF d
    <3>4. Sound(d) /\ d \in State /\ Reconnects(d)
      BY <3>3 DEF Good, Sound
    <3>5. /\ t \in State /\ t.con = [d.con EXCEPT ![c] = "declined"]
          /\ t.connection = None /\ t.last_connection = c /\ Reconnects(t)
      BY <3>3, <3>4 DEF State, Phase, Open, Asked, Reconnects
    <3>6. acc' = t
      BY <2>2 DEF d
    <3>. HIDE DEF t
    <3>. QED  BY <1>0, <3>3, <3>4, <3>5, <3>6, SetPhase
  <2>3. ASSUME acc' = Abandon([acc EXCEPT !.stale_question = FALSE])
        PROVE  Good(acc')
    <3>. DEFINE t == [acc EXCEPT !.stale_question = FALSE]
    <3>1. /\ t \in State /\ t.con = acc.con /\ t.connection = acc.connection
          /\ t.last_connection = acc.last_connection
      BY <1>0 DEF State
    <3>. HIDE DEF t
    <3>2. Sound(t)
      BY <1>0, <3>1 DEF Sound, Using, Last
    <3>3. acc' = Abandon(t)
      BY <2>3 DEF t
    <3>. QED  BY <3>2, <3>3, AbandonLemma
  <2>. QED  BY <1>1, <2>1, <2>2, <2>3 DEF AnswerQuestion
<1>2. ASSUME PassphraseGiven
      PROVE  Good(acc')
  <2>. DEFINE t == [acc EXCEPT !.passphrase_asked = FALSE]
  <2>1. /\ t \in State /\ t.con = acc.con /\ t.connection = acc.connection
        /\ t.last_connection = acc.last_connection /\ Reconnects(t)
    BY <1>0 DEF State, Reconnects
  <2>2. acc' = SendFirstPresence(t)
    BY <1>2 DEF PassphraseGiven
  <2>. HIDE DEF t
  <2>. QED  BY <1>0, <2>1, <2>2, SameClients, SendFirstPresenceLemma
<1>. QED  BY <1>1, <1>2 DEF Dialog

\* streams that come up or fail to,
LEMMA StreamStep ==
    ASSUME Good(acc), NEW c \in Con, Stream(c)
    PROVE  Good(acc')
<1>0. /\ Sound(acc) /\ acc \in State /\ Reconnects(acc) /\ None \notin Con
      /\ Using(acc) /\ Last(acc)
  BY ConnectionAssumption DEF Good, Sound
\* A client that is opening is not in use, so nothing is.
<1>1. acc.con[c] = "opening" => acc.last_connection = c /\ acc.connection = None
  BY <1>0 DEF Last, Using, Open, Accepted, Established
<1>2. ASSUME NEW phase \in Open, acc.con[c] = "opening",
             acc' = [acc EXCEPT !.con[c] = phase]
      PROVE  Good(acc')
  <2>. DEFINE t == [acc EXCEPT !.con[c] = phase]
  <2>1. /\ t \in State /\ t.con = [acc.con EXCEPT ![c] = phase]
        /\ t.connection = None /\ t.last_connection = c /\ Reconnects(t)
    BY <1>0, <1>1, <1>2 DEF State, Phase, Reconnects
  <2>. HIDE DEF t
  <2>2. Good(t)
    BY <1>0, <1>1, <1>2, <2>1, SetPhase
  <2>. QED  BY <1>2, <2>2 DEF t
<1>3. ASSUME NEW match \in BOOLEAN, NEW fail \in 0 .. MaxAttempts,
             StreamReady(c, match, fail)
      PROVE  Good(acc')
  <2>1. acc.con[c] = "opening" /\ "orphan" \in Open /\ "asking" \in Open
    BY <1>3 DEF StreamReady, Open, Asked
  <2>2. CASE acc.connected = OFFLINE
    BY <1>2, <1>3, <2>1, <2>2 DEF StreamReady
  <2>3. CASE acc.connected # OFFLINE /\ ~match
    BY <1>1, <1>3, <2>1, <2>3, NextAttemptLemma DEF StreamReady
  <2>4. CASE acc.connected # OFFLINE /\ match /\ AskPlain
    BY <1>2, <1>3, <2>1, <2>4 DEF StreamReady
  <2>5. CASE acc.connected # OFFLINE /\ match /\ ~AskPlain
    BY <1>3, <2>5, ConnectionAcceptedLemma DEF StreamReady
  <2>. QED  BY <2>2, <2>3, <2>4, <2>5
<1>4. ASSUME NEW retry \in BOOLEAN, NEW fail \in 0 .. MaxAttempts,
             StreamFails(c, retry, fail)
      PROVE  Good(acc')
  <2>1. acc.con[c] = "opening"
    BY <1>4 DEF StreamFails
  <2>2. Good(CloseSocket(acc, c)) /\ CloseSocket(acc, c).connection = None
    BY <1>1, <2>1, CloseSocketLemma
  <2>3. acc' = NextAttempt(CloseSocket(acc, c), retry, fail)
    BY <1>4 DEF StreamFails
  <2>. QED  BY <2>2, <2>3, NextAttemptLemma
<1>. QED  BY <1>3, <1>4 DEF Stream

\* the end of an authentication, reported once or twice,
LEMMA AuthStep ==
    ASSUME Good(acc), NEW c \in Con, Auth(c)
    PROVE  Good(acc')
<1>. PICK auth \in BOOLEAN, twice \in BOOLEAN : AuthEnds(c, auth, twice)
  BY DEF Auth
<1>. DEFINE s == OnAuth(acc, c, auth)
<1>1. acc.con[c] \in Accepted /\ acc.last_connection = c
  BY DEF Good, Sound, Last, Open, Accepted, AuthEnds
<1>2. Good(s) /\ ~s.on_connect_auth
  BY <1>1, OnAuthLemma
<1>3. acc' = IF twice THEN OnAuth(s, c, auth) ELSE s
  BY DEF AuthEnds
<1>. HIDE DEF s
<1>4. Good(OnAuth(s, c, auth))
  BY <1>2, OnAuthLemma
<1>. QED  BY <1>2, <1>3, <1>4

\* the steps from there to the first presence,
LEMMA LoginStep ==
    ASSUME Good(acc), NEW c \in Con, Login(c)
    PROVE  Good(acc')
<1>0. /\ Sound(acc) /\ acc \in State /\ Reconnects(acc) /\ None \notin Con
      /\ Using(acc) /\ Last(acc)
  BY ConnectionAssumption DEF Good, Sound
\* The login goes on with the client it is about.
<1>1. ASSUME NEW phase \in Established, acc.con[c] \in Established,
             NEW t \in State, t.con = [acc.con EXCEPT ![c] = phase],
             t.connection = acc.connection,
             t.last_connection = acc.last_connection, Reconnects(t)
      PROVE  Good(t)
  <2>1. acc.last_connection = c
    BY <1>0, <1>1 DEF Last, Open, Accepted
  <2>2. phase \in Accepted
    BY DEF Accepted
  <2>. QED  BY <1>0, <1>1, <2>1, <2>2, SetPhase
<1>2. ASSUME NEW supported \in BOOLEAN, PrivacyArrived(c, supported)
      PROVE  Good(acc')
  <2>. DEFINE s == [acc EXCEPT !.con[c] = "roster"]
              t == [s EXCEPT !.privacy_rules_supported = TRUE]
  <2>1. /\ s \in State /\ s.con = [acc.con EXCEPT ![c] = "roster"]
        /\ s.connection = acc.connection
        /\ s.last_connection = acc.last_connection /\ Reconnects(s)
    BY <1>0 DEF State, Phase, Open, Accepted, Established, Reconnects
  <2>2. /\ t \in State /\ t.con = [acc.con EXCEPT ![c] = "roster"]
        /\ t.connection = acc.connection
        /\ t.last_connection = acc.last_connection /\ Reconnects(t)
    BY <1>0 DEF State, Phase, Open, Accepted, Established, Reconnects
  <2>3. acc' \in {t, s, Abandon(acc)}
    BY <1>2 DEF PrivacyArrived
  <2>4. acc.con[c] \in Established /\ "roster" \in Established
    BY <1>2 DEF PrivacyArrived, Established
  <2>. HIDE DEF s, t
  <2>5. Good(s)
    BY <1>1, <2>1, <2>4
  <2>6. Good(t)
    BY <1>1, <2>2, <2>4
  <2>. QED  BY <1>0, <2>3, <2>5, <2>6, AbandonLemma
<1>3. ASSUME RosterArrived(c)
      PROVE  Good(acc')
  <2>. DEFINE s == [acc EXCEPT !.con[c] = "up"]
              t == [s EXCEPT !.passphrase_asked = TRUE]
  <2>1. /\ s \in State /\ s.con = [acc.con EXCEPT ![c] = "up"]
        /\ s.connection = acc.connection
        /\ s.last_connection = acc.last_connection /\ Reconnects(s)
    BY <1>0 DEF State, Phase, Open, Accepted, Established, Reconnects
  <2>2. /\ t \in State /\ t.con = [acc.con EXCEPT ![c] = "up"]
        /\ t.connection = acc.connection
        /\ t.last_connection = acc.last_connection /\ Reconnects(t)
    BY <1>0 DEF State, Phase, Open, Accepted, Established, Reconnects
  <2>3. acc' \in {s, t, SendFirstPresence(s)}
    BY <1>3 DEF RosterArrived
  <2>4. acc.con[c] \in Established /\ "up" \in Established
    BY <1>3 DEF RosterArrived, Established
  <2>. HIDE DEF s, t
  <2>5. Good(s)
    BY <1>1, <2>1, <2>4
  <2>6. Good(t)
    BY <1>1, <2>2, <2>4
  <2>. QED  BY <2>3, <2>5, <2>6, SendFirstPresenceLemma
<1>4. ASSUME NEW accepted \in BOOLEAN, ContinueInvisible(c, accepted)
      PROVE  Good(acc')
  <2>. DEFINE s == [acc EXCEPT !.invisible_asked = FALSE]
              t == [s EXCEPT !.privacy_rules_supported = TRUE,
                             !.connected = Index("invisible"),
                             !.shown = "invisible"]
  <2>1. /\ s \in State /\ s.con = acc.con /\ s.connection = acc.connection
        /\ s.last_connection = acc.last_connection /\ Reconnects(s)
    BY <1>0 DEF State, Reconnects
  <2>2. Index("invisible") = 7
    BY DEF Index
  <2>3. /\ t \in State /\ t.con = acc.con /\ t.connection = acc.connection
        /\ t.last_connection = acc.last_connection /\ t.connected = 7
    BY <1>0, <2>2 DEF State
  <2>4. acc' \in {s, t}
    BY <1>4 DEF ContinueInvisible
  <2>. HIDE DEF s, t
  <2>5. Reconnects(t)
    BY <2>3 DEF Reconnects, ERROR
  <2>. QED  BY <1>0, <2>1, <2>3, <2>4, <2>5, SameClients
<1>. QED  BY <1>2, <1>3, <1>4 DEF Login

\* what a server or the kernel does to a client,
LEMMA NetworkStep ==
    ASSUME Good(acc), NEW c \in Con, Network(c)
    PROVE  Good(acc')
<1>0. Sound(acc) /\ acc \in State /\ Reconnects(acc)
  BY DEF Good, Sound
<1>1. CASE StreamLost(c)
  BY <1>1, CloseSocketLemma DEF StreamLost
<1>2. CASE OddError(c)
  <2>. DEFINE handled == IF acc.con[c] \in Asked THEN OnDisconnected(acc)
                         ELSE IF acc.con[c] \in Accepted \cup {"closing"}
                         THEN DisconnectedReconnCB(acc)
                         ELSE acc
  <2>1. Good(handled)
    BY <1>0, OnDisconnectedLemma, DisconnectedReconnCBLemma
  <2>2. acc' = CloseSocket(handled, c)
    BY <1>2 DEF OddError
  <2>. HIDE DEF handled
  <2>. QED  BY <2>1, <2>2, CloseSocketLemma
<1>3. CASE SendPing(c)
  <2>1. acc' = [acc EXCEPT !.awaiting_xmpp_ping_id = TRUE,
                           !.keepalive_alarms = @ + 1]
    BY <1>3 DEF SendPing
  <2>2. acc.keepalive_alarms + 1 \in 0 .. MaxAlarms
    BY <1>0, <1>3, ConnectionAssumption DEF SendPing, State
  <2>3. /\ acc' \in State /\ acc'.con = acc.con
        /\ acc'.connection = acc.connection
        /\ acc'.last_connection = acc.last_connection /\ Reconnects(acc')
    BY <1>0, <2>1, <2>2 DEF State, Reconnects
  <2>. QED  BY <1>0, <2>3, SameClients
<1>4. CASE Pong(c)
  <2>1. acc' = [acc EXCEPT !.awaiting_xmpp_ping_id = FALSE]
    BY <1>4 DEF Pong
  <2>2. /\ acc' \in State /\ acc'.con = acc.con
        /\ acc'.connection = acc.connection
        /\ acc'.last_connection = acc.last_connection /\ Reconnects(acc')
    BY <1>0, <2>1 DEF State, Reconnects
  <2>. QED  BY <1>0, <2>2, SameClients
<1>. QED  BY <1>1, <1>2, <1>3, <1>4 DEF Network

\* the alarm of an orderly disconnection,
LEMMA EndDisconnectStep ==
    ASSUME Good(acc), NEW c \in Con, EndDisconnect(c)
    PROVE  Good(acc')
<1>0. /\ Sound(acc) /\ acc \in State /\ Reconnects(acc) /\ Using(acc)
      /\ None \notin Con
  BY ConnectionAssumption DEF Good, Sound
<1>1. CASE acc.con[c] = "closing"
  BY <1>1, CloseSocketLemma DEF EndDisconnect
<1>2. CASE acc.con[c] = "zombie"
  <2>. DEFINE t == [acc EXCEPT !.con[c] = "closed"]
  <2>1. /\ t \in State /\ t.con = [acc.con EXCEPT ![c] = "closed"]
        /\ t.connection = acc.connection
        /\ t.last_connection = acc.last_connection /\ Reconnects(t)
    BY <1>0 DEF State, Phase, Reconnects
  <2>2. "closed" \notin Open /\ acc.connection # c
    BY <1>0, <1>2 DEF Using, Open, Asked, Accepted, Established
  <2>3. acc' = OnDisconnected(t)
    BY <1>2 DEF EndDisconnect
  <2>. HIDE DEF t
  <2>4. Sound(t)
    BY <1>0, <2>1, <2>2, SetPhase DEF Good
  <2>. QED  BY <2>3, <2>4, OnDisconnectedLemma
<1>. QED  BY <1>1, <1>2 DEF EndDisconnect

\* lookups that are answered,
LEMMA ResolverStep ==
    ASSUME Good(acc), Resolver
    PROVE  Good(acc')
<1>. PICK a \in Answer, fail \in 0 .. MaxAttempts : Resolved(a, fail)
  BY DEF Resolver
<1>. DEFINE t == [acc EXCEPT !.resolving = 0, !.resolved = TRUE]
            s == OnResolve(t, a)
            b == [a EXCEPT !.fail = fail]
<1>0. Sound(acc) /\ acc \in State /\ Reconnects(acc)
  BY DEF Good, Sound
<1>1. /\ t \in State /\ t.con = acc.con /\ t.connection = acc.connection
      /\ t.last_connection = acc.last_connection /\ Reconnects(t)
  <2>1. 0 \in 0 .. MaxResolving
    BY ConnectionAssumption
  <2>2. t \in State
    BY <1>0, <2>1 DEF State
  <2>3. /\ t.con = acc.con /\ t.connection = acc.connection
        /\ t.last_connection = acc.last_connection
    BY <1>0 DEF State
  <2>4. /\ t.connected = acc.connected /\ t.shown = acc.shown
        /\ t.time_to_reconnect = acc.time_to_reconnect
        /\ t.reconnect_alarms = acc.reconnect_alarms
    BY <1>0 DEF State
  <2>. HIDE DEF t
  <2>. QED  BY <1>0, <2>2, <2>3, <2>4 DEF Reconnects
<1>2. b \in Answer
  BY DEF Answer
<1>3. acc' \in {s, OnResolve(s, b)}
  BY DEF Resolved
<1>. HIDE DEF t, b
<1>4. Good(s)
  BY <1>0, <1>1, SameClients, OnResolveLemma
<1>. HIDE DEF s
<1>5. Good(OnResolve(s, b))
  BY <1>2, <1>4, OnResolveLemma
<1>. QED  BY <1>3, <1>4, <1>5

\* the alarms of reconnection and keepalive,
LEMMA TimerStep ==
    ASSUME Good(acc), Timer
    PROVE  Good(acc')
<1>0. Sound(acc) /\ acc \in State /\ Reconnects(acc)
  BY DEF Good, Sound
<1>1. CASE CheckKeepalive
  <2>. DEFINE s == [acc EXCEPT !.keepalive_alarms = @ - 1]
  <2>1. acc.keepalive_alarms - 1 \in 0 .. MaxAlarms
    BY <1>0, <1>1, ConnectionAssumption DEF CheckKeepalive, State
  <2>2. /\ s \in State /\ s.con = acc.con /\ s.connection = acc.connection
        /\ s.last_connection = acc.last_connection /\ Reconnects(s)
    BY <1>0, <2>1 DEF State, Reconnects
  <2>3. acc' \in {s, DisconnectedReconnCB(s)}
    BY <1>1 DEF CheckKeepalive
  <2>. HIDE DEF s
  <2>4. Good(s)
    BY <1>0, <2>2, SameClients
  <2>5. Good(DisconnectedReconnCB(s))
    BY <2>4, DisconnectedReconnCBLemma DEF Good
  <2>. QED  BY <2>3, <2>4, <2>5
\* The alarm that fires may be the last one: then the error state is left.
<1>2. ASSUME NEW a \in Answer, ReconnectAlarm(a)
      PROVE  Good(acc')
  <2>. DEFINE s == [acc EXCEPT !.reconnect_alarms = @ - 1]
              t == [s EXCEPT !.time_to_reconnect = FALSE]
  <2>1. acc.reconnect_alarms - 1 \in 0 .. MaxAlarms
    BY <1>0, <1>2, ConnectionAssumption DEF ReconnectAlarm, State
  <2>2. /\ s \in State /\ s.con = acc.con /\ s.connection = acc.connection
        /\ s.last_connection = acc.last_connection
        /\ s.connected = acc.connected
    BY <1>0, <2>1 DEF State
  <2>3. /\ t \in State /\ t.con = acc.con /\ t.connection = acc.connection
        /\ t.last_connection = acc.last_connection
        /\ t.connected = acc.connected
    BY <1>0, <2>1 DEF State
  <2>4. /\ ~acc.time_to_reconnect => acc' = s
        /\ acc.time_to_reconnect /\ acc.connected < 2 => acc' = Reconnect(s, a)
        /\ acc.time_to_reconnect /\ ~(acc.connected < 2) => acc' = t
    BY <1>2 DEF ReconnectAlarm
  <2>. HIDE DEF s, t
  <2>5. Sound(s)
    BY <1>0, <2>2 DEF Sound, Using, Last
  <2>6. CASE ~acc.time_to_reconnect
    BY <1>0, <2>2, <2>4, <2>5, <2>6 DEF Good, Reconnects
  <2>7. CASE acc.time_to_reconnect /\ acc.connected < 2
    BY <2>4, <2>5, <2>7, ReconnectLemma
  <2>8. CASE acc.time_to_reconnect /\ ~(acc.connected < 2)
    <3>1. acc.connected # ERROR
      BY <1>0, <2>8 DEF State, ERROR, OFFLINE, CONNECTING
    <3>. QED  BY <1>0, <2>3, <2>4, <2>8, <3>1, SameClients DEF Reconnects
  <2>. QED  BY <2>6, <2>7, <2>8
<1>. QED  BY <1>1, <1>2 DEF Timer

\* and the network manager.
LEMMA NetworkManagerStep ==
    ASSUME Good(acc), NetworkManager
    PROVE  Good(acc')
<1>0. Sound(acc)
  BY DEF Good
<1>1. ASSUME NEW a \in Answer, DeviceNowActive(a)
      PROVE  Good(acc')
  BY <1>0, <1>1, ReconnectLemma DEF DeviceNowActive
<1>2. CASE DeviceNoLongerActive
  BY <1>0, <1>2, DisconnectedReconnCBLemma DEF DeviceNoLongerActive
<1>. QED  BY <1>1, <1>2 DEF NetworkManager

-----------------------------------------------------------------------------
(* Theorems.                                                               *)

RequestType == request \in {"online", "invisible", "offline"}

\* What the user asked for last is always one of the requests.
LEMMA RequestStep ==
    ASSUME RequestType, [Next]_vars
    PROVE  RequestType'
<1>1. Shows \subseteq {"online", "invisible"}
  BY ConnectionAssumption
<1>2. CASE User
  BY <1>1, <1>2 DEF User, GoOnline, GoOffline, ChangeShow, RequestType
<1>3. CASE Dialog
  BY <1>3 DEF Dialog, AnswerQuestion, PassphraseGiven, RequestType
<1>4. CASE UNCHANGED request
  BY <1>4 DEF RequestType
<1>5. CASE Resolver \/ Timer \/ NetworkManager
  BY <1>4, <1>5 DEF Resolver, Resolved, Timer, CheckKeepalive, ReconnectAlarm,
                    NetworkManager, DeviceNowActive, DeviceNoLongerActive
<1>6. ASSUME NEW c \in Con,
             Stream(c) \/ Auth(c) \/ Login(c) \/ Network(c) \/ EndDisconnect(c)
      PROVE  RequestType'
  <2>1. CASE Stream(c) \/ Auth(c)
    BY <1>4, <2>1 DEF Stream, StreamReady, StreamFails, Auth, AuthEnds
  <2>2. CASE Login(c)
    BY <1>4, <2>2 DEF Login, PrivacyArrived, RosterArrived, ContinueInvisible
  <2>3. CASE Network(c) \/ EndDisconnect(c)
    BY <1>4, <2>3 DEF Network, StreamLost, OddError, SendPing, Pong, EndDisconnect
  <2>. QED  BY <1>6, <2>1, <2>2, <2>3
<1>. QED  BY <1>2, <1>3, <1>4, <1>5, <1>6 DEF Next, vars

\* Every step of the account, whichever callback it is, keeps it good.
LEMMA GoodStep ==
    ASSUME Good(acc), [Next]_vars
    PROVE  Good(acc')
<1>1. CASE User
  BY <1>1, UserStep
<1>2. CASE Dialog
  BY <1>2, DialogStep
<1>3. CASE Resolver
  BY <1>3, ResolverStep
<1>4. CASE Timer
  BY <1>4, TimerStep
<1>5. CASE NetworkManager
  BY <1>5, NetworkManagerStep
<1>6. ASSUME NEW c \in Con,
             Stream(c) \/ Auth(c) \/ Login(c) \/ Network(c) \/ EndDisconnect(c)
      PROVE  Good(acc')
  BY <1>6, StreamStep, AuthStep, LoginStep, NetworkStep, EndDisconnectStep
<1>7. CASE UNCHANGED vars
  BY <1>7 DEF vars
<1>. QED  BY <1>1, <1>2, <1>3, <1>4, <1>5, <1>6, <1>7 DEF Next

\* An account begins well.
LEMMA GoodInit ==
    ASSUME Init
    PROVE  Good(acc) /\ RequestType
<1>1. acc \in State
  BY ConnectionAssumption DEF Init, State, Phase
<1>. DEFINE none == [c \in Con |-> "closed"]
<1>2. acc.con = none
  BY DEF Init
<1>3. \A c \in Con : none[c] = "closed"
  OBVIOUS
<1>. HIDE DEF none
<1>4. \A c \in Con : acc.con[c] \notin Open
  BY <1>2, <1>3 DEF Open, Asked, Accepted, Established
<1>. QED  BY <1>1, <1>4 DEF Init, Good, Sound, Using, Last, Reconnects,
                           RequestType, ERROR, OFFLINE

\* The inductive invariant: in every state that can be reached, open
\* clients are last_connection, the connection is None or alive, and errors
\* have their alarm.
THEOREM Invariance == Spec => [](Good(acc) /\ RequestType)
<1>1. Init => Good(acc) /\ RequestType
  BY GoodInit
<1>2. (Good(acc) /\ RequestType) /\ [Next]_vars => (Good(acc) /\ RequestType)'
  BY GoodStep, RequestStep
<1>. QED  BY <1>1, <1>2, PTL DEF Spec

\* The account never leaves its state space, whatever the options are and
\* however many clients, lookups and alarms there can be.
THEOREM TypeCorrect == Spec => []TypeOK
<1>1. Good(acc) /\ RequestType => TypeOK
  BY DEF Good, Sound, RequestType, TypeOK
<1>. QED  BY <1>1, Invariance, PTL

\* An open client is never forgotten: closing last_connection is enough.
THEOREM NothingForgotten == Spec => []OpenIsLast
<1>1. Good(acc) => OpenIsLast
  BY DEF Good, Sound, Last, OpenIsLast
<1>. QED  BY <1>1, Invariance, PTL

\* Gajim never has two connections open for one account.
THEOREM NoDoubleConnection == Spec => []OneClient
<1>1. Good(acc) => OneClient
  BY DEF Good, Sound, Last, OneClient
<1>. QED  BY <1>1, Invariance, PTL

\* Whatever the account sends is sent on a client that is alive.
THEOREM InUseIsAlive == Spec => []ConnectionInUse
<1>1. Good(acc) => ConnectionInUse
  BY DEF Good, Sound, Using, ConnectionInUse
<1>. QED  BY <1>1, Invariance, PTL

\* An account in error has its next attempt scheduled, and says so.
THEOREM ErrorHasAlarm == Spec => []ErrorIsTemporary
<1>1. Good(acc) => ErrorIsTemporary
  BY DEF Good, Reconnects, ErrorIsTemporary
<1>. QED  BY <1>1, Invariance, PTL

-----------------------------------------------------------------------------
(***************************************************************************)
(* What the status of an account says is true, and a login that has begun  *)
(* goes on: invariants that rest on Good, and hold for some of the options *)
(* only.  Every way to give up a connection, however it is reached, ends   *)
(* with an account that is offline or in error and leaves what a login     *)
(* waits for alone; this is GivesUp, and it is shown once for each         *)
(* operator.                                                               *)
(***************************************************************************)

\* What no operator that gives up a connection, or tries another, changes
Same(s, t) ==
    /\ t.on_connect_auth = s.on_connect_auth
    /\ t.resolving = s.resolving
    /\ t.resolved = s.resolved
    /\ t.continue_connect_info = s.continue_connect_info
    /\ t.passphrase_asked = s.passphrase_asked
    /\ t.invisible_asked => s.invisible_asked
    /\ t.connected = 7 => s.connected = 7
    /\ t.old_show = "invisible" => s.old_show = "invisible" \/ s.connected = 7

\* Clients are closed at most
Closes(s, t) == \A c \in Con : t.con[c] \in {s.con[c], "closed"}

Idle(s) == s.connected \in {OFFLINE, ERROR}

GivesUp(s, t) == Same(s, t) /\ Closes(s, t) /\ Idle(t) /\ Drops(s, t)

\* What is the same after two operators is the same after both.
LEMMA Transitive ==
    ASSUME NEW s, NEW t, NEW u,
           Same(s, t), Closes(s, t), Same(t, u), Closes(t, u)
    PROVE  Same(s, u) /\ Closes(s, u)
BY DEF Same, Closes

-----------------------------------------------------------------------------
(* Giving up.                                                              *)

\* Telling a status changes nothing a login waits for,
LEMMA TellSame ==
    ASSUME NEW s \in State, NEW status
    PROVE  Same(s, Tell(s, status)) /\ Closes(s, Tell(s, status))
BY DEF State, Tell, Same, Closes

\* nor does forgetting the connection,
LEMMA ForgetSame ==
    ASSUME NEW s \in State
    PROVE  Same(s, Forget(s)) /\ Closes(s, Forget(s))
BY DEF State, Forget, Same, Closes, OFFLINE

\* nor noting the show,
LEMMA RememberSame ==
    ASSUME NEW s \in State
    PROVE  Same(s, Remember(s)) /\ Closes(s, Remember(s))
BY DEF State, Remember, ShowAt, Same, Closes, OFFLINE

\* nor telling and forgetting, which ends offline.
LEMMA ForgetToldSame ==
    ASSUME NEW s \in State
    PROVE  /\ Forget(Tell(s, "offline")) \in State
           /\ Same(s, Forget(Tell(s, "offline")))
           /\ Closes(s, Forget(Tell(s, "offline")))
           /\ Idle(Forget(Tell(s, "offline")))
<1>1. /\ Tell(s, "offline") \in State
      /\ Same(s, Tell(s, "offline")) /\ Closes(s, Tell(s, "offline"))
  BY TellLemma, TellSame DEF Shown
<1>. QED  BY <1>1, ForgetLemma, ForgetSame, Transitive DEF Idle

\* An account that is offline or in error after a loss stays so.
LEMMA AfterLossSame ==
    ASSUME NEW s \in State, Idle(s)
    PROVE  /\ Same(s, AfterLoss(s)) /\ Closes(s, AfterLoss(s))
           /\ Idle(AfterLoss(s))
<1>1. CASE AutoReconnect \/ s.on_connect_failure
  BY <1>1 DEF AfterLoss, State, Same, Closes, Idle, ERROR, OFFLINE
<1>2. CASE ~AutoReconnect /\ ~s.on_connect_failure
  <2>. DEFINE f == Forget(s)
  <2>1. f \in State /\ Same(s, f) /\ Closes(s, f) /\ f.connected = OFFLINE
    BY ForgetLemma, ForgetSame
  <2>2. AfterLoss(s) = Tell(f, "offline")
    BY <1>2 DEF AfterLoss
  <2>. HIDE DEF f
  <2>3. /\ Same(f, Tell(f, "offline")) /\ Closes(f, Tell(f, "offline"))
        /\ Tell(f, "offline").connected = OFFLINE
    BY <2>1, TellLemma, TellSame DEF Shown
  <2>. QED  BY <2>1, <2>2, <2>3, Transitive DEF Idle
<1>. QED  BY <1>1, <1>2

\* _disconnectedReconnCB leaves an account offline or in error.
LEMMA HandleLossSame ==
    ASSUME NEW s \in State
    PROVE  /\ Same(s, HandleLoss(s)) /\ Closes(s, HandleLoss(s))
           /\ Idle(HandleLoss(s))
<1>. DEFINE r == Remember(s)
<1>1. r \in State /\ Same(s, r) /\ Closes(s, r)
  BY RememberLemma, RememberSame
<1>2. HandleLoss(s) = IF s.on_purpose THEN Forget(r)
                      ELSE AfterLoss(Forget(Tell(r, "offline")))
  BY DEF HandleLoss
<1>. HIDE DEF r
<1>3. Same(s, Forget(r)) /\ Closes(s, Forget(r)) /\ Idle(Forget(r))
  BY <1>1, ForgetLemma, ForgetSame, Transitive DEF Idle
<1>. DEFINE f == Forget(Tell(r, "offline"))
<1>4. f \in State /\ Same(s, f) /\ Closes(s, f) /\ Idle(f)
  BY <1>1, ForgetToldSame, Transitive
<1>. HIDE DEF f
<1>5. Same(s, AfterLoss(f)) /\ Closes(s, AfterLoss(f)) /\ Idle(AfterLoss(f))
  BY <1>4, AfterLossSame, Transitive
<1>. QED  BY <1>2, <1>3, <1>5 DEF f

\* Whoever had a disconnect handler is given up.
LEMMA CloseSocketSame ==
    ASSUME NEW s \in State, NEW c \in Con
    PROVE  /\ Same(s, CloseSocket(s, c)) /\ Closes(s, CloseSocket(s, c))
           /\ CloseSocket(s, c).connected = s.connected \/ Idle(CloseSocket(s, c))
           /\ s.con[c] \in Asked \cup Accepted \cup {"closing"}
                => Idle(CloseSocket(s, c))
<1>. DEFINE closed == SocketClosed(s, c)
            new == CloseSocket(s, c)
<1>1. /\ closed \in State /\ Same(s, closed) /\ Closes(s, closed)
      /\ closed.connected = s.connected
  <2>. DEFINE q == s.stale_question \/ s.con[c] = "asking"
              i == s.invisible_asked /\ s.con[c] \notin Established
  <2>0. s \in State
    OBVIOUS
  <2>1. q \in BOOLEAN /\ i \in BOOLEAN
    OBVIOUS
  <2>4. i => s.invisible_asked
    OBVIOUS
  <2>2. closed = [s EXCEPT !.con[c] = "closed", !.stale_question = q,
                           !.invisible_asked = i]
    BY DEF SocketClosed
  <2>. HIDE DEF q, i, closed
  <2>3. closed \in State
    BY <2>0, <2>1, <2>2 DEF State, Phase
  <2>. QED  BY <2>0, <2>1, <2>2, <2>3, <2>4 DEF State, Same, Closes
<1>2. CASE s.con[c] \in Asked
  <2>1. new = Forget(Tell(closed, "offline"))
    BY <1>2 DEF CloseSocket, Accepted, Asked, Established
  <2>. QED  BY <1>1, <2>1, ForgetToldSame, Transitive
<1>3. CASE s.con[c] \in Accepted
  <2>1. new = HandleLoss(closed)
    BY <1>3 DEF CloseSocket, Accepted, Asked, Established
  <2>. QED  BY <1>1, <2>1, HandleLossSame, Transitive
<1>4. CASE s.con[c] = "closing"
  <2>1. new = Forget(Tell(HandleLoss(closed), "offline"))
    BY <1>4 DEF CloseSocket, Accepted, Asked, Established
  <2>2. /\ HandleLoss(closed) \in State
        /\ Same(s, HandleLoss(closed)) /\ Closes(s, HandleLoss(closed))
    BY <1>1, HandleLossLemma, HandleLossSame, Transitive
  <2>. QED  BY <2>1, <2>2, ForgetToldSame, Transitive
<1>5. CASE s.con[c] \notin Asked \cup Accepted \cup {"closing"}
  <2>1. new = closed
    BY <1>5 DEF CloseSocket, Accepted, Asked, Established
  <2>. QED  BY <1>1, <1>5, <2>1
<1>. QED  BY <1>2, <1>3, <1>4, <1>5

\* disconnect gives up, whatever the connection is worth.
LEMMA DisconnectGivesUp ==
    ASSUME NEW s, Sound(s), NEW on_purpose \in BOOLEAN
    PROVE  GivesUp(s, Disconnect(s, on_purpose))
<1>. DEFINE t == [s EXCEPT !.on_purpose = on_purpose, !.connected = OFFLINE,
                           !.time_to_reconnect = FALSE,
                           !.privacy_rules_supported = FALSE]
            new == Disconnect(s, on_purpose)
<1>0. s \in State /\ Using(s) /\ Drops(s, new)
  BY DisconnectLemma DEF Sound
<1>1. /\ t \in State /\ Same(s, t) /\ Closes(s, t) /\ Idle(t)
      /\ t.con = s.con /\ t.connection = s.connection
  <2>1. t \in State
    BY <1>0 DEF State, OFFLINE
  <2>. QED  BY <1>0, <2>1 DEF State, Same, Closes, Idle, OFFLINE
<1>2. new = IF s.connection = None THEN t
            ELSE [CloseSocket(t, s.connection) EXCEPT !.last_connection = None,
                                                      !.connection = None]
  BY DEF Disconnect
<1>. SUFFICES GivesUp(s, new)
  OBVIOUS
<1>. HIDE DEF t, new
<1>3. CASE s.connection = None
  BY <1>0, <1>1, <1>2, <1>3 DEF GivesUp
<1>4. CASE s.connection # None
  <2>. DEFINE u == CloseSocket(t, s.connection)
  <2>1. s.connection \in Con
    BY <1>0, <1>4 DEF State
  <2>2. Same(t, u) /\ Closes(t, u) /\ Idle(u)
    BY <1>1, <2>1, CloseSocketSame DEF Idle
  <2>3. u \in State
    <3>1. Good(t)
      <4>1. t.connected = OFFLINE /\ t.last_connection = s.last_connection
        BY <1>0 DEF State, OFFLINE, t
      <4>. QED  BY <1>0, <1>1, <4>1, SameClients DEF Reconnects, ERROR, OFFLINE
    <3>. QED  BY <2>1, <3>1, CloseSocketLemma DEF Good, Sound
  <2>4. new = [u EXCEPT !.last_connection = None, !.connection = None]
    BY <1>2, <1>4
  <2>. HIDE DEF u
  <2>5. Same(u, new) /\ Closes(u, new) /\ Idle(new)
    BY <2>2, <2>3, <2>4 DEF State, Same, Closes, Idle
  <2>. QED  BY <1>0, <1>1, <2>2, <2>5, Transitive DEF GivesUp
<1>. QED  BY <1>3, <1>4

\* What is told or remembered before or after does not matter.
LEMMA ToldGivesUp ==
    ASSUME NEW s, NEW r, NEW t \in State, Same(s, r), r.con = s.con,
           r.connection = s.connection, r.last_connection = s.last_connection,
           GivesUp(r, t), NEW status
    PROVE  GivesUp(s, t) /\ GivesUp(s, Tell(t, status))
<1>1. Closes(s, r) /\ Drops(s, t)
  BY DEF Closes, GivesUp, Drops
<1>2. Same(s, t) /\ Closes(s, t) /\ Idle(t)
  BY <1>1, Transitive DEF GivesUp
<1>. DEFINE u == Tell(t, status)
<1>3. /\ Same(t, u) /\ Closes(t, u) /\ u.con = t.con
      /\ u.connection = t.connection /\ u.connected = t.connected
      /\ u.last_connection = t.last_connection
  BY TellSame DEF Tell, State
<1>. HIDE DEF u
<1>4. Drops(s, u)
  BY <1>1, <1>3 DEF Drops
<1>5. Same(s, u) /\ Closes(s, u) /\ Idle(u)
  BY <1>2, <1>3, Transitive DEF Idle
<1>. QED  BY <1>1, <1>2, <1>4, <1>5 DEF GivesUp, u

\* No change is no change.
LEMMA SameRefl ==
    ASSUME NEW s
    PROVE  Same(s, s)
BY DEF Same

\* _on_disconnected gives up,
LEMMA OnDisconnectedGivesUp ==
    ASSUME NEW s, Sound(s)
    PROVE  GivesUp(s, OnDisconnected(s))
<1>. DEFINE r == Tell(s, "offline")
<1>1. /\ Sound(r) /\ r.con = s.con /\ r.connection = s.connection
      /\ r.last_connection = s.last_connection /\ Same(s, r)
  BY ToldOffline, TellSame DEF Sound
<1>2. OnDisconnected(s) = Disconnect(r, FALSE)
  BY DEF OnDisconnected
<1>. HIDE DEF r
<1>3. GivesUp(r, Disconnect(r, FALSE)) /\ Disconnect(r, FALSE) \in State
  BY <1>1, DisconnectGivesUp, DisconnectLemma DEF Good, Sound
<1>. QED  BY <1>1, <1>2, <1>3, ToldGivesUp

\* so do the two ways to abandon an attempt,
LEMMA AbandonGivesUp ==
    ASSUME NEW s, Sound(s)
    PROVE  GivesUp(s, Abandon(s)) /\ GivesUp(s, ConnectionLost(s))
<1>1. /\ GivesUp(s, Disconnect(s, TRUE)) /\ Disconnect(s, TRUE) \in State
      /\ GivesUp(s, Disconnect(s, FALSE)) /\ Disconnect(s, FALSE) \in State
  BY DisconnectGivesUp, DisconnectLemma DEF Good, Sound
<1>. QED  BY <1>1, SameRefl, ToldGivesUp DEF Abandon, ConnectionLost

\* so does _disconnectedReconnCB,
LEMMA DisconnectedReconnCBGivesUp ==
    ASSUME NEW s, Sound(s)
    PROVE  GivesUp(s, DisconnectedReconnCB(s))
<1>. DEFINE r == Remember(s)
<1>1. /\ Sound(r) /\ Same(s, r) /\ r.con = s.con /\ r.connection = s.connection
      /\ r.last_connection = s.last_connection
  BY RememberLemma, RememberSame DEF Sound, Using, Last
<1>. HIDE DEF r
<1>2. CASE s.on_purpose
  <2>. DEFINE d == Disconnect(r, FALSE)
              t == [d EXCEPT !.on_purpose = FALSE]
  <2>1. GivesUp(r, d) /\ d \in State
    BY <1>1, DisconnectGivesUp, DisconnectLemma DEF Good, Sound
  <2>2. DisconnectedReconnCB(s) = t
    BY <1>2 DEF DisconnectedReconnCB, r
  <2>. HIDE DEF d
  <2>3. GivesUp(r, t) /\ t \in State
    BY <2>1, ZenonT(30) DEF State, GivesUp, Same, Closes, Drops, Idle
  <2>. HIDE DEF t
  <2>. QED  BY <1>1, <2>2, <2>3, ToldGivesUp
<1>3. CASE ~s.on_purpose
  <2>. DEFINE u == Tell(r, "offline")
              d == Disconnect(u, FALSE)
  <2>1. /\ Sound(u) /\ Same(r, u) /\ u.con = r.con /\ u.connection = r.connection
        /\ u.last_connection = r.last_connection
    BY <1>1, ToldOffline, TellSame DEF Sound
  <2>. HIDE DEF u
  <2>2. GivesUp(u, d) /\ Good(d) /\ d.connection = None
    BY <2>1, DisconnectGivesUp, DisconnectLemma DEF Drops
  <2>. HIDE DEF d
  <2>3. d \in State /\ Reconnects(d) /\ Idle(d)
    BY <2>2 DEF Good, Sound, GivesUp
  <2>. DEFINE t == AfterLoss(d)
  <2>4. /\ t \in State /\ t.con = d.con /\ t.connection = None
        /\ t.last_connection = d.last_connection
        /\ Same(d, t) /\ Closes(d, t) /\ Idle(t)
    BY <2>2, <2>3, AfterLossLemma, AfterLossSame
  <2>5. DisconnectedReconnCB(s) = t
    BY <1>3 DEF DisconnectedReconnCB, d, u, r
  <2>. HIDE DEF t
  <2>6. GivesUp(u, t)
    BY <2>2, <2>4, Transitive DEF GivesUp, Drops
  <2>7. Same(s, u) /\ u.con = s.con
    BY <1>1, <2>1, Transitive DEF Closes
  <2>. QED  BY <1>1, <2>1, <2>4, <2>5, <2>6, <2>7, ToldGivesUp
<1>. QED  BY <1>2, <1>3

\* and so does an attempt with no more hosts.
LEMMA GiveUpGivesUp ==
    ASSUME NEW s, Good(s), s.connection = None, NEW retry \in BOOLEAN
    PROVE  GivesUp(s, GiveUp(s, retry))
<1>. DEFINE t == [s EXCEPT !.time_to_reconnect = FALSE]
<1>0. Sound(s) /\ s \in State
  BY DEF Good, Sound
<1>1. /\ t \in State /\ t.con = s.con /\ t.connection = None
      /\ t.last_connection = s.last_connection
      /\ t.connected = s.connected /\ t.retrycount = s.retrycount
      /\ Same(s, t)
  BY <1>0 DEF State, Same
<1>2. Sound(t)
  BY <1>0, <1>1 DEF Sound, Using, Last
<1>. HIDE DEF t
<1>3. CASE retry \/ s.retrycount # 0
  BY <1>0, <1>3, DisconnectedReconnCBGivesUp DEF GiveUp
<1>4. CASE ~retry /\ s.retrycount = 0 /\ s.on_connect_failure
  <2>. DEFINE f == ConnectFailure(t)
              g == [f EXCEPT !.on_connect_failure = FALSE]
  <2>1. GivesUp(s, f) /\ f \in State
    <3>1. CASE s.connected # OFFLINE
      <4>1. GivesUp(t, Abandon(t)) /\ Abandon(t) \in State
        BY <1>2, AbandonGivesUp, AbandonLemma DEF Good, Sound
      <4>2. f = Abandon(t)
        BY <1>1, <1>4, <3>1 DEF ConnectFailure
      <4>. QED  BY <1>1, <4>1, <4>2, ToldGivesUp
    <3>2. CASE s.connected = OFFLINE
      <4>1. f = t
        BY <1>1, <1>4, <3>2 DEF ConnectFailure
      <4>. QED  BY <1>1, <3>2, <4>1 DEF GivesUp, Drops, Closes, Idle
    <3>. QED  BY <3>1, <3>2
  <2>2. GiveUp(s, retry) = g
    BY <1>4 DEF GiveUp, t
  <2>. HIDE DEF f
  <2>. QED  BY <2>1, <2>2 DEF State, GivesUp, Same, Closes, Drops, Idle
<1>5. CASE ~retry /\ s.retrycount = 0 /\ ~s.on_connect_failure
  <2>1. GivesUp(t, ConnectionLost(t)) /\ Disconnect(t, FALSE) \in State
    BY <1>2, AbandonGivesUp, DisconnectLemma DEF Good, Sound
  <2>2. ConnectionLost(t) \in State
    BY <2>1, TellLemma DEF ConnectionLost, Shown
  <2>3. GiveUp(s, retry) = ConnectionLost(t)
    BY <1>5 DEF GiveUp, t
  <2>. QED  BY <1>1, <2>1, <2>2, <2>3, ToldGivesUp
<1>. QED  BY <1>3, <1>4, <1>5

-----------------------------------------------------------------------------
(* Connecting.                                                             *)

OnlyOpening(s) == \A c \in Con : s.con[c] \in Open => s.con[c] = "opening"

\* After an attempt either a stream is being opened, and nothing else, or the
\* account has been given up.
Attempted(s, t) ==
    /\ Same(s, t)
    /\ t.connection = None
    /\ OnlyOpening(t)
    /\ Idle(t) \/ (t.connected = s.connected /\ \E c \in Con : t.con[c] = "opening")
    /\ s.connection # None => Idle(t)

\* Trying hosts until one opens, or none is left, is an attempt.
LEMMA NextAttemptAttempted ==
    ASSUME NEW s, Good(s), NEW retry \in BOOLEAN, NEW fail \in 0 .. MaxAttempts,
           s.attempts = 0 => s.connection = None /\ OnlyOpening(s)
    PROVE  Attempted(s, NextAttempt(s, retry, fail))
<1>. DEFINE old == IF s.last_connection = None THEN s
                   ELSE CloseSocket(s, s.last_connection)
            dropped == [old EXCEPT !.last_connection = None,
                                   !.connection = None]
            new == Fresh(dropped)
            given == [dropped EXCEPT !.attempts = 0]
            next == [dropped EXCEPT !.attempts = s.attempts - fail - 1,
                                    !.con[new] = "opening",
                                    !.last_connection = new]
<1>0. Sound(s) /\ Last(s) /\ Using(s) /\ s \in State /\ None \notin Con
  BY ConnectionAssumption DEF Good, Sound
<1>1. /\ Good(old) /\ \A c \in Con : old.con[c] \notin Open
      /\ Same(s, old) /\ (old.connected = s.connected \/ Idle(old))
      /\ s.connection # None => Idle(old)
  <2>1. CASE s.last_connection = None
    <3>1. s.connection = None
      BY <1>0, <2>1 DEF Using, State
    <3>. QED  BY <1>0, <2>1, <3>1, SameRefl DEF Last
  <2>2. CASE s.last_connection # None
    <3>1. s.last_connection \in Con
      BY <1>0, <2>2 DEF State
    <3>2. /\ Good(old)
          /\ old.con = [s.con EXCEPT ![s.last_connection] = "closed"]
      BY <2>2, <3>1, CloseSocketLemma
    <3>3. /\ Same(s, old) /\ (old.connected = s.connected \/ Idle(old))
          /\ s.con[s.last_connection] \in Asked \cup Accepted \cup {"closing"}
               => Idle(old)
      BY <1>0, <2>2, <3>1, CloseSocketSame
    <3>4. s.connection # None => Idle(old)
      BY <1>0, <3>3 DEF Using
    <3>5. \A c \in Con : old.con[c] \notin Open
      BY <1>0, <3>1, <3>2
         DEF Last, State, Open, Asked, Accepted, Established
    <3>. QED  BY <3>2, <3>3, <3>4, <3>5
  <2>. QED  BY <2>1, <2>2
<1>. HIDE DEF old
<1>2. /\ dropped \in State /\ dropped.connection = None
      /\ dropped.last_connection = None /\ dropped.con = old.con
      /\ dropped.connected = old.connected
      /\ Reconnects(dropped) /\ Same(old, dropped)
  BY <1>1 DEF Good, Sound, State, Reconnects, Same
<1>. HIDE DEF dropped
<1>3. new \in Con
  BY FreshLemma
<1>. HIDE DEF new
<1>4. CASE s.attempts = 0
  <2>1. NextAttempt(s, retry, fail) = GiveUp(s, retry)
    BY <1>4 DEF NextAttempt
  <2>2. GivesUp(s, GiveUp(s, retry))
    BY <1>4, GiveUpGivesUp
  <2>. QED  BY <1>4, <2>1, <2>2 DEF GivesUp, Drops, Attempted, OnlyOpening
<1>5. CASE s.attempts # 0 /\ fail >= s.attempts
  <2>1. /\ given \in State /\ given.con = old.con /\ given.connection = None
        /\ Reconnects(given) /\ Same(dropped, given)
    BY <1>2, ConnectionAssumption DEF State, Reconnects, Same
  <2>2. Good(given)
    BY <1>1, <2>1 DEF Good, Sound, Using, Last
  <2>3. NextAttempt(s, retry, fail) = GiveUp(given, FALSE)
    BY <1>5 DEF NextAttempt, dropped, old
  <2>. HIDE DEF given
  <2>4. GivesUp(given, GiveUp(given, FALSE))
    BY <2>1, <2>2, GiveUpGivesUp
  <2>5. Same(s, GiveUp(given, FALSE))
    BY <1>1, <1>2, <2>1, <2>4 DEF GivesUp, Same
  <2>. QED  BY <1>1, <2>1, <2>3, <2>4, <2>5
            DEF GivesUp, Drops, Attempted, OnlyOpening
<1>6. CASE s.attempts # 0 /\ ~(fail >= s.attempts)
  <2>1. /\ next.con = [old.con EXCEPT ![new] = "opening"]
        /\ next.connection = None /\ next.connected = dropped.connected
        /\ Same(dropped, next)
    BY <1>2, <1>3 DEF State, Same
  <2>2. old.con \in [Con -> Phase]
    BY <1>1 DEF Good, Sound, State
  <2>3. NextAttempt(s, retry, fail) = next
    BY <1>6 DEF NextAttempt, new, dropped, old
  <2>. HIDE DEF next
  <2>4. Same(s, next)
    BY <1>1, <1>2, <2>1 DEF Same
  <2>5. OnlyOpening(next) /\ next.con[new] = "opening"
    BY <1>1, <1>3, <2>1, <2>2 DEF OnlyOpening
  <2>6. /\ next.connected = s.connected \/ Idle(next)
        /\ s.connection # None => Idle(next)
    BY <1>1, <1>2, <2>1 DEF Idle
  <2>. QED  BY <1>3, <2>1, <2>3, <2>4, <2>5, <2>6 DEF Attempted
<1>. QED  BY <1>4, <1>5, <1>6

\* So is what the answer of a lookup begins.
LEMMA OnResolveAttempted ==
    ASSUME NEW s, Good(s), NEW a \in Answer
    PROVE  Attempted(s, OnResolve(s, a))
<1>. DEFINE t == [s EXCEPT !.attempts = a.hosts]
<1>0. /\ Sound(s) /\ s \in State /\ Reconnects(s)
      /\ a.hosts \in 1 .. MaxAttempts /\ a.fail \in 0 .. MaxAttempts
      /\ MaxAttempts \in Nat
  BY ConnectionAssumption DEF Good, Sound, Answer
<1>1. /\ t \in State /\ t.con = s.con /\ t.connection = s.connection
      /\ t.last_connection = s.last_connection /\ Reconnects(t)
      /\ t.connected = s.connected /\ t.attempts # 0 /\ Same(s, t)
  BY <1>0 DEF State, Reconnects, Same
<1>2. OnResolve(s, a) = NextAttempt(t, FALSE, a.fail)
  BY DEF OnResolve
<1>. HIDE DEF t
<1>3. Good(t)
  BY <1>0, <1>1, SameClients
<1>4. Attempted(t, OnResolve(s, a))
  BY <1>0, <1>1, <1>2, <1>3, NextAttemptAttempted
<1>5. Same(s, OnResolve(s, a))
  BY <1>1, <1>4 DEF Attempted, Same
<1>. QED  BY <1>1, <1>4, <1>5 DEF Attempted

-----------------------------------------------------------------------------
(* What the user is told.                                                  *)

OfflineTold(s) ==
    s.connected = OFFLINE /\ s.connection = None => s.shown = "offline"

\* on_purpose is set only while the account goes offline, or is
Deliberate(s) ==
    s.on_purpose => /\ s.connected = OFFLINE
                    /\ ~s.time_to_reconnect
                    /\ s.connection # None => s.con[s.connection] = "closing"

Told(s) == OfflineTold(s) /\ Deliberate(s)

\* An account that is told offline and forgotten, in either order, is shown
\* offline.
LEMMA ForgetTold ==
    ASSUME NEW s \in State
    PROVE  /\ Told(Forget(Tell(s, "offline")))
           /\ ~Forget(Tell(s, "offline")).on_purpose
           /\ Told(Tell(Forget(s), "offline"))
           /\ ~Tell(Forget(s), "offline").on_purpose
           /\ ~Forget(s).on_purpose
           /\ s.shown = "offline" => Told(Forget(s))
BY DEF State, Forget, Tell, Told, OfflineTold, Deliberate

\* What follows a loss keeps an account that is shown offline so, or shows
\* the error.
LEMMA AfterLossTold ==
    ASSUME NEW s \in State, OfflineTold(s), s.connection = None
    PROVE  Told(AfterLoss(s)) /\ ~AfterLoss(s).on_purpose
<1>1. CASE AutoReconnect \/ s.on_connect_failure
  BY <1>1 DEF AfterLoss, State, Told, OfflineTold, Deliberate, ERROR, OFFLINE
<1>2. CASE ~AutoReconnect /\ ~s.on_connect_failure
  BY <1>2, ForgetTold DEF AfterLoss
<1>. QED  BY <1>1, <1>2

\* A loss is not shown only when it was on purpose; then what asked for it
\* has shown it, or will.
LEMMA HandleLossTold ==
    ASSUME NEW s \in State
    PROVE  /\ ~HandleLoss(s).on_purpose
           /\ s.on_purpose => HandleLoss(s).shown = s.shown
           /\ (s.on_purpose => s.shown = "offline") => Told(HandleLoss(s))
<1>. DEFINE r == Remember(s)
<1>1. r \in State /\ r.shown = s.shown
  <2>1. r \in State
    BY RememberLemma
  <2>2. r.shown = s.shown
    BY DEF Remember, State
  <2>. QED  BY <2>1, <2>2
<1>2. HandleLoss(s) = IF s.on_purpose THEN Forget(r)
                      ELSE AfterLoss(Forget(Tell(r, "offline")))
  BY DEF HandleLoss
<1>. HIDE DEF r
<1>3. CASE s.on_purpose
  <2>1. Forget(r).shown = r.shown
    BY <1>1 DEF Forget, State
  <2>. QED  BY <1>1, <1>2, <1>3, <2>1, ForgetTold
<1>4. CASE ~s.on_purpose
  <2>. DEFINE f == Forget(Tell(r, "offline"))
  <2>1. f \in State /\ f.connection = None /\ Told(f)
    BY <1>1, ForgetTold, ForgetToldLemma
  <2>. HIDE DEF f
  <2>2. Told(AfterLoss(f)) /\ ~AfterLoss(f).on_purpose
    BY <2>1, AfterLossTold DEF Told
  <2>. QED  BY <1>2, <1>4, <2>2 DEF f
<1>. QED  BY <1>3, <1>4

\* Closing a socket of a client that was asked about, accepted or closing
\* resets on_purpose; the account is shown offline if it was when that is
\* needed.
LEMMA CloseSocketTold ==
    ASSUME NEW s, Good(s), NEW c \in Con
    PROVE  /\ s.con[c] \in Asked \cup Accepted \cup {"closing"}
                => ~CloseSocket(s, c).on_purpose
           /\ Told(s) /\ (s.on_purpose /\ s.con[c] \in Accepted
                            => s.shown = "offline")
                => Told(CloseSocket(s, c))
<1>. DEFINE closed == SocketClosed(s, c)
            new == CloseSocket(s, c)
<1>0. s \in State /\ Using(s) /\ None \notin Con
  BY ConnectionAssumption DEF Good, Sound
<1>1. /\ closed \in State /\ closed.on_purpose = s.on_purpose
      /\ closed.shown = s.shown /\ closed.connected = s.connected
      /\ closed.connection = s.connection
      /\ closed.time_to_reconnect = s.time_to_reconnect
      /\ closed.con = [s.con EXCEPT ![c] = "closed"]
  <2>. DEFINE q == s.stale_question \/ s.con[c] = "asking"
              i == s.invisible_asked /\ s.con[c] \notin Established
  <2>1. q \in BOOLEAN /\ i \in BOOLEAN
    OBVIOUS
  <2>2. closed = [s EXCEPT !.con[c] = "closed", !.stale_question = q,
                           !.invisible_asked = i]
    BY DEF SocketClosed
  <2>. HIDE DEF q, i, closed
  <2>. QED  BY <1>0, <2>1, <2>2 DEF State, Phase
<1>. HIDE DEF closed
<1>2. CASE s.con[c] \in Asked
  <2>1. new = Forget(Tell(closed, "offline"))
    BY <1>2 DEF CloseSocket, Accepted, Asked, Established, closed
  <2>. QED  BY <1>1, <2>1, ForgetTold
<1>3. CASE s.con[c] \in Accepted
  <2>1. new = HandleLoss(closed)
    BY <1>3 DEF CloseSocket, Accepted, Asked, Established, closed
  <2>. QED  BY <1>1, <1>3, <2>1, HandleLossTold
<1>4. CASE s.con[c] = "closing"
  <2>1. new = Forget(Tell(HandleLoss(closed), "offline"))
    BY <1>4 DEF CloseSocket, Accepted, Asked, Established, closed
  <2>. QED  BY <1>1, <2>1, HandleLossLemma, ForgetTold
<1>5. CASE s.con[c] \notin Asked \cup Accepted \cup {"closing"}
  <2>1. new = closed
    BY <1>5 DEF CloseSocket, Accepted, Asked, Established, closed
  <2>2. s.connection # c
    BY <1>0, <1>5 DEF Using
  <2>3. s.connection # None => closed.con[s.connection] = s.con[s.connection]
    BY <1>0, <1>1, <2>2 DEF State
  <2>. QED  BY <1>1, <1>5, <2>1, <2>3 DEF Told, OfflineTold, Deliberate
<1>. QED  BY <1>2, <1>3, <1>4, <1>5

\* A client that has a disconnect handler is in use, or nothing is.
LEMMA CloseSocketStillTold ==
    ASSUME NEW s, Good(s), Told(s), NEW c \in Con
    PROVE  Told(CloseSocket(s, c))
<1>1. s \in State /\ Using(s) /\ Last(s)
  BY DEF Good, Sound
<1>2. s.on_purpose /\ s.con[c] \in Accepted => s.shown = "offline"
  <2>. SUFFICES ASSUME s.on_purpose, s.con[c] \in Accepted
                PROVE  s.shown = "offline"
    OBVIOUS
  <2>1. s.last_connection = c
    BY <1>1 DEF Last, Open
  <2>2. s.connection = None
    BY <1>1, <2>1 DEF Using, Told, Deliberate, Accepted, Established
  <2>. QED  BY <2>2 DEF Told, Deliberate, OfflineTold
<1>. QED  BY <1>2, CloseSocketTold

\* disconnect leaves on_purpose to accounts that are offline, and shows a
\* loss that was not on purpose.
LEMMA DisconnectTold ==
    ASSUME NEW s, Sound(s), NEW on_purpose \in BOOLEAN
    PROVE  /\ Deliberate(Disconnect(s, on_purpose))
           /\ s.connection = None =>
                Disconnect(s, on_purpose).shown = s.shown
           /\ s.connection # None /\ ~on_purpose =>
                Told(Disconnect(s, on_purpose))
<1>. DEFINE t == [s EXCEPT !.on_purpose = on_purpose, !.connected = OFFLINE,
                           !.time_to_reconnect = FALSE,
                           !.privacy_rules_supported = FALSE]
            new == Disconnect(s, on_purpose)
<1>0. s \in State /\ Using(s) /\ Last(s)
  BY DEF Sound
<1>1. t \in State
  BY <1>0 DEF State, OFFLINE
<1>2. /\ t.con = s.con /\ t.connection = s.connection
      /\ t.last_connection = s.last_connection /\ t.shown = s.shown
      /\ t.connected = OFFLINE /\ ~t.time_to_reconnect
      /\ t.on_purpose = on_purpose
  BY <1>0 DEF State
<1>3. new = IF s.connection = None THEN t
            ELSE [CloseSocket(t, s.connection) EXCEPT !.last_connection = None,
                                                      !.connection = None]
  BY DEF Disconnect
<1>. SUFFICES /\ Deliberate(new)
              /\ s.connection = None => new.shown = s.shown
              /\ s.connection # None /\ ~on_purpose => Told(new)
  OBVIOUS
<1>. HIDE DEF t, new
<1>4. Good(t)
  BY <1>0, <1>1, <1>2
     DEF Good, Sound, Using, Last, Reconnects, ERROR, OFFLINE
<1>5. CASE s.connection = None
  BY <1>2, <1>3, <1>5 DEF Deliberate
<1>6. CASE s.connection # None
  <2>. DEFINE u == CloseSocket(t, s.connection)
  <2>1. s.connection \in Con
    BY <1>0, <1>6 DEF State
  <2>2. t.con[s.connection] \in Accepted \cup {"closing"}
    BY <1>0, <1>2, <1>6 DEF Using
  <2>3. Good(u) /\ u.connection = None
    BY <1>2, <1>4, <2>1, CloseSocketLemma
  <2>4. ~u.on_purpose
    BY <1>4, <2>1, <2>2, CloseSocketTold
  <2>5. ~on_purpose => Told(u)
    <3>1. ~on_purpose => Told(t)
      BY <1>2, <1>6 DEF Told, OfflineTold, Deliberate
    <3>. QED  BY <1>2, <1>4, <2>1, <3>1, CloseSocketTold
  <2>6. new = [u EXCEPT !.last_connection = None, !.connection = None]
    BY <1>3, <1>6
  <2>. HIDE DEF u
  <2>7. /\ new.on_purpose = u.on_purpose /\ new.connected = u.connected
        /\ new.connection = None /\ new.shown = u.shown
        /\ new.time_to_reconnect = u.time_to_reconnect
    BY <2>3, <2>6 DEF Good, Sound, State
  <2>. QED  BY <1>6, <2>3, <2>4, <2>5, <2>7 DEF Told, OfflineTold, Deliberate
<1>. QED  BY <1>5, <1>6

\* Telling offline makes up for a disconnection on purpose.
LEMMA TellKeeps ==
    ASSUME NEW s \in State, NEW status
    PROVE  /\ Deliberate(s) => Deliberate(Tell(s, status))
           /\ Deliberate(s) => Told(Tell(s, "offline"))
           /\ Tell(s, status).shown = status
BY DEF State, Tell, Told, OfflineTold, Deliberate

\* The ways of giving up that tell offline leave the account shown offline,
LEMMA AbandonTold ==
    ASSUME NEW s, Sound(s)
    PROVE  /\ Told(OnDisconnected(s))
           /\ Told(Abandon(s))
           /\ Told(ConnectionLost(s))
<1>1. Told(Abandon(s)) /\ Told(ConnectionLost(s))
  <2>1. /\ Deliberate(Disconnect(s, TRUE)) /\ Disconnect(s, TRUE) \in State
        /\ Deliberate(Disconnect(s, FALSE)) /\ Disconnect(s, FALSE) \in State
    BY DisconnectTold, DisconnectLemma DEF Good, Sound
  <2>. QED  BY <2>1, TellKeeps DEF Abandon, ConnectionLost
<1>2. Told(OnDisconnected(s))
  <2>. DEFINE r == Tell(s, "offline")
  <2>1. Sound(r) /\ r.connection = s.connection /\ r.shown = "offline"
    BY ToldOffline, TellKeeps DEF Sound
  <2>2. OnDisconnected(s) = Disconnect(r, FALSE)
    BY DEF OnDisconnected
  <2>. HIDE DEF r
  <2>. QED  BY <2>1, <2>2, DisconnectTold DEF Told, OfflineTold
<1>. QED  BY <1>1, <1>2

\* _disconnectedReconnCB leaves an account that is shown rightly so,
LEMMA DisconnectedReconnCBTold ==
    ASSUME NEW s, Sound(s), Told(s)
    PROVE  Told(DisconnectedReconnCB(s))
<1>. DEFINE r == Remember(s)
<1>1. Sound(r) /\ r.connection = s.connection
  BY RememberLemma DEF Sound, Using, Last
<1>2. r.shown = s.shown
  BY DEF Remember, Sound, State
<1>. HIDE DEF r
<1>3. CASE s.on_purpose
  <2>. DEFINE d == Disconnect(r, FALSE)
              t == [d EXCEPT !.on_purpose = FALSE]
  <2>1. d \in State /\ d.connection = None /\ OfflineTold(d)
    <3>1. d \in State /\ d.connection = None
      BY <1>1, DisconnectLemma DEF Good, Sound, Drops
    <3>2. s.connection = None => d.shown = "offline"
      BY <1>1, <1>2, <1>3, DisconnectTold DEF Told, OfflineTold, Deliberate
    <3>3. s.connection # None => Told(d)
      BY <1>1, DisconnectTold
    <3>. QED  BY <3>1, <3>2, <3>3 DEF Told, OfflineTold
  <2>2. DisconnectedReconnCB(s) = t
    BY <1>3 DEF DisconnectedReconnCB, r
  <2>. HIDE DEF d
  <2>. QED  BY <2>1, <2>2 DEF State, Told, OfflineTold, Deliberate
<1>4. CASE ~s.on_purpose
  <2>. DEFINE u == Tell(r, "offline")
              d == Disconnect(u, FALSE)
  <2>1. Sound(u) /\ u.connection = r.connection /\ u.shown = "offline"
    BY <1>1, ToldOffline, TellKeeps DEF Sound
  <2>2. DisconnectedReconnCB(s) = AfterLoss(d)
    BY <1>4 DEF DisconnectedReconnCB, r
  <2>. HIDE DEF u
  <2>3. d \in State /\ d.connection = None
    BY <2>1, DisconnectLemma DEF Good, Sound, Drops
  <2>4. OfflineTold(d)
    BY <2>1, DisconnectTold DEF Told, OfflineTold
  <2>. QED  BY <2>2, <2>3, <2>4, AfterLossTold
<1>. QED  BY <1>3, <1>4

\* so does an attempt with no more hosts,
LEMMA GiveUpTold ==
    ASSUME NEW s, Good(s), s.connection = None, Told(s), NEW retry \in BOOLEAN
    PROVE  Told(GiveUp(s, retry))
<1>. DEFINE t == [s EXCEPT !.time_to_reconnect = FALSE]
<1>0. Sound(s) /\ s \in State
  BY DEF Good, Sound
<1>1. /\ t \in State /\ t.con = s.con /\ t.connection = None
      /\ t.last_connection = s.last_connection /\ Told(t)
      /\ t.connected = s.connected /\ t.retrycount = s.retrycount
  BY <1>0 DEF State, Told, OfflineTold, Deliberate
<1>2. Sound(t)
  BY <1>0, <1>1 DEF Sound, Using, Last
<1>. HIDE DEF t
<1>3. CASE retry \/ s.retrycount # 0
  BY <1>0, <1>3, DisconnectedReconnCBTold DEF GiveUp
<1>4. CASE ~retry /\ s.retrycount = 0 /\ s.on_connect_failure
  <2>. DEFINE f == ConnectFailure(t)
  <2>1. Told(f) /\ f \in State
    <3>1. Told(Abandon(t)) /\ Abandon(t) \in State
      BY <1>2, AbandonTold, AbandonLemma DEF Good, Sound
    <3>. QED  BY <1>1, <3>1 DEF ConnectFailure
  <2>2. GiveUp(s, retry) = [f EXCEPT !.on_connect_failure = FALSE]
    BY <1>4 DEF GiveUp, t
  <2>. HIDE DEF f
  <2>. QED  BY <2>1, <2>2 DEF State, Told, OfflineTold, Deliberate
<1>5. CASE ~retry /\ s.retrycount = 0 /\ ~s.on_connect_failure
  <2>1. GiveUp(s, retry) = ConnectionLost(t)
    BY <1>5 DEF GiveUp, t
  <2>. QED  BY <1>2, <2>1, AbandonTold
<1>. QED  BY <1>3, <1>4, <1>5

\* so does trying hosts,
LEMMA NextAttemptTold ==
    ASSUME NEW s, Good(s), NEW retry \in BOOLEAN, NEW fail \in 0 .. MaxAttempts,
           s.attempts = 0 => s.connection = None, Told(s)
    PROVE  Told(NextAttempt(s, retry, fail))
<1>. DEFINE old == IF s.last_connection = None THEN s
                   ELSE CloseSocket(s, s.last_connection)
            dropped == [old EXCEPT !.last_connection = None,
                                   !.connection = None]
            new == Fresh(dropped)
            given == [dropped EXCEPT !.attempts = 0]
            next == [dropped EXCEPT !.attempts = s.attempts - fail - 1,
                                    !.con[new] = "opening",
                                    !.last_connection = new]
<1>0. Sound(s) /\ Last(s) /\ Using(s) /\ s \in State /\ None \notin Con
  BY ConnectionAssumption DEF Good, Sound
<1>1. /\ Good(old) /\ Told(old) /\ old.connection = None
      /\ \A c \in Con : old.con[c] \notin Open
  <2>1. CASE s.last_connection = None
    <3>1. s.connection = None
      BY <1>0, <2>1 DEF Using, State
    <3>. QED  BY <1>0, <2>1, <3>1 DEF Last
  <2>2. CASE s.last_connection # None
    <3>1. s.last_connection \in Con /\ s.connection \in {None, s.last_connection}
      BY <1>0, <2>2 DEF State, Using
    <3>2. /\ Good(old) /\ old.connection = None
          /\ old.con = [s.con EXCEPT ![s.last_connection] = "closed"]
      BY <2>2, <3>1, CloseSocketLemma
    <3>3. Told(old)
      BY <2>2, <3>1, CloseSocketStillTold
    <3>4. \A c \in Con : old.con[c] \notin Open
      BY <1>0, <3>1, <3>2
         DEF Last, State, Open, Asked, Accepted, Established
    <3>. QED  BY <3>2, <3>3, <3>4
  <2>. QED  BY <2>1, <2>2
<1>. HIDE DEF old
<1>2. /\ dropped \in State /\ dropped.connection = None
      /\ dropped.last_connection = None /\ dropped.con = old.con
      /\ Reconnects(dropped) /\ Told(dropped)
  BY <1>1 DEF Good, Sound, State, Reconnects, Told, OfflineTold, Deliberate
<1>. HIDE DEF dropped
<1>4. CASE s.attempts = 0
  BY <1>4, GiveUpTold DEF NextAttempt
<1>5. CASE s.attempts # 0 /\ fail >= s.attempts
  <2>1. /\ given \in State /\ given.con = old.con /\ given.connection = None
        /\ Reconnects(given) /\ Told(given)
    BY <1>2, ConnectionAssumption
       DEF State, Reconnects, Told, OfflineTold, Deliberate
  <2>2. Good(given)
    BY <1>1, <2>1 DEF Good, Sound, Using, Last
  <2>3. NextAttempt(s, retry, fail) = GiveUp(given, FALSE)
    BY <1>5 DEF NextAttempt, dropped, old
  <2>. HIDE DEF given
  <2>. QED  BY <2>1, <2>2, <2>3, GiveUpTold
<1>6. CASE s.attempts # 0 /\ ~(fail >= s.attempts)
  <2>1. Told(next)
    BY <1>2 DEF State, Told, OfflineTold, Deliberate
  <2>2. NextAttempt(s, retry, fail) = next
    BY <1>6 DEF NextAttempt, dropped, old
  <2>. QED  BY <2>1, <2>2
<1>. QED  BY <1>4, <1>5, <1>6

\* and so does the answer of a lookup.
LEMMA OnResolveTold ==
    ASSUME NEW s, Good(s), NEW a \in Answer, Told(s)
    PROVE  Told(OnResolve(s, a))
<1>. DEFINE t == [s EXCEPT !.attempts = a.hosts]
<1>0. /\ Sound(s) /\ s \in State /\ Reconnects(s)
      /\ a.hosts \in 1 .. MaxAttempts /\ a.fail \in 0 .. MaxAttempts
      /\ MaxAttempts \in Nat
  BY ConnectionAssumption DEF Good, Sound, Answer
<1>1. /\ t \in State /\ t.con = s.con /\ t.connection = s.connection
      /\ t.last_connection = s.last_connection /\ Reconnects(t)
      /\ t.attempts # 0 /\ Told(t)
  BY <1>0 DEF State, Reconnects, Told, OfflineTold, Deliberate
<1>2. OnResolve(s, a) = NextAttempt(t, FALSE, a.fail)
  BY DEF OnResolve
<1>. HIDE DEF t
<1>3. Good(t)
  BY <1>0, <1>1, SameClients
<1>. QED  BY <1>0, <1>1, <1>2, <1>3, NextAttemptTold

-----------------------------------------------------------------------------
(* The invariant.                                                          *)

\* Nobody is asked whether a plain connection will do, or for a passphrase,
\* and nobody goes invisible: the answers to these come too late.
Plain == ~AskPlain /\ ~AskPassphrase /\ "invisible" \notin Shows

\* What a login waits for
Begun(s) ==
    /\ s.resolving > 0 => ~s.resolved /\ s.on_connect_auth
    /\ ~s.resolved => \A c \in Con : s.con[c] = "closed"
    /\ \A c \in Con :
          /\ s.con[c] \in {"opening", "asking", "auth"} => s.on_connect_auth
          /\ s.con[c] = "auth" => s.connection = c

UnderWay(s) ==
    /\ s.connected = CONNECTING =>
          \/ s.resolving > 0
          \/ \E c \in Con : s.con[c] \in {"opening", "asking", "auth", "closing"}
    /\ \A c \in Con :
          /\ s.con[c] \in Established => s.connection = c /\ s.connected >= 2
          /\ s.con[c] = "detached" => s.connection = None

Online(s) ==
    /\ s.connected # 7
    /\ s.old_show = "online"
    /\ s.continue_connect_info # "invisible"
    /\ ~s.invisible_asked
    /\ ~s.passphrase_asked

Session(s) ==
    /\ s.connected >= 2 => s.connection # None /\ s.con[s.connection] \in Established
    /\ \A c \in Con : /\ s.con[c] = "auth" => s.connected # OFFLINE
                      /\ s.con[c] # "asking"
    /\ Online(s)

Honest(s) ==
    /\ Begun(s)
    /\ ~OddErrors => UnderWay(s)
    /\ Plain => Session(s) /\ Told(s)

\* Honest reads no more of the account than these fields.
LEMMA SameHonest ==
    ASSUME NEW s, Honest(s), NEW t, t.con = s.con, t.connection = s.connection,
           t.connected = s.connected, t.on_connect_auth = s.on_connect_auth,
           t.resolving = s.resolving, t.resolved = s.resolved,
           t.continue_connect_info = s.continue_connect_info,
           t.passphrase_asked = s.passphrase_asked,
           t.invisible_asked = s.invisible_asked, t.old_show = s.old_show,
           Plain => Told(t)
    PROVE  Honest(t)
BY DEF Honest, Begun, UnderWay, Session, Online

\* There is one client at most.
LEMMA OnlyOne ==
    ASSUME NEW s, Good(s), NEW c \in Con, s.con[c] \in Open
    PROVE  /\ \A d \in Con : d # c => s.con[d] \notin Open
           /\ s.connection \in {None, c} /\ s.last_connection = c
           /\ s.con[c] \notin Accepted \cup {"closing"} => s.connection = None
BY DEF Good, Sound, Using, Last, State

\* With a client that is not closed the lookups are over.
LEMMA HasResolved ==
    ASSUME NEW s \in State, Begun(s), NEW c \in Con, s.con[c] # "closed"
    PROVE  s.resolved /\ s.resolving = 0
<1>1. s.resolving \in 0 .. MaxResolving /\ s.resolved \in BOOLEAN
  BY DEF State
<1>2. MaxResolving \in Nat
  BY ConnectionAssumption
<1>. QED  BY <1>1, <1>2 DEF Begun

\* Giving up, told rightly, leaves an honest account: no login is under way
\* and none is claimed.
LEMMA GivesUpHonest ==
    ASSUME NEW s \in State, Honest(s), NEW t \in State, GivesUp(s, t),
           Plain => Told(t)
    PROVE  Honest(t)
<1>1. Begun(t)
  <2>1. \A c \in Con : t.con[c] = "auth" => t.connection = c
    <3>. SUFFICES ASSUME NEW c \in Con, t.con[c] = "auth" PROVE FALSE
      OBVIOUS
    <3>1. s.con[c] = "auth" /\ s.connection = c
      BY DEF Honest, Begun, GivesUp, Closes
    <3>. QED  BY <3>1, ConnectionAssumption DEF GivesUp, Drops, Open, Accepted
  <2>. QED  BY <2>1 DEF Honest, Begun, GivesUp, Same, Closes
<1>2. ASSUME ~OddErrors PROVE UnderWay(t)
  <2>1. \A c \in Con : t.con[c] \notin Established
    <3>. SUFFICES ASSUME NEW c \in Con, t.con[c] \in Established PROVE FALSE
      OBVIOUS
    <3>1. s.con[c] \in Established
      BY DEF GivesUp, Closes, Established
    <3>2. s.connection = c
      BY <1>2, <3>1 DEF Honest, UnderWay
    <3>. QED  BY <3>2, ConnectionAssumption DEF GivesUp, Drops, Open, Accepted
  <2>. QED  BY <2>1 DEF UnderWay, GivesUp, Drops, Idle, ERROR, OFFLINE, CONNECTING
<1>3. ASSUME Plain PROVE Session(t)
  <2>1. \A c \in Con : t.con[c] # "auth"
    BY <1>1, ConnectionAssumption DEF Begun, GivesUp, Drops
  <2>2. \A c \in Con : t.con[c] # "asking"
    BY <1>3 DEF Honest, Session, GivesUp, Closes
  <2>3. t.connected \in {ERROR, OFFLINE} /\ ~(t.connected >= 2)
    BY DEF GivesUp, Idle, ERROR, OFFLINE
  <2>4. t.connected # 7 /\ t.old_show = "online"
    <3>1. s.connected # 7 /\ s.old_show = "online" /\ t.old_show \in {"online", "invisible"}
      BY <1>3 DEF Honest, Session, Online, State
    <3>. QED  BY <1>3, <3>1 DEF GivesUp, Same
  <2>. QED  BY <1>3, <2>1, <2>2, <2>3, <2>4
            DEF Honest, Session, Online, GivesUp, Same
<1>. QED  BY <1>1, <1>2, <1>3 DEF Honest

\* An attempt made from a state in which nothing is in use, or after which the
\* account is given up
LEMMA AttemptedHonest ==
    ASSUME NEW s \in State, s.resolved, s.resolving = 0, s.on_connect_auth,
           NEW t \in State, Attempted(s, t),
           Plain => Online(s) /\ (s.connected >= 2 => s.connection # None),
           Plain => Told(t)
    PROVE  Honest(t)
<1>0. /\ t.resolved /\ t.resolving = 0 /\ t.on_connect_auth
      /\ t.connection = None /\ t.con \in [Con -> Phase]
  BY DEF Attempted, Same, State
<1>1. \A c \in Con : t.con[c] \notin Asked \cup Accepted
  BY DEF Attempted, OnlyOpening, Open, Asked, Accepted, Established
<1>2. Begun(t)
  BY <1>0, <1>1 DEF Begun, Accepted
<1>3. UnderWay(t)
  <2>1. t.connected = CONNECTING => \E c \in Con : t.con[c] = "opening"
    BY DEF Attempted, Idle, ERROR, OFFLINE, CONNECTING
  <2>. QED  BY <1>0, <1>1, <2>1 DEF UnderWay, Accepted
<1>4. ASSUME Plain PROVE Session(t)
  <2>1. ~(t.connected >= 2)
    <3>1. CASE Idle(t)
      BY <3>1 DEF Idle, ERROR, OFFLINE
    <3>2. CASE ~Idle(t)
      BY <1>4, <3>2 DEF Attempted
    <3>. QED  BY <3>1, <3>2
  <2>2. Online(t)
    <3>1. t.old_show \in {"online", "invisible"}
      BY DEF State
    <3>. QED  BY <1>4, <3>1 DEF Online, Attempted, Same
  <2>. QED  BY <1>1, <2>1, <2>2 DEF Session, Asked, Accepted
<1>. QED  BY <1>2, <1>3, <1>4 DEF Honest

\* connect() waits for the resolver, or for a client that it opens.
LEMMA ConnectHonest ==
    ASSUME NEW s, Good(s), Begun(s), NEW a \in Answer, s.on_connect_auth,
           s.connected < 2, s.connection # None => Honest(s),
           Plain => Online(s) /\ ~s.on_purpose
    PROVE  Honest(Connect(s, a))
<1>. DEFINE t == [s EXCEPT !.connected = CONNECTING]
            n == IF s.resolving < MaxResolving THEN s.resolving + 1
                 ELSE s.resolving
            w == [s EXCEPT !.connected = CONNECTING, !.resolving = n]
<1>0. Sound(s) /\ s \in State
  BY DEF Good, Sound
<1>1. /\ t \in State /\ t.con = s.con /\ t.connection = s.connection
      /\ t.last_connection = s.last_connection /\ t.connected = CONNECTING
      /\ t.on_connect_auth = s.on_connect_auth /\ t.resolved = s.resolved
      /\ t.resolving = s.resolving /\ t.on_purpose = s.on_purpose
  BY <1>0 DEF State, CONNECTING
<1>5. Online(s) => Online(t)
  BY <1>0 DEF State, Online, CONNECTING
<1>2. CASE s.connection # None
  BY <1>2 DEF Connect
<1>3. CASE s.connection = None /\ ~s.resolved
  <2>1. n \in 0 .. MaxResolving /\ n > 0
    <3>1. s.resolving \in 0 .. MaxResolving
      BY <1>0 DEF State
    <3>2. MaxResolving \in Nat /\ MaxResolving > 0
      BY ConnectionAssumption
    <3>. QED  BY <3>1, <3>2
  <2>2. Connect(s, a) = w
    BY <1>3 DEF Connect
  <2>. HIDE DEF n
  <2>3. /\ w.con = s.con /\ w.connected = CONNECTING /\ w.resolving > 0
        /\ w.on_connect_auth /\ ~w.resolved /\ w.on_purpose = s.on_purpose
    BY <1>0, <1>3, <2>1 DEF State, CONNECTING
  <2>8. Online(s) => Online(w)
    BY <1>0, <2>1 DEF State, Online, CONNECTING
  <2>. HIDE DEF w
  <2>4. \A c \in Con : w.con[c] = "closed"
    BY <1>3, <2>3 DEF Begun
  <2>5. Begun(w)
    BY <2>3, <2>4 DEF Begun
  <2>6. UnderWay(w)
    BY <2>3, <2>4 DEF UnderWay, Established
  <2>7. ASSUME Plain PROVE Session(w) /\ Told(w)
    BY <2>3, <2>4, <2>7, <2>8
       DEF Session, Told, OfflineTold, Deliberate, CONNECTING, OFFLINE
  <2>. QED  BY <2>2, <2>5, <2>6, <2>7 DEF Honest
<1>4. CASE s.connection = None /\ s.resolved
  <2>1. Connect(s, a) = OnResolve(t, a)
    BY <1>4 DEF Connect
  <2>. HIDE DEF t
  <2>2. Good(t)
    BY <1>0, <1>1, SameClients DEF Reconnects, ERROR, CONNECTING
  <2>3. Plain => Told(t)
    BY <1>1 DEF Told, OfflineTold, Deliberate, CONNECTING, OFFLINE
  <2>5. OnResolve(t, a) \in State
    BY <2>2, OnResolveLemma DEF Good, Sound
  <2>6. t.resolving = 0 /\ t.resolved /\ t.on_connect_auth
    <3>1. s.resolving \in 0 .. MaxResolving
      BY <1>0 DEF State
    <3>2. MaxResolving \in Nat
      BY ConnectionAssumption
    <3>. QED  BY <1>1, <1>4, <3>1, <3>2 DEF Begun
  <2>7. ~(t.connected >= 2)
    BY <1>1 DEF CONNECTING
  <2>8. Attempted(t, OnResolve(t, a))
    BY <2>2, OnResolveAttempted
  <2>9. Plain => Told(OnResolve(t, a))
    BY <2>2, <2>3, OnResolveTold
  <2>. QED  BY <1>1, <1>5, <2>1, <2>5, <2>6, <2>7, <2>8, <2>9, AttemptedHonest
<1>. QED  BY <1>2, <1>3, <1>4

\* connect_and_init sets the continuation before it connects.
LEMMA ConnectAndInitHonest ==
    ASSUME NEW s, Good(s), Begun(s), NEW a \in Answer, s.connected < 2,
           NEW show \in {"online", "invisible"}, Plain => show = "online",
           s.connection # None => Honest(s),
           Plain => Online(s) /\ ~s.on_purpose
    PROVE  Honest(ConnectAndInit(s, show, a))
<1>. DEFINE t == [s EXCEPT !.continue_connect_info = show,
                           !.on_connect_auth = TRUE,
                           !.on_connect_failure = TRUE]
<1>0. Sound(s) /\ s \in State /\ Reconnects(s)
  BY DEF Good, Sound
<1>1. /\ t \in State /\ t.con = s.con /\ t.connection = s.connection
      /\ t.last_connection = s.last_connection /\ Reconnects(t)
      /\ t.connected = s.connected /\ t.on_connect_auth
      /\ t.resolved = s.resolved /\ t.resolving = s.resolving
      /\ t.on_purpose = s.on_purpose /\ t.shown = s.shown
      /\ t.time_to_reconnect = s.time_to_reconnect
  BY <1>0 DEF State, Reconnects
<1>2. Plain => Online(t)
  BY <1>0 DEF State, Online
<1>3. ConnectAndInit(s, show, a) = Connect(t, a)
  BY DEF ConnectAndInit
<1>. HIDE DEF t
<1>4. Good(t)
  BY <1>0, <1>1, SameClients
<1>5. Begun(t)
  BY <1>1 DEF Begun
<1>6. s.connection # None => Honest(t)
  BY <1>1, <1>2, <1>5
     DEF Honest, UnderWay, Session, Told, OfflineTold, Deliberate
<1>. QED  BY <1>1, <1>2, <1>3, <1>4, <1>5, <1>6, ConnectHonest

\* An account that is connecting with a client in use waits for the end of the
\* authentication, or of the client.
LEMMA ReconnectHonest ==
    ASSUME NEW s, Sound(s), Honest(s), s.time_to_reconnect, NEW a \in Answer
    PROVE  Honest(Reconnect(s, a))
<1>. DEFINE n == IF s.retrycount = 1 THEN 2 ELSE 1
            u == [s EXCEPT !.time_to_reconnect = FALSE,
                           !.connected = CONNECTING, !.shown = "connecting",
                           !.retrycount = n]
            v == [s EXCEPT !.time_to_reconnect = FALSE, !.retrycount = 0]
<1>0. s \in State /\ Using(s) /\ None \notin Con
  BY ConnectionAssumption DEF Sound
<1>1. Plain => ~s.on_purpose
  BY DEF Honest, Told, Deliberate
<1>4. s.connected \in Int
  BY <1>0 DEF State, ERROR, OFFLINE, CONNECTING
<1>2. CASE s.connected < 2
  <2>0. n \in {0, 1, 2}
    OBVIOUS
  <2>1. /\ u \in State /\ u.con = s.con /\ u.connection = s.connection
        /\ u.last_connection = s.last_connection /\ u.connected = CONNECTING
        /\ u.on_connect_auth = s.on_connect_auth /\ u.resolved = s.resolved
        /\ u.resolving = s.resolving /\ u.on_purpose = s.on_purpose
    <3>. HIDE DEF n
    <3>1. u \in State
      BY <1>0, <2>0 DEF State
    <3>. QED  BY <1>0, <3>1 DEF State
  <2>10. Online(s) => Online(u)
    <3>. HIDE DEF n
    <3>. QED  BY <1>0, <2>0 DEF State, Online, CONNECTING
  <2>2. Reconnect(s, a) = ConnectAndInit(u, s.old_show, a)
    BY <1>2 DEF Reconnect
  <2>3. s.old_show \in {"online", "invisible"}
    BY <1>0 DEF State
  <2>. HIDE DEF u
  <2>4. Good(u)
    BY <2>1, SameClients DEF Reconnects, ERROR, CONNECTING
  <2>5. Begun(u)
    BY <2>1 DEF Honest, Begun
  <2>6. ASSUME ~OddErrors, s.connection # None PROVE UnderWay(u)
    <3>1. s.con[s.connection] \in {"auth", "closing"} /\ s.connection \in Con
      <4>1. s.connection \in Con
        BY <1>0, <2>6 DEF State
      <4>2. /\ s.con[s.connection] \notin Established
            /\ s.con[s.connection] # "detached"
        <5>1. s.con[s.connection] \in Established => s.connected >= 2
          BY <2>6, <4>1 DEF Honest, UnderWay
        <5>2. s.con[s.connection] # "detached"
          BY <2>6, <4>1 DEF Honest, UnderWay
        <5>. QED  BY <1>2, <1>4, <5>1, <5>2
      <4>. QED  BY <1>0, <2>6, <4>1, <4>2 DEF Using, Accepted
    <3>2. ASSUME NEW c \in Con PROVE s.con[c] \notin Established
      <4>1. s.con[c] \in Established => s.connected >= 2
        BY <2>6 DEF Honest, UnderWay
      <4>. QED  BY <1>2, <1>4, <4>1
    <3>. QED  BY <2>1, <2>6, <3>1, <3>2 DEF Honest, UnderWay
  <2>7. ASSUME Plain PROVE Session(u) /\ Told(u)
    BY <1>1, <2>1, <2>7, <2>10 DEF Honest, Session, Told, OfflineTold, Deliberate,
                            OFFLINE, CONNECTING
  <2>8. s.connection # None => Honest(u)
    BY <2>5, <2>6, <2>7 DEF Honest
  <2>9. Plain => s.old_show = "online" /\ Online(u)
    BY <2>10 DEF Honest, Session, Online
  <2>. QED  BY <1>1, <2>1, <2>2, <2>3, <2>4, <2>5, <2>8, <2>9,
               ConnectAndInitHonest DEF CONNECTING
<1>3. CASE ~(s.connected < 2)
  <2>1. Reconnect(s, a) = v
    BY <1>3 DEF Reconnect
  <2>2. Plain => Told(v)
    BY <1>0 DEF State, Honest, Told, OfflineTold, Deliberate
  <2>3. /\ v.con = s.con /\ v.connection = s.connection
        /\ v.connected = s.connected /\ v.on_connect_auth = s.on_connect_auth
        /\ v.resolving = s.resolving /\ v.resolved = s.resolved
        /\ v.continue_connect_info = s.continue_connect_info
        /\ v.passphrase_asked = s.passphrase_asked
        /\ v.invisible_asked = s.invisible_asked /\ v.old_show = s.old_show
    BY <1>0 DEF State
  <2>. HIDE DEF v
  <2>. QED  BY <2>1, <2>2, <2>3, SameHonest
<1>. QED  BY <1>2, <1>3

-----------------------------------------------------------------------------
(* What the callbacks do.                                                  *)

\* Only a client that is opening may be closed without giving up the account,
\* and whoever closes it makes another attempt, or reports an odd error.
LEMMA CloseSocketHonest ==
    ASSUME NEW s, Good(s), Honest(s), NEW c \in Con,
           s.con[c] # "opening" \/ OddErrors
    PROVE  Honest(CloseSocket(s, c))
<1>. DEFINE t == CloseSocket(s, c)
            closed == SocketClosed(s, c)
<1>0. s \in State /\ Using(s) /\ None \notin Con /\ s.con \in [Con -> Phase]
  BY ConnectionAssumption DEF Good, Sound, State
<1>1. /\ t \in State /\ t.con = [s.con EXCEPT ![c] = "closed"]
      /\ Same(s, t) /\ Closes(s, t)
      /\ Plain => Told(t)
      /\ s.connection \in {None, c} => t.connection = None
  BY <1>0, CloseSocketLemma, CloseSocketSame, CloseSocketStillTold
     DEF Good, Sound, Honest
<1>2. CASE s.con[c] \in Asked \cup Accepted \cup {"closing"}
  <2>1. Idle(t)
    BY <1>0, <1>2, CloseSocketSame
  <2>2. s.con[c] \in Open /\ "closed" \notin Open
    BY <1>2 DEF Open, Asked, Accepted, Established
  <2>3. t.connection = None /\ \A d \in Con : t.con[d] \notin Open
    BY <1>0, <1>1, <2>2, OnlyOne
  <2>. HIDE DEF t
  <2>4. Begun(t)
    BY <1>1, <2>3 DEF Honest, Begun, Same, Closes, Open, Asked, Accepted
  <2>5. UnderWay(t)
    BY <2>1, <2>3 DEF UnderWay, Idle, Open, Accepted, ERROR, OFFLINE, CONNECTING
  <2>6. ASSUME Plain PROVE Session(t)
    <3>1. ~(t.connected >= 2) /\ t.connected # 7
      BY <2>1 DEF Idle, ERROR, OFFLINE
    <3>2. \A d \in Con : t.con[d] \notin {"auth", "asking"}
      BY <2>3 DEF Open, Asked, Accepted
    <3>3. t.old_show \in {"online", "invisible"}
      BY <1>1 DEF State
    <3>. QED  BY <1>1, <2>6, <3>1, <3>2, <3>3
              DEF Honest, Session, Online, Same
  <2>. QED  BY <1>1, <2>4, <2>5, <2>6 DEF Honest, t
<1>3. CASE s.con[c] \notin Asked \cup Accepted \cup {"closing"}
  <2>1. t = closed
    BY <1>3 DEF CloseSocket, Accepted, Asked, Established
  <2>. DEFINE q == s.stale_question \/ s.con[c] = "asking"
              i == s.invisible_asked /\ s.con[c] \notin Established
  <2>2. closed = [s EXCEPT !.con[c] = "closed", !.stale_question = q,
                           !.invisible_asked = i]
    BY DEF SocketClosed
  <2>. HIDE DEF q, i, closed
  <2>3. /\ t.connection = s.connection /\ t.connected = s.connected
        /\ t.old_show = s.old_show /\ t.resolving = s.resolving
    BY <1>0, <2>1, <2>2 DEF State
  <2>. HIDE DEF t
  <2>4. \A d \in Con : t.con[d] # "closed" => d # c /\ t.con[d] = s.con[d]
    BY <1>0, <1>1
  <2>5. Begun(t)
    BY <1>1, <2>3, <2>4 DEF Honest, Begun, Same
  <2>6. ASSUME ~OddErrors PROVE UnderWay(t)
    <3>1. s.connected = CONNECTING =>
             \/ s.resolving > 0
             \/ \E d \in Con : s.con[d] \in {"opening", "asking", "auth", "closing"}
      BY <2>6 DEF Honest, UnderWay
    <3>2. \A d \in Con : s.con[d] \in {"opening", "asking", "auth", "closing"}
                           => t.con[d] = s.con[d]
      BY <1>0, <1>1, <1>3, <2>6 DEF Asked, Accepted
    <3>3. t.connected = CONNECTING =>
             \/ t.resolving > 0
             \/ \E d \in Con : t.con[d] \in {"opening", "asking", "auth", "closing"}
      BY <2>3, <3>1, <3>2
    <3>4. \A d \in Con :
             /\ t.con[d] \in Established => t.connection = d /\ t.connected >= 2
             /\ t.con[d] = "detached" => t.connection = None
      BY <2>3, <2>4, <2>6 DEF Honest, UnderWay, Established
    <3>. QED  BY <3>3, <3>4 DEF UnderWay
  <2>7. ASSUME Plain PROVE Session(t)
    <3>1. s.connection # None =>
             s.connection \in Con /\ t.con[s.connection] = s.con[s.connection]
      <4>1. s.connection # c
        BY <1>0, <1>3 DEF Using
      <4>. QED  BY <1>0, <1>1, <4>1 DEF State
    <3>2. Online(t)
      BY <1>1, <2>3, <2>7 DEF Honest, Session, Online, Same
    <3>3. t.connected >= 2 => /\ t.connection # None
                              /\ t.con[t.connection] \in Established
      BY <2>3, <2>7, <3>1 DEF Honest, Session
    <3>4. \A d \in Con : /\ t.con[d] = "auth" => t.connected # OFFLINE
                         /\ t.con[d] # "asking"
      BY <2>3, <2>4, <2>7 DEF Honest, Session
    <3>. QED  BY <3>2, <3>3, <3>4 DEF Session
  <2>. QED  BY <1>1, <2>5, <2>6, <2>7 DEF Honest, t
<1>. QED  BY <1>2, <1>3

\* An accepted connection is the connection, and its authentication goes
\* on.
LEMMA ConnectionAcceptedHonest ==
    ASSUME NEW s, Good(s), Honest(s), NEW c \in Con,
           s.con[c] \in {"opening", "asking"}, Plain => s.connected # OFFLINE
    PROVE  Honest(ConnectionAccepted(s, c))
<1>. DEFINE t == [s EXCEPT !.on_connect_failure = FALSE, !.connection = c,
                           !.con[c] = "auth"]
<1>0. s \in State /\ s.con \in [Con -> Phase]
  BY DEF Good, Sound, State
<1>1. /\ s.con[c] \in Open
      /\ s.con[c] \notin Accepted \cup {"closing"}
  BY DEF Open, Asked, Accepted, Established
<1>2. /\ s.connection = None /\ \A d \in Con : d # c => s.con[d] \notin Open
      /\ s.resolved /\ s.resolving = 0 /\ s.on_connect_auth
  BY <1>0, <1>1, OnlyOne, HasResolved DEF Honest, Begun
<1>3. ConnectionAccepted(s, c) = t
  BY <1>1 DEF ConnectionAccepted
<1>4. /\ t.con = [s.con EXCEPT ![c] = "auth"] /\ t.connection = c
      /\ t.connected = s.connected /\ t.resolved = s.resolved
      /\ t.resolving = s.resolving /\ t.on_connect_auth = s.on_connect_auth
      /\ t.on_purpose = s.on_purpose
  BY <1>0 DEF State
<1>5. Online(s) => Online(t)
  BY <1>0 DEF State, Online
<1>. HIDE DEF t
<1>6. t.con[c] = "auth" /\ \A d \in Con : d # c => t.con[d] \notin Open
  BY <1>0, <1>2, <1>4
<1>7. Begun(t)
  BY <1>2, <1>4, <1>6 DEF Begun, Open, Asked, Accepted
<1>8. UnderWay(t)
  BY <1>6 DEF UnderWay, Open, Accepted, Established
<1>9. ASSUME Plain PROVE Session(t) /\ Told(t)
  <2>1. t.connected # OFFLINE /\ ~(t.connected >= 2) /\ ~t.on_purpose
    BY <1>2, <1>4, <1>9 DEF Honest, Session, Told, Deliberate
  <2>2. \A d \in Con : t.con[d] # "asking"
    BY <1>6 DEF Open, Asked
  <2>3. Online(t)
    BY <1>5, <1>9 DEF Honest, Session
  <2>. QED  BY <2>1, <2>2, <2>3 DEF Session, Told, OfflineTold, Deliberate
<1>. QED  BY <1>3, <1>7, <1>8, <1>9 DEF Honest

\* An account that goes offline while its stream closes claims nothing.
LEMMA ClosingHonest ==
    ASSUME NEW s, Good(s), NEW c \in Con, s.connection = c,
           s.con[c] = "closing", s.connected = OFFLINE, ~s.time_to_reconnect,
           s.resolved, s.resolving = 0, Plain => Online(s)
    PROVE  Honest(s)
<1>1. /\ s.con[c] \in Open /\ None \notin Con
      /\ s.con[c] \notin Asked \cup Accepted
  BY ConnectionAssumption DEF Open, Asked, Accepted, Established
<1>2. \A d \in Con : s.con[d] \notin Asked \cup Accepted \cup {"opening"}
  BY <1>1, OnlyOne DEF Open
<1>3. Begun(s)
  BY <1>2 DEF Begun, Asked, Accepted
<1>4. UnderWay(s)
  BY <1>2 DEF UnderWay, Accepted, OFFLINE, CONNECTING
<1>5. ASSUME Plain PROVE Session(s) /\ Told(s)
  BY <1>1, <1>2, <1>5
     DEF Session, Told, OfflineTold, Deliberate, Asked, Accepted, OFFLINE
<1>. QED  BY <1>3, <1>4, <1>5 DEF Honest

\* A client closed inside start_disconnect, whose state is then set back to
\* -1, claims nothing: the account has forgotten it.
LEMMA ZombieHonest ==
    ASSUME NEW s, Good(s), Honest(s), s.connection = None, s.resolved,
           NEW c \in Con, s.con[c] = "closed"
    PROVE  Honest([s EXCEPT !.con[c] = "zombie"])
<1>. DEFINE t == [s EXCEPT !.con[c] = "zombie"]
<1>0. s \in State /\ s.con \in [Con -> Phase]
  BY DEF Good, Sound, State
<1>1. /\ t.con = [s.con EXCEPT ![c] = "zombie"] /\ t.connection = None
      /\ t.connected = s.connected /\ t.resolved = s.resolved
      /\ t.resolving = s.resolving /\ t.on_connect_auth = s.on_connect_auth
      /\ t.on_purpose = s.on_purpose /\ t.shown = s.shown
      /\ t.time_to_reconnect = s.time_to_reconnect
  BY <1>0 DEF State
<1>2. Online(s) => Online(t)
  BY <1>0 DEF State, Online
<1>. HIDE DEF t
<1>3. \A d \in Con : d # c => t.con[d] = s.con[d]
  BY <1>0, <1>1
<1>4. t.con[c] = "zombie"
  BY <1>0, <1>1
<1>5. Begun(t)
  BY <1>1, <1>3, <1>4 DEF Honest, Begun
<1>6. ASSUME ~OddErrors PROVE UnderWay(t)
  <2>1. s.connected = CONNECTING =>
           \/ s.resolving > 0
           \/ \E d \in Con : s.con[d] \in {"opening", "asking", "auth", "closing"}
    BY <1>6 DEF Honest, UnderWay
  <2>2. \A d \in Con : /\ s.con[d] \in Established => s.connection = d /\ s.connected >= 2
                       /\ s.con[d] = "detached" => s.connection = None
    BY <1>6 DEF Honest, UnderWay
  <2>3. \A d \in Con : s.con[d] \in {"opening", "asking", "auth", "closing"}
                        => t.con[d] = s.con[d]
    BY <1>3
  <2>4. t.connected = CONNECTING =>
           \/ t.resolving > 0
           \/ \E d \in Con : t.con[d] \in {"opening", "asking", "auth", "closing"}
    BY <1>1, <2>1, <2>3
  <2>5. \A d \in Con : /\ t.con[d] \in Established => t.connection = d /\ t.connected >= 2
                       /\ t.con[d] = "detached" => t.connection = None
    BY <1>1, <1>3, <1>4, <2>2 DEF Established
  <2>. QED  BY <2>4, <2>5 DEF UnderWay
<1>7. ASSUME Plain PROVE Session(t) /\ Told(t)
  BY <1>1, <1>2, <1>3, <1>4, <1>7
     DEF Honest, Session, Told, OfflineTold, Deliberate
<1>. QED  BY <1>5, <1>6, <1>7 DEF Honest, t

\* Going offline: the stream is ended, or is lost at once.
LEMMA StartDisconnectHonest ==
    ASSUME NEW s, Good(s), Begun(s), NEW c \in Con, s.connection = c,
           s.connected = OFFLINE, ~s.time_to_reconnect, NEW fails \in BOOLEAN,
           Plain => Online(s)
    PROVE  Honest(StartDisconnect(s, c, fails))
<1>. DEFINE t == [s EXCEPT !.con[c] = "closing"]
<1>0. /\ Sound(s) /\ Using(s) /\ s \in State /\ Reconnects(s)
      /\ None \notin Con /\ s.last_connection = c /\ s.con \in [Con -> Phase]
  BY ConnectionAssumption DEF Good, Sound, Using, State
<1>1. s.con[c] # "closed"
  BY <1>0 DEF Using, Accepted, Established
<1>2. s.resolved /\ s.resolving = 0
  BY <1>0, <1>1, HasResolved
<1>3. /\ t \in State /\ t.con = [s.con EXCEPT ![c] = "closing"]
      /\ t.connection = c /\ t.last_connection = c /\ Reconnects(t)
      /\ t.connected = OFFLINE /\ ~t.time_to_reconnect
      /\ t.resolved /\ t.resolving = 0
  BY <1>0, <1>2 DEF State, Phase, Open, Reconnects
<1>4. Plain => Online(t)
  BY <1>0 DEF State, Online
<1>. HIDE DEF t
<1>5. Good(t)
  BY <1>0, <1>3, SetPhase
<1>6. t.con[c] = "closing"
  BY <1>0, <1>3
<1>7. Honest(t)
  BY <1>3, <1>4, <1>5, <1>6, ClosingHonest
<1>8. CASE ~fails
  BY <1>7, <1>8 DEF StartDisconnect, t
<1>9. CASE fails /\ s.con[c] = "closing"
  <2>. DEFINE u == CloseSocket(s, c)
  <2>1. Honest(s)
    BY <1>2, <1>9, ClosingHonest
  <2>2. Honest(u)
    BY <1>9, <2>1, CloseSocketHonest
  <2>3. Good(u) /\ u.connection = None /\ u.con = [s.con EXCEPT ![c] = "closed"]
    BY CloseSocketLemma
  <2>4. u.resolved
    BY <1>0, <1>2, CloseSocketSame DEF Same
  <2>5. StartDisconnect(s, c, fails) = [u EXCEPT !.con[c] = "zombie"]
    BY <1>9 DEF StartDisconnect
  <2>. HIDE DEF u
  <2>6. u.con[c] = "closed"
    BY <1>0, <2>3
  <2>7. Honest([u EXCEPT !.con[c] = "zombie"])
    BY <2>2, <2>3, <2>4, <2>6, ZombieHonest
  <2>. QED  BY <2>5, <2>7
<1>10. CASE fails /\ s.con[c] # "closing"
  <2>. DEFINE d == DisconnectedReconnCB(t)
  <2>1. Good(d) /\ GivesUp(t, d) /\ Sound(t)
    BY <1>5, DisconnectedReconnCBLemma, DisconnectedReconnCBGivesUp DEF Good
  <2>2. Plain => Told(d)
    BY <1>7, <2>1, DisconnectedReconnCBTold DEF Honest
  <2>3. StartDisconnect(s, c, fails) = [d EXCEPT !.con[c] = "zombie"]
    BY <1>10 DEF StartDisconnect, t
  <2>. HIDE DEF d
  <2>4. Honest(d)
    BY <1>3, <1>7, <2>1, <2>2, GivesUpHonest DEF Good, Sound
  <2>5. d.connection = None /\ d.resolved /\ d.con[c] = "closed"
    BY <1>0, <1>3, <1>6, <2>1 DEF GivesUp, Drops, Same, Closes, Open
  <2>6. Good(d)
    BY <2>1
  <2>. HIDE DEF d
  <2>. QED  BY <2>3, <2>4, <2>5, <2>6, ZombieHonest
<1>. QED  BY <1>8, <1>9, <1>10

\* The account takes on a show that it can have.
LEMMA ShowHonest ==
    ASSUME NEW s, Honest(s), NEW t, t.con = s.con, t.connection = s.connection,
           t.on_connect_auth = s.on_connect_auth,
           t.resolving = s.resolving, t.resolved = s.resolved,
           t.connected \in {s.connected, 2, 7},
           Plain => s.connected >= 2 /\ t.connected = 2 /\ ~t.on_purpose /\ Online(t)
    PROVE  Honest(t)
<1>1. Begun(t)
  BY DEF Honest, Begun
<1>2. ASSUME ~OddErrors PROVE UnderWay(t)
  BY <1>2 DEF Honest, UnderWay, CONNECTING
<1>3. ASSUME Plain PROVE Session(t) /\ Told(t)
  BY <1>3 DEF Honest, Session, Told, OfflineTold, Deliberate, OFFLINE
<1>. QED  BY <1>1, <1>2, <1>3 DEF Honest

\* A session that goes on
LEMMA EstablishedHonest ==
    ASSUME NEW s, Good(s), Honest(s), NEW c \in Con, s.con[c] \in Established,
           NEW phase \in Established,
           NEW t, t.con = [s.con EXCEPT ![c] = phase],
           t.connection = s.connection, t.connected = s.connected,
           t.on_connect_auth = s.on_connect_auth,
           t.resolving = s.resolving, t.resolved = s.resolved,
           t.on_purpose = s.on_purpose, t.shown = s.shown,
           t.time_to_reconnect = s.time_to_reconnect, Plain => Online(t)
    PROVE  Honest(t)
<1>0. s.con \in [Con -> Phase]
  BY DEF Good, Sound, State
<1>1. \A d \in Con : d # c => t.con[d] = s.con[d]
  BY <1>0
<1>2. t.con[c] = phase
  BY <1>0
<1>3. Begun(t)
  BY <1>1, <1>2 DEF Honest, Begun, Established
<1>4. ASSUME ~OddErrors PROVE UnderWay(t)
  <2>1. s.connected = CONNECTING =>
           \/ s.resolving > 0
           \/ \E d \in Con : s.con[d] \in {"opening", "asking", "auth", "closing"}
    BY <1>4 DEF Honest, UnderWay
  <2>2. \A d \in Con : /\ s.con[d] \in Established => s.connection = d /\ s.connected >= 2
                       /\ s.con[d] = "detached" => s.connection = None
    BY <1>4 DEF Honest, UnderWay
  <2>3. \A d \in Con : s.con[d] \in {"opening", "asking", "auth", "closing"}
                        => t.con[d] = s.con[d]
    BY <1>1 DEF Established
  <2>4. t.connected = CONNECTING =>
           \/ t.resolving > 0
           \/ \E d \in Con : t.con[d] \in {"opening", "asking", "auth", "closing"}
    BY <2>1, <2>3
  <2>5. \A d \in Con : /\ t.con[d] \in Established => t.connection = d /\ t.connected >= 2
                       /\ t.con[d] = "detached" => t.connection = None
    BY <1>1, <1>2, <2>2 DEF Established
  <2>. QED  BY <2>4, <2>5 DEF UnderWay
<1>5. ASSUME Plain PROVE Session(t) /\ Told(t)
  <2>1. Session(t)
    BY <1>1, <1>2, <1>5 DEF Honest, Session, Established
  <2>2. Told(t)
    BY <1>1, <1>2, <1>5 DEF Honest, Told, OfflineTold, Deliberate, Session,
                           Established, OFFLINE
  <2>. QED  BY <2>1, <2>2
<1>. QED  BY <1>3, <1>4, <1>5 DEF Honest

\* Authenticated, or not.  Called once more, it finds the session that the
\* first call left, or nothing.
LEMMA OnAuthHonest ==
    ASSUME NEW s, Good(s), Honest(s), NEW c \in Con, NEW auth \in BOOLEAN,
           s.on_connect_auth => s.con[c] = "auth",
           s.resolving = 0,
           Plain /\ ~s.on_connect_auth /\ auth =>
              s.connection = c /\ s.con[c] = "privacy" /\ s.connected = 2
    PROVE  /\ Honest(OnAuth(s, c, auth))
           /\ ~OnAuth(s, c, auth).on_connect_auth
           /\ OnAuth(s, c, auth).resolving = 0
           /\ Plain /\ s.on_connect_auth /\ auth =>
                /\ OnAuth(s, c, auth).connection = c
                /\ OnAuth(s, c, auth).con[c] = "privacy"
                /\ OnAuth(s, c, auth).connected = 2
<1>. DEFINE new == OnAuth(s, c, auth)
<1>0. /\ Sound(s) /\ s \in State /\ s.con \in [Con -> Phase] /\ None \notin Con
  BY ConnectionAssumption DEF Good, Sound, State
<1>. SUFFICES /\ Honest(new) /\ ~new.on_connect_auth /\ new.resolving = 0
              /\ Plain /\ s.on_connect_auth /\ auth =>
                    new.connection = c /\ new.con[c] = "privacy" /\ new.connected = 2
  OBVIOUS
<1>1. s.on_connect_auth =>
         /\ s.connection = c /\ s.resolved
         /\ \A d \in Con : d # c => s.con[d] \notin Open
  <2>. SUFFICES ASSUME s.on_connect_auth
                PROVE  /\ s.connection = c /\ s.resolved
                       /\ \A d \in Con : d # c => s.con[d] \notin Open
    OBVIOUS
  <2>1. s.con[c] \in Open /\ s.con[c] # "closed"
    BY DEF Open, Accepted
  <2>. QED  BY <1>0, <2>1, OnlyOne, HasResolved DEF Honest, Begun
<1>2. CASE s.connected = OFFLINE /\ s.on_connect_auth
  <2>. DEFINE t == [s EXCEPT !.connection = None, !.on_connect_auth = FALSE,
                             !.con[c] = "detached"]
  <2>1. new = t
    BY <1>2 DEF OnAuth
  <2>2. /\ t.con = [s.con EXCEPT ![c] = "detached"] /\ t.connection = None
        /\ ~t.on_connect_auth /\ t.resolved /\ t.resolving = 0
        /\ t.connected = OFFLINE
    BY <1>0, <1>1, <1>2 DEF State
  <2>. HIDE DEF t, new
  <2>3. t.con[c] = "detached" /\ \A d \in Con : d # c => t.con[d] \notin Open
    BY <1>0, <1>1, <1>2, <2>2
  <2>4. \A d \in Con : t.con[d] \notin Asked \cup Established \cup {"auth", "opening"}
    BY <2>3 DEF Open, Asked, Accepted, Established
  <2>5. Begun(t)
    BY <2>2, <2>4 DEF Begun, Asked
  <2>6. UnderWay(t)
    BY <2>2, <2>4 DEF UnderWay, OFFLINE, CONNECTING
  <2>7. ~Plain
    BY <1>2 DEF Honest, Session
  <2>. QED  BY <2>1, <2>2, <2>5, <2>6, <2>7 DEF Honest
<1>3. CASE s.connected # OFFLINE /\ s.on_connect_auth /\ auth
  <2>. DEFINE t == [s EXCEPT !.connected = 2, !.retrycount = 0,
                             !.on_connect_auth = FALSE,
                             !.connection = c, !.con[c] = "privacy"]
  <2>1. new = t
    BY <1>3 DEF OnAuth
  <2>2. /\ t.con = [s.con EXCEPT ![c] = "privacy"] /\ t.connection = c
        /\ ~t.on_connect_auth /\ t.resolved /\ t.resolving = 0
        /\ t.connected = 2 /\ t.on_purpose = s.on_purpose
    BY <1>0, <1>1, <1>3 DEF State
  <2>8. Online(s) => Online(t)
    BY <1>0 DEF State, Online
  <2>. HIDE DEF t, new
  <2>3. t.con[c] = "privacy" /\ \A d \in Con : d # c => t.con[d] \notin Open
    BY <1>0, <1>1, <1>3, <2>2
  <2>4. \A d \in Con : t.con[d] \notin {"auth", "opening", "asking", "detached"}
    BY <2>3 DEF Open, Asked, Accepted
  <2>5. Begun(t)
    BY <2>2, <2>4 DEF Begun
  <2>6. UnderWay(t)
    BY <2>2, <2>3, <2>4 DEF UnderWay, CONNECTING, Open, Accepted
  <2>7. ASSUME Plain PROVE Session(t) /\ Told(t)
    <3>1. ~t.on_purpose
      BY <1>3, <2>2, <2>7 DEF Honest, Told, Deliberate
    <3>2. Online(t)
      BY <2>7, <2>8 DEF Honest, Session
    <3>. QED  BY <1>0, <2>2, <2>3, <2>4, <3>1, <3>2
              DEF Session, Established, Told, OfflineTold, Deliberate, OFFLINE
  <2>. QED  BY <2>1, <2>2, <2>3, <2>5, <2>6, <2>7 DEF Honest
<1>4. CASE ~s.on_connect_auth /\ auth
  <2>. DEFINE t == [s EXCEPT !.connected = 2, !.retrycount = 0,
                             !.on_connect_auth = FALSE,
                             !.connection = s.connection, !.con[c] = s.con[c]]
  <2>1. new = t
    BY <1>4 DEF OnAuth
  <2>2. /\ t.con = s.con /\ t.connection = s.connection
        /\ t.on_connect_auth = s.on_connect_auth /\ t.resolved = s.resolved
        /\ t.resolving = s.resolving
        /\ t.connected = 2 /\ t.on_purpose = s.on_purpose
    BY <1>0, <1>4 DEF State
  <2>3. Online(s) => Online(t)
    BY <1>0 DEF State, Online
  <2>. HIDE DEF t, new
  <2>4. Plain => s.connected >= 2 /\ ~t.on_purpose /\ Online(t)
    BY <1>4, <2>2, <2>3 DEF Honest, Session, Told, Deliberate, OFFLINE
  <2>5. Honest(t)
    BY <2>2, <2>4, ShowHonest
  <2>. QED  BY <1>4, <2>1, <2>2, <2>5
<1>5. CASE ~(s.connected = OFFLINE /\ s.on_connect_auth) /\ ~auth
  <2>. DEFINE d == Abandon(s)
              t == [d EXCEPT !.on_connect_auth = FALSE]
  <2>1. /\ Honest(d) /\ GivesUp(s, d) /\ d \in State
    <3>1. GivesUp(s, d) /\ Told(d) /\ d \in State
      BY <1>0, AbandonGivesUp, AbandonTold, AbandonLemma DEF Good, Sound
    <3>. QED  BY <1>0, <3>1, GivesUpHonest
  <2>2. new = t
    BY <1>5 DEF OnAuth
  <2>. HIDE DEF d
  <2>3. /\ t.con = d.con /\ t.connection = d.connection
        /\ t.connected = d.connected /\ ~t.on_connect_auth
        /\ t.resolving = d.resolving /\ t.resolved = d.resolved
        /\ t.on_purpose = d.on_purpose /\ t.shown = d.shown
        /\ t.time_to_reconnect = d.time_to_reconnect
    BY <2>1 DEF State
  <2>4. Online(d) => Online(t)
    BY <2>1 DEF State, Online
  <2>. HIDE DEF t, new
  <2>5. d.resolving = 0
    BY <2>1 DEF GivesUp, Same
  <2>6. \A e \in Con : d.con[e] \notin {"opening", "asking", "auth"}
    <3>1. CASE s.on_connect_auth
      BY <1>0, <1>1, <2>1, <3>1 DEF GivesUp, Drops, Open, Asked, Accepted
    <3>2. CASE ~s.on_connect_auth
      BY <2>1, <3>2 DEF Honest, Begun, GivesUp, Same
    <3>. QED  BY <3>1, <3>2
  <2>7. Begun(t)
    BY <2>1, <2>3, <2>5, <2>6 DEF Honest, Begun
  <2>8. ASSUME ~OddErrors PROVE UnderWay(t)
    BY <2>1, <2>3, <2>8 DEF Honest, UnderWay
  <2>9. ASSUME Plain PROVE Session(t) /\ Told(t)
    BY <2>1, <2>3, <2>4, <2>9
       DEF Honest, Session, Told, OfflineTold, Deliberate
  <2>. QED  BY <1>5, <2>2, <2>3, <2>5, <2>7, <2>8, <2>9 DEF Honest
<1>. QED  BY <1>2, <1>3, <1>4, <1>5

\* Going invisible is honest as far as it is asked here: it is not Plain.
LEMMA SendInvisiblePresenceHonest ==
    ASSUME NEW s \in State, Honest(s), ~Plain
    PROVE  Honest(SendInvisiblePresence(s))
<1>1. CASE s.connection = None
  BY <1>1 DEF SendInvisiblePresence
<1>2. CASE s.connection # None /\ ~s.privacy_rules_supported
  <2>. DEFINE t == Tell(s, ShowAt(s.connected))
  <2>1. /\ t.con = s.con /\ t.connection = s.connection
        /\ t.on_connect_auth = s.on_connect_auth
        /\ t.resolving = s.resolving /\ t.resolved = s.resolved
        /\ t.connected = s.connected
    BY DEF State, Tell
  <2>2. SendInvisiblePresence(s) = t
    BY <1>2 DEF SendInvisiblePresence
  <2>. HIDE DEF t
  <2>. QED  BY <2>1, <2>2, ShowHonest
<1>3. CASE s.connection # None /\ s.privacy_rules_supported
  <2>. DEFINE p == s.on_purpose \/ s.connected > 1
              i == s.con[s.connection] \in Established
              t == [s EXCEPT !.on_purpose = p, !.invisible_asked = i]
  <2>1. SendInvisiblePresence(s) = t
    BY <1>3 DEF SendInvisiblePresence
  <2>. HIDE DEF p, i
  <2>2. /\ t.con = s.con /\ t.connection = s.connection
        /\ t.on_connect_auth = s.on_connect_auth
        /\ t.resolving = s.resolving /\ t.resolved = s.resolved
        /\ t.connected = s.connected
    BY DEF State
  <2>. HIDE DEF t
  <2>. QED  BY <2>1, <2>2, ShowHonest
<1>. QED  BY <1>1, <1>2, <1>3

\* The first presence sets a show of an account with a session.
LEMMA SendFirstPresenceHonest ==
    ASSUME NEW s \in State, Honest(s), Plain => s.connected >= 2
    PROVE  Honest(SendFirstPresence(s))
<1>. DEFINE show == s.continue_connect_info
            t == [s EXCEPT !.connected = Index(show)]
            u == [s EXCEPT !.connected = Index(show), !.shown = show,
                           !.continue_connect_info = "none"]
<1>1. show \in {"online", "invisible", "none"} /\ Index(show) \in {2, 7}
  BY DEF State, Index
<1>2. CASE show = "none"
  BY <1>2 DEF SendFirstPresence
<1>3. CASE show = "invisible"
  <2>1. SendFirstPresence(s) = SendInvisiblePresence(t) /\ ~Plain
    BY <1>3 DEF SendFirstPresence, Honest, Session, Online
  <2>2. /\ t.con = s.con /\ t.connection = s.connection /\ t \in State
        /\ t.on_connect_auth = s.on_connect_auth
        /\ t.resolving = s.resolving /\ t.resolved = s.resolved
        /\ t.connected \in {2, 7}
    BY <1>1 DEF State
  <2>. HIDE DEF t
  <2>. QED  BY <2>1, <2>2, ShowHonest, SendInvisiblePresenceHonest
<1>4. CASE show = "online"
  <2>1. SendFirstPresence(s) = u
    BY <1>4 DEF SendFirstPresence
  <2>2. /\ u.con = s.con /\ u.connection = s.connection
        /\ u.on_connect_auth = s.on_connect_auth
        /\ u.resolving = s.resolving /\ u.resolved = s.resolved
        /\ u.connected = 2 /\ u.on_purpose = s.on_purpose
    BY <1>4 DEF State, Index
  <2>3. Online(s) => Online(u)
    BY <1>4 DEF State, Online, Index
  <2>. HIDE DEF u, show
  <2>4. Plain => ~u.on_purpose /\ Online(u)
    BY <2>2, <2>3 DEF Honest, Session, Told, Deliberate, OFFLINE
  <2>. QED  BY <2>1, <2>2, <2>4, ShowHonest
<1>. QED  BY <1>1, <1>2, <1>3, <1>4

-----------------------------------------------------------------------------
(* Steps.                                                                  *)

\* What the user does keeps the account honest.
LEMMA UserHonest ==
    ASSUME Good(acc), Honest(acc), User
    PROVE  Honest(acc')
<1>0. /\ Sound(acc) /\ acc \in State /\ Reconnects(acc) /\ None \notin Con
      /\ Shows \subseteq {"online", "invisible"}
      /\ Begun(acc)
  BY ConnectionAssumption DEF Good, Sound, Honest
<1>4. Plain => Online(acc) /\ \A show \in Shows : show = "online"
  BY <1>0 DEF Honest, Session, Plain
<1>1. ASSUME NEW show \in Shows, NEW a \in Answer, GoOnline(show, a)
      PROVE  Honest(acc')
  <2>. DEFINE t == [acc EXCEPT !.old_show = show, !.on_purpose = FALSE]
  <2>1. show \in {"online", "invisible"}
    BY <1>0
  <2>2. /\ t \in State /\ t.con = acc.con /\ t.connection = acc.connection
        /\ t.last_connection = acc.last_connection /\ Reconnects(t)
        /\ t.connected = acc.connected /\ t.resolved = acc.resolved
        /\ t.on_connect_auth = acc.on_connect_auth
        /\ t.resolving = acc.resolving /\ ~t.on_purpose
        /\ t.shown = acc.shown
    BY <1>0 DEF State, Reconnects
  <2>3. Plain => Online(t)
    BY <1>0, <1>4 DEF State, Online
  <2>4. acc' = ConnectAndInit(t, show, a) /\ acc.connected < 2
    <3>1. acc.connected \in Int
      BY <1>0 DEF State, ERROR, OFFLINE, CONNECTING
    <3>. QED  BY <1>1, <3>1 DEF GoOnline, CONNECTING
  <2>. HIDE DEF t
  <2>5. Good(t)
    BY <1>0, <2>2, SameClients
  <2>6. Honest(t)
    BY <2>2, <2>3
       DEF Honest, Begun, UnderWay, Session, Told, OfflineTold, Deliberate
  <2>7. Plain => show = "online"
    BY <1>4
  <2>. QED  BY <2>1, <2>2, <2>3, <2>4, <2>5, <2>6, <2>7, ConnectAndInitHonest
            DEF Honest
<1>2. ASSUME NEW fails \in BOOLEAN, GoOffline(fails)
      PROVE  Honest(acc')
  <2>. DEFINE t == [acc EXCEPT !.connected = OFFLINE, !.time_to_reconnect = FALSE]
              u == [t EXCEPT !.on_purpose = TRUE]
  <2>1. /\ t \in State /\ t.con = acc.con /\ t.connection = acc.connection
        /\ t.last_connection = acc.last_connection /\ t.connected = OFFLINE
        /\ t.resolved = acc.resolved /\ t.resolving = acc.resolving
        /\ t.on_connect_auth = acc.on_connect_auth
    BY <1>0 DEF State, OFFLINE
  <2>2. /\ u \in State /\ u.con = acc.con /\ u.connection = acc.connection
        /\ u.last_connection = acc.last_connection /\ u.connected = OFFLINE
        /\ u.resolved = acc.resolved /\ u.resolving = acc.resolving
        /\ u.on_connect_auth = acc.on_connect_auth /\ ~u.time_to_reconnect
    BY <1>0 DEF State, OFFLINE
  <2>3. Plain => Online(t) /\ Online(u)
    BY <1>0, <1>4 DEF State, Online, OFFLINE
  <2>4. acc' = IF acc.connection # None
               THEN StartDisconnect(u, acc.connection, fails)
               ELSE OnDisconnected(t)
    BY <1>2 DEF GoOffline
  <2>. HIDE DEF t, u
  <2>5. Sound(t)
    BY <1>0, <2>1 DEF Sound, Using, Last
  <2>6. Good(u)
    BY <1>0, <2>2, SameClients DEF Reconnects, ERROR, OFFLINE
  <2>7. CASE acc.connection # None
    <3>1. acc.connection \in Con
      BY <1>0, <2>7 DEF State
    <3>2. Begun(u)
      BY <1>0, <2>2 DEF Begun
    <3>. QED  BY <2>2, <2>3, <2>4, <2>6, <2>7, <3>1, <3>2, StartDisconnectHonest
  <2>8. CASE acc.connection = None
    \* Nothing is in use: the account has no session to lose.
    <3>1. GivesUp(t, OnDisconnected(t)) /\ Told(OnDisconnected(t))
          /\ OnDisconnected(t) \in State
      BY <2>5, OnDisconnectedGivesUp, AbandonTold, OnDisconnectedLemma
         DEF Good, Sound
    <3>2. Begun(t)
      BY <1>0, <2>1 DEF Begun
    <3>3. ASSUME ~OddErrors PROVE UnderWay(t)
      <4>1. \A c \in Con : acc.con[c] \notin Established
        BY <1>0, <2>8, <3>3 DEF Honest, UnderWay
      <4>. QED  BY <2>1, <2>8, <4>1 DEF UnderWay, OFFLINE, CONNECTING
    <3>4. ASSUME NEW d \in State, GivesUp(t, d), Told(d) PROVE Honest(d)
      <4>1. /\ d.con = acc.con /\ d.connection = None /\ Idle(d) /\ Same(t, d)
        BY <2>1, <2>8, <3>4 DEF GivesUp, Drops
      <4>2. Begun(d)
        BY <2>1, <2>8, <3>2, <4>1 DEF Begun, Same
      <4>3. ASSUME ~OddErrors PROVE UnderWay(d)
        BY <2>1, <2>8, <3>3, <4>1, <4>3
           DEF UnderWay, Idle, ERROR, OFFLINE, CONNECTING
      <4>4. ASSUME Plain PROVE Session(d)
        <5>1. ~(d.connected >= 2) /\ d.connected # 7
          BY <4>1 DEF Idle, ERROR, OFFLINE
        <5>2. \A c \in Con : acc.con[c] \notin {"auth", "asking"}
          BY <1>0, <2>8, <4>4 DEF Begun, Honest, Session
        <5>3. d.old_show \in {"online", "invisible"}
          BY DEF State
        <5>4. Online(d)
          BY <2>1, <2>3, <4>1, <4>4, <5>1, <5>3 DEF Online, Same, OFFLINE
        <5>. QED  BY <4>1, <5>1, <5>2, <5>4 DEF Session
      <4>. QED  BY <3>4, <4>2, <4>3, <4>4 DEF Honest
    <3>. QED  BY <2>4, <2>8, <3>1, <3>4
  <2>. QED  BY <2>7, <2>8
<1>3. ASSUME NEW show \in Shows, ChangeShow(show)
      PROVE  Honest(acc')
  <2>. DEFINE t == [acc EXCEPT !.connected = Index(show), !.shown = show]
  <2>1. acc.connected \in Int
    BY <1>0 DEF State, ERROR, OFFLINE, CONNECTING
  <2>2. \/ acc' = acc
        \/ show = "invisible" /\ acc' = SendInvisiblePresence(acc)
        \/ acc.connected >= 2 /\ acc' = t
    BY <1>3, <2>1 DEF ChangeShow, CONNECTING
  <2>3. /\ t.con = acc.con /\ t.connection = acc.connection
        /\ t.on_connect_auth = acc.on_connect_auth
        /\ t.resolving = acc.resolving /\ t.resolved = acc.resolved
        /\ t.on_purpose = acc.on_purpose
        /\ t.connected = Index(show)
    BY <1>0 DEF State
  <2>5. Plain => Online(t)
    BY <1>0, <1>4 DEF State, Online, Index
  <2>. HIDE DEF t
  <2>6. CASE acc.connected >= 2 /\ acc' = t
    <3>1. Plain => ~t.on_purpose
      BY <2>3, <2>6 DEF Honest, Told, Deliberate, OFFLINE
    <3>2. t.connected \in {2, 7} /\ (Plain => t.connected = 2)
      BY <1>4, <2>3 DEF Index
    <3>. QED  BY <2>3, <2>5, <2>6, <3>1, <3>2, ShowHonest
  <2>7. CASE show = "invisible" /\ acc' = SendInvisiblePresence(acc)
    BY <1>0, <1>4, <2>7, SendInvisiblePresenceHonest
  <2>. QED  BY <2>2, <2>6, <2>7
<1>. QED  BY <1>1, <1>2, <1>3 DEF User

\* So do answers to dialogs,
LEMMA DialogHonest ==
    ASSUME Good(acc), Honest(acc), Dialog
    PROVE  Honest(acc')
<1>0. Sound(acc) /\ acc \in State /\ acc.con \in [Con -> Phase] /\ None \notin Con
  BY ConnectionAssumption DEF Good, Sound, State
<1>1. ASSUME NEW accept \in BOOLEAN, AnswerQuestion(accept)
      PROVE  Honest(acc')
  <2>1. ASSUME NEW c \in Con, acc.con[c] = "asking", accept,
               acc' = ConnectionAccepted(acc, c)
        PROVE  Honest(acc')
    <3>1. ~Plain
      BY <2>1 DEF Honest, Session
    <3>. QED  BY <2>1, <3>1, ConnectionAcceptedHonest
  <2>2. ASSUME NEW c \in Con, acc.con[c] = "asking", ~accept,
               acc' = [Abandon(acc) EXCEPT !.con[c] = "declined"]
        PROVE  Honest(acc')
    <3>. DEFINE d == Abandon(acc)
                t == [d EXCEPT !.con[c] = "declined"]
    <3>1. /\ \A e \in Con : e # c => acc.con[e] \notin Open
          /\ acc.connection = None /\ acc.resolved /\ acc.resolving = 0
      <4>1. acc.con[c] \in Open /\ acc.con[c] # "closed"
            /\ acc.con[c] \notin Accepted \cup {"closing"}
        BY <2>2 DEF Open, Asked, Accepted, Established
      <4>. QED  BY <1>0, <4>1, OnlyOne, HasResolved DEF Honest
    <3>2. GivesUp(acc, d) /\ d \in State
      BY <1>0, AbandonGivesUp, AbandonLemma DEF Good, Sound
    <3>. HIDE DEF d
    <3>3. /\ t.con = [d.con EXCEPT ![c] = "declined"] /\ t.connection = None
          /\ t.connected = d.connected /\ t.resolved /\ t.resolving = 0
      BY <3>1, <3>2 DEF State, GivesUp, Drops, Same
    <3>4. acc' = t
      BY <2>2 DEF d
    <3>. HIDE DEF t
    <3>5. \A e \in Con : t.con[e] \notin {"opening", "asking", "auth", "detached"}
                                         \cup Established
      <4>1. d.con = acc.con
        BY <3>1, <3>2 DEF GivesUp, Drops
      <4>2. t.con[c] = "declined" /\ \A e \in Con : e # c => t.con[e] \notin Open
        BY <1>0, <3>1, <3>3, <4>1
      <4>. QED  BY <4>2 DEF Open, Asked, Accepted, Established
    <3>6. Begun(t)
      BY <3>3, <3>5 DEF Begun
    <3>7. UnderWay(t)
      BY <3>2, <3>3, <3>5
         DEF UnderWay, GivesUp, Idle, ERROR, OFFLINE, CONNECTING
    <3>8. ~Plain
      BY <2>2 DEF Honest, Session
    <3>. QED  BY <3>4, <3>6, <3>7, <3>8 DEF Honest
  <2>3. ASSUME acc' = Abandon([acc EXCEPT !.stale_question = FALSE])
        PROVE  Honest(acc')
    <3>. DEFINE t == [acc EXCEPT !.stale_question = FALSE]
    <3>1. /\ t \in State /\ t.con = acc.con /\ t.connection = acc.connection
          /\ t.last_connection = acc.last_connection
          /\ t.connected = acc.connected
          /\ t.on_connect_auth = acc.on_connect_auth
          /\ t.resolving = acc.resolving /\ t.resolved = acc.resolved
          /\ t.continue_connect_info = acc.continue_connect_info
          /\ t.passphrase_asked = acc.passphrase_asked
          /\ t.invisible_asked = acc.invisible_asked /\ t.old_show = acc.old_show
      BY <1>0 DEF State
    <3>2. Plain => Told(t)
      BY <1>0 DEF State, Honest, Told, OfflineTold, Deliberate
    <3>3. acc' = Abandon(t)
      BY <2>3
    <3>. HIDE DEF t
    <3>4. Sound(t)
      BY <1>0, <3>1 DEF Sound, Using, Last
    <3>5. Honest(t)
      BY <3>1, <3>2, SameHonest
    <3>6. GivesUp(t, Abandon(t)) /\ Told(Abandon(t)) /\ Abandon(t) \in State
      BY <3>4, AbandonGivesUp, AbandonTold, AbandonLemma DEF Good, Sound
    <3>. QED  BY <3>1, <3>3, <3>5, <3>6, GivesUpHonest
  <2>. QED  BY <1>1, <2>1, <2>2, <2>3 DEF AnswerQuestion
<1>2. ASSUME PassphraseGiven
      PROVE  Honest(acc')
  <2>. DEFINE t == [acc EXCEPT !.passphrase_asked = FALSE]
  <2>1. ~Plain
    BY <1>2 DEF PassphraseGiven, Honest, Session, Online
  <2>2. /\ t \in State /\ t.con = acc.con /\ t.connection = acc.connection
        /\ t.on_connect_auth = acc.on_connect_auth
        /\ t.resolving = acc.resolving /\ t.resolved = acc.resolved
        /\ t.connected = acc.connected
    BY <1>0 DEF State
  <2>3. acc' = SendFirstPresence(t)
    BY <1>2 DEF PassphraseGiven
  <2>. HIDE DEF t
  <2>. QED  BY <2>1, <2>2, <2>3, ShowHonest, SendFirstPresenceHonest
<1>. QED  BY <1>1, <1>2 DEF Dialog

\* streams that come up or fail to,
LEMMA StreamHonest ==
    ASSUME Good(acc), Honest(acc), NEW c \in Con, Stream(c)
    PROVE  Honest(acc')
<1>0. Sound(acc) /\ acc \in State /\ acc.con \in [Con -> Phase] /\ None \notin Con
  BY ConnectionAssumption DEF Good, Sound, State
<1>1. acc.con[c] = "opening"
  BY DEF Stream, StreamReady, StreamFails
<1>2. /\ \A d \in Con : d # c => acc.con[d] \notin Open
      /\ acc.connection = None /\ acc.resolved /\ acc.resolving = 0
      /\ acc.on_connect_auth
  <2>1. acc.con[c] \in Open /\ acc.con[c] # "closed"
        /\ acc.con[c] \notin Accepted \cup {"closing"}
    BY <1>1 DEF Open, Asked, Accepted, Established
  <2>. QED  BY <1>0, <1>1, <2>1, OnlyOne, HasResolved DEF Honest, Begun
<1>3. Plain => Online(acc) /\ ~(acc.connected >= 2) /\ Told(acc)
  BY <1>2 DEF Honest, Session
\* The next host, or none
<1>4. ASSUME NEW s \in State, Good(s), Same(acc, s), s.connection = None,
             OnlyOpening(s), s.connected = acc.connected, Plain => Told(s),
             NEW retry \in BOOLEAN, NEW fail \in 0 .. MaxAttempts,
             acc' = NextAttempt(s, retry, fail)
      PROVE  Honest(acc')
  <2>1. Attempted(s, acc') /\ acc' \in State
    BY <1>4, NextAttemptAttempted, NextAttemptLemma DEF Good, Sound
  <2>2. Plain => Told(acc')
    BY <1>4, NextAttemptTold
  <2>3. s.resolved /\ s.resolving = 0 /\ s.on_connect_auth
    BY <1>2, <1>4 DEF Same
  <2>4. Plain => Online(s)
    <3>1. s.old_show \in {"online", "invisible"}
      BY <1>4 DEF State
    <3>. QED  BY <1>3, <1>4, <3>1 DEF Online, Same
  <2>. QED  BY <1>3, <1>4, <2>1, <2>2, <2>3, <2>4, AttemptedHonest
\* The stream is up.  Its client is the only one.
<1>5. ASSUME NEW phase \in {"orphan", "asking"},
             acc' = [acc EXCEPT !.con[c] = phase], Plain => phase = "orphan",
             acc.connected = CONNECTING => phase = "asking"
      PROVE  Honest(acc')
  <2>1. /\ acc'.con = [acc.con EXCEPT ![c] = phase] /\ acc'.connection = None
        /\ acc'.connected = acc.connected /\ acc'.resolved /\ acc'.resolving = 0
        /\ acc'.on_connect_auth
        /\ acc'.on_purpose = acc.on_purpose /\ acc'.shown = acc.shown
        /\ acc'.time_to_reconnect = acc.time_to_reconnect
    BY <1>0, <1>2, <1>5 DEF State
  <2>6. Online(acc) => Online(acc')
    BY <1>0, <1>5 DEF State, Online
  <2>2. acc'.con[c] = phase /\ \A d \in Con : d # c => acc'.con[d] \notin Open
    BY <1>0, <1>2, <2>1
  <2>3. \A d \in Con : acc'.con[d] \notin Accepted
    BY <2>2 DEF Open, Accepted, Established
  <2>4. Begun(acc')
    BY <2>1, <2>3 DEF Begun, Accepted
  <2>5. UnderWay(acc')
    BY <1>5, <2>1, <2>2, <2>3 DEF UnderWay, Accepted
  <2>7. ASSUME Plain PROVE Session(acc') /\ Told(acc')
    <3>1. \A d \in Con : acc'.con[d] \notin {"auth", "asking"}
      BY <1>5, <2>2, <2>7 DEF Open, Asked, Accepted
    <3>. QED  BY <1>2, <1>3, <2>1, <2>6, <2>7, <3>1
              DEF Session, Told, OfflineTold, Deliberate
  <2>. QED  BY <2>4, <2>5, <2>7 DEF Honest
<1>6. ASSUME NEW match \in BOOLEAN, NEW fail \in 0 .. MaxAttempts,
             StreamReady(c, match, fail)
      PROVE  Honest(acc')
  <2>1. CASE acc.connected = OFFLINE
    <3>1. acc' = [acc EXCEPT !.con[c] = "orphan"]
      BY <1>6, <2>1 DEF StreamReady
    <3>. QED  BY <1>5, <2>1, <3>1 DEF OFFLINE, CONNECTING
  <2>2. CASE acc.connected # OFFLINE /\ ~match
    <3>1. OnlyOpening(acc)
      BY <1>1, <1>2 DEF OnlyOpening
    <3>. QED  BY <1>0, <1>2, <1>3, <1>4, <1>6, <2>2, <3>1, SameRefl DEF StreamReady
  <2>3. CASE acc.connected # OFFLINE /\ match /\ AskPlain
    BY <1>5, <1>6, <2>3 DEF StreamReady, Plain
  <2>4. CASE acc.connected # OFFLINE /\ match /\ ~AskPlain
    BY <1>1, <1>6, <2>4, ConnectionAcceptedHonest DEF StreamReady
  <2>. QED  BY <2>1, <2>2, <2>3, <2>4
<1>7. ASSUME NEW retry \in BOOLEAN, NEW fail \in 0 .. MaxAttempts,
             StreamFails(c, retry, fail)
      PROVE  Honest(acc')
  <2>. DEFINE s == CloseSocket(acc, c)
  <2>1. /\ Good(s) /\ s \in State /\ Same(acc, s) /\ s.connection = None
        /\ s.con = [acc.con EXCEPT ![c] = "closed"]
        /\ Plain => Told(s)
    BY <1>0, <1>2, <1>3, CloseSocketLemma, CloseSocketSame, CloseSocketStillTold
       DEF Good, Sound
  <2>2. s.connected = acc.connected
    <3>1. s = SocketClosed(acc, c)
      BY <1>1 DEF CloseSocket, Asked, Accepted, Established
    <3>. QED  BY <1>0, <3>1 DEF SocketClosed, State
  <2>3. acc' = NextAttempt(s, retry, fail)
    BY <1>7 DEF StreamFails
  <2>. HIDE DEF s
  <2>4. OnlyOpening(s)
    <3>1. "closed" \notin Open
      BY DEF Open, Asked, Accepted, Established
    <3>2. \A d \in Con : s.con[d] \notin Open
      BY <1>0, <1>2, <2>1, <3>1
    <3>. QED  BY <3>2 DEF OnlyOpening
  <2>. QED  BY <1>4, <2>1, <2>2, <2>3, <2>4
<1>. QED  BY <1>6, <1>7 DEF Stream

\* the end of an authentication,
LEMMA AuthHonest ==
    ASSUME Good(acc), Honest(acc), NEW c \in Con, Auth(c)
    PROVE  Honest(acc')
<1>. PICK auth \in BOOLEAN, twice \in BOOLEAN : AuthEnds(c, auth, twice)
  BY DEF Auth
<1>. DEFINE s == OnAuth(acc, c, auth)
<1>1. acc.con[c] = "auth" /\ acc.con[c] \in Accepted /\ acc.con[c] # "closed"
  BY DEF AuthEnds, Accepted
<1>2. acc \in State /\ acc.last_connection = c
  BY <1>1 DEF Good, Sound, Last, Open
<1>3. acc.resolving = 0 /\ acc.on_connect_auth
  BY <1>1, <1>2, HasResolved DEF Honest, Begun
<1>4. Good(s)
  BY <1>1, <1>2, OnAuthLemma
<1>5. /\ Honest(s) /\ ~s.on_connect_auth /\ s.resolving = 0
      /\ Plain /\ auth => /\ s.connection = c /\ s.con[c] = "privacy"
                          /\ s.connected = 2
  BY <1>1, <1>3, OnAuthHonest
<1>6. acc' = IF twice THEN OnAuth(s, c, auth) ELSE s
  BY DEF AuthEnds
<1>. HIDE DEF s
<1>7. Honest(OnAuth(s, c, auth))
  BY <1>4, <1>5, OnAuthHonest
<1>. QED  BY <1>5, <1>6, <1>7

\* the steps from there to the first presence,
LEMMA LoginHonest ==
    ASSUME Good(acc), Honest(acc), NEW c \in Con, Login(c)
    PROVE  Honest(acc')
<1>0. Sound(acc) /\ acc \in State
  BY DEF Good, Sound
<1>1. ASSUME NEW phase \in Established, acc.con[c] \in Established,
             NEW t \in State, t = [acc EXCEPT !.con[c] = phase]
      PROVE  /\ t.con = [acc.con EXCEPT ![c] = phase]
             /\ t.connection = acc.connection /\ t.connected = acc.connected
             /\ t.on_connect_auth = acc.on_connect_auth
             /\ t.resolving = acc.resolving /\ t.resolved = acc.resolved
             /\ Honest(t)
  <2>1. /\ t.con = [acc.con EXCEPT ![c] = phase]
        /\ t.connection = acc.connection /\ t.connected = acc.connected
        /\ t.on_connect_auth = acc.on_connect_auth
        /\ t.resolving = acc.resolving /\ t.resolved = acc.resolved
        /\ t.on_purpose = acc.on_purpose /\ t.shown = acc.shown
        /\ t.time_to_reconnect = acc.time_to_reconnect
    BY <1>0, <1>1 DEF State
  <2>2. Online(acc) => Online(t)
    BY <1>0, <1>1 DEF State, Online
  <2>3. Plain => Online(t)
    BY <2>2 DEF Honest, Session
  <2>. QED  BY <1>1, <2>1, <2>3, EstablishedHonest
<1>2. ASSUME NEW supported \in BOOLEAN, PrivacyArrived(c, supported)
      PROVE  Honest(acc')
  <2>. DEFINE s == [acc EXCEPT !.con[c] = "roster"]
              t == [s EXCEPT !.privacy_rules_supported = TRUE]
  <2>1. acc.con[c] \in Established /\ "roster" \in Established /\ s \in State
    BY <1>0, <1>2 DEF PrivacyArrived, State, Phase, Open, Accepted, Established
  <2>2. Honest(s)
    BY <1>1, <2>1
  <2>3. acc' \in {t, s, Abandon(acc)}
    BY <1>2 DEF PrivacyArrived
  <2>. HIDE DEF s
  <2>4. Honest(t)
    <3>1. /\ t.con = s.con /\ t.connection = s.connection
          /\ t.connected = s.connected /\ t.on_connect_auth = s.on_connect_auth
          /\ t.resolving = s.resolving /\ t.resolved = s.resolved
          /\ t.continue_connect_info = s.continue_connect_info
          /\ t.passphrase_asked = s.passphrase_asked
          /\ t.invisible_asked = s.invisible_asked /\ t.old_show = s.old_show
      BY <2>1 DEF State
    <3>2. Plain => Told(t)
      BY <2>1, <2>2 DEF State, Honest, Told, OfflineTold, Deliberate
    <3>. HIDE DEF t
    <3>. QED  BY <2>2, <3>1, <3>2, SameHonest
  <2>5. Honest(Abandon(acc))
    <3>1. /\ GivesUp(acc, Abandon(acc)) /\ Told(Abandon(acc))
          /\ Abandon(acc) \in State
      BY <1>0, AbandonGivesUp, AbandonTold, AbandonLemma DEF Good, Sound
    <3>. QED  BY <1>0, <3>1, GivesUpHonest
  <2>. QED  BY <2>2, <2>3, <2>4, <2>5
<1>3. ASSUME RosterArrived(c)
      PROVE  Honest(acc')
  <2>. DEFINE s == [acc EXCEPT !.con[c] = "up"]
              t == [s EXCEPT !.passphrase_asked = TRUE]
  <2>1. acc.con[c] \in Established /\ "up" \in Established /\ s \in State
    BY <1>0, <1>3 DEF RosterArrived, State, Phase, Open, Accepted, Established
  <2>2. Honest(s) /\ s.connected = acc.connected
    BY <1>1, <2>1
  <2>3. \/ acc' = s
        \/ AskPassphrase /\ acc' = t
        \/ acc.connected >= 2 /\ acc' = SendFirstPresence(s)
    <3>1. acc.connected \in Int
      BY <1>0 DEF State, ERROR, OFFLINE, CONNECTING
    <3>. QED  BY <1>3, <3>1 DEF RosterArrived
  <2>. HIDE DEF s
  <2>4. CASE AskPassphrase /\ acc' = t
    <3>1. /\ t.con = s.con /\ t.connection = s.connection
          /\ t.connected = s.connected /\ t.on_connect_auth = s.on_connect_auth
          /\ t.resolving = s.resolving /\ t.resolved = s.resolved
      BY <2>1 DEF State
    <3>. HIDE DEF t
    <3>. QED  BY <2>2, <2>4, <3>1, ShowHonest DEF Plain
  <2>5. CASE acc.connected >= 2 /\ acc' = SendFirstPresence(s)
    BY <2>1, <2>2, <2>5, SendFirstPresenceHonest
  <2>. QED  BY <2>2, <2>3, <2>4, <2>5
<1>4. ASSUME NEW accepted \in BOOLEAN, ContinueInvisible(c, accepted)
      PROVE  Honest(acc')
  <2>. DEFINE s == [acc EXCEPT !.invisible_asked = FALSE]
              t == [s EXCEPT !.privacy_rules_supported = TRUE,
                             !.connected = Index("invisible"),
                             !.shown = "invisible"]
  <2>1. ~Plain
    BY <1>4 DEF ContinueInvisible, Honest, Session, Online
  <2>2. /\ s.con = acc.con /\ s.connection = acc.connection
        /\ s.on_connect_auth = acc.on_connect_auth
        /\ s.resolving = acc.resolving /\ s.resolved = acc.resolved
        /\ s.connected = acc.connected
    BY <1>0 DEF State
  <2>3. /\ t.con = acc.con /\ t.connection = acc.connection
        /\ t.on_connect_auth = acc.on_connect_auth
        /\ t.resolving = acc.resolving /\ t.resolved = acc.resolved
        /\ t.connected = 7
    BY <1>0 DEF State, Index
  <2>4. acc' \in {s, t}
    BY <1>4 DEF ContinueInvisible
  <2>. HIDE DEF s, t
  <2>. QED  BY <2>1, <2>2, <2>3, <2>4, ShowHonest
<1>. QED  BY <1>2, <1>3, <1>4 DEF Login

\* what a server or the kernel does to a client,
LEMMA NetworkHonest ==
    ASSUME Good(acc), Honest(acc), NEW c \in Con, Network(c)
    PROVE  Honest(acc')
<1>0. Sound(acc) /\ acc \in State
  BY DEF Good, Sound
<1>1. CASE StreamLost(c)
  BY <1>1, CloseSocketHonest DEF StreamLost
<1>2. CASE OddError(c)
  <2>. DEFINE handled == IF acc.con[c] \in Asked THEN OnDisconnected(acc)
                         ELSE IF acc.con[c] \in Accepted \cup {"closing"}
                         THEN DisconnectedReconnCB(acc)
                         ELSE acc
  <2>1. Honest(OnDisconnected(acc))
    <3>1. /\ GivesUp(acc, OnDisconnected(acc)) /\ Told(OnDisconnected(acc))
          /\ OnDisconnected(acc) \in State
      BY <1>0, OnDisconnectedGivesUp, AbandonTold, OnDisconnectedLemma
         DEF Good, Sound
    <3>. QED  BY <1>0, <3>1, GivesUpHonest
  <2>2. Honest(DisconnectedReconnCB(acc))
    <3>1. /\ GivesUp(acc, DisconnectedReconnCB(acc))
          /\ DisconnectedReconnCB(acc) \in State
          /\ Plain => Told(DisconnectedReconnCB(acc))
      BY <1>0, DisconnectedReconnCBGivesUp, DisconnectedReconnCBTold,
         DisconnectedReconnCBLemma DEF Good, Sound, Honest
    <3>. QED  BY <1>0, <3>1, GivesUpHonest
  <2>3. Good(handled) /\ Honest(handled)
    BY <1>0, <2>1, <2>2, OnDisconnectedLemma, DisconnectedReconnCBLemma
  <2>4. acc' = CloseSocket(handled, c) /\ OddErrors
    BY <1>2 DEF OddError
  <2>. HIDE DEF handled
  <2>. QED  BY <2>3, <2>4, CloseSocketHonest
<1>3. CASE SendPing(c) \/ Pong(c)
  <2>1. /\ acc'.con = acc.con /\ acc'.connection = acc.connection
        /\ acc'.connected = acc.connected
        /\ acc'.on_connect_auth = acc.on_connect_auth
        /\ acc'.resolving = acc.resolving /\ acc'.resolved = acc.resolved
        /\ acc'.continue_connect_info = acc.continue_connect_info
        /\ acc'.passphrase_asked = acc.passphrase_asked
        /\ acc'.invisible_asked = acc.invisible_asked
        /\ acc'.old_show = acc.old_show /\ acc'.shown = acc.shown
        /\ acc'.on_purpose = acc.on_purpose
        /\ acc'.time_to_reconnect = acc.time_to_reconnect
    BY <1>0, <1>3, ZenonT(30) DEF SendPing, Pong, State
  <2>2. Plain => Told(acc')
    BY <2>1 DEF Honest, Told, OfflineTold, Deliberate
  <2>. QED  BY <2>1, <2>2, SameHonest
<1>. QED  BY <1>1, <1>2, <1>3 DEF Network

\* the alarm of an orderly disconnection,
LEMMA EndDisconnectHonest ==
    ASSUME Good(acc), Honest(acc), NEW c \in Con, EndDisconnect(c)
    PROVE  Honest(acc')
<1>0. /\ Sound(acc) /\ acc \in State /\ Reconnects(acc) /\ Using(acc)
      /\ None \notin Con /\ acc.con \in [Con -> Phase]
  BY ConnectionAssumption DEF Good, Sound, State
<1>1. CASE acc.con[c] = "closing"
  BY <1>1, CloseSocketHonest DEF EndDisconnect
\* What is left of a zombie ends whatever the account is doing.
<1>2. CASE acc.con[c] = "zombie"
  <2>. DEFINE t == [acc EXCEPT !.con[c] = "closed"]
  <2>1. /\ t \in State /\ t.con = [acc.con EXCEPT ![c] = "closed"]
        /\ t.connection = acc.connection
        /\ t.last_connection = acc.last_connection /\ Reconnects(t)
        /\ t.connected = acc.connected /\ t.resolved = acc.resolved
        /\ t.resolving = acc.resolving
        /\ t.on_connect_auth = acc.on_connect_auth
        /\ t.on_purpose = acc.on_purpose /\ t.shown = acc.shown
        /\ t.time_to_reconnect = acc.time_to_reconnect
    BY <1>0 DEF State, Phase, Reconnects
  <2>2. Online(acc) => Online(t)
    BY <1>0 DEF State, Online
  <2>3. acc' = OnDisconnected(t)
    BY <1>2 DEF EndDisconnect
  <2>. HIDE DEF t
  <2>4. "closed" \notin Open /\ acc.connection # c
    BY <1>0, <1>2 DEF Using, Open, Asked, Accepted, Established
  <2>5. Sound(t)
    BY <1>0, <2>1, <2>4, SetPhase DEF Good
  <2>6. t.con[c] = "closed" /\ \A d \in Con : d # c => t.con[d] = acc.con[d]
    BY <1>0, <2>1
  <2>7. Begun(t)
    BY <2>1, <2>6 DEF Honest, Begun
  <2>8. ASSUME ~OddErrors PROVE UnderWay(t)
    <3>1. acc.connected = CONNECTING =>
             \/ acc.resolving > 0
             \/ \E d \in Con : acc.con[d] \in {"opening", "asking", "auth", "closing"}
      BY <2>8 DEF Honest, UnderWay
    <3>2. \A d \in Con : acc.con[d] \in {"opening", "asking", "auth", "closing"}
                           => t.con[d] = acc.con[d]
      BY <1>2, <2>6
    <3>3. t.connected = CONNECTING =>
             \/ t.resolving > 0
             \/ \E d \in Con : t.con[d] \in {"opening", "asking", "auth", "closing"}
      BY <2>1, <3>1, <3>2
    <3>4. \A d \in Con :
             /\ acc.con[d] \in Established => acc.connection = d /\ acc.connected >= 2
             /\ acc.con[d] = "detached" => acc.connection = None
      BY <2>8 DEF Honest, UnderWay
    <3>5. \A d \in Con :
             /\ t.con[d] \in Established => t.connection = d /\ t.connected >= 2
             /\ t.con[d] = "detached" => t.connection = None
      BY <2>1, <2>6, <3>4 DEF Established
    <3>. QED  BY <3>3, <3>5 DEF UnderWay
  <2>9. ASSUME Plain PROVE Session(t) /\ Told(t)
    <3>1. acc.connection # None =>
             acc.connection \in Con /\ t.con[acc.connection] = acc.con[acc.connection]
      BY <1>0, <2>4, <2>6 DEF State
    <3>2. \A d \in Con : t.con[d] # "closed" => t.con[d] = acc.con[d]
      BY <2>6
    <3>3. Online(t)
      BY <2>2, <2>9 DEF Honest, Session
    <3>4. t.connected >= 2 => /\ t.connection # None
                              /\ t.con[t.connection] \in Established
      BY <2>1, <2>9, <3>1 DEF Honest, Session
    <3>5. \A d \in Con : /\ t.con[d] = "auth" => t.connected # OFFLINE
                         /\ t.con[d] # "asking"
      BY <2>1, <2>9, <3>2 DEF Honest, Session
    <3>6. Told(t)
      BY <2>1, <2>9, <3>1 DEF Honest, Told, OfflineTold, Deliberate
    <3>. QED  BY <3>3, <3>4, <3>5, <3>6 DEF Session
  <2>10. Honest(t)
    BY <2>7, <2>8, <2>9 DEF Honest
  <2>11. /\ GivesUp(t, OnDisconnected(t)) /\ Told(OnDisconnected(t))
         /\ OnDisconnected(t) \in State
    BY <2>5, OnDisconnectedGivesUp, AbandonTold, OnDisconnectedLemma
       DEF Good, Sound
  <2>. QED  BY <2>1, <2>3, <2>10, <2>11, GivesUpHonest
<1>. QED  BY <1>1, <1>2 DEF EndDisconnect

\* lookups that are answered,
LEMMA ResolverHonest ==
    ASSUME Good(acc), Honest(acc), Resolver
    PROVE  Honest(acc')
<1>. PICK a \in Answer, fail \in 0 .. MaxAttempts : Resolved(a, fail)
  BY DEF Resolver
<1>. DEFINE t == [acc EXCEPT !.resolving = 0, !.resolved = TRUE]
            s == OnResolve(t, a)
            b == [a EXCEPT !.fail = fail]
<1>0. Sound(acc) /\ acc \in State /\ Reconnects(acc)
  BY DEF Good, Sound
<1>1. acc.resolving > 0
  BY DEF Resolved
\* While the resolver is asked there is no client at all.
<1>2. acc.on_connect_auth /\ \A c \in Con : acc.con[c] = "closed"
  BY <1>1 DEF Honest, Begun
<1>3. acc.connection = None
  BY <1>0, <1>2 DEF Sound, Using, State, Accepted, Established
<1>4. /\ t \in State /\ t.con = acc.con /\ t.connection = acc.connection
      /\ t.last_connection = acc.last_connection /\ Reconnects(t)
      /\ t.connected = acc.connected /\ t.on_connect_auth
      /\ t.resolved /\ t.resolving = 0
      /\ t.on_purpose = acc.on_purpose /\ t.shown = acc.shown
      /\ t.time_to_reconnect = acc.time_to_reconnect
  <2>1. 0 \in 0 .. MaxResolving
    BY ConnectionAssumption
  <2>2. t \in State
    BY <1>0, <2>1 DEF State
  <2>3. /\ t.con = acc.con /\ t.connection = acc.connection
        /\ t.last_connection = acc.last_connection
        /\ t.connected = acc.connected /\ t.on_connect_auth
        /\ t.resolved /\ t.resolving = 0
    BY <1>0, <1>2, <2>1 DEF State
  <2>4. /\ t.shown = acc.shown /\ t.on_purpose = acc.on_purpose
        /\ t.time_to_reconnect = acc.time_to_reconnect
        /\ t.reconnect_alarms = acc.reconnect_alarms
    BY <1>0 DEF State
  <2>. HIDE DEF t
  <2>. QED  BY <1>0, <2>2, <2>3, <2>4 DEF Reconnects
<1>5. Online(acc) => Online(t)
  BY <1>0 DEF State, Online
<1>6. b \in Answer
  BY DEF Answer
<1>7. acc' \in {s, OnResolve(s, b)}
  BY DEF Resolved
<1>. HIDE DEF t, b
<1>8. Good(t)
  BY <1>0, <1>4, SameClients
<1>9. Plain => Online(t) /\ ~(t.connected >= 2) /\ Told(t)
  BY <1>3, <1>4, <1>5 DEF Honest, Session, Told, OfflineTold, Deliberate
<1>10. Plain => Told(s)
  BY <1>8, <1>9, OnResolveTold
<1>11. Good(s) /\ s \in State /\ Attempted(t, s)
  BY <1>8, OnResolveLemma, OnResolveAttempted DEF Good, Sound
<1>. HIDE DEF s
<1>12. Honest(s)
  BY <1>4, <1>9, <1>10, <1>11, AttemptedHonest
\* The second callback tries the same hosts again.
<1>13. Honest(OnResolve(s, b))
  <2>1. /\ s.resolved /\ s.resolving = 0 /\ s.on_connect_auth
    BY <1>4, <1>11 DEF Attempted, Same
  <2>2. /\ OnResolve(s, b) \in State /\ Attempted(s, OnResolve(s, b))
    BY <1>6, <1>11, OnResolveLemma, OnResolveAttempted DEF Good, Sound
  <2>3. Plain => Told(OnResolve(s, b)) /\ Online(s)
                 /\ (s.connected >= 2 => s.connection # None)
    BY <1>6, <1>11, <1>12, OnResolveTold DEF Honest, Session
  <2>. QED  BY <1>11, <2>1, <2>2, <2>3, AttemptedHonest
<1>. QED  BY <1>7, <1>12, <1>13

\* the alarms of reconnection and keepalive,
LEMMA TimerHonest ==
    ASSUME Good(acc), Honest(acc), Timer
    PROVE  Honest(acc')
<1>0. Sound(acc) /\ acc \in State /\ Reconnects(acc)
  BY DEF Good, Sound
\* Alarms are counted, and nothing else.
<1>. DEFINE Alike(s) ==
              /\ s.con = acc.con /\ s.connection = acc.connection
              /\ s.last_connection = acc.last_connection
              /\ s.connected = acc.connected
              /\ s.on_connect_auth = acc.on_connect_auth
              /\ s.resolving = acc.resolving /\ s.resolved = acc.resolved
              /\ s.continue_connect_info = acc.continue_connect_info
              /\ s.passphrase_asked = acc.passphrase_asked
              /\ s.invisible_asked = acc.invisible_asked
              /\ s.old_show = acc.old_show /\ s.shown = acc.shown
              /\ s.on_purpose = acc.on_purpose
              /\ s.time_to_reconnect \in {acc.time_to_reconnect, FALSE}
<1>1. ASSUME NEW s \in State, Alike(s)
      PROVE  Honest(s) /\ Sound(s)
  <2>1. Plain => Told(s)
    BY <1>1 DEF Honest, Told, OfflineTold, Deliberate
  <2>2. Honest(s)
    BY <1>1, <2>1, SameHonest
  <2>. QED  BY <1>0, <1>1, <2>2 DEF Sound, Using, Last
<1>2. CASE CheckKeepalive
  <2>. DEFINE s == [acc EXCEPT !.keepalive_alarms = @ - 1]
  <2>1. acc.keepalive_alarms - 1 \in 0 .. MaxAlarms
    BY <1>0, <1>2, ConnectionAssumption DEF CheckKeepalive, State
  <2>2. s \in State
    BY <1>0, <2>1 DEF State
  <2>3. Alike(s)
    BY <1>0 DEF State
  <2>4. acc' \in {s, DisconnectedReconnCB(s)}
    BY <1>2 DEF CheckKeepalive
  <2>. HIDE DEF s
  <2>5. Honest(s) /\ Sound(s)
    BY <1>1, <2>2, <2>3
  <2>6. Honest(DisconnectedReconnCB(s))
    <3>1. /\ GivesUp(s, DisconnectedReconnCB(s))
          /\ DisconnectedReconnCB(s) \in State
          /\ Plain => Told(DisconnectedReconnCB(s))
      BY <2>5, DisconnectedReconnCBGivesUp, DisconnectedReconnCBTold,
         DisconnectedReconnCBLemma DEF Good, Sound, Honest
    <3>. QED  BY <2>2, <2>5, <3>1, GivesUpHonest
  <2>. QED  BY <2>4, <2>5, <2>6
<1>3. ASSUME NEW a \in Answer, ReconnectAlarm(a)
      PROVE  Honest(acc')
  <2>. DEFINE s == [acc EXCEPT !.reconnect_alarms = @ - 1]
              t == [acc EXCEPT !.reconnect_alarms = @ - 1,
                               !.time_to_reconnect = FALSE]
  <2>1. acc.reconnect_alarms - 1 \in 0 .. MaxAlarms
    BY <1>0, <1>3, ConnectionAssumption DEF ReconnectAlarm, State
  <2>2. s \in State /\ t \in State
    BY <1>0, <2>1 DEF State
  <2>3. Alike(s) /\ Alike(t) /\ s.time_to_reconnect = acc.time_to_reconnect
    BY <1>0 DEF State
  <2>5. \/ acc' \in {s, t}
        \/ acc.time_to_reconnect /\ acc' = Reconnect(s, a)
    BY <1>3 DEF ReconnectAlarm
  <2>. HIDE DEF s, t
  <2>4. Honest(s) /\ Sound(s) /\ Honest(t)
    BY <1>1, <2>2, <2>3
  <2>. QED  BY <2>3, <2>4, <2>5, ReconnectHonest
<1>. QED  BY <1>2, <1>3 DEF Timer

\* and the network manager.
LEMMA NetworkManagerHonest ==
    ASSUME Good(acc), Honest(acc), NetworkManager
    PROVE  Honest(acc')
<1>0. Sound(acc) /\ acc \in State
  BY DEF Good, Sound
<1>1. ASSUME NEW a \in Answer, DeviceNowActive(a)
      PROVE  Honest(acc')
  BY <1>0, <1>1, ReconnectHonest DEF DeviceNowActive
<1>2. CASE DeviceNoLongerActive
  <2>1. /\ GivesUp(acc, DisconnectedReconnCB(acc))
        /\ DisconnectedReconnCB(acc) \in State
        /\ Plain => Told(DisconnectedReconnCB(acc))
    BY <1>0, DisconnectedReconnCBGivesUp, DisconnectedReconnCBTold,
       DisconnectedReconnCBLemma DEF Good, Sound, Honest
  <2>2. acc' = DisconnectedReconnCB(acc)
    BY <1>2 DEF DeviceNoLongerActive
  <2>. QED  BY <1>0, <2>1, <2>2, GivesUpHonest
<1>. QED  BY <1>1, <1>2 DEF NetworkManager

\* Every step keeps the account honest.
LEMMA HonestStep ==
    ASSUME Good(acc), Honest(acc), [Next]_vars
    PROVE  Honest(acc')
<1>1. CASE User \/ Dialog
  BY <1>1, UserHonest, DialogHonest
<1>2. CASE Resolver \/ Timer \/ NetworkManager
  BY <1>2, ResolverHonest, TimerHonest, NetworkManagerHonest
<1>3. ASSUME NEW c \in Con,
             Stream(c) \/ Auth(c) \/ Login(c) \/ Network(c) \/ EndDisconnect(c)
      PROVE  Honest(acc')
  BY <1>3, StreamHonest, AuthHonest, LoginHonest, NetworkHonest,
     EndDisconnectHonest
<1>4. CASE UNCHANGED vars
  BY <1>4 DEF vars
<1>. QED  BY <1>1, <1>2, <1>3, <1>4 DEF Next

\* An account begins honest.
LEMMA HonestInit ==
    ASSUME Init
    PROVE  Honest(acc)
<1>1. /\ acc.connected = OFFLINE /\ acc.connection = None /\ acc.resolving = 0
      /\ acc.shown = "offline" /\ ~acc.on_purpose /\ Online(acc)
  BY DEF Init, Online, OFFLINE
<1>. DEFINE none == [c \in Con |-> "closed"]
<1>2. acc.con = none
  BY DEF Init
<1>3. \A c \in Con : none[c] = "closed"
  OBVIOUS
<1>. HIDE DEF none
<1>4. \A c \in Con : acc.con[c] = "closed"
  BY <1>2, <1>3
<1>. QED  BY <1>1, <1>4
          DEF Honest, Begun, UnderWay, Session, Told, OfflineTold, Deliberate,
              Established, OFFLINE, CONNECTING

-----------------------------------------------------------------------------
(* Theorems.                                                               *)

\* The inductive invariant: a login that is under way has what it waits
\* for, an account that says it connects does, and a show is backed by a
\* session, each under the options Honest names.
THEOREM Honesty == Spec => []Honest(acc)
<1>1. Init => Honest(acc)
  BY HonestInit
<1>2. Honest(acc) /\ Good(acc) /\ RequestType /\ [Next]_vars => Honest(acc)'
  BY HonestStep
<1>3. Spec => [](Good(acc) /\ RequestType)
  BY Invariance
<1>. QED  BY <1>1, <1>2, <1>3, PTL DEF Spec

\* When the authentication of a client ends, _init_roster is there to be
\* called: no lookup, attempt, dialog or loss in between has taken the
\* continuation of the login away, whatever the options are.
THEOREM LoginHasContinuation == Spec => []LoginContinues
<1>1. Honest(acc) => LoginContinues
  BY DEF Honest, Begun, LoginContinues
<1>. QED  BY <1>1, Honesty, PTL

\* An account that says it is connecting is: the resolver has been asked, or
\* there is a client that connects, asks, authenticates or ends.  Only an odd
\* error closes a client that is opening without another attempt.
THEOREM ConnectingEndsSomehow ==
    ASSUME ~OddErrors
    PROVE  Spec => []ConnectingIsUnderWay
<1>1. Honest(acc) => ConnectingIsUnderWay
  BY DEF Honest, UnderWay, ConnectingIsUnderWay
<1>. QED  BY <1>1, Honesty, PTL

\* While no dialog is asked and nobody goes invisible, an account with a show
\* has an authenticated session, and one without a connection is shown offline.
THEOREM StatusIsReal ==
    ASSUME Plain
    PROVE  Spec => []StatusIsTrue
<1>1. Honest(acc) => StatusIsTrue
  BY DEF Honest, Session, Told, OfflineTold, StatusIsTrue, SessionBehindStatus,
         OfflineIsShown
<1>. QED  BY <1>1, Honesty, PTL

=============================================================================
