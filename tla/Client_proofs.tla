---------------------------- MODULE Client_proofs ----------------------------
(***************************************************************************)
(* A client is let in by the server before it says so, and keeps to what   *)
(* Login promises: for any types of connection, number of challenges and   *)
(* requests.  What has to be kept track of is whose turn it is: until a    *)
(* client is logged in, either it has sent one thing, which the handler    *)
(* that is installed waits for, or the answer to it is under way, or it    *)
(* has been dispatched and the handler is about to find it.                *)
(***************************************************************************)
EXTENDS Client, SequenceTheorems, TLAPS

\* What is sent, and what answers it, by the same names
KindOfSent(x) == IF x = "response" THEN "auth" ELSE x

KindOf(e) ==
    CASE e.tag \in {"header", "features"} -> "open"
      [] e.tag \in {"proceed", "tlsfailure"} -> "starttls"
      [] e.tag \in {"challenge", "saslfailure", "success"} -> "auth"
      [] e.tag = "answer" -> e.id
      [] OTHER -> "stanza"

\* The handler that is installed, or that is about to try another, waits for it
Awaits(s, kind) ==
    \/ /\ kind = "open"
       /\ s.features = None /\ s.version # "none" /\ s.bound = "none"
       /\ \/ s.on_receive \in {"attrs", "features", "bind", "process"}
          \/ s.on_receive = "starttls" /\ s.starttls = "success"
    \/ /\ kind = "starttls"
       /\ s.stage = "opening" /\ s.on_receive = "starttls" /\ s.starttls = "asked"
    \/ /\ kind = "auth"
       /\ s.stage = "auth" /\ s.on_receive = "sasl" /\ s.startsasl = "in-process"
    \/ /\ kind \in LoginId
       /\ s.stage = "auth" /\ s.on_receive = "wait"
       /\ s.witid = kind /\ s.expected[kind] = "waiting"

\* Whose turn it is before the client is logged in
Turn(s, w) ==
    \/ s.sent = {} /\ w = <<>>
    \/ \E x \in Sent : s.sent = {x} /\ w = <<>> /\ Awaits(s, KindOfSent(x))
    \/ /\ s.sent = {}
       /\ \E e \in Element : w = <<e>> /\ Awaits(s, KindOf(e))
    \/ /\ s.sent = {} /\ Awaits(s, "open")
       /\ \E f \in Offer : w = <<[tag |-> "header", version |-> "1.0"],
                                 [tag |-> "features", offer |-> f]>>

\* What is under way afterwards
Requests(s, w) ==
    /\ s.sent \subseteq Asks
    /\ s.sent \subseteq s.asked
    /\ \A i \in DOMAIN w :
          w[i].tag = "stanza" \/ (w[i].tag = "answer" /\ w[i].id \in s.asked \ s.sent)

\* The handler fits what the client is doing
Fit(s) ==
    /\ s.on_receive \in {"attrs", "features"} =>
          \/ s.stage = "opening" /\ s.on_stream_start = "tcp"
          \/ s.stage = "auth" /\ s.on_stream_start = "auth" /\ s.startsasl = "none"
    /\ s.on_receive = "features" => s.version # "unknown"
    /\ s.on_receive = "starttls" =>
          s.stage = "opening" /\ s.starttls # "none" /\ s.type # "plain"
    /\ s.on_receive = "sasl" => s.stage = "auth" /\ s.startsasl = "in-process"
    /\ s.on_receive = "bind" => s.stage = "auth" /\ s.startsasl = "success"
    /\ s.on_receive = "wait" =>
          \/ s.stage = "auth" /\ s.witid \in LoginId
          \/ s.stage = "in" /\ s.witid \in Asks
    /\ s.on_receive = "process" => s.stage \in {"asking", "away", "in"}
    /\ s.startsasl # "none" => s.stage \in {"auth", "in"}
    /\ s.startsasl # "success" => s.bound = "none"

\* What the socket does fits the type that is tried
Socket(s) ==
    /\ s.type = "plain" => s.secure = "plain"
    /\ s.type = "tls" /\ s.starttls = "success" => s.secure = "tls"
    /\ s.type = "ssl" => s.starttls = "success" /\ s.secure = "ssl"

Kind(s) ==
    /\ Socket(s)
    /\ s.stage = "opening" =>
          s.connected = IF s.type = "ssl" THEN "ssl" ELSE "tcp"
    /\ s.stage \in {"asking", "auth", "in"} => s.secure = s.type

\* What the client has been told, or will be, the server has agreed to
Granted(s, w, g) ==
    /\ s.secure = "tls" => "tls" \in g
    /\ s.startsasl = "success" => "sasl" \in g
    /\ \A id \in LoginId : s.expected[id] = "ok" => id \in g
    /\ s.witid = "password" => "username" \in g
    /\ s.witid = "bind" => "sasl" \in g
    /\ s.witid = "session" => {"sasl", "bind"} \subseteq g
    /\ \A i \in DOMAIN w :
          /\ w[i].tag = "proceed" => "tls" \in g
          /\ w[i].tag = "success" => "sasl" \in g
          /\ w[i].tag = "answer" /\ w[i].ok => w[i].id \in g
          /\ w[i].tag = "challenge" => s.challenges < MaxChallenges
    /\ s.stage = "in" =>
          \/ {"sasl", "bind", "session"} \subseteq g
          \/ {"username", "password"} \subseteq g

\* The handler that was called with the data is still the one that waits, and
\* an answer that has come is found by it
Reads(s, r, w) ==
    /\ r \notin {None, "process"} =>
          \/ s.on_receive = r
          \/ r = "sasl" /\ s.on_receive = "bind"
    /\ r = "process" => s.stage \in {"asking", "away", "in"}
    /\ s.witid # None =>
          /\ s.expected[s.witid] \in {"ok", "error"} =>
                r = "wait" /\ (s.stage # "in" => s.sent = {} /\ w = <<>>)
          /\ s.expected[s.witid] = "waiting" =>
                /\ s.on_receive = "wait"
                /\ r \notin {None, "wait"} => s.stage = "in" /\ s.witid \in s.sent

\* A client is in order with what is under way and what was granted
Good(s, w, g) ==
    /\ s \in State
    /\ Live(s) => /\ Fit(s) /\ Kind(s) /\ Granted(s, w, g)
                  /\ s.stage # "in" => Turn(s, w)
                  /\ s.stage = "in" => Requests(s, w)

Inv ==
    /\ TypeOK
    /\ Good(cl, wire, granted)
    /\ Live(cl) => Reads(cl, reading, wire)

-----------------------------------------------------------------------------
(* What the methods make of a client.                                      *)

\* A request that is sent is the one that is waited for.
LEMMA SendAndWaitResult ==
    ASSUME NEW s \in State, NEW id \in Id, Live(s)
    PROVE  /\ SendAndWait(s, id) =
                 [s EXCEPT !.sent = @ \cup {id}, !.witid = id,
                           !.expected[id] = "waiting", !.on_receive = "wait"]
           /\ SendAndWait(s, id) \in State
           /\ SendAndWait(s, id).on_receive = "wait"
<1>1. SendAndWait(s, id) =
         [s EXCEPT !.sent = @ \cup {id}, !.witid = id,
                   !.expected[id] = "waiting", !.on_receive = "wait"]
  BY DEF SendAndWait, OnReceive, Return, Send, Live, State, Ended
<1>2. [s EXCEPT !.sent = @ \cup {id}, !.witid = id,
                !.expected[id] = "waiting", !.on_receive = "wait"] \in State
  <2>1. s.sent \cup {id} \in SUBSET Sent
    BY DEF State, Sent
  <2>2. [s.expected EXCEPT ![id] = "waiting"]
          \in [Id -> {"no", "waiting", "ok", "error"}]
    BY DEF State
  <2> QED
    BY <2>1, <2>2 DEF State, Handler
<1>3. [s EXCEPT !.sent = @ \cup {id}, !.witid = id,
                !.expected[id] = "waiting", !.on_receive = "wait"].on_receive
        = "wait"
  BY DEF State
<1> QED
  BY <1>1, <1>2, <1>3

\* A SASL exchange goes on, is refused, or leads to a binding, which waits until
\* it is known whether it is offered.
LEMMA OnStartSaslResult ==
    ASSUME NEW s \in State, Live(s)
    PROVE  /\ s.startsasl = "in-process" => OnStartSasl(s) = Return(s, FALSE)
           /\ s.startsasl = "failure" =>
                 OnStartSasl(s) =
                   Return([s EXCEPT !.on_receive = "process",
                                    !.stage = "refused"], TRUE)
           /\ s.startsasl = "success" /\ s.bound = "none" =>
                 OnStartSasl(s) = Return([s EXCEPT !.on_receive = "bind"], TRUE)
           /\ s.startsasl = "success" /\ s.bound # "none" =>
                 OnStartSasl(s) = Return(SendAndWait(Process(s), "bind"), TRUE)
BY DEF OnStartSasl, OnSaslAuth, OnAuth, OnAuthBind, OnReceive, Process, Return,
       Live, State, Ended

\* What authentication begins with has arrived
Known(s) == s.version = "none" \/ (s.version = "1.0" /\ s.features # None)

\* A client that knows the features of the server asks for the old way, begins
\* with SASL, or is refused, since the server has no mechanism that it knows.
LEMMA OnDocAttrsResult ==
    ASSUME NEW s \in State, Live(s), Known(s), s.on_receive = "process"
    PROVE  /\ OnDocAttrs(s) \in
                 {SendAndWait(s, "username"),
                  [s EXCEPT !.startsasl = "in-process", !.sent = @ \cup {"auth"},
                            !.on_receive = "sasl"],
                  [s EXCEPT !.startsasl = "failure", !.stage = "refused"]}
           /\ OnDocAttrs(s) \in State
<1> DEFINE mechanisms == IF s.version = "none" THEN "none"
                         ELSE s.features.mechanisms
           known == [s EXCEPT !.startsasl = "in-process", !.sent = @ \cup {"auth"}]
           unknown == [s EXCEPT !.startsasl = "failure"]
<1>1. CASE mechanisms = "none"
  BY <1>1, SendAndWaitResult DEF OnDocAttrs, Id, LoginId
<1>2. CASE mechanisms = "known"
  <2>1. OnDocAttrs(s) = OnReceive(known, "sasl", OnStartSasl(known))
    BY <1>2 DEF OnDocAttrs, Send, State
  <2>2. known \in State /\ Live(known) /\ known.startsasl = "in-process"
    BY DEF State, Sent, Live
  <2>3. OnStartSasl(known) = Return(known, FALSE)
    BY <2>2, OnStartSaslResult
  <2>4. OnReceive(known, "sasl", Return(known, FALSE))
          = [known EXCEPT !.on_receive = "sasl"]
    BY <2>2 DEF OnReceive, Return
  <2>5. [known EXCEPT !.on_receive = "sasl"]
          = [s EXCEPT !.startsasl = "in-process", !.sent = @ \cup {"auth"},
                      !.on_receive = "sasl"]
    OBVIOUS
  <2> HIDE DEF known
  <2>6. [known EXCEPT !.on_receive = "sasl"] \in State
    BY <2>2 DEF State, Handler
  <2> QED
    BY <2>1, <2>3, <2>4, <2>5, <2>6
<1>3. CASE mechanisms \notin {"none", "known"}
  <2>1. OnDocAttrs(s) = OnReceive(unknown, "sasl", OnStartSasl(unknown))
    BY <1>3 DEF OnDocAttrs
  <2>2. unknown \in State /\ Live(unknown) /\ unknown.startsasl = "failure"
    BY DEF State, Live
  <2>3. OnStartSasl(unknown)
          = Return([unknown EXCEPT !.on_receive = "process",
                                   !.stage = "refused"], TRUE)
    BY <2>2, OnStartSaslResult
  <2>4. OnReceive(unknown, "sasl", OnStartSasl(unknown))
          = [unknown EXCEPT !.on_receive = "process", !.stage = "refused"]
    BY <2>3 DEF OnReceive, Return
  <2>5. [unknown EXCEPT !.on_receive = "process", !.stage = "refused"]
          = [s EXCEPT !.startsasl = "failure", !.stage = "refused"]
    BY DEF State
  <2> HIDE DEF unknown
  <2>6. [unknown EXCEPT !.on_receive = "process", !.stage = "refused"] \in State
    <3>1. "process" \in Handler /\ "refused" \in Stage
      BY DEF Handler, Stage, Ended
    <3> QED
      BY <2>2, <3>1 DEF State
  <2> QED
    BY <2>1, <2>4, <2>5, <2>6
<1> QED
  BY <1>1, <1>2, <1>3

\* Authentication waits for the header, for the features, or begins.
LEMMA AuthenticateResult ==
    ASSUME NEW s \in State, s.on_receive = "process",
           Live(s)
    PROVE  LET p == [s EXCEPT !.stage = "auth", !.on_stream_start = "auth"]
           IN /\ s.version = "unknown" =>
                    Authenticate(s) = [p EXCEPT !.on_receive = "attrs"]
              /\ s.version = "1.0" /\ s.features = None =>
                    Authenticate(s) = [p EXCEPT !.on_receive = "features"]
              /\ Known(s) =>
                    Authenticate(s)
                      = [OnDocAttrs(p) EXCEPT !.on_stream_start = "none"]
<1> DEFINE p == [s EXCEPT !.stage = "auth", !.on_stream_start = "auth"]
           started == OnDocAttrs(p)
<1>1. /\ p \in State /\ Live(p) /\ Process(p) = p /\ p.on_receive = "process"
      /\ p.version = s.version /\ p.features = s.features
  <2>1. p \in State
    BY DEF State, Stage
  <2>2. /\ p.stage = "auth" /\ p.on_receive = "process"
        /\ p.version = s.version /\ p.features = s.features
    BY DEF State
  <2> HIDE DEF p
  <2>3. Process(p) = p
    BY <2>1, <2>2 DEF Process, State
  <2> QED
    BY <2>1, <2>2, <2>3 DEF Live, Ended
<1>2. Authenticate(s)
        = OnReceive(p, "attrs", OnReceiveDocumentAttrs(p, started))
  BY <1>1 DEF Authenticate
<1>3. ASSUME s.version = "unknown"
      PROVE  Authenticate(s) = [p EXCEPT !.on_receive = "attrs"]
  <2>1. OnReceiveDocumentAttrs(p, started) = Return(p, FALSE)
    BY <1>1, <1>3 DEF OnReceiveDocumentAttrs
  <2> HIDE DEF p, started
  <2> QED
    BY <1>1, <1>2, <2>1 DEF OnReceive, Return
<1>4. ASSUME s.version = "1.0", s.features = None
      PROVE  Authenticate(s) = [p EXCEPT !.on_receive = "features"]
  <2>1. OnReceiveStreamFeatures(p, started) = Return(p, FALSE)
    BY <1>1, <1>4 DEF OnReceiveStreamFeatures
  <2> DEFINE q == [p EXCEPT !.on_receive = "features"]
  <2>2. OnReceive(p, "features", Return(p, FALSE)) = q
    BY <1>1 DEF OnReceive, Return
  <2>3. OnReceiveDocumentAttrs(p, started) = Return(q, FALSE)
    BY <1>1, <1>4, <2>1, <2>2 DEF OnReceiveDocumentAttrs
  <2>4. q.on_receive = "features"
    BY <1>1 DEF State
  <2> HIDE DEF p, started, q
  <2>5. OnReceive(p, "attrs", Return(q, FALSE)) = q
    BY <1>1, <2>4 DEF OnReceive, Return
  <2> QED
    BY <1>2, <2>3, <2>5 DEF q
<1>5. ASSUME Known(s)
      PROVE  Authenticate(s) = [started EXCEPT !.on_stream_start = "none"]
  <2> DEFINE q == [started EXCEPT !.on_stream_start = "none"]
  <2>1. CASE s.version = "none"
    <3>1. OnReceiveDocumentAttrs(p, started) = Return(q, TRUE)
      BY <1>1, <2>1 DEF OnReceiveDocumentAttrs
    <3> HIDE DEF p, started, q
    <3> QED
      BY <1>2, <3>1 DEF OnReceive, Return, q
  <2>2. CASE s.version = "1.0" /\ s.features # None
    <3>1. OnReceiveStreamFeatures(p, started) = Return(q, TRUE)
      BY <1>1, <2>2 DEF OnReceiveStreamFeatures
    <3> HIDE DEF p, started
    <3>2. OnReceive(p, "features", Return(q, TRUE)) = q
      <4> HIDE DEF q
      <4> QED
        BY DEF OnReceive, Return
    <3>3. OnReceiveDocumentAttrs(p, started) = Return(q, FALSE)
      BY <1>1, <2>2, <3>1, <3>2 DEF OnReceiveDocumentAttrs
    <3>4. ~Live(q) \/ q.on_receive # p.on_receive
      <4>1. Known(p)
        BY <1>1, <2>2 DEF Known
      <4>2. /\ started \in
                  {SendAndWait(p, "username"),
                   [p EXCEPT !.startsasl = "in-process",
                             !.sent = @ \cup {"auth"}, !.on_receive = "sasl"],
                   [p EXCEPT !.startsasl = "failure", !.stage = "refused"]}
            /\ started \in State
        <5> HIDE DEF p
        <5> QED
          BY <1>1, <4>1, OnDocAttrsResult DEF started
      <4>3. q.on_receive = started.on_receive /\ q.stage = started.stage
        <5> HIDE DEF started
        <5> QED
          BY <4>2 DEF State
      <4>4. started.on_receive \in {"wait", "sasl"} \/ started.stage = "refused"
        <5> HIDE DEF p, started
        <5>1. SendAndWait(p, "username").on_receive = "wait"
          BY <1>1, SendAndWaitResult DEF Id, LoginId
        <5>2. [p EXCEPT !.startsasl = "in-process", !.sent = @ \cup {"auth"},
                        !.on_receive = "sasl"].on_receive = "sasl"
          BY <1>1 DEF State
        <5>3. [p EXCEPT !.startsasl = "failure", !.stage = "refused"].stage
                = "refused"
          BY <1>1 DEF State
        <5> QED
          BY <4>2, <5>1, <5>2, <5>3
      <4> QED
        BY <1>1, <4>3, <4>4 DEF Live, Ended
    <3> HIDE DEF q
    <3>5. OnReceive(p, "attrs", Return(q, FALSE)) = q
      BY <3>4 DEF OnReceive, Return
    <3> QED
      BY <1>2, <3>3, <3>5 DEF q
  <2> QED
    BY <1>5, <2>1, <2>2 DEF Known
<1> QED
  BY <1>3, <1>4, <1>5

-----------------------------------------------------------------------------
(* What they make of a client that is in order.                            *)

\* No answer is left to be found, and one that is awaited is looked for
Settled(s) ==
    s.witid # None =>
        /\ s.expected[s.witid] \notin {"ok", "error"}
        /\ s.expected[s.witid] = "waiting" => s.on_receive = "wait"

After(s, w, g) == Good(s, w, g) /\ (Live(s) => Settled(s))

\* The beginning of the stream is not waited for
Started(s) == Live(s) => s.on_receive \notin {"attrs", "features"}

\* Nothing but the beginning of a stream is under way
Ready(s, w, g) ==
    /\ s \in State /\ s.stage \in {"opening", "asking", "auth"}
    /\ s.on_receive = "process" /\ s.startsasl = "none" /\ s.bound = "none"
    /\ s.witid # None => s.expected[s.witid] = "no"
    /\ Socket(s) /\ Granted(s, w, g) /\ Turn(s, w)

LEMMA NamesDiffer ==
    /\ None \notin Id /\ None \notin Offer /\ None \notin Handler
    /\ \A id \in LoginId : id \notin Asks
    /\ {"open", "starttls", "auth", "response"} \cap Id = {}
BY NamesAssumption DEF Id, LoginId

\* Once the features are known, the server has nothing more to say.
LEMMA NothingUnderWay ==
    ASSUME NEW s, NEW w, NEW g, Ready(s, w, g)
    PROVE  /\ (s.sent = {} /\ w = <<>>) \/ Awaits(s, "open")
           /\ Known(s) => s.sent = {} /\ w = <<>>
<1>1. \A kind : Awaits(s, kind) => kind = "open"
  BY DEF Ready, Awaits
<1> QED
  BY <1>1 DEF Ready, Turn, Known, Awaits

\* A request of the login is sent when nothing else is under way.
LEMMA RequestGood ==
    ASSUME NEW s \in State, NEW id \in LoginId, NEW g,
           s.stage = "auth", s.secure = s.type, s.sent = {},
           s.startsasl # "success" => s.bound = "none",
           Socket(s), Granted(s, <<>>, g),
           id = "password" => "username" \in g,
           id = "bind" => "sasl" \in g,
           id = "session" => {"sasl", "bind"} \subseteq g
    PROVE  /\ After(SendAndWait(s, id), <<>>, g)
           /\ SendAndWait(s, id).stage = "auth"
           /\ SendAndWait(s, id).on_receive = "wait"
           /\ SendAndWait(s, id).witid = id
<1> DEFINE r == [s EXCEPT !.sent = @ \cup {id}, !.witid = id,
                          !.expected[id] = "waiting", !.on_receive = "wait"]
<1>1. SendAndWait(s, id) = r /\ r \in State
  <2>1. id \in Id /\ Live(s)
    BY DEF Live, Ended, Id
  <2> QED
    BY <2>1, SendAndWaitResult, ZenonT(30)
<1>2. /\ r.stage = "auth" /\ r.secure = r.type /\ r.sent = {id} /\ r.witid = id
      /\ r.on_receive = "wait" /\ r.startsasl = s.startsasl /\ r.bound = s.bound
      /\ r.type = s.type /\ r.starttls = s.starttls /\ r.secure = s.secure
      /\ r.challenges = s.challenges
      /\ r.expected = [s.expected EXCEPT ![id] = "waiting"]
  BY DEF State
<1>3. r.expected[id] = "waiting"
  BY <1>2 DEF State, Id
<1> HIDE DEF r
<1>4. Fit(r)
  BY <1>2 DEF Fit
<1>5. Kind(r)
  BY <1>2 DEF Kind, Socket
<1>6. Granted(r, <<>>, g)
  <2>1. \A i \in LoginId : r.expected[i] = "ok" => i \in g
    BY <1>2, <1>3 DEF Granted, State, Id
  <2> QED
    BY <1>2, <2>1 DEF Granted
<1>7. Turn(r, <<>>)
  <2>1. KindOfSent(id) = id /\ id \in Sent
    BY DEF KindOfSent, LoginId, Sent, Id
  <2>2. Awaits(r, id)
    BY <1>2, <1>3 DEF Awaits
  <2> QED
    BY <1>2, <2>1, <2>2 DEF Turn
<1>8. Settled(r)
  BY <1>2, <1>3 DEF Settled
<1> QED
  BY <1>1, <1>2, <1>4, <1>5, <1>6, <1>7, <1>8 DEF After, Good

\* Authentication begins with SASL or without, or is refused.
LEMMA OnDocAttrsGood ==
    ASSUME NEW s, NEW w, NEW g, Ready(s, w, g), Known(s),
           s.stage = "auth", s.secure = s.type
    PROVE  /\ After(OnDocAttrs(s), w, g)
           /\ OnDocAttrs(s).stage \in {"auth", "refused"}
           /\ Started(OnDocAttrs(s))
<1>1. s \in State /\ Live(s) /\ s.on_receive = "process"
  BY DEF Ready, Live, Ended
<1>2. s.sent = {} /\ w = <<>>
  BY NothingUnderWay
<1> DEFINE known == [s EXCEPT !.startsasl = "in-process",
                              !.sent = @ \cup {"auth"}, !.on_receive = "sasl"]
           unknown == [s EXCEPT !.startsasl = "failure", !.stage = "refused"]
<1>3. /\ OnDocAttrs(s) \in {SendAndWait(s, "username"), known, unknown}
      /\ OnDocAttrs(s) \in State
  BY <1>1, OnDocAttrsResult
<1>4. CASE OnDocAttrs(s) = SendAndWait(s, "username")
  <2>1. /\ After(SendAndWait(s, "username"), <<>>, g)
        /\ SendAndWait(s, "username").stage = "auth"
        /\ SendAndWait(s, "username").on_receive = "wait"
    BY <1>1, <1>2, RequestGood DEF LoginId, Ready
  <2> QED
    BY <1>2, <1>4, <2>1 DEF Started
<1>5. CASE OnDocAttrs(s) = known
  <2>1. /\ known.stage = "auth" /\ known.secure = known.type
        /\ known.sent = {"auth"} /\ known.witid = s.witid
        /\ known.on_receive = "sasl" /\ known.startsasl = "in-process"
        /\ known.bound = "none" /\ known.type = s.type
        /\ known.starttls = s.starttls /\ known.secure = s.secure
        /\ known.challenges = s.challenges /\ known.expected = s.expected
    BY <1>1, <1>2 DEF State, Ready
  <2> HIDE DEF known
  <2>2. Fit(known)
    BY <2>1 DEF Fit
  <2>3. Kind(known)
    BY <2>1 DEF Kind, Socket, Ready
  <2>4. Granted(known, <<>>, g)
    BY <1>2, <2>1 DEF Granted, Ready
  <2>5. Turn(known, <<>>)
    <3>1. KindOfSent("auth") = "auth" /\ "auth" \in Sent
      BY DEF KindOfSent, Sent
    <3>2. Awaits(known, "auth")
      BY <2>1 DEF Awaits
    <3> QED
      BY <2>1, <3>1, <3>2 DEF Turn
  <2>6. Settled(known)
    BY <2>1 DEF Settled, Ready
  <2> QED
    BY <1>2, <1>3, <1>5, <2>1, <2>2, <2>3, <2>4, <2>5, <2>6
       DEF After, Good, Started
<1>6. CASE OnDocAttrs(s) = unknown
  <2>1. unknown.stage = "refused"
    BY <1>1 DEF State
  <2> QED
    BY <1>3, <1>6, <2>1 DEF After, Good, Started, Live, Ended
<1> QED
  BY <1>3, <1>4, <1>5, <1>6

\* Whether the stream has begun matters to what waits for its beginning only.
LEMMA StreamStarted ==
    ASSUME NEW s, NEW w, NEW g, After(s, w, g), Started(s)
    PROVE  LET r == [s EXCEPT !.on_stream_start = "none"]
           IN After(r, w, g) /\ Started(r) /\ r.stage = s.stage
<1> DEFINE r == [s EXCEPT !.on_stream_start = "none"]
<1>1. s \in State
  BY DEF After, Good
<1>2. r \in State
  BY <1>1 DEF State
<1>3. /\ r.type = s.type /\ r.stage = s.stage /\ r.connected = s.connected
      /\ r.secure = s.secure /\ r.on_receive = s.on_receive
      /\ r.version = s.version /\ r.features = s.features
      /\ r.starttls = s.starttls /\ r.startsasl = s.startsasl
      /\ r.challenges = s.challenges /\ r.bound = s.bound /\ r.witid = s.witid
      /\ r.expected = s.expected /\ r.asked = s.asked /\ r.sent = s.sent
  BY <1>1 DEF State
<1> HIDE DEF r
<1>4. Live(r) <=> Live(s)
  BY <1>3 DEF Live
<1>5. ASSUME Live(r)
      PROVE  /\ Fit(r) /\ Kind(r) /\ Granted(r, w, g) /\ Settled(r)
             /\ r.stage # "in" => Turn(r, w)
             /\ r.stage = "in" => Requests(r, w)
  <2>1. Fit(s) /\ s.on_receive \notin {"attrs", "features"}
    BY <1>4, <1>5 DEF After, Good, Started
  <2>2. Fit(r)
    BY <1>3, <2>1 DEF Fit
  <2>3. Kind(r) /\ Settled(r)
    BY <1>3, <1>4, <1>5 DEF After, Good, Kind, Socket, Settled
  <2>4. Granted(r, w, g)
    BY <1>3, <1>4, <1>5 DEF After, Good, Granted
  <2>5. \A kind : Awaits(s, kind) => Awaits(r, kind)
    BY <1>3 DEF Awaits
  <2>6. r.stage # "in" => Turn(r, w)
    BY <1>3, <1>4, <1>5, <2>5 DEF After, Good, Turn
  <2>7. r.stage = "in" => Requests(r, w)
    BY <1>3, <1>4, <1>5 DEF After, Good, Requests
  <2> QED
    BY <2>2, <2>3, <2>4, <2>6, <2>7
<1>6. After(r, w, g) /\ Started(r)
  BY <1>2, <1>3, <1>4, <1>5 DEF After, Good, Started
<1> QED
  BY <1>3, <1>6 DEF r

\* Authentication is good once the socket is of the type that is tried.
LEMMA AuthenticateGood ==
    ASSUME NEW s, NEW w, NEW g, Ready(s, w, g), s.secure = s.type
    PROVE  /\ After(Authenticate(s), w, g)
           /\ Authenticate(s).stage \in {"auth", "refused"}
           /\ Known(s) => Started(Authenticate(s))
<1> DEFINE p == [s EXCEPT !.stage = "auth", !.on_stream_start = "auth"]
<1>1. s \in State /\ Live(s) /\ s.on_receive = "process"
  BY DEF Ready, Live, Ended
<1>2. /\ p \in State /\ p.stage = "auth" /\ p.on_stream_start = "auth"
      /\ p.type = s.type /\ p.secure = s.secure
      /\ p.on_receive = "process" /\ p.version = s.version
      /\ p.features = s.features /\ p.starttls = s.starttls
      /\ p.startsasl = "none" /\ p.challenges = s.challenges
      /\ p.bound = "none" /\ p.witid = s.witid
      /\ p.expected = s.expected /\ p.asked = s.asked /\ p.sent = s.sent
  <2>1. p \in State
    BY <1>1 DEF State, Stage
  <2> QED
    BY <1>1, <2>1 DEF State, Ready
<1>3. /\ s.version = "unknown" =>
            Authenticate(s) = [p EXCEPT !.on_receive = "attrs"]
      /\ s.version = "1.0" /\ s.features = None =>
            Authenticate(s) = [p EXCEPT !.on_receive = "features"]
      /\ Known(s) =>
            Authenticate(s) = [OnDocAttrs(p) EXCEPT !.on_stream_start = "none"]
  BY <1>1, AuthenticateResult
<1> HIDE DEF p
<1>4. Granted(p, w, g) /\ Socket(p)
  BY <1>2 DEF Ready, Granted, Socket
<1>5. ASSUME NEW h \in {"attrs", "features"}, ~Known(s),
             h = "features" => s.version # "unknown",
             Authenticate(s) = [p EXCEPT !.on_receive = h]
      PROVE  /\ After(Authenticate(s), w, g)
             /\ Authenticate(s).stage \in {"auth", "refused"}
  <2> DEFINE r == [p EXCEPT !.on_receive = h]
  <2>1. r \in State
    BY <1>2 DEF State, Handler
  <2>2. /\ r.stage = "auth" /\ r.on_stream_start = "auth"
        /\ r.type = s.type /\ r.secure = s.secure /\ r.on_receive = h
        /\ r.version = s.version
        /\ r.features = s.features /\ r.starttls = s.starttls
        /\ r.startsasl = "none" /\ r.challenges = s.challenges
        /\ r.bound = "none" /\ r.witid = s.witid
        /\ r.expected = s.expected /\ r.sent = s.sent
    BY <1>2 DEF State
  <2> HIDE DEF r
  <2>3. Fit(r)
    BY <1>5, <2>2 DEF Fit
  <2>4. Kind(r) /\ Settled(r)
    BY <2>2 DEF Kind, Socket, Settled, Ready
  <2>5. Granted(r, w, g)
    BY <2>2 DEF Granted, Ready
  <2>6. Awaits(s, "open") => Awaits(r, "open")
    BY <2>2 DEF Awaits, LoginId
  <2>7. \A kind : Awaits(s, kind) => kind = "open"
    BY DEF Ready, Awaits
  <2>8. Turn(r, w)
    BY <2>2, <2>6, <2>7 DEF Turn, Ready
  <2> QED
    BY <1>5, <2>1, <2>2, <2>3, <2>4, <2>5, <2>8 DEF After, Good, r
<1>6. ASSUME Known(s)
      PROVE  /\ After(Authenticate(s), w, g)
             /\ Authenticate(s).stage \in {"auth", "refused"}
             /\ Started(Authenticate(s))
  <2>1. Turn(p, w)
    BY <1>2, <1>6, NothingUnderWay DEF Turn
  <2>2. Ready(p, w, g)
    BY <1>2, <1>4, <2>1 DEF Ready
  <2>3. Known(p)
    BY <1>2, <1>6 DEF Known
  <2>4. /\ After(OnDocAttrs(p), w, g)
        /\ OnDocAttrs(p).stage \in {"auth", "refused"}
        /\ Started(OnDocAttrs(p))
    BY <1>2, <2>2, <2>3, OnDocAttrsGood
  <2> DEFINE r == [OnDocAttrs(p) EXCEPT !.on_stream_start = "none"]
  <2>5. After(r, w, g) /\ Started(r) /\ r.stage = OnDocAttrs(p).stage
    BY <2>4, StreamStarted
  <2> QED
    BY <1>3, <1>6, <2>4, <2>5
<1>7. Known(s) \/ s.version = "unknown" \/ (s.version = "1.0" /\ s.features = None)
  BY <1>1 DEF Known, State
<1> QED
  BY <1>3, <1>5, <1>6, <1>7

\* The account waits for the user, has gone away, or drops the connection.
LEMMA StageGood ==
    ASSUME NEW s, NEW w, NEW g, Ready(s, w, g),
           NEW h \in {"away", "asking", "closed"},
           h = "asking" => s.secure = s.type
    PROVE  LET r == [s EXCEPT !.stage = h]
           IN After(r, w, g) /\ r.stage = h /\ Started(r)
<1>1. s \in State /\ s.on_receive = "process"
  BY DEF Ready
<1> DEFINE r == [s EXCEPT !.stage = h]
<1> SUFFICES After(r, w, g) /\ r.stage = h /\ Started(r)
  OBVIOUS
<1>2. r \in State
  <2>1. h \in Stage
    BY DEF Stage, Ended
  <2> QED
    BY <1>1, <2>1 DEF State
<1>3. /\ r.stage = h /\ r.type = s.type /\ r.secure = s.secure
      /\ r.on_receive = "process" /\ r.version = s.version
      /\ r.features = s.features /\ r.starttls = s.starttls
      /\ r.startsasl = "none" /\ r.challenges = s.challenges
      /\ r.bound = "none" /\ r.witid = s.witid
      /\ r.expected = s.expected /\ r.sent = s.sent
  BY <1>1 DEF State, Ready
<1> HIDE DEF r
<1>4. CASE h = "closed"
  BY <1>2, <1>3, <1>4 DEF After, Good, Live, Ended, Started
<1>5. CASE h # "closed"
  <2>1. Fit(r)
    BY <1>3, <1>5 DEF Fit
  <2>2. Kind(r) /\ Settled(r)
    BY <1>3, <1>5 DEF Kind, Socket, Settled, Ready
  <2>3. Granted(r, w, g)
    BY <1>3, <1>5 DEF Granted, Ready
  <2>4. Awaits(s, "open") => Awaits(r, "open")
    BY <1>1, <1>3 DEF Awaits, LoginId
  <2>5. \A kind : Awaits(s, kind) => kind = "open"
    BY DEF Ready, Awaits
  <2>6. Turn(r, w)
    BY <1>3, <2>4, <2>5 DEF Turn, Ready
  <2> QED
    BY <1>2, <1>3, <1>5, <2>1, <2>2, <2>3, <2>6 DEF After, Good, Started
<1> QED
  BY <1>4, <1>5

\* The account goes on with a connection of the type it tries, and the features
\* of the server count for a stream that has been announced.
LEMMA ConnectSuccessGood ==
    ASSUME NEW s, NEW w, NEW g, Ready(s, w, g), s.stage = "opening",
           s.type = "ssl" => s.connected # "tcp",
           s.connected = "tls" => s.starttls = "success"
    PROVE  /\ After(ConnectSuccess(s), w, g)
           /\ ConnectSuccess(s).stage
                 \in {"away", "asking", "closed", "auth", "refused"}
           /\ Known(s) => Started(ConnectSuccess(s))
<1>1. s \in State /\ s.on_receive = "process"
  BY DEF Ready
<1>2. ConnectionType(s) = s.type => s.secure = s.type
  BY <1>1 DEF ConnectionType, Ready, Socket, State
<1>3. ASSUME NEW h \in {"away", "asking", "closed"},
             h = "asking" => s.secure = s.type,
             ConnectSuccess(s) = [s EXCEPT !.stage = h]
      PROVE  /\ After(ConnectSuccess(s), w, g)
             /\ ConnectSuccess(s).stage \in {"away", "asking", "closed"}
             /\ Started(ConnectSuccess(s))
  <2> DEFINE r == [s EXCEPT !.stage = h]
  <2>1. After(r, w, g) /\ r.stage = h /\ Started(r)
    BY <1>3, StageGood
  <2> QED
    BY <1>3, <2>1
<1>4. CASE s.answer = "offline"
  <2>1. ConnectSuccess(s) = [s EXCEPT !.stage = "away"]
    BY <1>4 DEF ConnectSuccess
  <2> QED
    BY <1>3, <2>1
<1>5. CASE s.answer # "offline" /\ ConnectionType(s) # s.type
  <2>1. ConnectSuccess(s) = [s EXCEPT !.stage = "closed"]
    BY <1>5 DEF ConnectSuccess
  <2> QED
    BY <1>3, <2>1
<1>6. CASE s.answer = "ask" /\ ConnectionType(s) = s.type
  <2>1. ConnectSuccess(s) = [s EXCEPT !.stage = "asking"]
    BY <1>6 DEF ConnectSuccess
  <2> QED
    BY <1>2, <1>3, <1>6, <2>1
<1>7. CASE s.answer = "accept" /\ ConnectionType(s) = s.type
  <2>1. ConnectSuccess(s) = Authenticate(s)
    BY <1>7 DEF ConnectSuccess
  <2> QED
    BY <1>2, <1>7, <2>1, AuthenticateGood
<1> QED
  BY <1>1, <1>4, <1>5, <1>6, <1>7 DEF State

\* Once TLS has been agreed to or refused, the account goes on with what it has.
LEMMA OnReceiveStartTLSGood ==
    ASSUME NEW s \in State, NEW w, NEW g, Ready(Process(s), w, g),
           s.stage = "opening", s.starttls \in {"failure", "success"},
           s.connected = IF s.type = "ssl" THEN "ssl" ELSE "tcp"
    PROVE  /\ After(OnReceiveStartTLS(s).cl, w, g)
           /\ OnReceiveStartTLS(s).cl.stage
                 \in {"away", "asking", "closed", "auth", "refused"}
           /\ Known(s) => Started(OnReceiveStartTLS(s).cl)
           /\ s.starttls = "success" => OnReceiveStartTLS(s).done
<1> DEFINE p == Process(s)
<1>1. p \in State /\ Process(p) = p
  BY ZenonT(30) DEF Process, State, Handler
<1>2. /\ p.stage = "opening" /\ p.type = s.type /\ p.connected = s.connected
      /\ p.version = s.version /\ p.features = s.features
      /\ p.starttls = s.starttls
  BY DEF Process, State
<1>3. CASE s.starttls = "failure"
  <2>1. OnReceiveStartTLS(s) = Return(ConnectSuccess(p), FALSE)
    <3> HIDE DEF p
    <3>1. IsConnected(p) = ConnectSuccess(p)
      BY <1>1 DEF IsConnected
    <3> QED
      BY <1>3, <3>1 DEF OnReceiveStartTLS, p
  <2>2. OnReceiveStartTLS(s).cl = ConnectSuccess(p)
    BY <2>1 DEF Return
  <2>3. Known(s) <=> Known(p)
    BY <1>2 DEF Known
  <2> HIDE DEF p
  <2> QED
    BY <1>2, <1>3, <2>2, <2>3, ConnectSuccessGood DEF p
<1>4. CASE s.starttls = "success"
  <2> DEFINE q == [p EXCEPT !.connected = "tls"]
  <2>1. /\ q \in State /\ q.connected = "tls"
        /\ q.type = s.type /\ q.stage = "opening" /\ q.secure = p.secure
        /\ q.on_receive = p.on_receive /\ q.version = s.version
        /\ q.features = s.features /\ q.starttls = s.starttls
        /\ q.startsasl = p.startsasl /\ q.challenges = p.challenges
        /\ q.bound = p.bound /\ q.witid = p.witid
        /\ q.expected = p.expected /\ q.sent = p.sent
    <3> HIDE DEF p
    <3> QED
      BY <1>1, <1>2 DEF State
  <2>2. Process(q) = q
    <3>1. p.on_receive = "process"
      BY DEF Process, State
    <3> HIDE DEF q
    <3> QED
      BY <2>1, <3>1 DEF Process, State
  <2>3. OnReceiveStartTLS(s) = Return(ConnectSuccess(q), TRUE)
    <3> HIDE DEF p, q
    <3>1. IsConnected(q) = ConnectSuccess(q)
      BY <2>2 DEF IsConnected
    <3> QED
      BY <1>4, <3>1 DEF OnReceiveStartTLS, p, q
  <2>4. OnReceiveStartTLS(s).cl = ConnectSuccess(q) /\ OnReceiveStartTLS(s).done
    BY <2>3 DEF Return
  <2>5. Known(s) <=> Known(q)
    BY <2>1 DEF Known
  <2> HIDE DEF p, q
  <2>6. Granted(q, w, g) /\ Socket(q)
    BY <1>2, <2>1 DEF Ready, Granted, Socket, p
  <2>7. \A kind : Awaits(p, kind) => Awaits(q, kind)
    BY <1>2, <2>1 DEF Awaits
  <2>8. Turn(q, w)
    BY <2>1, <2>7 DEF Ready, Turn, p
  <2>9. Ready(q, w, g)
    BY <2>1, <2>6, <2>8 DEF Ready, p
  <2> QED
    BY <1>4, <2>1, <2>4, <2>5, <2>9, ConnectSuccessGood
<1> QED
  BY <1>3, <1>4

\* At the beginning of the first stream the account goes on, or asks for TLS.
LEMMA OnTcpStreamStartGood ==
    ASSUME NEW s, NEW w, NEW g, Ready(s, w, g), Known(s), s.stage = "opening",
           s.connected = IF s.type = "ssl" THEN "ssl" ELSE "tcp"
    PROVE  /\ After(OnTcpStreamStart(s), w, g)
           /\ OnTcpStreamStart(s).stage
                 \in {"opening", "away", "asking", "closed", "auth", "refused"}
           /\ Started(OnTcpStreamStart(s))
<1> DEFINE offered == s.version = "1.0" /\ s.features.starttls
<1>1. s \in State /\ Process(s) = s
  BY DEF Ready, Process, State
<1>2. CASE s.type = "plain" \/ ~offered
  <2>1. OnTcpStreamStart(s) = ConnectSuccess(s)
    BY <1>1, <1>2 DEF OnTcpStreamStart, IsConnected
  <2> QED
    BY <2>1, ConnectSuccessGood
<1>3. CASE ~(s.type = "plain" \/ ~offered) /\ s.starttls = "success"
  <2>1. OnTcpStreamStart(s) = OnReceive(s, "starttls", OnReceiveStartTLS(s))
    BY <1>1, <1>3 DEF OnTcpStreamStart
  <2>2. /\ After(OnReceiveStartTLS(s).cl, w, g)
        /\ OnReceiveStartTLS(s).cl.stage
             \in {"away", "asking", "closed", "auth", "refused"}
        /\ Started(OnReceiveStartTLS(s).cl)
        /\ OnReceiveStartTLS(s).done
    BY <1>1, <1>3, OnReceiveStartTLSGood
  <2>3. OnTcpStreamStart(s) = OnReceiveStartTLS(s).cl
    BY <2>1, <2>2 DEF OnReceive
  <2> QED
    BY <2>2, <2>3
<1>4. CASE ~(s.type = "plain" \/ ~offered) /\ s.starttls # "success"
  <2> DEFINE asked == [s EXCEPT !.starttls = "asked",
                                !.sent = @ \cup {"starttls"}]
             r == [asked EXCEPT !.on_receive = "starttls"]
  <2>1. asked \in State /\ asked.starttls = "asked" /\ asked.stage = "opening"
        /\ asked.on_receive = s.on_receive
    <3>1. s.sent \cup {"starttls"} \in SUBSET Sent
      BY <1>1 DEF State, Sent
    <3> QED
      BY <1>1, <1>4, <3>1, ZenonT(30) DEF State
  <2>2. OnTcpStreamStart(s)
          = OnReceive(asked, "starttls", OnReceiveStartTLS(asked))
    BY <1>1, <1>4 DEF OnTcpStreamStart, Send, State
  <2>3. r \in State
    <3> HIDE DEF asked
    <3> QED
      BY <2>1 DEF State, Handler
  <2>4. s.sent = {} /\ w = <<>>
    BY NothingUnderWay
  <2>5. /\ r.stage = "opening" /\ r.type = s.type /\ r.secure = s.secure
        /\ r.connected = s.connected
        /\ r.on_receive = "starttls" /\ r.starttls = "asked"
        /\ r.startsasl = "none" /\ r.challenges = s.challenges
        /\ r.bound = "none" /\ r.witid = s.witid
        /\ r.expected = s.expected /\ r.sent = {"starttls"}
    BY <1>1, <2>4 DEF State, Ready
  <2> HIDE DEF asked
  <2>6. OnTcpStreamStart(s) = r
    <3>1. OnReceiveStartTLS(asked) = Return(asked, FALSE)
      BY <2>1 DEF OnReceiveStartTLS
    <3> QED
      BY <2>1, <2>2, <3>1 DEF OnReceive, Return, Live, Ended
  <2> HIDE DEF r
  <2>7. Fit(r)
    BY <1>4, <2>5 DEF Fit
  <2>8. Kind(r) /\ Settled(r)
    BY <1>4, <2>5 DEF Kind, Socket, Settled, Ready
  <2>9. Granted(r, w, g)
    BY <2>5 DEF Granted, Ready
  <2>10. Turn(r, w)
    <3>1. KindOfSent("starttls") = "starttls" /\ "starttls" \in Sent
      BY DEF KindOfSent, Sent
    <3>2. Awaits(r, "starttls")
      BY <2>5 DEF Awaits
    <3> QED
      BY <2>4, <2>5, <3>1, <3>2 DEF Turn
  <2> QED
    BY <2>3, <2>5, <2>6, <2>7, <2>8, <2>9, <2>10 DEF After, Good, Started
<1> QED
  BY <1>2, <1>3, <1>4

\* What a handler that waits for the beginning of a stream, or for TLS, finds.
LEMMA ProcessReady ==
    ASSUME NEW s, NEW w, NEW g, NEW h, Good(s, w, g), Live(s), Reads(s, h, w),
           h = s.on_receive,
           \/ h \in {"attrs", "features"}
           \/ h = "starttls" /\ s.starttls # "asked"
    PROVE  Ready(Process(s), w, g) /\ Settled(s)
<1> DEFINE p == Process(s)
<1>1. /\ s \in State /\ Fit(s) /\ Kind(s) /\ Granted(s, w, g)
      /\ s.stage # "in" => Turn(s, w)
  BY DEF Good
<1>2. /\ s.stage \in {"opening", "auth"} /\ s.startsasl = "none"
      /\ s.bound = "none" /\ h \notin {None, "process", "wait"}
  BY <1>1, NamesDiffer DEF Fit, Handler
<1>3. s.witid # None => s.expected[s.witid] = "no"
  <2>1. s.witid # None => s.expected[s.witid] \in {"no", "waiting", "ok", "error"}
    BY <1>1 DEF State
  <2> QED
    BY <1>2, <2>1 DEF Reads
<1>4. /\ p \in State /\ p.on_receive = "process"
      /\ p.type = s.type /\ p.stage = s.stage /\ p.secure = s.secure
      /\ p.version = s.version /\ p.features = s.features
      /\ p.starttls = s.starttls /\ p.startsasl = s.startsasl
      /\ p.challenges = s.challenges /\ p.bound = s.bound /\ p.witid = s.witid
      /\ p.expected = s.expected /\ p.sent = s.sent
  BY <1>1 DEF Process, State, Handler
<1> HIDE DEF p
<1>5. Socket(p)
  BY <1>1, <1>4 DEF Kind, Socket
<1>6. Granted(p, w, g)
  BY <1>1, <1>4 DEF Granted
<1>7. \A kind : Awaits(s, kind) => Awaits(p, kind)
  BY <1>2, <1>4 DEF Awaits
<1>8. Turn(p, w)
  BY <1>1, <1>2, <1>4, <1>7 DEF Turn
<1> QED
  BY <1>2, <1>3, <1>4, <1>5, <1>6, <1>8 DEF Ready, Settled, p

\* What the stage may be after one event
Leads(a, b) ==
    \/ b = a
    \/ a = "opening" /\ b \in {"away", "asking", "closed", "auth", "refused"}
    \/ a = "auth" /\ b \in {"in", "refused"}

\* The stream has begun.
LEMMA OnStreamStartGood ==
    ASSUME NEW s, NEW w, NEW g, NEW h \in {"attrs", "features"},
           Good(s, w, g), Live(s), Reads(s, h, w), h = s.on_receive, Known(s)
    PROVE  LET r == [OnStreamStart(Process(s)) EXCEPT !.on_stream_start = "none"]
           IN /\ After(r, w, g) /\ Leads(s.stage, r.stage)
<1> DEFINE p == Process(s)
           started == OnStreamStart(p)
<1>1. s \in State /\ Fit(s) /\ Kind(s)
  BY DEF Good
<1>2. Ready(p, w, g)
  BY ProcessReady
<1>3. /\ p \in State /\ p.stage = s.stage /\ p.type = s.type
      /\ p.secure = s.secure /\ p.connected = s.connected
      /\ p.version = s.version /\ p.features = s.features
      /\ p.on_stream_start = s.on_stream_start
  BY <1>1 DEF Process, State, Handler
<1> HIDE DEF p
<1>4. Known(p)
  BY <1>3 DEF Known
<1>5. After(started, w, g) /\ Started(started) /\ Leads(s.stage, started.stage)
  <2>1. CASE s.stage = "opening"
    <3>1. started = OnTcpStreamStart(p)
      BY <1>1, <1>3, <2>1 DEF Fit, OnStreamStart
    <3> QED
      BY <1>1, <1>2, <1>3, <1>4, <2>1, <3>1, OnTcpStreamStartGood DEF Kind, Leads
  <2>2. CASE s.stage = "auth"
    <3>1. started = OnDocAttrs(p)
      BY <1>1, <1>3, <2>2 DEF Fit, OnStreamStart
    <3> QED
      BY <1>1, <1>2, <1>3, <1>4, <2>2, <3>1, OnDocAttrsGood DEF Kind, Leads
  <2> QED
    BY <1>1, <2>1, <2>2 DEF Fit
<1> DEFINE r == [started EXCEPT !.on_stream_start = "none"]
<1> HIDE DEF started
<1>6. After(r, w, g) /\ r.stage = started.stage
  BY <1>5, StreamStarted
<1> QED
  BY <1>5, <1>6 DEF started, p

\* Data that waits for the attributes of the stream, or its features, is looked
\* for, and what comes next is tried with it.
LEMMA BeginningGood ==
    ASSUME NEW s, NEW w, NEW g, NEW h \in {"attrs", "features"},
           Good(s, w, g), Live(s), Reads(s, h, w)
    PROVE  After(Handle(s, h), w, g) /\ Leads(s.stage, Handle(s, h).stage)
<1> DEFINE started == OnStreamStart(Process(s))
           r == [started EXCEPT !.on_stream_start = "none"]
           q == [Process(s) EXCEPT !.on_receive = "features"]
<1>1. s \in State /\ s.on_receive = h
  BY NamesDiffer DEF Good, Reads, Handler
<1>2. After(s, w, g) /\ Ready(Process(s), w, g)
  BY <1>1, ProcessReady DEF After
<1>3. Known(s) => After(r, w, g) /\ Leads(s.stage, r.stage)
  BY <1>1, OnStreamStartGood
<1>4. ASSUME s.version # "unknown"
      PROVE  After(q, w, g) /\ q.stage = s.stage
  <2>1. q \in State
    BY <1>1 DEF Process, State, Handler
  <2>2. /\ q.type = s.type /\ q.stage = s.stage /\ q.secure = s.secure
        /\ q.on_receive = "features" /\ q.connected = s.connected
        /\ q.on_stream_start = s.on_stream_start
        /\ q.version = s.version /\ q.features = s.features
        /\ q.starttls = s.starttls /\ q.startsasl = s.startsasl
        /\ q.challenges = s.challenges /\ q.bound = s.bound
        /\ q.witid = s.witid /\ q.expected = s.expected /\ q.sent = s.sent
    BY <1>1 DEF Process, State
  <2>3. /\ Fit(s) /\ Kind(s) /\ Granted(s, w, g) /\ Settled(s)
        /\ s.stage # "in" => Turn(s, w)
    BY <1>2 DEF After, Good
  <2>4. s.witid # None => s.expected[s.witid] # "waiting"
    BY <1>1, <2>3 DEF Settled
  <2> HIDE DEF q
  <2>5. Fit(q)
    BY <1>1, <1>4, <2>2, <2>3 DEF Fit
  <2>6. Kind(q) /\ Settled(q)
    BY <1>1, <2>2, <2>3, <2>4 DEF Kind, Socket, Settled
  <2>7. Granted(q, w, g)
    BY <2>2, <2>3 DEF Granted
  <2>8. \A kind : Awaits(s, kind) => Awaits(q, kind)
    BY <1>1, <2>2 DEF Awaits
  <2>9. q.stage \in {"opening", "auth"}
    BY <1>1, <2>2, <2>3 DEF Fit
  <2>10. Turn(q, w)
    BY <2>2, <2>3, <2>8, <2>9 DEF Turn
  <2> QED
    BY <2>1, <2>2, <2>5, <2>6, <2>7, <2>9, <2>10 DEF After, Good
<1>5. /\ s.features = None =>
            OnReceiveStreamFeatures(s, started) = Return(s, FALSE)
      /\ s.features # None =>
            OnReceiveStreamFeatures(s, started) = Return(r, TRUE)
      /\ s.version = "unknown" =>
            OnReceiveDocumentAttrs(s, started) = Return(s, FALSE)
      /\ s.version = "none" =>
            OnReceiveDocumentAttrs(s, started) = Return(r, TRUE)
  BY DEF OnReceiveStreamFeatures, OnReceiveDocumentAttrs
<1>6. ASSUME s.version = "1.0"
      PROVE  OnReceiveDocumentAttrs(s, started).cl
               = IF s.features = None THEN q ELSE r
  <2> DEFINE p == Process(s)
  <2>1. /\ p.features = s.features /\ p.on_receive = "process"
        /\ p.stage = s.stage
    BY <1>1 DEF Process, State
  <2>2. OnReceiveDocumentAttrs(s, started).cl
          = OnReceive(p, "features", OnReceiveStreamFeatures(p, started))
    BY <1>6 DEF OnReceiveDocumentAttrs, Return
  <2> HIDE DEF p, started
  <2>3. CASE s.features = None
    <3>1. OnReceiveStreamFeatures(p, started) = Return(p, FALSE)
      BY <2>1, <2>3 DEF OnReceiveStreamFeatures
    <3>2. Live(p)
      BY <2>1 DEF Live
    <3> QED
      BY <2>2, <2>3, <3>1, <3>2 DEF OnReceive, Return, p
  <2>4. CASE s.features # None
    <3>1. OnReceiveStreamFeatures(p, started) = Return(r, TRUE)
      BY <2>1, <2>4 DEF OnReceiveStreamFeatures
    <3> HIDE DEF r
    <3> QED
      BY <2>2, <2>4, <3>1 DEF OnReceive, Return
  <2> QED
    BY <2>3, <2>4
<1>7. Known(s) <=> s.version = "none" \/ (s.version = "1.0" /\ s.features # None)
  BY DEF Known
<1>8. Leads(s.stage, s.stage)
  BY DEF Leads
<1>9. CASE h = "features"
  <2>1. Handle(s, h) = OnReceiveStreamFeatures(s, started).cl
    BY <1>9 DEF Handle
  <2>2. s.version \in {"none", "1.0"}
    BY <1>1, <1>9 DEF Good, Fit, State
  <2> HIDE DEF r, started
  <2> QED
    BY <1>2, <1>3, <1>5, <1>7, <1>8, <2>1, <2>2 DEF Return
<1>10. CASE h = "attrs"
  <2>1. Handle(s, h) = OnReceiveDocumentAttrs(s, started).cl
    BY <1>10 DEF Handle
  <2> HIDE DEF r, started, q
  <2>2. s.version \in {"unknown", "none", "1.0"}
    BY <1>1 DEF State
  <2> QED
    BY <1>2, <1>3, <1>4, <1>5, <1>6, <1>7, <1>8, <2>1, <2>2 DEF Return
<1> QED
  BY <1>9, <1>10

\* A resource is bound once it is known that it may be.
LEMMA BindGood ==
    ASSUME NEW s, NEW w, NEW g, Good(s, w, g), Live(s),
           s.on_receive = "bind", s.bound # "none"
    PROVE  LET r == SendAndWait(Process(s), "bind")
           IN After(r, w, g) /\ r.stage = s.stage
<1> DEFINE p == Process(s)
<1>1. /\ s \in State /\ Fit(s) /\ Kind(s) /\ Granted(s, w, g)
      /\ s.stage = "auth" /\ s.startsasl = "success" /\ Turn(s, w)
  BY DEF Good, Fit
<1>2. /\ p \in State /\ p.stage = "auth"
      /\ p.type = s.type /\ p.secure = s.secure
      /\ p.starttls = s.starttls /\ p.startsasl = "success"
      /\ p.challenges = s.challenges /\ p.witid = s.witid
      /\ p.expected = s.expected /\ p.sent = s.sent
  BY <1>1 DEF Process, State, Handler
<1>3. s.sent = {} /\ w = <<>>
  <2>1. \A kind : ~Awaits(s, kind)
    BY <1>1 DEF Awaits
  <2> QED
    BY <1>1, <2>1 DEF Turn
<1> HIDE DEF p
<1>4. Granted(p, <<>>, g) /\ Socket(p)
  BY <1>1, <1>2, <1>3 DEF Granted, Kind, Socket
<1>5. p.secure = p.type /\ "sasl" \in g
  BY <1>1, <1>2 DEF Kind, Granted
<1>6. "bind" \in LoginId
  BY DEF LoginId
<1>7. /\ After(SendAndWait(p, "bind"), <<>>, g)
      /\ SendAndWait(p, "bind").stage = "auth"
  BY <1>2, <1>3, <1>4, <1>5, <1>6, RequestGood
<1> QED
  BY <1>1, <1>3, <1>7 DEF p

\* SASL goes on, or a resource is bound.
LEMMA SaslGood ==
    ASSUME NEW s, NEW w, NEW g, NEW h \in {"sasl", "bind"},
           Good(s, w, g), Live(s), Reads(s, h, w)
    PROVE  After(Handle(s, h), w, g) /\ Leads(s.stage, Handle(s, h).stage)
<1>1. /\ s \in State /\ Fit(s)
      /\ s.on_receive = h \/ (h = "sasl" /\ s.on_receive = "bind")
  BY NamesDiffer DEF Good, Reads, Handler
<1>2. Settled(s)
  BY <1>1, NamesDiffer DEF Reads, Settled, Handler
<1>3. After(s, w, g) /\ Leads(s.stage, s.stage)
  BY <1>2 DEF After, Leads
<1> DEFINE r == SendAndWait(Process(s), "bind")
<1>4. CASE s.on_receive = "sasl"
  <2>1. Handle(s, h) = OnStartSasl(s).cl /\ s.startsasl = "in-process"
    BY <1>1, <1>4 DEF Handle, Fit
  <2>2. OnStartSasl(s) = Return(s, FALSE)
    BY <1>1, <2>1, OnStartSaslResult
  <2> QED
    BY <1>3, <2>1, <2>2 DEF Return
<1>5. CASE s.on_receive = "bind"
  <2>1. s.startsasl = "success"
    BY <1>1, <1>5 DEF Fit
  <2>2. s.bound # "none" => After(r, w, g) /\ r.stage = s.stage
    BY <1>5, BindGood
  <2>3. CASE h = "sasl"
    <3>1. Handle(s, h) = OnStartSasl(s).cl
      BY <2>3 DEF Handle
    <3>2. [s EXCEPT !.on_receive = "bind"] = s
      BY <1>1, <1>5 DEF State
    <3>3. s.bound = "none" => OnStartSasl(s) = Return(s, TRUE)
      BY <1>1, <2>1, <3>2, OnStartSaslResult
    <3>4. s.bound # "none" => OnStartSasl(s) = Return(r, TRUE)
      BY <1>1, <2>1, OnStartSaslResult
    <3> HIDE DEF r
    <3> QED
      BY <1>3, <2>2, <3>1, <3>3, <3>4 DEF Leads, Return
  <2>4. CASE h = "bind"
    <3>1. Handle(s, h) = OnAuthBind(s).cl
      BY <2>4 DEF Handle
    <3>2. OnAuthBind(s).cl = IF s.bound = "none" THEN s ELSE r
      BY DEF OnAuthBind, Return
    <3> HIDE DEF r
    <3> QED
      BY <1>3, <2>2, <3>1, <3>2 DEF Leads
  <2> QED
    BY <2>3, <2>4
<1> QED
  BY <1>1, <1>4, <1>5

\* The answer of the server about TLS is waited for, or taken into account.
LEMMA StartTLSGood ==
    ASSUME NEW s, NEW w, NEW g,
           Good(s, w, g), Live(s), Reads(s, "starttls", w)
    PROVE  /\ After(Handle(s, "starttls"), w, g)
           /\ Leads(s.stage, Handle(s, "starttls").stage)
<1>1. /\ s \in State /\ s.on_receive = "starttls" /\ s.stage = "opening"
      /\ s.starttls # "none"
      /\ s.connected = IF s.type = "ssl" THEN "ssl" ELSE "tcp"
  BY NamesDiffer DEF Good, Reads, Handler, Fit, Kind
<1>2. Handle(s, "starttls") = OnReceiveStartTLS(s).cl
  BY DEF Handle
<1>3. CASE s.starttls = "asked"
  <2>1. Handle(s, "starttls") = s
    BY <1>2, <1>3 DEF OnReceiveStartTLS, Return
  <2>2. Settled(s)
    BY NamesDiffer DEF Reads, Settled, Handler
  <2> QED
    BY <2>1, <2>2 DEF After, Leads
<1>4. CASE s.starttls # "asked"
  <2>1. Ready(Process(s), w, g)
    BY <1>1, <1>4, ProcessReady
  <2>2. s.starttls \in {"failure", "success"}
    BY <1>1, <1>4 DEF State
  <2> QED
    BY <1>1, <1>2, <2>1, <2>2, OnReceiveStartTLSGood DEF Leads
<1> QED
  BY <1>3, <1>4

\* An answer that was passed on is not found again.
LEMMA ToldGood ==
    ASSUME NEW s, NEW w, NEW g, NEW id \in Id, Good(s, w, g),
           Live(s) => \/ s.witid # id /\ Settled(s)
                      \/ s.witid = id /\ s.stage = "in"
    PROVE  LET r == [s EXCEPT !.told = @ \cup {id}, !.expected[id] = "no"]
           IN After(r, w, g) /\ r.stage = s.stage
<1> DEFINE r == [s EXCEPT !.told = @ \cup {id}, !.expected[id] = "no"]
<1>1. s \in State
  BY DEF Good
<1>2. r \in State
  <2>1. s.told \cup {id} \in SUBSET Id
    BY <1>1 DEF State
  <2>2. [s.expected EXCEPT ![id] = "no"]
          \in [Id -> {"no", "waiting", "ok", "error"}]
    BY <1>1 DEF State
  <2> QED
    BY <1>1, <2>1, <2>2 DEF State
<1>3. /\ r.type = s.type /\ r.stage = s.stage /\ r.connected = s.connected
      /\ r.secure = s.secure /\ r.on_receive = s.on_receive
      /\ r.on_stream_start = s.on_stream_start
      /\ r.version = s.version /\ r.features = s.features
      /\ r.starttls = s.starttls /\ r.startsasl = s.startsasl
      /\ r.challenges = s.challenges /\ r.bound = s.bound /\ r.witid = s.witid
      /\ r.asked = s.asked /\ r.sent = s.sent
  BY <1>1 DEF State
<1>4. /\ r.expected[id] = "no"
      /\ \A i \in Id : i # id => r.expected[i] = s.expected[i]
  BY <1>1 DEF State
<1> HIDE DEF r
<1>5. ASSUME Live(s)
      PROVE  /\ Fit(r) /\ Kind(r) /\ Granted(r, w, g) /\ Settled(r)
             /\ r.stage # "in" => Turn(r, w)
             /\ r.stage = "in" => Requests(r, w)
  <2>1. /\ Fit(s) /\ Kind(s) /\ Granted(s, w, g)
        /\ s.stage # "in" => Turn(s, w)
        /\ s.stage = "in" => Requests(s, w)
    BY <1>5 DEF Good
  <2>2. Fit(r) /\ Kind(r)
    BY <1>3, <2>1 DEF Fit, Kind, Socket
  <2>3. Granted(r, w, g)
    <3>1. \A i \in LoginId : r.expected[i] = "ok" => i \in g
      BY <1>4, <2>1 DEF Granted, Id
    <3> QED
      BY <1>3, <2>1, <3>1 DEF Granted
  <2>4. Settled(r)
    <3>1. s.witid \in Id \cup {None}
      BY <1>1 DEF State
    <3> QED
      BY <1>3, <1>4, <1>5, <3>1 DEF Settled
  <2>5. ASSUME r.stage # "in"
        PROVE  Turn(r, w)
    <3>1. s.witid # id
      BY <1>3, <1>5, <2>5
    <3>2. \A kind : Awaits(s, kind) => Awaits(r, kind)
      BY <1>3, <1>4, <3>1 DEF Awaits, Id
    <3> QED
      BY <1>3, <2>1, <2>5, <3>2 DEF Turn
  <2>6. r.stage = "in" => Requests(r, w)
    BY <1>3, <2>1 DEF Requests
  <2> QED
    BY <2>2, <2>3, <2>4, <2>5, <2>6
<1>6. Live(r) <=> Live(s)
  BY <1>3 DEF Live
<1>7. After(r, w, g)
  BY <1>2, <1>5, <1>6 DEF After, Good
<1> QED
  BY <1>3, <1>7 DEF r

\* A login that has been granted ends.
LEMMA OnAuthGood ==
    ASSUME NEW s \in State, NEW g, Kind(s), Granted(s, <<>>, g),
           s.stage = "auth", s.sent = {},
           s.startsasl # "success" => s.bound = "none",
           \/ {"sasl", "bind", "session"} \subseteq g
           \/ {"username", "password"} \subseteq g
    PROVE  Good(Process([s EXCEPT !.stage = "in"]), <<>>, g)
<1> DEFINE p == [s EXCEPT !.stage = "in"]
           r == Process(p)
<1>1. p \in State /\ p.stage = "in"
  BY DEF State, Stage
<1>2. /\ p.type = s.type /\ p.secure = s.secure /\ p.starttls = s.starttls
      /\ p.startsasl = s.startsasl /\ p.bound = s.bound
      /\ p.challenges = s.challenges
      /\ p.witid = s.witid /\ p.expected = s.expected /\ p.sent = {}
  BY DEF State
<1> HIDE DEF p
<1>3. /\ r \in State /\ r.stage = "in" /\ r.on_receive = "process"
      /\ r.type = s.type /\ r.secure = s.secure /\ r.starttls = s.starttls
      /\ r.startsasl = s.startsasl /\ r.bound = s.bound
      /\ r.challenges = s.challenges
      /\ r.witid = s.witid /\ r.expected = s.expected /\ r.sent = {}
  BY <1>1, <1>2 DEF Process, State, Handler
<1> HIDE DEF r
<1>4. Fit(r) /\ Kind(r)
  BY <1>3 DEF Fit, Kind, Socket
<1>5. Granted(r, <<>>, g)
  BY <1>3 DEF Granted
<1>6. Requests(r, <<>>)
  BY <1>3 DEF Requests
<1> QED
  BY <1>3, <1>4, <1>5, <1>6 DEF Good, r, p

\* The answer to a request of the login asks for the next, ends the login or
\* refuses it.
LEMMA RespondGood ==
    ASSUME NEW s, NEW w, NEW g, NEW id, Good(s, w, g), Reads(s, "wait", w),
           s.stage = "auth", s.on_receive = "wait", id = s.witid,
           s.expected[id] # "waiting"
    PROVE  LET r == Respond(Process(s), id, s.expected[id] = "ok")
           IN /\ Good(r, w, g) /\ Leads(s.stage, r.stage)
              /\ Live(r) => \/ r.witid # id /\ Settled(r)
                            \/ r.witid = id /\ r.stage = "in"
<1> DEFINE p == Process(s)
           ok == s.expected[id] = "ok"
           r == Respond(p, id, ok)
           Fine == /\ Good(r, w, g) /\ Leads(s.stage, r.stage)
                   /\ Live(r) => \/ r.witid # id /\ Settled(r)
                                 \/ r.witid = id /\ r.stage = "in"
<1>1. /\ s \in State /\ Live(s) /\ Fit(s) /\ Kind(s) /\ Granted(s, w, g)
      /\ id \in LoginId /\ id # None /\ id \notin Asks
  <2>1. s \in State /\ Live(s)
    BY DEF Good, Live, Ended
  <2>2. Fit(s) /\ Kind(s) /\ Granted(s, w, g)
    BY <2>1 DEF Good
  <2>3. id \in LoginId
    BY <2>2 DEF Fit
  <2> QED
    BY <2>1, <2>2, <2>3, NamesDiffer DEF Id
<1>2. /\ p \in State /\ p.stage = "auth" /\ p.on_receive = "process"
      /\ p.type = s.type /\ p.secure = s.secure /\ p.connected = s.connected
      /\ p.starttls = s.starttls /\ p.startsasl = s.startsasl
      /\ p.bound = s.bound /\ p.challenges = s.challenges
      /\ p.witid = s.witid /\ p.expected = s.expected /\ p.sent = s.sent
  BY <1>1 DEF Process, State, Handler
<1>3. Process(p) = p
  BY <1>1 DEF Process, State
<1> HIDE DEF p
<1>4. Live(p) /\ Kind(p) /\ Socket(p) /\ p.secure = p.type
  BY <1>1, <1>2 DEF Live, Ended, Kind, Socket
<1>5. p.startsasl # "success" => p.bound = "none"
  BY <1>1, <1>2 DEF Fit
<1>6. ASSUME ~ok
      PROVE  Fine
  <2>1. OnAuth(p, FALSE) = [p EXCEPT !.stage = "refused"]
    BY DEF OnAuth
  <2>2. r = [p EXCEPT !.stage = "refused"]
    <3>1. OnSaslAuth(p, FALSE) = [p EXCEPT !.stage = "refused"]
      BY <1>3, <2>1 DEF OnSaslAuth
    <3>2. OnSession(p, FALSE) = [p EXCEPT !.stage = "refused"]
      <4>1. ~Live([p EXCEPT !.stage = "refused"])
        BY <1>2 DEF State, Live, Ended
      <4> QED
        BY <1>3, <3>1, <4>1 DEF OnSession
    <3> QED
      BY <1>1, <1>6, <2>1, <3>1, <3>2 DEF Respond, LoginId
  <2>3. /\ [p EXCEPT !.stage = "refused"] \in State
        /\ [p EXCEPT !.stage = "refused"].stage = "refused"
    <3>1. "refused" \in Stage
      BY DEF Stage, Ended
    <3> QED
      BY <1>2, <3>1 DEF State
  <2> HIDE DEF r
  <2> QED
    BY <2>2, <2>3 DEF Good, Live, Ended, Leads
<1>7. ASSUME ok
      PROVE  Fine
  <2>1. s.sent = {} /\ w = <<>> /\ id \in g
    BY <1>1, <1>7 DEF Reads, Granted
  <2>2. Granted(p, <<>>, g)
    BY <1>1, <1>2, <2>1 DEF Granted
  <2>3. ASSUME NEW next \in LoginId, next # id, r = SendAndWait(p, next),
               next = "password" => "username" \in g,
               next = "bind" => "sasl" \in g,
               next = "session" => {"sasl", "bind"} \subseteq g
        PROVE  Fine
    <3>1. /\ After(SendAndWait(p, next), <<>>, g)
          /\ SendAndWait(p, next).stage = "auth"
          /\ SendAndWait(p, next).witid = next
      BY <1>2, <1>4, <1>5, <2>1, <2>2, <2>3, RequestGood
    <3> HIDE DEF r
    <3> QED
      BY <2>1, <2>3, <3>1 DEF After, Leads, Live, Ended
  <2>4. ASSUME r = Process([p EXCEPT !.stage = "in"]),
               \/ {"sasl", "bind", "session"} \subseteq g
               \/ {"username", "password"} \subseteq g
        PROVE  Fine
    <3> DEFINE q == Process([p EXCEPT !.stage = "in"])
    <3>1. q.stage = "in" /\ q.witid = s.witid
      BY <1>2 DEF Process, State
    <3> HIDE DEF q, r
    <3>2. Good(q, <<>>, g)
      BY <1>2, <1>4, <1>5, <2>1, <2>2, <2>4, OnAuthGood DEF q
    <3> QED
      BY <1>1, <1>2, <2>1, <2>4, <3>1, <3>2 DEF Leads, q
  <2>5. CASE id = "username"
    <3>1. r = SendAndWait(p, "password")
      BY <1>1, <1>7, <2>5 DEF Respond
    <3> QED
      BY <2>1, <2>3, <2>5, <3>1 DEF LoginId
  <2>6. CASE id = "bind"
    <3>1. r = SendAndWait(p, "session")
      BY <1>1, <1>7, <2>6 DEF Respond
    <3>2. {"sasl", "bind"} \subseteq g
      BY <1>1, <2>1, <2>6 DEF Granted
    <3> QED
      BY <2>3, <2>6, <3>1, <3>2 DEF LoginId
  <2>7. CASE id = "password"
    <3>1. r = Process([p EXCEPT !.stage = "in"])
      BY <1>1, <1>7, <2>7 DEF Respond, OnAuth
    <3>2. {"username", "password"} \subseteq g
      BY <1>1, <2>1, <2>7 DEF Granted
    <3> QED
      BY <2>4, <3>1, <3>2
  <2>8. CASE id = "session"
    <3> DEFINE q == Process([p EXCEPT !.stage = "in"])
    <3>1. OnSaslAuth(p, TRUE) = q
      BY <1>3 DEF OnSaslAuth, OnAuth
    <3>2. OnSaslAuth(Process(q), TRUE) = q
      BY <1>2 DEF OnSaslAuth, OnAuth, Process, State
    <3>3. Live(q)
      BY <1>2 DEF Process, State, Live, Ended
    <3>4. r = q
      <4> HIDE DEF q
      <4>1. OnSession(p, TRUE) = q
        BY <1>3, <3>1, <3>2, <3>3 DEF OnSession
      <4> QED
        BY <1>1, <1>7, <2>8, <4>1 DEF Respond
    <3>5. {"sasl", "bind", "session"} \subseteq g
      BY <1>1, <2>1, <2>8 DEF Granted
    <3> QED
      BY <2>4, <3>4, <3>5
  <2> QED
    BY <1>1, <2>5, <2>6, <2>7, <2>8 DEF LoginId
<1> QED
  BY <1>6, <1>7 DEF p

\* The answer that was waited for is passed on.
LEMMA WaitGood ==
    ASSUME NEW s, NEW w, NEW g, Good(s, w, g), Live(s), Reads(s, "wait", w)
    PROVE  /\ After(Handle(s, "wait"), w, g)
           /\ Leads(s.stage, Handle(s, "wait").stage)
<1> DEFINE id == s.witid
           p == Process(s)
           q == Respond(p, id, s.expected[id] = "ok")
           r == [q EXCEPT !.told = @ \cup {id}, !.expected[id] = "no"]
<1>1. /\ s \in State /\ s.on_receive = "wait" /\ Fit(s)
      /\ \/ s.stage = "auth" /\ id \in LoginId
         \/ s.stage = "in" /\ id \in Asks
  BY NamesDiffer DEF Good, Reads, Handler, Fit
<1>2. id \in Id
  BY <1>1 DEF Id
<1>3. CASE s.expected[id] = "waiting"
  <2>1. Handle(s, "wait") = s
    BY <1>3 DEF Handle, WaitForData
  <2>2. Settled(s)
    BY <1>1, <1>3 DEF Settled
  <2> QED
    BY <2>1, <2>2 DEF After, Leads
<1>4. CASE s.expected[id] # "waiting"
  <2>1. Handle(s, "wait") = r
    BY <1>4 DEF Handle, WaitForData
  <2>2. /\ Good(q, w, g) /\ Leads(s.stage, q.stage)
        /\ Live(q) => \/ q.witid # id /\ Settled(q)
                      \/ q.witid = id /\ q.stage = "in"
    <3>1. CASE s.stage = "auth"
      BY <1>1, <1>4, <3>1, RespondGood
    <3>2. CASE s.stage = "in"
      <4>1. q = p
        BY <1>1, <3>2, NamesDiffer DEF Respond, LoginId
      <4>2. /\ p \in State /\ p.stage = "in" /\ p.on_receive = "process"
            /\ p.type = s.type /\ p.secure = s.secure
            /\ p.starttls = s.starttls /\ p.startsasl = s.startsasl
            /\ p.bound = s.bound /\ p.challenges = s.challenges
            /\ p.witid = s.witid /\ p.expected = s.expected
            /\ p.sent = s.sent /\ p.asked = s.asked
        BY <1>1, <3>2 DEF Process, State, Handler
      <4> HIDE DEF p, q
      <4>3. Fit(p) /\ Kind(p)
        BY <3>2, <4>2 DEF Good, Fit, Kind, Socket
      <4>4. Granted(p, w, g) /\ Requests(p, w)
        BY <3>2, <4>2 DEF Good, Granted, Requests
      <4> QED
        BY <3>2, <4>1, <4>2, <4>3, <4>4 DEF Good, Leads
    <3> QED
      BY <1>1, <3>1, <3>2
  <2> HIDE DEF q, id
  <2>3. After(r, w, g) /\ r.stage = q.stage
    <3>1. Good(q, w, g)
      BY <2>2
    <3>2. Live(q) => \/ q.witid # id /\ Settled(q)
                     \/ q.witid = id /\ q.stage = "in"
      BY <2>2
    <3> QED
      BY <1>2, <3>1, <3>2, ToldGood, ZenonT(30)
  <2> QED
    BY <2>1, <2>2, <2>3
<1> QED
  BY <1>3, <1>4

\* Whichever handler was installed, what it does is in order.
LEMMA HandleGood ==
    ASSUME NEW s, NEW w, NEW g, NEW h \in Handler,
           Good(s, w, g), Live(s), Reads(s, h, w)
    PROVE  After(Handle(s, h), w, g) /\ Leads(s.stage, Handle(s, h).stage)
<1>1. CASE h = "process"
  <2>1. Handle(s, h) = s
    BY <1>1 DEF Handle
  <2>2. Settled(s)
    <3>1. s.witid # None => s.expected[s.witid] \notin {"ok", "error"}
      BY <1>1 DEF Reads
    <3> QED
      BY <1>1, <3>1 DEF Reads, Settled
  <2> QED
    BY <2>1, <2>2 DEF After, Leads
<1> QED
  BY <1>1, BeginningGood, SaslGood, StartTLSGood, WaitGood DEF Handler

-----------------------------------------------------------------------------
(* What is made of an element.                                             *)

\* An element is about to be dispatched, for handler h, and has been
Dispatching(s, w, g, h) ==
    /\ Good(s, w, g) /\ Live(s) /\ Reads(s, h, w)
    /\ h # None /\ w \in Seq(Element) /\ w # <<>>

Dispatched(s, r, w, g, h) ==
    /\ Good(r, Tail(w), g) /\ Leads(s.stage, r.stage)
    /\ Live(r) => Reads(r, h, Tail(w))

\* What is left under way is what was under way.
LEMMA TailElements ==
    ASSUME NEW w \in Seq(Element), w # <<>>
    PROVE  /\ Head(w) \in Element /\ 1 \in DOMAIN w /\ Head(w) = w[1]
           /\ Tail(w) \in Seq(Element)
           /\ \A i \in DOMAIN Tail(w) : i + 1 \in DOMAIN w /\ Tail(w)[i] = w[i + 1]
OBVIOUS

LEMMA GrantedTail ==
    ASSUME NEW s, NEW g, NEW w \in Seq(Element), w # <<>>, Granted(s, w, g)
    PROVE  Granted(s, Tail(w), g)
BY TailElements DEF Granted

\* Before the end of the login, what arrives is what is waited for.
LEMMA HeadAwaited ==
    ASSUME NEW s, NEW w, NEW g, NEW h, Dispatching(s, w, g, h), s.stage # "in"
    PROVE  /\ s.sent = {} /\ Awaits(s, KindOf(Head(w)))
           /\ \/ Tail(w) = <<>>
              \/ /\ Head(w) = [tag |-> "header", version |-> "1.0"]
                 /\ \E f \in Offer : Tail(w) = <<[tag |-> "features", offer |-> f]>>
<1>1. Turn(s, w) /\ w # <<>>
  BY DEF Dispatching, Good
<1>2. CASE \E e \in Element : w = <<e>> /\ Awaits(s, KindOf(e)) /\ s.sent = {}
  <2>1. PICK e \in Element : w = <<e>> /\ Awaits(s, KindOf(e)) /\ s.sent = {}
    BY <1>2
  <2>2. Head(w) = e /\ Tail(w) = <<>>
    BY <2>1
  <2> QED
    BY <2>1, <2>2
<1>3. CASE s.sent = {} /\ Awaits(s, "open")
           /\ \E f \in Offer : w = <<[tag |-> "header", version |-> "1.0"],
                                     [tag |-> "features", offer |-> f]>>
  <2>1. PICK f \in Offer : w = <<[tag |-> "header", version |-> "1.0"],
                                 [tag |-> "features", offer |-> f]>>
    BY <1>3
  <2> DEFINE e == [tag |-> "header", version |-> "1.0"]
             d == [tag |-> "features", offer |-> f]
  <2>2. KindOf(e) = "open"
    BY DEF KindOf
  <2>3. Head(<<e, d>>) = e /\ Tail(<<e, d>>) = <<d>>
    <3> HIDE DEF e, d
    <3> QED
      OBVIOUS
  <2> QED
    BY <1>3, <2>1, <2>2, <2>3
<1> QED
  BY <1>1, <1>2, <1>3 DEF Turn

\* After the end of the login, what arrives is an answer or another stanza.
LEMMA HeadRequested ==
    ASSUME NEW s, NEW w, NEW g, NEW h, Dispatching(s, w, g, h), s.stage = "in"
    PROVE  /\ \/ Head(w).tag = "stanza"
              \/ Head(w).tag = "answer" /\ Head(w).id \in s.asked \ s.sent
           /\ Requests(s, Tail(w))
<1>1. Requests(s, w) /\ w \in Seq(Element) /\ w # <<>>
  BY DEF Dispatching, Good
<1> QED
  BY <1>1, TailElements DEF Requests

\* The stream is announced, or the features of the server are.
LEMMA StreamDispatched ==
    ASSUME NEW s, NEW w, NEW g, NEW h, Dispatching(s, w, g, h),
           Head(w).tag \in {"header", "features"}
    PROVE  Dispatched(s, Dispatch(s, Head(w)), w, g, h)
<1> DEFINE e == Head(w)
           r == Dispatch(s, e)
<1>1. /\ s \in State /\ Fit(s) /\ Kind(s) /\ Granted(s, Tail(w), g)
      /\ e \in Element
  BY TailElements, GrantedTail DEF Dispatching, Good
<1>2. s.stage # "in"
  BY HeadRequested
<1>3. /\ s.sent = {} /\ Awaits(s, KindOf(e))
      /\ \/ Tail(w) = <<>>
         \/ /\ e = [tag |-> "header", version |-> "1.0"]
            /\ \E f \in Offer : Tail(w) = <<[tag |-> "features", offer |-> f]>>
  BY <1>2, HeadAwaited
<1>4. Awaits(s, "open")
  BY <1>3 DEF KindOf
<1>5. s.bound = "none" /\ s.features = None /\ s.version # "none"
  BY <1>4 DEF Awaits, LoginId
<1>6. /\ r \in State
      /\ r.type = s.type /\ r.stage = s.stage /\ r.connected = s.connected
      /\ r.secure = s.secure /\ r.on_receive = s.on_receive
      /\ r.on_stream_start = s.on_stream_start
      /\ r.starttls = s.starttls /\ r.startsasl = s.startsasl
      /\ r.challenges = s.challenges /\ r.witid = s.witid
      /\ r.expected = s.expected /\ r.sent = {}
      /\ r.startsasl # "success" => r.bound = "none"
      /\ r.version # "unknown" \/ r.version = s.version
      /\ e.tag = "header" => /\ r.version = e.version /\ r.features = None
                             /\ r.bound = "none"
  <2>1. CASE e.tag = "header"
    <3>1. e.version \in {"none", "1.0"}
      BY <1>1, <2>1 DEF Element
    <3>2. r = [s EXCEPT !.version = e.version]
      BY <2>1 DEF Dispatch
    <3> HIDE DEF r
    <3> QED
      BY <1>1, <1>3, <1>5, <2>1, <3>1, <3>2 DEF State
  <2>2. CASE e.tag = "features"
    <3>1. e.offer \in Offer
      BY <1>1, <2>2 DEF Element
    <3>2. PICK b \in {"none", "offered", "failure"} :
             /\ r = [s EXCEPT !.features = e.offer, !.bound = b]
             /\ s.startsasl # "success" => b = "none"
      <4>1. r = [s EXCEPT !.features = e.offer,
                          !.bound = IF s.startsasl # "success" THEN s.bound
                                    ELSE IF e.offer.bind THEN "offered"
                                    ELSE "failure"]
        BY <2>2 DEF Dispatch
      <4> QED
        BY <1>5, <4>1
    <3> HIDE DEF r
    <3> QED
      BY <1>1, <1>3, <1>5, <2>2, <3>1, <3>2, ZenonT(30) DEF State
  <2> QED
    BY <2>1, <2>2
<1> HIDE DEF r
<1>7. Fit(r) /\ Kind(r)
  BY <1>1, <1>6 DEF Fit, Kind, Socket
<1>8. Granted(r, Tail(w), g)
  BY <1>1, <1>6 DEF Granted
<1>9. Turn(r, Tail(w))
  <2>1. CASE Tail(w) = <<>>
    BY <1>6, <2>1 DEF Turn
  <2>2. ASSUME e = [tag |-> "header", version |-> "1.0"],
               NEW f \in Offer, Tail(w) = <<[tag |-> "features", offer |-> f]>>
        PROVE  Turn(r, Tail(w))
    <3> DEFINE d == [tag |-> "features", offer |-> f]
    <3>1. d \in Element /\ KindOf(d) = "open"
      BY DEF Element, KindOf
    <3>2. r.version = "1.0" /\ r.features = None /\ r.bound = "none"
      BY <1>6, <2>2
    <3>3. Awaits(r, "open")
      BY <1>4, <1>6, <3>2 DEF Awaits, LoginId
    <3> HIDE DEF d
    <3> QED
      BY <1>6, <2>2, <3>1, <3>3 DEF Turn, d
  <2> QED
    BY <1>3, <2>1, <2>2
<1>10. Reads(r, h, Tail(w))
  BY <1>2, <1>6 DEF Dispatching, Reads
<1> QED
  BY <1>2, <1>6, <1>7, <1>8, <1>9, <1>10 DEF Dispatched, Good, Leads, r

\* The server has agreed to TLS, or has not.
LEMMA TLSDispatched ==
    ASSUME NEW s, NEW w, NEW g, NEW h, Dispatching(s, w, g, h),
           Head(w).tag \in {"proceed", "tlsfailure"}
    PROVE  Dispatched(s, Dispatch(s, Head(w)), w, g, h)
<1> DEFINE e == Head(w)
           r == Dispatch(s, e)
<1>1. /\ s \in State /\ Fit(s) /\ Kind(s) /\ Granted(s, <<>>, g)
      /\ s.stage # "in" /\ s.sent = {} /\ Tail(w) = <<>>
      /\ Awaits(s, "starttls")
      /\ e.tag = "proceed" => "tls" \in g
  <2>1. s.stage # "in"
    BY HeadRequested
  <2>2. Tail(w) = <<>> /\ s.sent = {} /\ Awaits(s, KindOf(e))
    BY <2>1, HeadAwaited
  <2>3. Awaits(s, "starttls")
    BY <2>2 DEF KindOf
  <2>4. e.tag = "proceed" => "tls" \in g
    BY TailElements DEF Dispatching, Good, Granted
  <2>5. Granted(s, Tail(w), g)
    BY GrantedTail DEF Dispatching, Good
  <2> QED
    BY <2>1, <2>2, <2>3, <2>4, <2>5 DEF Dispatching, Good
<1>2. /\ s.stage = "opening" /\ s.on_receive = "starttls"
      /\ s.starttls = "asked" /\ s.type \notin {"plain", "ssl"}
      /\ s.startsasl = "none" /\ s.bound = "none"
  BY <1>1 DEF Awaits, LoginId, Fit, Kind, Socket
<1>3. /\ r \in State
      /\ r.type = s.type /\ r.stage = s.stage /\ r.connected = s.connected
      /\ r.on_receive = s.on_receive
      /\ r.startsasl = "none" /\ r.bound = "none"
      /\ r.challenges = s.challenges /\ r.witid = s.witid
      /\ r.expected = s.expected
      /\ r.starttls \in {"success", "failure"}
      /\ IF e.tag = "proceed"
         THEN /\ r.secure = "tls" /\ r.starttls = "success" /\ r.sent = {"open"}
              /\ r.version = "unknown" /\ r.features = None
         ELSE r.secure = s.secure /\ r.starttls = "failure" /\ r.sent = {}
  <2>1. CASE e.tag = "proceed"
    <3>1. r = [s EXCEPT !.starttls = "success", !.secure = "tls",
                        !.version = "unknown", !.features = None,
                        !.sent = @ \cup {"open"}]
      BY <1>1, <2>1 DEF Dispatch, Restart, Send, State
    <3>2. s.sent \cup {"open"} \in SUBSET Sent
      BY <1>1 DEF State, Sent
    <3> HIDE DEF r
    <3> QED
      BY <1>1, <1>2, <2>1, <3>1, <3>2, ZenonT(30) DEF State
  <2>2. CASE e.tag = "tlsfailure"
    <3>1. r = [s EXCEPT !.starttls = "failure"]
      BY <2>2 DEF Dispatch
    <3> HIDE DEF r
    <3> QED
      BY <1>1, <1>2, <2>2, <3>1 DEF State
  <2> QED
    BY <2>1, <2>2
<1> HIDE DEF r
<1>4. Fit(r)
  BY <1>2, <1>3 DEF Fit
<1>5. Kind(r)
  BY <1>1, <1>2, <1>3 DEF Kind, Socket
<1>6. Granted(r, <<>>, g)
  BY <1>1, <1>2, <1>3 DEF Granted
<1>7. Turn(r, <<>>)
  <2>1. KindOfSent("open") = "open" /\ "open" \in Sent
    BY DEF KindOfSent, Sent
  <2>2. e.tag = "proceed" => Awaits(r, "open")
    BY <1>2, <1>3 DEF Awaits
  <2> QED
    BY <1>3, <2>1, <2>2 DEF Turn
<1>8. Reads(r, h, <<>>)
  BY <1>1, <1>2, <1>3 DEF Dispatching, Reads
<1> QED
  BY <1>1, <1>2, <1>3, <1>4, <1>5, <1>6, <1>7, <1>8 DEF Dispatched, Good, Leads, r

\* A step of SASL.
LEMMA SaslDispatched ==
    ASSUME NEW s, NEW w, NEW g, NEW h, Dispatching(s, w, g, h),
           Head(w).tag \in {"challenge", "saslfailure", "success"}
    PROVE  Dispatched(s, Dispatch(s, Head(w)), w, g, h)
<1> DEFINE e == Head(w)
           r == Dispatch(s, e)
<1>1. /\ s \in State /\ Fit(s) /\ Kind(s) /\ Granted(s, <<>>, g)
      /\ s.stage # "in" /\ s.sent = {} /\ Tail(w) = <<>>
      /\ Awaits(s, "auth") /\ e \in Element
      /\ e.tag = "success" => "sasl" \in g
      /\ e.tag = "challenge" => s.challenges < MaxChallenges
  <2>1. s.stage # "in"
    BY HeadRequested
  <2>2. Tail(w) = <<>> /\ s.sent = {} /\ Awaits(s, KindOf(e))
    BY <2>1, HeadAwaited
  <2>3. Awaits(s, "auth")
    BY <2>2 DEF KindOf
  <2>4. /\ e.tag = "success" => "sasl" \in g
        /\ e.tag = "challenge" => s.challenges < MaxChallenges
    BY TailElements DEF Dispatching, Good, Granted
  <2>5. Granted(s, Tail(w), g) /\ e \in Element
    BY GrantedTail, TailElements DEF Dispatching, Good
  <2> QED
    BY <2>1, <2>2, <2>3, <2>4, <2>5 DEF Dispatching, Good
<1>2. /\ s.stage = "auth" /\ s.on_receive = "sasl"
      /\ s.startsasl = "in-process" /\ s.bound = "none"
  BY <1>1 DEF Awaits, LoginId, Fit
<1>3. CASE e.tag = "saslfailure" \/ (e.tag = "challenge" /\ ~e.known)
  <2> DEFINE p == [s EXCEPT !.startsasl = "failure"]
             q == [p EXCEPT !.on_receive = "process", !.stage = "refused"]
  <2>1. r = OnStartSasl(p).cl
    BY <1>3 DEF Dispatch, SaslGoesOn
  <2>2. p \in State /\ Live(p) /\ p.startsasl = "failure"
    BY <1>1, <1>2 DEF State, Live, Ended
  <2> HIDE DEF p
  <2>3. OnStartSasl(p) = Return(q, TRUE)
    BY <2>2, OnStartSaslResult
  <2>4. q \in State /\ q.stage = "refused"
    <3>1. "process" \in Handler /\ "refused" \in Stage
      BY DEF Handler, Stage, Ended
    <3> QED
      BY <2>2, <3>1 DEF State
  <2> HIDE DEF q, r
  <2> QED
    BY <1>2, <2>1, <2>3, <2>4 DEF Dispatched, Good, Live, Ended, Leads, Return, r
<1>4. CASE e.tag = "challenge" /\ e.known
  <2> DEFINE p == [s EXCEPT !.challenges = @ + 1, !.sent = @ \cup {"response"}]
  <2>1. r = OnStartSasl(p).cl
    <3>1. Send([s EXCEPT !.challenges = @ + 1], "response") = p
      BY <1>1 DEF Send, State
    <3> QED
      BY <1>4, <3>1 DEF Dispatch, SaslGoesOn
  <2>2. p \in State
    <3>1. s.challenges + 1 \in 0 .. MaxChallenges
      BY <1>1, <1>4, ClientAssumption DEF State
    <3>2. s.sent \cup {"response"} \in SUBSET Sent
      BY <1>1 DEF State, Sent
    <3> QED
      BY <1>1, <3>1, <3>2 DEF State
  <2>3. /\ p.type = s.type /\ p.stage = "auth" /\ p.connected = s.connected
        /\ p.secure = s.secure /\ p.on_receive = "sasl"
        /\ p.starttls = s.starttls /\ p.startsasl = "in-process"
        /\ p.bound = "none" /\ p.witid = s.witid
        /\ p.expected = s.expected /\ p.sent = {"response"}
    BY <1>1, <1>2 DEF State
  <2> HIDE DEF p
  <2>4. r = p
    <3>1. OnStartSasl(p) = Return(p, FALSE)
      BY <2>2, <2>3, OnStartSaslResult DEF Live, Ended
    <3> QED
      BY <2>1, <3>1 DEF Return
  <2> HIDE DEF r
  <2>5. Fit(p) /\ Kind(p)
    BY <1>1, <1>2, <2>3 DEF Fit, Kind, Socket
  <2>6. Granted(p, <<>>, g)
    BY <1>1, <1>2, <2>3 DEF Granted
  <2>7. Turn(p, <<>>)
    <3>1. KindOfSent("response") = "auth" /\ "response" \in Sent
      BY DEF KindOfSent, Sent
    <3>2. Awaits(p, "auth")
      BY <2>3 DEF Awaits
    <3> QED
      BY <2>3, <3>1, <3>2 DEF Turn
  <2>8. Reads(p, h, <<>>)
    BY <1>1, <1>2, <2>3 DEF Dispatching, Reads
  <2> QED
    BY <1>1, <1>2, <2>2, <2>3, <2>4, <2>5, <2>6, <2>7, <2>8
       DEF Dispatched, Good, Leads, r
<1>5. CASE e.tag = "success"
  <2> DEFINE p == [s EXCEPT !.startsasl = "success", !.version = "unknown",
                            !.features = None, !.sent = @ \cup {"open"}]
             q == [p EXCEPT !.on_receive = "bind"]
  <2>1. r = OnStartSasl(p).cl
    <3>1. Restart([s EXCEPT !.startsasl = "success"]) = p
      BY <1>1 DEF Restart, Send, State
    <3> QED
      BY <1>5, <3>1 DEF Dispatch, SaslGoesOn
  <2>2. p \in State
    <3>1. s.sent \cup {"open"} \in SUBSET Sent
      BY <1>1 DEF State, Sent
    <3> QED
      BY <1>1, <3>1, ZenonT(30) DEF State
  <2>3. /\ p.type = s.type /\ p.stage = "auth" /\ p.connected = s.connected
        /\ p.secure = s.secure
        /\ p.starttls = s.starttls /\ p.startsasl = "success"
        /\ p.bound = "none" /\ p.witid = s.witid /\ p.challenges = s.challenges
        /\ p.version = "unknown" /\ p.features = None
        /\ p.expected = s.expected /\ p.sent = {"open"}
    BY <1>1, <1>2 DEF State
  <2> HIDE DEF p
  <2>4. r = q
    <3>1. OnStartSasl(p) = Return(q, TRUE)
      BY <2>2, <2>3, OnStartSaslResult DEF Live, Ended
    <3> QED
      BY <2>1, <3>1 DEF Return
  <2>5. /\ q \in State /\ q.on_receive = "bind"
        /\ q.type = s.type /\ q.stage = "auth" /\ q.connected = s.connected
        /\ q.secure = s.secure
        /\ q.starttls = s.starttls /\ q.startsasl = "success"
        /\ q.bound = "none" /\ q.witid = s.witid /\ q.challenges = s.challenges
        /\ q.version = "unknown" /\ q.features = None
        /\ q.expected = s.expected /\ q.sent = {"open"}
    BY <2>2, <2>3 DEF State, Handler
  <2> HIDE DEF q, r
  <2>6. Fit(q) /\ Kind(q)
    BY <1>1, <1>2, <2>5 DEF Fit, Kind, Socket
  <2>7. Granted(q, <<>>, g)
    BY <1>1, <1>2, <1>5, <2>5 DEF Granted
  <2>8. Turn(q, <<>>)
    <3>1. KindOfSent("open") = "open" /\ "open" \in Sent
      BY DEF KindOfSent, Sent
    <3>2. Awaits(q, "open")
      BY <2>5 DEF Awaits
    <3> QED
      BY <2>5, <3>1, <3>2 DEF Turn
  <2>9. Reads(q, h, <<>>)
    <3>1. h = "sasl"
      BY <1>2 DEF Dispatching, Reads
    <3> QED
      BY <1>1, <1>2, <2>5, <3>1, NamesDiffer DEF Dispatching, Reads
  <2> QED
    BY <1>1, <1>2, <2>4, <2>5, <2>6, <2>7, <2>8, <2>9
       DEF Dispatched, Good, Leads, r
<1>6. e.tag = "challenge" => e.known \in BOOLEAN
  BY <1>1 DEF Element
<1> QED
  BY <1>3, <1>4, <1>5, <1>6

\* An answer is kept for the handler that waits for it.
LEMMA AnswerDispatched ==
    ASSUME NEW s, NEW w, NEW g, NEW h, Dispatching(s, w, g, h),
           Head(w).tag = "answer"
    PROVE  Dispatched(s, Dispatch(s, Head(w)), w, g, h)
<1> DEFINE e == Head(w)
           x == IF e.ok THEN "ok" ELSE "error"
           p == [s EXCEPT !.expected[e.id] = x]
           r == Dispatch(s, e)
<1>1. /\ s \in State /\ Live(s) /\ Fit(s) /\ Kind(s) /\ Granted(s, Tail(w), g)
      /\ e \in Element /\ e.id \in Id /\ e.ok \in BOOLEAN
      /\ e.ok => e.id \in g
      /\ Reads(s, h, w) /\ h # None /\ w # <<>>
  <2>1. e \in Element /\ Granted(s, Tail(w), g)
    BY TailElements, GrantedTail DEF Dispatching, Good
  <2>2. e.id \in Id /\ e.ok \in BOOLEAN
    BY <2>1 DEF Element
  <2>3. e.ok => e.id \in g
    BY TailElements DEF Dispatching, Good, Granted
  <2> QED
    BY <2>1, <2>2, <2>3 DEF Dispatching, Good
<1>2. s.stage = "in" => Requests(s, Tail(w)) /\ e.id \in s.asked \ s.sent
  BY HeadRequested
<1>3. s.stage # "in" =>
         /\ s.sent = {} /\ Tail(w) = <<>> /\ e.id \in LoginId
         /\ s.stage = "auth" /\ s.on_receive = "wait"
         /\ s.witid = e.id /\ s.expected[e.id] = "waiting"
  <2>1. ASSUME s.stage # "in"
        PROVE  s.sent = {} /\ Awaits(s, e.id) /\ Tail(w) = <<>>
    <3>1. /\ s.sent = {} /\ Awaits(s, KindOf(e))
          /\ \/ Tail(w) = <<>>
             \/ e = [tag |-> "header", version |-> "1.0"]
      BY <2>1, HeadAwaited
    <3>2. KindOf(e) = e.id
      BY DEF KindOf
    <3> QED
      BY <3>1, <3>2
  <2>2. e.id \notin {"open", "starttls", "auth"}
    BY <1>1, NamesDiffer
  <2> QED
    BY <1>1, <2>1, <2>2 DEF Awaits, LoginId
<1>4. CASE s.expected[e.id] = "no"
  <2>1. r = s
    BY <1>4 DEF Dispatch
  <2>2. s.stage = "in"
    BY <1>3, <1>4
  <2>3. Reads(s, h, Tail(w))
    BY <1>1, <2>2 DEF Reads
  <2> HIDE DEF r
  <2> QED
    BY <1>1, <1>2, <2>1, <2>2, <2>3 DEF Dispatched, Good, Leads, r
<1>5. CASE s.expected[e.id] # "no"
  <2>1. r = p
    BY <1>5 DEF Dispatch
  <2>2. p \in State
    <3>1. [s.expected EXCEPT ![e.id] = x]
            \in [Id -> {"no", "waiting", "ok", "error"}]
      BY <1>1 DEF State
    <3> QED
      BY <1>1, <3>1 DEF State
  <2>3. /\ p.type = s.type /\ p.stage = s.stage /\ p.connected = s.connected
        /\ p.secure = s.secure /\ p.on_receive = s.on_receive
        /\ p.on_stream_start = s.on_stream_start
        /\ p.version = s.version /\ p.features = s.features
        /\ p.starttls = s.starttls /\ p.startsasl = s.startsasl
        /\ p.challenges = s.challenges /\ p.bound = s.bound
        /\ p.witid = s.witid /\ p.asked = s.asked /\ p.sent = s.sent
    BY <1>1 DEF State
  <2>4. /\ p.expected[e.id] = x
        /\ \A i \in Id : i # e.id => p.expected[i] = s.expected[i]
    BY <1>1 DEF State
  <2> HIDE DEF p
  <2>5. Fit(p) /\ Kind(p) /\ Live(p)
    BY <1>1, <2>3 DEF Fit, Kind, Socket, Live
  <2>6. Granted(p, Tail(w), g)
    <3>1. \A i \in LoginId : p.expected[i] = "ok" => i \in g
      BY <1>1, <2>4 DEF Granted, Id
    <3> QED
      BY <1>1, <2>3, <3>1 DEF Granted
  <2>7. p.stage # "in" => Turn(p, Tail(w))
    BY <1>3, <2>3 DEF Turn
  <2>8. p.stage = "in" => Requests(p, Tail(w))
    BY <1>2, <2>3 DEF Requests
  <2>9. Reads(p, h, Tail(w))
    <3>1. s.witid \in Id \cup {None}
      BY <1>1 DEF State
    <3>2. CASE s.witid # e.id
      <4>1. s.stage = "in"
        BY <1>3, <3>2
      <4>2. s.witid # None => p.expected[s.witid] = s.expected[s.witid]
        BY <2>4, <3>1, <3>2
      <4> QED
        BY <1>1, <2>3, <4>1, <4>2 DEF Reads
    <3>3. CASE s.witid = e.id
      <4>1. p.expected[p.witid] \in {"ok", "error"}
        BY <2>3, <2>4, <3>3
      <4>2. h = "wait"
        <5>1. s.witid # None
          BY <1>1, <3>3, NamesDiffer
        <5>2. s.expected[e.id] \in {"waiting", "ok", "error"}
          BY <1>1, <1>5 DEF State
        <5> QED
          BY <1>1, <1>2, <1>3, <3>3, <5>1, <5>2 DEF Reads
      <4>3. p.stage # "in" => p.sent = {} /\ Tail(w) = <<>>
        BY <1>3, <2>3
      <4> QED
        BY <1>1, <2>3, <4>1, <4>2, <4>3 DEF Reads
    <3> QED
      BY <3>2, <3>3
  <2> HIDE DEF r
  <2> QED
    BY <2>1, <2>2, <2>3, <2>5, <2>6, <2>7, <2>8, <2>9
       DEF Dispatched, Good, Leads, r
<1> QED
  BY <1>4, <1>5

\* The account sends the next of its requests.
LEMMA AskNextGood ==
    ASSUME NEW s, NEW w, NEW g, NEW h, Good(s, w, g), s.stage = "in",
           Reads(s, h, w), s.asked # Asks
    PROVE  /\ Good(AskNext(s), w, g) /\ AskNext(s).stage = "in"
           /\ Reads(AskNext(s), h, w)
<1> DEFINE ask == CHOOSE a \in Asks : a \notin s.asked
           p == [s EXCEPT !.asked = @ \cup {ask}]
           r == [p EXCEPT !.sent = @ \cup {ask}, !.witid = ask,
                          !.expected[ask] = "waiting", !.on_receive = "wait"]
<1>1. /\ s \in State /\ Fit(s) /\ Kind(s) /\ Granted(s, w, g)
      /\ Requests(s, w)
  BY DEF Good, Live, Ended
<1>2. ask \in Asks /\ ask \notin s.asked
  <2>1. s.asked \subseteq Asks
    BY <1>1 DEF State
  <2>2. \E a \in Asks : a \notin s.asked
    BY <2>1
  <2> QED
    BY <2>2
<1>3. AskNext(s) = SendAndWait(p, ask)
  BY DEF AskNext
<1> HIDE DEF ask
<1>4. p \in State
  <2>1. s.asked \cup {ask} \in SUBSET Asks
    BY <1>1, <1>2 DEF State
  <2> QED
    BY <1>1, <2>1 DEF State
<1>5. /\ p.type = s.type /\ p.stage = "in" /\ p.connected = s.connected
      /\ p.secure = s.secure /\ p.on_receive = s.on_receive
      /\ p.starttls = s.starttls /\ p.startsasl = s.startsasl
      /\ p.challenges = s.challenges /\ p.bound = s.bound
      /\ p.witid = s.witid /\ p.expected = s.expected
      /\ p.asked = s.asked \cup {ask} /\ p.sent = s.sent
  BY <1>1 DEF State
<1> HIDE DEF p
<1>6. AskNext(s) = r /\ r \in State
  <2>1. Live(p) /\ ask \in Id
    BY <1>2, <1>5 DEF Live, Ended, Id
  <2> QED
    BY <1>3, <1>4, <2>1, SendAndWaitResult
<1>7. /\ r.type = s.type /\ r.stage = "in" /\ r.connected = s.connected
      /\ r.secure = s.secure /\ r.on_receive = "wait"
      /\ r.starttls = s.starttls /\ r.startsasl = s.startsasl
      /\ r.challenges = s.challenges /\ r.bound = s.bound
      /\ r.witid = ask /\ r.expected = [s.expected EXCEPT ![ask] = "waiting"]
      /\ r.asked = s.asked \cup {ask} /\ r.sent = s.sent \cup {ask}
  BY <1>4, <1>5 DEF State
<1>8. r.expected[ask] = "waiting"
  BY <1>1, <1>2, <1>7 DEF State, Id
<1> HIDE DEF r
<1>9. Fit(r) /\ Kind(r)
  BY <1>1, <1>2, <1>7 DEF Fit, Kind, Socket
<1>10. Granted(r, w, g)
  <2>1. ask \notin LoginId /\ ask \notin {"username", "password", "bind", "session"}
    BY <1>2, NamesDiffer DEF LoginId
  <2>2. \A i \in LoginId : r.expected[i] = "ok" => i \in g
    BY <1>1, <1>7, <2>1 DEF Granted, State, Id
  <2> QED
    BY <1>1, <1>7, <2>1, <2>2 DEF Granted
<1>11. Requests(r, w)
  BY <1>1, <1>2, <1>7 DEF Requests
<1>12. Reads(r, h, w)
  <2>1. s.on_receive \in {"process", "wait"}
    BY <1>1 DEF Fit, State, Handler
  <2>2. h \in {None, "process", "wait"}
    BY <2>1 DEF Reads
  <2> QED
    BY <1>7, <1>8, <2>2, NamesDiffer DEF Reads, Handler
<1> QED
  BY <1>6, <1>7, <1>9, <1>10, <1>11, <1>12 DEF Good

\* Whatever is dispatched, the client is in order, and the handler that was
\* called will find what there is to find.
LEMMA DispatchGood ==
    ASSUME NEW s, NEW w, NEW g, NEW h, Dispatching(s, w, g, h)
    PROVE  Dispatched(s, Dispatch(s, Head(w)), w, g, h)
<1> DEFINE e == Head(w)
<1>1. e \in Element /\ Granted(s, Tail(w), g)
  BY TailElements, GrantedTail DEF Dispatching, Good
<1>2. e.tag \in {"header", "features", "proceed", "tlsfailure", "challenge",
                 "saslfailure", "success", "answer", "stanza"}
  BY <1>1 DEF Element
<1>3. CASE e.tag = "stanza"
  <2>1. s.stage = "in"
    <3>1. KindOf(e) = "stanza"
      BY <1>3 DEF KindOf
    <3>2. ~Awaits(s, "stanza")
      BY DEF Awaits, LoginId
    <3> QED
      BY <3>1, <3>2, HeadAwaited
  <2>2. Requests(s, Tail(w))
    BY <2>1, HeadRequested
  <2>3. Good(s, Tail(w), g) /\ Reads(s, h, Tail(w))
    BY <1>1, <2>1, <2>2 DEF Dispatching, Good, Reads
  <2>4. Dispatch(s, e) = IF e.asks /\ s.asked # Asks THEN AskNext(s) ELSE s
    BY <1>3 DEF Dispatch, AskNext
  <2>5. s.asked # Asks =>
           /\ Good(AskNext(s), Tail(w), g) /\ AskNext(s).stage = "in"
           /\ Reads(AskNext(s), h, Tail(w))
    BY <2>1, <2>3, AskNextGood
  <2> HIDE DEF e
  <2> QED
    BY <2>1, <2>3, <2>4, <2>5 DEF Dispatched, Leads, e
<1> QED
  BY <1>2, <1>3, StreamDispatched, TLSDispatched, SaslDispatched,
     AnswerDispatched

-----------------------------------------------------------------------------
(* What the server sends.                                                  *)

LEMMA ConcatElements ==
    ASSUME NEW w \in Seq(Element), NEW v \in Seq(Element)
    PROVE  /\ w \o v \in Seq(Element)
           /\ \A i \in DOMAIN (w \o v) :
                 \/ \E j \in DOMAIN w : (w \o v)[i] = w[j]
                 \/ \E j \in DOMAIN v : (w \o v)[i] = v[j]
<1>1. w \o v \in Seq(Element)
  OBVIOUS
<1>2. ASSUME NEW i \in DOMAIN (w \o v)
      PROVE  \/ \E j \in DOMAIN w : (w \o v)[i] = w[j]
             \/ \E j \in DOMAIN v : (w \o v)[i] = v[j]
  <2>1. /\ Len(w) \in Nat /\ Len(v) \in Nat /\ i \in 1 .. Len(w) + Len(v)
        /\ DOMAIN w = 1 .. Len(w) /\ DOMAIN v = 1 .. Len(v)
    OBVIOUS
  <2>2. CASE i <= Len(w)
    BY <2>1, <2>2
  <2>3. CASE i > Len(w)
    <3>1. (w \o v)[i] = v[i - Len(w)] /\ i - Len(w) \in DOMAIN v
      BY <2>1, <2>3
    <3> QED
      BY <3>1
  <2> QED
    BY <2>1, <2>2, <2>3
<1> QED
  BY <1>1, <1>2

\* A client of which the server has answered what it sent
Answered(s, x) == [s EXCEPT !.sent = @ \ {x}]

\* What a reply may contain
Allowed(s, v, g) ==
    \A i \in DOMAIN v :
       /\ v[i].tag = "proceed" => "tls" \in g
       /\ v[i].tag = "success" => "sasl" \in g
       /\ v[i].tag = "answer" /\ v[i].ok => v[i].id \in g
       /\ v[i].tag = "challenge" => s.challenges < MaxChallenges

\* A reply to what the client has sent is what it waits for.
LEMMA ServedGood ==
    ASSUME NEW s, NEW w \in Seq(Element), NEW g, NEW f, NEW v \in Seq(Element),
           NEW x, NEW p, p = Answered(s, x),
           Good(s, w, g), Live(s), Reads(s, None, w), g \subseteq f,
           Allowed(s, v, f),
           p.stage # "in" => Turn(p, w \o v),
           p.stage = "in" => Requests(p, w \o v)
    PROVE  Good(p, w \o v, f) /\ Reads(p, None, w \o v) /\ p.stage = s.stage
<1>1. /\ s \in State /\ Fit(s) /\ Kind(s) /\ Granted(s, w, g)
      /\ p.stage # "in" => Turn(p, w \o v)
      /\ p.stage = "in" => Requests(p, w \o v)
  BY DEF Good
<1>2. p \in State
  <2>1. s.sent \ {x} \in SUBSET Sent
    BY <1>1 DEF State, Answered
  <2> QED
    BY <1>1, <2>1 DEF State, Answered
<1>3. /\ p.type = s.type /\ p.stage = s.stage /\ p.connected = s.connected
      /\ p.secure = s.secure /\ p.on_receive = s.on_receive
      /\ p.on_stream_start = s.on_stream_start
      /\ p.version = s.version /\ p.features = s.features
      /\ p.starttls = s.starttls /\ p.startsasl = s.startsasl
      /\ p.challenges = s.challenges /\ p.bound = s.bound
      /\ p.witid = s.witid /\ p.asked = s.asked /\ p.expected = s.expected
  BY <1>1 DEF State, Answered
<1>4. Fit(p) /\ Kind(p)
  BY <1>1, <1>3 DEF Fit, Kind, Socket
<1>5. Granted(p, w \o v, f)
  <2>1. Granted(s, w, g) /\ \A i \in DOMAIN (w \o v) :
           \/ \E j \in DOMAIN w : (w \o v)[i] = w[j]
           \/ \E j \in DOMAIN v : (w \o v)[i] = v[j]
    BY <1>1, ConcatElements
  <2>2. \A i \in DOMAIN (w \o v) :
           /\ (w \o v)[i].tag = "proceed" => "tls" \in f
           /\ (w \o v)[i].tag = "success" => "sasl" \in f
           /\ (w \o v)[i].tag = "answer" /\ (w \o v)[i].ok => (w \o v)[i].id \in f
           /\ (w \o v)[i].tag = "challenge" => p.challenges < MaxChallenges
    BY <1>3, <2>1 DEF Granted, Allowed
  <2> QED
    BY <1>1, <1>3, <2>2 DEF Granted
<1>6. Reads(p, None, w \o v)
  BY <1>3, NamesDiffer DEF Reads, Handler
<1> QED
  BY <1>1, <1>2, <1>3, <1>4, <1>5, <1>6 DEF Good

\* Until the client is logged in it has sent one thing at a time.
LEMMA SentAwaited ==
    ASSUME NEW s, NEW w, NEW g, NEW x, Good(s, w, g), Live(s), x \in s.sent,
           NEW p, p = Answered(s, x)
    PROVE  /\ p.stage = s.stage /\ p.sent = s.sent \ {x} /\ p.asked = s.asked
           /\ s.stage # "in" =>
                 w = <<>> /\ p.sent = {} /\ Awaits(p, KindOfSent(x))
           /\ s.stage = "in" => x \in Asks /\ x \in s.asked
<1>1. s \in State
  BY DEF Good
<1>2. /\ p.stage = s.stage /\ p.on_receive = s.on_receive
      /\ p.version = s.version /\ p.features = s.features
      /\ p.starttls = s.starttls /\ p.startsasl = s.startsasl
      /\ p.bound = s.bound /\ p.witid = s.witid /\ p.asked = s.asked
      /\ p.expected = s.expected /\ p.sent = s.sent \ {x}
  BY <1>1 DEF State, Answered
<1>3. ASSUME s.stage # "in"
      PROVE  w = <<>> /\ p.sent = {} /\ Awaits(p, KindOfSent(x))
  <2>1. s.sent = {x} /\ w = <<>> /\ Awaits(s, KindOfSent(x))
    BY <1>3 DEF Good, Turn
  <2>2. \A kind : Awaits(s, kind) => Awaits(p, kind)
    BY <1>2 DEF Awaits
  <2> QED
    BY <1>2, <2>1, <2>2
<1>4. s.stage = "in" => x \in Asks /\ x \in s.asked
  BY DEF Good, Requests
<1> QED
  BY <1>2, <1>3, <1>4

\* An element that may answer what the client has sent, once f is granted
Replies(s, e, x, f) ==
    /\ KindOf(e) = KindOfSent(x)
    /\ e.tag = "proceed" => "tls" \in f
    /\ e.tag = "success" => "sasl" \in f
    /\ e.tag = "answer" => e.id = x /\ (e.ok => x \in f)
    /\ e.tag = "challenge" => s.challenges < MaxChallenges
    /\ s.stage = "in" => e.tag = "answer"

\* A reply of one element
One(e) == <<e>>

\* The server answers with one element.
LEMMA ElementServed ==
    ASSUME NEW s, NEW w \in Seq(Element), NEW g, NEW f, NEW e \in Element, NEW x,
           Good(s, w, g), Live(s), Reads(s, None, w), x \in s.sent,
           g \subseteq f, Replies(s, e, x, f),
           NEW p, p = Answered(s, x)
    PROVE  /\ Good(p, w \o One(e), f) /\ Reads(p, None, w \o One(e))
           /\ p.stage = s.stage
<1> DEFINE v == One(e)
<1>1. v \in Seq(Element) /\ DOMAIN v = {1} /\ v[1] = e
  BY DEF One
<1> HIDE DEF v
<1>2. Allowed(s, v, f)
  BY <1>1 DEF Allowed, Replies
<1>3. /\ p.stage = s.stage /\ p.sent = s.sent \ {x} /\ p.asked = s.asked
      /\ s.stage # "in" =>
            w = <<>> /\ p.sent = {} /\ Awaits(p, KindOfSent(x))
      /\ s.stage = "in" => x \in Asks /\ x \in s.asked
  BY SentAwaited
<1>4. p.stage # "in" => Turn(p, w \o v)
  <2>1. w = <<>> => w \o v = <<e>>
    BY DEF v, One
  <2> QED
    BY <1>3, <2>1 DEF Turn, Replies
<1>5. p.stage = "in" => Requests(p, w \o v)
  <2> SUFFICES ASSUME p.stage = "in"
               PROVE  Requests(p, w \o v)
    OBVIOUS
  <2>1. Requests(s, w)
    BY <1>3 DEF Good
  <2>2. \A i \in DOMAIN (w \o v) :
           \/ \E j \in DOMAIN w : (w \o v)[i] = w[j]
           \/ \E j \in DOMAIN v : (w \o v)[i] = v[j]
    BY <1>1, ConcatElements
  <2>3. \A i \in DOMAIN (w \o v) :
           \/ (w \o v)[i].tag = "stanza"
           \/ (w \o v)[i].tag = "answer" /\ (w \o v)[i].id \in p.asked \ p.sent
    BY <1>1, <1>3, <2>1, <2>2 DEF Requests, Replies
  <2> QED
    BY <1>3, <2>1, <2>3 DEF Requests
<1>6. Good(p, w \o v, f) /\ Reads(p, None, w \o v) /\ p.stage = s.stage
  BY <1>1, <1>2, <1>4, <1>5, ServedGood
<1> QED
  BY <1>6 DEF v

\* The server announces its stream and its features.
LEMMA StreamServed ==
    ASSUME NEW s, NEW w \in Seq(Element), NEW g, NEW o \in Offer,
           Good(s, w, g), Live(s), Reads(s, None, w), "open" \in s.sent,
           NEW p, p = Answered(s, "open")
    PROVE  LET v == <<[tag |-> "header", version |-> "1.0"],
                      [tag |-> "features", offer |-> o]>>
           IN /\ v \in Seq(Element)
              /\ Good(p, w \o v, g) /\ Reads(p, None, w \o v)
              /\ p.stage = s.stage
<1> DEFINE d == [tag |-> "header", version |-> "1.0"]
           e == [tag |-> "features", offer |-> o]
           v == <<d, e>>
<1>1. d \in Element /\ e \in Element /\ d.tag = "header" /\ e.tag = "features"
  BY DEF Element
<1>2. v \in Seq(Element) /\ DOMAIN v = {1, 2} /\ v[1] = d /\ v[2] = e
  <2> HIDE DEF d, e
  <2> QED
    BY <1>1
<1>3. Allowed(s, v, g)
  <2> HIDE DEF d, e, v
  <2> QED
    BY <1>1, <1>2 DEF Allowed
<1>4. /\ p.stage = s.stage
      /\ s.stage # "in" => w = <<>> /\ p.sent = {} /\ Awaits(p, KindOfSent("open"))
      /\ s.stage = "in" => "open" \in Asks
  BY SentAwaited
<1>5. s.stage # "in"
  BY <1>4, NamesAssumption
<1>6. Turn(p, w \o v)
  <2>1. KindOfSent("open") = "open"
    BY DEF KindOfSent
  <2>2. w \o v = v
    <3> HIDE DEF v
    <3> QED
      BY <1>2, <1>4, <1>5, ConcatEmptySeq
  <2> QED
    BY <1>4, <1>5, <2>1, <2>2 DEF Turn
<1> HIDE DEF v
<1>7. Good(p, w \o v, g) /\ Reads(p, None, w \o v) /\ p.stage = s.stage
  BY <1>2, <1>3, <1>4, <1>5, <1>6, ServedGood
<1> QED
  BY <1>2, <1>7 DEF v

\* Whatever the server answers, the client is in order.
LEMMA ServerGood ==
    ASSUME Inv, Server
    PROVE  Inv' /\ cl'.stage = cl.stage
<1>1. PICK x \in cl.sent :
         /\ cl' = Answered(cl, x)
         /\ \/ x = "open" /\ ServeOpen
            \/ x = "starttls" /\ ServeStartTLS
            \/ x \in {"auth", "response"} /\ ServeSasl
            \/ x \in Id /\ ServeRequest(x)
  BY DEF Server, Answered
<1>2. /\ Live(cl) /\ reading = None /\ reading' = None
      /\ Good(cl, wire, granted) /\ Reads(cl, None, wire)
      /\ wire \in Seq(Element) /\ granted \subseteq {"tls", "sasl"} \cup Id
  BY DEF Server, Inv, TypeOK
<1>3. cl.stage = "in" => x \in Asks
  BY <1>1, <1>2, SentAwaited
<1>4. SUFFICES /\ Good(cl', wire', granted') /\ Reads(cl', None, wire')
               /\ wire' \in Seq(Element) /\ cl'.stage = cl.stage
               /\ granted' \subseteq {"tls", "sasl"} \cup Id
  BY <1>2 DEF Inv, TypeOK, Good
<1>5. ASSUME NEW e \in Element, NEW f \in SUBSET ({"tls", "sasl"} \cup Id),
             wire' = wire \o <<e>>, granted' = granted \cup f,
             KindOf(e) = KindOfSent(x),
             e.tag = "proceed" => "tls" \in f,
             e.tag = "success" => "sasl" \in f,
             e.tag = "answer" => e.id = x /\ (e.ok => x \in f),
             e.tag = "challenge" => cl.challenges < MaxChallenges,
             cl.stage = "in" => e.tag = "answer"
      PROVE  /\ Good(cl', wire', granted') /\ Reads(cl', None, wire')
             /\ wire' \in Seq(Element) /\ cl'.stage = cl.stage
             /\ granted' \subseteq {"tls", "sasl"} \cup Id
  <2> DEFINE G == granted \cup f
  <2>1. granted \subseteq G /\ Replies(cl, e, x, G)
    BY <1>5 DEF Replies
  <2>2. wire \o <<e>> \in Seq(Element)
    BY <1>2
  <2> HIDE DEF G
  <2>3. /\ Good(cl', wire \o One(e), G) /\ Reads(cl', None, wire \o One(e))
        /\ cl'.stage = cl.stage
    <3>1. cl' = Answered(cl, x)
      BY <1>1
    <3>2. Good(cl, wire, granted)
      BY <1>2
    <3>3. Live(cl)
      BY <1>2
    <3>4. Reads(cl, None, wire)
      BY <1>2
    <3>5. wire \in Seq(Element)
      BY <1>2
    <3>6. granted \subseteq G
      BY <2>1
    <3>7. Replies(cl, e, x, G)
      BY <2>1
    <3> QED
      BY <3>1, <3>2, <3>3, <3>4, <3>5, <3>6, <3>7, ElementServed
  <2> QED
    BY <1>2, <1>5, <2>2, <2>3 DEF G, One
<1>6. CASE x = "open" /\ ServeOpen
  <2>1. ASSUME NEW f \in Offer,
               wire' = wire \o <<[tag |-> "header", version |-> "1.0"],
                                 [tag |-> "features", offer |-> f]>>,
               granted' = granted
        PROVE  /\ Good(cl', wire', granted') /\ Reads(cl', None, wire')
               /\ wire' \in Seq(Element) /\ cl'.stage = cl.stage
    <3> DEFINE v == <<[tag |-> "header", version |-> "1.0"],
                      [tag |-> "features", offer |-> f]>>
    <3>1. /\ v \in Seq(Element)
          /\ Good(cl', wire \o v, granted) /\ Reads(cl', None, wire \o v)
          /\ cl'.stage = cl.stage
      BY <1>1, <1>2, <1>6, StreamServed
    <3> HIDE DEF v
    <3>2. wire \o v \in Seq(Element)
      BY <1>2, <3>1
    <3>3. wire' = wire \o v
      BY <2>1 DEF v
    <3> QED
      BY <2>1, <3>1, <3>2, <3>3
  <2>2. ASSUME wire' = wire \o <<[tag |-> "header", version |-> "none"]>>,
               granted' = granted \cup {}
        PROVE  /\ Good(cl', wire', granted') /\ Reads(cl', None, wire')
               /\ wire' \in Seq(Element) /\ cl'.stage = cl.stage
    <3> DEFINE e == [tag |-> "header", version |-> "none"]
    <3>1. /\ e \in Element /\ e.tag = "header" /\ KindOf(e) = "open"
          /\ KindOfSent(x) = "open"
      BY <1>6 DEF Element, KindOf, KindOfSent
    <3>2. cl.stage # "in"
      BY <1>3, <1>6, NamesAssumption
    <3> HIDE DEF e
    <3> QED
      BY <1>5, <2>2, <3>1, <3>2 DEF e
  <2> QED
    BY <1>2, <1>6, <2>1, <2>2 DEF ServeOpen, Serve, Offers
<1>7. CASE x = "starttls" /\ ServeStartTLS
  <2>1. cl.stage # "in"
    BY <1>3, <1>7, NamesAssumption
  <2>2. PICK tag \in {"proceed", "tlsfailure"} :
           /\ wire' = wire \o <<[tag |-> tag]>>
           /\ granted' = granted \cup (IF tag = "proceed" THEN {"tls"} ELSE {})
    BY <1>7 DEF ServeStartTLS, Serve, Tag
  <2> DEFINE e == [tag |-> tag]
             f == IF tag = "proceed" THEN {"tls"} ELSE {}
  <2>3. /\ e \in Element /\ e.tag = tag /\ KindOf(e) = "starttls"
        /\ KindOfSent(x) = "starttls"
    BY <1>7 DEF Element, KindOf, KindOfSent
  <2>4. f \in SUBSET ({"tls", "sasl"} \cup Id) /\ (tag = "proceed" => "tls" \in f)
    OBVIOUS
  <2>5. wire' = wire \o <<e>> /\ granted' = granted \cup f
    BY <2>2
  <2> HIDE DEF e, f
  <2> QED
    BY <1>5, <2>1, <2>3, <2>4, <2>5
<1>8. CASE x \in {"auth", "response"} /\ ServeSasl
  <2>1. cl.stage # "in"
    BY <1>3, <1>8, NamesAssumption
  <2>2. KindOfSent(x) = "auth"
    BY <1>8 DEF KindOfSent
  <2>3. ASSUME NEW tag \in {"success", "saslfailure"},
               wire' = wire \o <<[tag |-> tag]>>,
               granted' = granted \cup (IF tag = "success" THEN {"sasl"} ELSE {})
        PROVE  /\ Good(cl', wire', granted') /\ Reads(cl', None, wire')
               /\ wire' \in Seq(Element) /\ cl'.stage = cl.stage
               /\ granted' \subseteq {"tls", "sasl"} \cup Id
    <3> DEFINE e == [tag |-> tag]
               f == IF tag = "success" THEN {"sasl"} ELSE {}
    <3>1. e \in Element /\ e.tag = tag /\ KindOf(e) = "auth"
      BY DEF Element, KindOf
    <3>2. f \in SUBSET ({"tls", "sasl"} \cup Id) /\ (tag = "success" => "sasl" \in f)
      OBVIOUS
    <3>3. wire' = wire \o <<e>> /\ granted' = granted \cup f
      BY <2>3
    <3> HIDE DEF e, f
    <3> QED
      BY <1>5, <2>1, <2>2, <3>1, <3>2, <3>3
  <2>4. ASSUME NEW known \in BOOLEAN, cl.challenges < MaxChallenges,
               wire' = wire \o <<[tag |-> "challenge", known |-> known]>>,
               granted' = granted \cup {}
        PROVE  /\ Good(cl', wire', granted') /\ Reads(cl', None, wire')
               /\ wire' \in Seq(Element) /\ cl'.stage = cl.stage
               /\ granted' \subseteq {"tls", "sasl"} \cup Id
    <3> DEFINE e == [tag |-> "challenge", known |-> known]
    <3>1. e \in Element /\ e.tag = "challenge" /\ KindOf(e) = "auth"
      BY DEF Element, KindOf
    <3>2. wire' = wire \o <<e>>
      BY <2>4
    <3> HIDE DEF e
    <3> QED
      BY <1>5, <2>1, <2>2, <2>4, <3>1, <3>2
  <2> QED
    BY <1>8, <2>3, <2>4 DEF ServeSasl, Serve, Tag
<1>9. CASE x \in Id /\ ServeRequest(x)
  <2>1. PICK ok \in BOOLEAN :
           /\ wire' = wire \o <<[tag |-> "answer", id |-> x, ok |-> ok]>>
           /\ granted' = granted \cup (IF ok THEN {x} ELSE {})
    BY <1>9 DEF ServeRequest, Serve, Answer
  <2> DEFINE e == [tag |-> "answer", id |-> x, ok |-> ok]
             f == IF ok THEN {x} ELSE {}
  <2>2. /\ e \in Element /\ e.tag = "answer" /\ e.id = x /\ e.ok = ok
        /\ KindOf(e) = x
    BY <1>9 DEF Element, KindOf
  <2>3. KindOfSent(x) = x
    BY <1>9, NamesDiffer DEF KindOfSent
  <2>4. f \in SUBSET ({"tls", "sasl"} \cup Id) /\ (ok => x \in f)
    BY <1>9
  <2>5. wire' = wire \o <<e>> /\ granted' = granted \cup f
    BY <2>1
  <2> HIDE DEF e, f
  <2> QED
    BY <1>5, <2>2, <2>3, <2>4, <2>5
<1> QED
  BY <1>1, <1>6, <1>7, <1>8, <1>9

-----------------------------------------------------------------------------
(* The invariant, and how the stage changes.                               *)

\* What the stage may be after a step, however the client ends
Advances(a, b) ==
    \/ Leads(a, b)
    \/ a = "opening" /\ b = "failed"
    \/ a = "asking" /\ b \in {"auth", "refused", "away"}
    \/ a \notin Ended /\ b = "closed"

LEMMA SettledReads ==
    ASSUME NEW s, NEW w
    PROVE  Settled(s) <=> Reads(s, None, w)
BY NamesDiffer DEF Settled, Reads, Handler

\* A client that has ended is in order if it is a client.
LEMMA EndedGood ==
    ASSUME NEW s \in State, NEW h \in Ended, NEW w, NEW g
    PROVE  Good([s EXCEPT !.stage = h], w, g) /\ [s EXCEPT !.stage = h].stage = h
           /\ ~Live([s EXCEPT !.stage = h])
<1> DEFINE r == [s EXCEPT !.stage = h]
<1> SUFFICES Good(r, w, g) /\ r.stage = h /\ ~Live(r)
  OBVIOUS
<1>1. h \in Stage
  BY DEF Stage
<1>2. r \in State /\ r.stage = h
  BY <1>1 DEF State
<1> HIDE DEF r
<1> QED
  BY <1>2 DEF Good, Live

LEMMA InitGood == Init => Inv
<1> SUFFICES ASSUME Init
             PROVE  Inv
  OBVIOUS
<1>1. /\ reading = None /\ wire = <<>> /\ granted = {}
      /\ cl.type \in Types
      /\ cl.answer \in {"accept", "ask", "offline"}
      /\ cl.connected = (IF cl.type = "ssl" THEN "ssl" ELSE "tcp")
      /\ cl.secure = (IF cl.type = "ssl" THEN "ssl" ELSE "plain")
      /\ cl.starttls = (IF cl.type = "ssl" THEN "success" ELSE "none")
      /\ cl = [type |-> cl.type, answer |-> cl.answer, stage |-> "opening",
               connected |-> cl.connected, secure |-> cl.secure,
               on_receive |-> "attrs", on_stream_start |-> "tcp",
               version |-> "unknown", features |-> None,
               starttls |-> cl.starttls,
               startsasl |-> "none", challenges |-> 0, bound |-> "none",
               witid |-> None, expected |-> [i \in Id |-> "no"],
               told |-> {}, asked |-> {}, sent |-> {"open"}]
  BY DEF Init
<1>2. cl \in State
  <2>1. "attrs" \in Handler /\ "opening" \in Stage /\ {"open"} \in SUBSET Sent
    BY DEF Handler, Stage, Sent
  <2>2. 0 \in 0 .. MaxChallenges
    BY ClientAssumption
  <2>3. [i \in Id |-> "no"] \in [Id -> {"no", "waiting", "ok", "error"}]
    OBVIOUS
  <2>4. /\ cl.connected \in {"tcp", "tls", "ssl"}
        /\ cl.secure \in {"plain", "tls", "ssl"}
        /\ cl.starttls \in {"none", "asked", "failure", "success"}
    BY <1>1
  <2> QED
    BY <1>1, <2>1, <2>2, <2>3, <2>4 DEF State
<1>3. /\ cl.stage = "opening" /\ cl.on_receive = "attrs"
      /\ cl.on_stream_start = "tcp" /\ cl.version = "unknown"
      /\ cl.features = None /\ cl.startsasl = "none" /\ cl.bound = "none"
      /\ cl.witid = None /\ cl.sent = {"open"}
      /\ cl.expected = [i \in Id |-> "no"]
  BY <1>1
<1>4. Fit(cl) /\ Kind(cl)
  BY <1>1, <1>3 DEF Fit, Kind, Socket
<1>5. Granted(cl, wire, granted)
  BY <1>1, <1>3, NamesDiffer DEF Granted, Id, LoginId
<1>6. Turn(cl, wire)
  <2>1. KindOfSent("open") = "open" /\ "open" \in Sent
    BY DEF KindOfSent, Sent
  <2>2. Awaits(cl, "open")
    BY <1>3 DEF Awaits
  <2> QED
    BY <1>1, <1>3, <2>1, <2>2 DEF Turn
<1>7. Reads(cl, reading, wire)
  BY <1>1, <1>3, NamesDiffer DEF Reads, Handler
<1>8. wire \in Seq(Element) /\ granted \subseteq {"tls", "sasl"} \cup Id
  BY <1>1
<1> QED
  BY <1>1, <1>2, <1>3, <1>4, <1>5, <1>6, <1>7, <1>8 DEF Inv, Good, TypeOK

\* The steps of the loop
LEMMA LoopGood ==
    ASSUME Inv, Read \/ DispatchNext \/ EndOfRead \/ EndTag
    PROVE  Inv' /\ Advances(cl.stage, cl'.stage)
<1>1. /\ Good(cl, wire, granted) /\ cl \in State
      /\ Live(cl) => Reads(cl, reading, wire)
      /\ reading \in Handler \cup {None} /\ wire \in Seq(Element)
      /\ granted \subseteq {"tls", "sasl"} \cup Id
  BY DEF Inv, TypeOK
<1>2. CASE Read
  <2>1. /\ Live(cl) /\ reading = None /\ reading' = cl.on_receive
        /\ cl' = cl /\ wire' = wire /\ granted' = granted
    BY <1>2 DEF Read
  <2>2. Reads(cl, cl.on_receive, wire)
    <3>1. Settled(cl) /\ Fit(cl)
      BY <1>1, <2>1, SettledReads DEF Good
    <3> QED
      BY <3>1 DEF Settled, Fit, Reads
  <2>3. cl.on_receive \in Handler
    BY <1>1 DEF State
  <2> QED
    BY <1>1, <2>1, <2>2, <2>3 DEF Inv, TypeOK, Good, Live, Fit, Kind, Socket,
       Granted, Turn, Requests, Awaits, Reads, Advances, Leads
<1>3. CASE DispatchNext
  <2>1. /\ reading # None /\ Live(cl) /\ wire # <<>>
        /\ cl' = Dispatch(cl, Head(wire)) /\ wire' = Tail(wire)
        /\ reading' = reading /\ granted' = granted
    BY <1>3 DEF DispatchNext
  <2>2. Dispatching(cl, wire, granted, reading)
    BY <1>1, <2>1 DEF Dispatching
  <2>3. Dispatched(cl, Dispatch(cl, Head(wire)), wire, granted, reading)
    BY <2>2, DispatchGood
  <2>4. /\ Good(cl', wire', granted') /\ Leads(cl.stage, cl'.stage)
        /\ Live(cl') => Reads(cl', reading', wire')
    BY <2>1, <2>3 DEF Dispatched
  <2>5. wire' \in Seq(Element)
    BY <1>1, <2>1, TailElements
  <2> QED
    BY <1>1, <2>1, <2>4, <2>5 DEF Inv, TypeOK, Good, Live, Advances
<1>4. CASE EndOfRead
  <2>1. /\ reading # None /\ reading' = None
        /\ cl' = IF Live(cl) THEN Handle(cl, reading) ELSE cl
        /\ wire' = wire /\ granted' = granted
    BY <1>4 DEF EndOfRead
  <2>2. CASE Live(cl)
    <3>1. /\ After(Handle(cl, reading), wire, granted)
          /\ Leads(cl.stage, Handle(cl, reading).stage)
      BY <1>1, <2>1, <2>2, HandleGood
    <3>2. /\ Good(cl', wire', granted') /\ Leads(cl.stage, cl'.stage)
          /\ Live(cl') => Settled(cl')
      BY <2>1, <2>2, <3>1 DEF After
    <3>3. Live(cl') => Reads(cl', reading', wire')
      BY <2>1, <3>2, SettledReads
    <3> QED
      BY <1>1, <2>1, <3>2, <3>3 DEF Inv, TypeOK, Good, Advances
  <2>3. CASE ~Live(cl)
    BY <1>1, <2>1, <2>3 DEF Inv, TypeOK, Good, Live, Advances, Leads
  <2> QED
    BY <2>2, <2>3
<1>5. CASE EndTag
  <2>1. /\ Live(cl) /\ reading' = None /\ wire' = wire /\ granted' = granted
        /\ cl' = [cl EXCEPT !.stage = "closed"]
    BY <1>5 DEF EndTag
  <2>2. Good(cl', wire', granted') /\ cl'.stage = "closed" /\ ~Live(cl')
    BY <1>1, <2>1, EndedGood DEF Ended
  <2> QED
    BY <1>1, <2>1, <2>2 DEF Inv, TypeOK, Good, Live, Advances
<1> QED
  BY <1>2, <1>3, <1>4, <1>5

\* The steps of the user, and of what the client cannot help
LEMMA OutsideGood ==
    ASSUME Inv, Account \/ Lose \/ Stanza
    PROVE  Inv' /\ Advances(cl.stage, cl'.stage)
<1>1. /\ Good(cl, wire, granted) /\ cl \in State
      /\ Live(cl) => Reads(cl, reading, wire)
      /\ reading \in Handler \cup {None} /\ wire \in Seq(Element)
      /\ granted \subseteq {"tls", "sasl"} \cup Id
  BY DEF Inv, TypeOK
<1>2. ASSUME NEW accept \in BOOLEAN, Decide(accept)
      PROVE  Inv' /\ Advances(cl.stage, cl'.stage)
  <2>1. /\ reading = None /\ cl.stage = "asking" /\ Live(cl)
        /\ cl' = IF accept THEN Authenticate(cl)
                 ELSE [cl EXCEPT !.stage = "away"]
        /\ reading' = None /\ wire' = wire /\ granted' = granted
    BY <1>2 DEF Decide, Live, Ended
  <2>2. /\ Settled(cl) /\ Fit(cl) /\ Kind(cl)
        /\ Granted(cl, wire, granted) /\ Turn(cl, wire)
    BY <1>1, <2>1, SettledReads DEF Good
  <2>3. cl.on_receive = "process"
    BY <1>1, <2>1, <2>2 DEF Fit, State, Handler
  <2>4. cl.startsasl = "none" /\ cl.bound = "none"
    BY <1>1, <2>1, <2>2 DEF Fit
  <2>5. cl.witid # None => cl.expected[cl.witid] = "no"
    <3>1. cl.witid # None =>
             cl.expected[cl.witid] \in {"no", "waiting", "ok", "error"}
      BY <1>1 DEF State
    <3> QED
      BY <2>2, <2>3, <3>1 DEF Settled
  <2>6. Ready(cl, wire, granted) /\ cl.secure = cl.type
    BY <1>1, <2>1, <2>2, <2>3, <2>4, <2>5 DEF Ready, Kind
  <2>7. /\ After(cl', wire, granted)
        /\ cl'.stage \in {"auth", "refused", "away"}
    <3>1. CASE accept
      BY <2>1, <2>6, <3>1, AuthenticateGood
    <3>2. CASE ~accept
      <4> DEFINE r == [cl EXCEPT !.stage = "away"]
      <4>1. After(r, wire, granted) /\ r.stage = "away"
        BY <2>6, StageGood
      <4> QED
        BY <2>1, <3>2, <4>1
    <3> QED
      BY <3>1, <3>2
  <2>8. Good(cl', wire', granted') /\ (Live(cl') => Reads(cl', reading', wire'))
    BY <2>1, <2>7, SettledReads DEF After
  <2> QED
    BY <1>1, <2>1, <2>7, <2>8 DEF Inv, TypeOK, Good, Advances
<1>3. CASE Ask
  <2>1. /\ reading = None /\ cl.stage = "in" /\ cl.asked # Asks /\ Live(cl)
        /\ cl' = AskNext(cl)
        /\ reading' = None /\ wire' = wire /\ granted' = granted
    BY <1>3 DEF Ask, Live, Ended
  <2>2. /\ Good(cl', wire, granted) /\ cl'.stage = "in"
        /\ Reads(cl', None, wire)
    BY <1>1, <2>1, AskNextGood
  <2> QED
    BY <1>1, <2>1, <2>2 DEF Inv, TypeOK, Good, Advances, Leads
<1>4. CASE Lose
  <2>1. PICK h \in {"failed", "closed"} :
           /\ cl' = [cl EXCEPT !.stage = h]
           /\ h = "failed" => cl.stage = "opening"
    BY <1>4 DEF Lose
  <2>2. /\ Live(cl) /\ reading' = reading /\ wire' = <<>> /\ granted' = granted
    BY <1>4 DEF Lose
  <2>3. Good(cl', wire', granted') /\ cl'.stage = h /\ ~Live(cl')
    BY <1>1, <2>1, <2>2, EndedGood DEF Ended
  <2>4. wire' \in Seq(Element)
    BY <2>2
  <2> QED
    BY <1>1, <2>1, <2>2, <2>3, <2>4 DEF Inv, TypeOK, Good, Live, Advances
<1>5. CASE Stanza
  <2>1. PICK asks \in BOOLEAN :
           /\ wire' = wire \o <<[tag |-> "stanza", asks |-> asks]>>
           /\ granted' = granted \cup {}
    BY <1>5 DEF Stanza, Serve
  <2>2. cl.stage = "in" /\ Live(cl) /\ reading = None /\ reading' = None /\ cl' = cl
    BY <1>5 DEF Stanza, Live, Ended
  <2> DEFINE e == [tag |-> "stanza", asks |-> asks]
             v == <<e>>
  <2>3. e \in Element /\ e.tag = "stanza"
    BY DEF Element
  <2> HIDE DEF e
  <2>4. v \in Seq(Element) /\ DOMAIN v = {1} /\ v[1] = e /\ wire' = wire \o v
    BY <2>1, <2>3 DEF e
  <2> HIDE DEF v
  <2>5. /\ wire \o v \in Seq(Element)
        /\ \A i \in DOMAIN (wire \o v) :
              \/ \E j \in DOMAIN wire : (wire \o v)[i] = wire[j]
              \/ \E j \in DOMAIN v : (wire \o v)[i] = v[j]
    BY <1>1, <2>4, ConcatElements
  <2>6. /\ Granted(cl, wire, granted) /\ Requests(cl, wire) /\ Fit(cl) /\ Kind(cl)
        /\ Reads(cl, None, wire)
    BY <1>1, <2>2 DEF Good
  <2>7. Granted(cl, wire \o v, granted)
    <3>1. \A i \in DOMAIN (wire \o v) :
             /\ (wire \o v)[i].tag = "proceed" => "tls" \in granted
             /\ (wire \o v)[i].tag = "success" => "sasl" \in granted
             /\ (wire \o v)[i].tag = "answer" /\ (wire \o v)[i].ok =>
                   (wire \o v)[i].id \in granted
             /\ (wire \o v)[i].tag = "challenge" => cl.challenges < MaxChallenges
      BY <2>3, <2>4, <2>5, <2>6 DEF Granted
    <3> QED
      BY <2>6, <3>1 DEF Granted
  <2>8. Requests(cl, wire \o v)
    BY <2>3, <2>4, <2>5, <2>6 DEF Requests
  <2>9. Reads(cl, None, wire \o v)
    BY <2>2, <2>6 DEF Reads
  <2>10. Good(cl, wire \o v, granted)
    BY <1>1, <2>2, <2>6, <2>7, <2>8 DEF Good
  <2>11. granted' = granted
    BY <2>1
  <2>12. /\ cl' \in State /\ reading' \in Handler \cup {None}
         /\ wire' \in Seq(Element) /\ granted' \subseteq {"tls", "sasl"} \cup Id
         /\ Good(cl', wire', granted') /\ Reads(cl', reading', wire')
    BY <1>1, <2>2, <2>4, <2>5, <2>9, <2>10, <2>11
  <2> QED
    BY <2>2, <2>12 DEF Inv, TypeOK, Advances, Leads
<1> QED
  BY <1>2, <1>3, <1>4, <1>5 DEF Account

LEMMA NextGood == Inv /\ [Next]_vars => Inv' /\ Advances(cl.stage, cl'.stage)
<1> SUFFICES ASSUME Inv, [Next]_vars
             PROVE  Inv' /\ Advances(cl.stage, cl'.stage)
  OBVIOUS
<1>1. CASE Read \/ DispatchNext \/ EndOfRead \/ EndTag
  BY <1>1, LoopGood
<1>2. CASE Account \/ Lose \/ Stanza
  BY <1>2, OutsideGood
<1>3. CASE Server
  BY <1>3, ServerGood DEF Advances, Leads
<1>4. CASE UNCHANGED vars
  <2>1. /\ cl' = cl /\ reading' = reading /\ wire' = wire /\ granted' = granted
    BY <1>4 DEF vars
  <2>2. Inv'
    BY <2>1 DEF Inv, TypeOK, Good, Live, Fit, Kind, Socket, Granted, Turn,
       Requests, Awaits, Reads
  <2> QED
    BY <2>1, <2>2 DEF Advances, Leads
<1> QED
  BY <1>1, <1>2, <1>3, <1>4 DEF Next

\* The client is always in order, and its handlers are those that will find what
\* the server sends: onreceive, SendAndWaitForResponse and the handlers together.
THEOREM InOrder == Spec => []Inv
<1>1. Inv /\ [Next]_vars => Inv'
  BY NextGood
<1> QED
  BY <1>1, InitGood, PTL DEF Spec

\* The attributes of the client, its transport and its dispatcher are of their
\* types; in particular every handler finds what it reads.
THEOREM TypeCorrect == Spec => []TypeOK
<1>1. Inv => TypeOK
  BY DEF Inv
<1> QED
  BY <1>1, InOrder, PTL

\* An account that __on_auth logs in was let in by the server, over a connection
\* of the type that _connect_success accepted.
THEOREM OnlyGrantedLogin == Spec => []LoginIsGranted
<1>1. Inv => LoginIsGranted
  <2> SUFFICES ASSUME Inv
               PROVE  LoginIsGranted
    OBVIOUS
  <2>1. cl.stage \in {"auth", "in"} =>
           Kind(cl) /\ Granted(cl, wire, granted)
    BY DEF Inv, Good, Live, Ended
  <2> QED
    BY <2>1 DEF Kind, Granted, LoginIsGranted
<1> QED
  BY <1>1, InOrder, PTL

\* WaitForData finds the answer to the last request with the data it was in.
THEOREM LastIsDelivered == Spec => []LastAnswerDelivered
<1>1. Inv => LastAnswerDelivered
  BY SettledReads DEF Inv, Settled, LastAnswerDelivered
<1> QED
  BY <1>1, InOrder, PTL

\* Every client keeps to the phases that Connection takes for granted: it reports
\* that it is connected, that it failed and that it was let in as Login says.
THEOREM KeepsToLogin == Spec => ImplementsLogin
<1> DEFINE phase == IF cl.stage \in {"asking", "away"} THEN "ready" ELSE cl.stage
<1>1. Init => LoginPhases!Init
  BY DEF Init, LoginPhases!Init
<1>2. Inv /\ [Next]_vars => [LoginPhases!Next]_phase
  <2> SUFFICES ASSUME Inv, [Next]_vars
               PROVE  [LoginPhases!Next]_phase
    OBVIOUS
  <2>1. Advances(cl.stage, cl'.stage)
    BY NextGood
  <2>2. cl.stage \in Stage
    BY DEF Inv, TypeOK, State
  <2> QED
    BY <2>1, <2>2 DEF Advances, Leads, Stage, Ended, LoginPhases!Next,
       LoginPhases!Connected, LoginPhases!ConnectFailure, LoginPhases!Accepted,
       LoginPhases!AuthEnds, LoginPhases!Closed
<1> QED
  BY <1>1, <1>2, InOrder, PTL DEF Spec, ImplementsLogin, LoginPhases!Spec

=============================================================================
