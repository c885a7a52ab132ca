------------------------------- MODULE Client -------------------------------
(***************************************************************************)
(* A client (NonBlockingClient) from the moment its socket is connected:   *)
(* it negotiates the stream, with TLS or not, authenticates with SASL or   *)
(* the old way, binds a resource, and then sends requests whose answers    *)
(* are called back.  There is no state machine in the code.  What is to be *)
(* done with the next data is NonBlockingTcp.on_receive, a handler that    *)
(* each step replaces by the next; and since the server cuts its stream    *)
(* into reads as it likes, onreceive() tries a handler on what has been    *)
(* parsed already before it is installed.  The handlers are composed here  *)
(* as in client_nb.py, auth_nb.py, transports_nb.py and dispatcher_nb.py.  *)
(***************************************************************************)
EXTENDS Integers, Sequences

CONSTANTS
    Types,          \* the types of connection the account may try
    None,           \* no request, no features
    MaxChallenges,  \* bound: SASL challenges
    Asks,           \* requests an account sends once it is logged in
    MaxWire         \* bound: elements under way when another stanza is sent

ASSUME ClientAssumption ==
    /\ Types \subseteq {"plain", "tls", "ssl"}
    /\ {MaxChallenges, MaxWire} \subseteq Nat

VARIABLES
    cl,       \* the client and what is plugged into it, see State
    reading,  \* the handler that was called with the data being dispatched
    wire,     \* elements the server has sent and the client has not dispatched
    granted   \* what the server agreed to; no code reads it

vars == <<cl, reading, wire, granted>>

-----------------------------------------------------------------------------
(* Requests that SendAndWaitForResponse sends, and what else is sent.      *)
LoginId == {"username", "password", "bind", "session"}
Id == LoginId \cup Asks
Sent == {"open", "starttls", "auth", "response"} \cup Id

Offer == [starttls : BOOLEAN, bind : BOOLEAN,
          mechanisms : {"none", "unknown", "known"}]

\* "away": on_connect has returned without using the client.  "refused":
\* on_auth(None) was called, "failed": on_connect_failure was.
Ended == {"refused", "failed", "closed"}
Stage == {"opening", "asking", "away", "auth", "in"} \cup Ended

\* The handlers on_receive may be; "process" is ProcessNonBlocking
Handler ==
    {"process", "attrs", "features", "starttls", "sasl", "bind", "wait"}

State ==
    [type : Types,            \* Connection._current_type
     answer : {"accept", "ask", "offline"},   \* what _connect_success does
     stage : Stage,
     connected : {"tcp", "tls", "ssl"},
     secure : {"plain", "tls", "ssl"},  \* what the socket does
     on_receive : Handler,
     on_stream_start : {"none", "tcp", "auth"},
     version : {"unknown", "none", "1.0"},    \* in _document_attrs
     features : Offer \cup {None},
     starttls : {"none", "asked", "failure", "success"},  \* of NonBlockingTLS
     startsasl : {"none", "in-process", "failure", "success"},
     challenges : 0 .. MaxChallenges,
     bound : {"none", "offered", "failure"},
     witid : Id \cup {None},            \* _witid
     expected : [Id -> {"no", "waiting", "ok", "error"}],   \* _expected
     told : SUBSET Id,                  \* called back; no code reads it
     asked : SUBSET Asks,
     sent : SUBSET Sent]                \* and not answered by the server

\* Elements of the stream
Element ==
    [tag : {"header"}, version : {"none", "1.0"}]
    \cup [tag : {"features"}, offer : Offer]
    \cup [tag : {"proceed", "tlsfailure", "success", "saslfailure"}]
    \cup [tag : {"challenge"}, known : BOOLEAN]
    \cup [tag : {"answer"}, id : Id, ok : BOOLEAN]
    \cup [tag : {"stanza"}, asks : BOOLEAN]

ASSUME NamesAssumption ==
    /\ None \notin Id \cup Offer \cup Handler
    /\ Asks \cap (LoginId \cup {"open", "starttls", "auth", "response"}) = {}

TypeOK ==
    /\ cl \in State
    /\ reading \in Handler \cup {None}
    /\ wire \in Seq(Element)
    /\ granted \subseteq {"tls", "sasl"} \cup Id

\* _on_connected: the socket is connected, with "ssl" encrypted, a handler is
\* installed and the Dispatcher sends the header of the stream
Init ==
    /\ \E type \in Types, answer \in {"accept", "ask", "offline"} :
          cl = [type |-> type, answer |-> answer, stage |-> "opening",
                connected |-> IF type = "ssl" THEN "ssl" ELSE "tcp",
                secure |-> IF type = "ssl" THEN "ssl" ELSE "plain",
                on_receive |-> "attrs", on_stream_start |-> "tcp",
                version |-> "unknown", features |-> None,
                starttls |-> IF type = "ssl" THEN "success" ELSE "none",
                startsasl |-> "none", challenges |-> 0, bound |-> "none",
                witid |-> None, expected |-> [i \in Id |-> "no"],
                told |-> {}, asked |-> {}, sent |-> {"open"}]
    /\ reading = None
    /\ wire = <<>>
    /\ granted = {}

-----------------------------------------------------------------------------
(* The transport and the dispatcher.                                       *)

\* A client that has ended has no methods left: whatever its callers go on
\* with raises, so that they do nothing to it
Live(s) == s.stage \notin Ended

Send(s, x) == [s EXCEPT !.sent = @ \cup {x}]

\* onreceive(None): data is parsed and dispatched, and no more
Process(s) == [s EXCEPT !.on_receive = "process"]

\* What a handler does to the client, and whether it returns a true value
Return(s, done) == [cl |-> s, done |-> done]

\* Mutant: the handler is installed and waits for more data
OnReceiveUntried(s, handler, tried) == [s EXCEPT !.on_receive = handler]

\* onreceive(handler): it is called with None, and installed unless it is
\* done or has installed another one.  tried is what that call returns.
OnReceive(s, handler, tried) ==
    IF ~tried.done /\ Live(tried.cl) /\ tried.cl.on_receive = s.on_receive
    THEN [tried.cl EXCEPT !.on_receive = handler]
    ELSE tried.cl

\* SendAndWaitForResponse; WaitForData(None) returns at once
SendAndWait(s, id) ==
    LET p == [Send(s, id) EXCEPT !.witid = id, !.expected[id] = "waiting"]
    IN OnReceive(p, "wait", Return(p, FALSE))

\* A new Dispatcher: the old one forgets what it has parsed
Restart(s) ==
    Send([s EXCEPT !.version = "unknown", !.features = None], "open")

\* SendAndCallForResponse of an account that is logged in
AskNext(s) ==
    IF s.asked = Asks THEN s
    ELSE LET ask == CHOOSE a \in Asks : a \notin s.asked
         IN SendAndWait([s EXCEPT !.asked = @ \cup {ask}], ask)

-----------------------------------------------------------------------------
(* Authentication.                                                         *)

\* Connection.__on_auth
OnAuth(s, auth) ==
    IF auth THEN Process([s EXCEPT !.stage = "in"])
    ELSE [s EXCEPT !.stage = "refused"]

\* _on_sasl_auth
OnSaslAuth(s, res) == OnAuth(Process(s), res)

\* _on_auth_bind
OnAuthBind(s) ==
    IF s.bound = "none" THEN Return(s, FALSE)
    ELSE Return(SendAndWait(Process(s), "bind"), TRUE)

\* _on_start_sasl
OnStartSasl(s) ==
    LET p == Process(s)
    IN CASE s.startsasl = "in-process" -> Return(s, FALSE)
         [] s.startsasl = "failure" -> Return(OnSaslAuth(p, FALSE), TRUE)
         [] s.startsasl = "success" ->
               Return(OnReceive(p, "bind", OnAuthBind(p)), TRUE)

\* _on_doc_attrs: SASL.FeaturesHandler picks a mechanism.  A server without
\* SASL is asked the old way.
OnDocAttrs(s) ==
    LET mechanisms == IF s.version = "none" THEN "none"
                      ELSE s.features.mechanisms
        begun == IF mechanisms = "known"
                 THEN Send([s EXCEPT !.startsasl = "in-process"], "auth")
                 ELSE [s EXCEPT !.startsasl = "failure"]
    IN IF mechanisms = "none" THEN SendAndWait(s, "username")
       ELSE OnReceive(begun, "sasl", OnStartSasl(begun))

-----------------------------------------------------------------------------
(* The beginning of a stream.  started is what on_stream_start() makes of  *)
(* the client.                                                             *)

\* _on_receive_stream_features
OnReceiveStreamFeatures(s, started) ==
    IF s.features = None THEN Return(s, FALSE)
    ELSE Return([started EXCEPT !.on_stream_start = "none"], TRUE)

\* _on_receive_document_attrs
OnReceiveDocumentAttrs(s, started) ==
    LET p == Process(s)
    IN CASE s.version = "unknown" -> Return(s, FALSE)
         [] s.version = "none" ->
               Return([started EXCEPT !.on_stream_start = "none"], TRUE)
         [] s.version = "1.0" ->
               Return(OnReceive(p, "features",
                                OnReceiveStreamFeatures(p, started)), FALSE)

\* auth: get_attrs(_on_doc_attrs)
Authenticate(s) ==
    LET p == [s EXCEPT !.stage = "auth", !.on_stream_start = "auth"]
    IN OnReceive(p, "attrs",
                 OnReceiveDocumentAttrs(p, OnDocAttrs(Process(p))))

ConnectionType(s) == IF s.connected = "tcp" THEN "plain" ELSE s.connected

\* Mutant: whatever the type of the connection, it will do
ConnectSuccessOfAnyType(s) ==
    CASE s.answer = "offline" -> [s EXCEPT !.stage = "away"]
      [] s.answer = "ask" -> [s EXCEPT !.stage = "asking"]
      [] s.answer = "accept" -> Authenticate(s)

\* Connection._connect_success.  With another type of connection than the
\* one it tries, connect_to_next_type closes the client.
ConnectSuccess(s) ==
    CASE s.answer = "offline" -> [s EXCEPT !.stage = "away"]
      [] s.answer # "offline" /\ ConnectionType(s) # s.type ->
            [s EXCEPT !.stage = "closed"]
      [] s.answer = "ask" /\ ConnectionType(s) = s.type ->
            [s EXCEPT !.stage = "asking"]
      [] s.answer = "accept" /\ ConnectionType(s) = s.type -> Authenticate(s)

\* _is_connected
IsConnected(s) == ConnectSuccess(Process(s))

\* Mutant: the answer of the server is taken for the kind of connection
OnReceiveStartTLSAnswer(s) ==
    LET p == Process(s)
    IN CASE s.starttls = "asked" -> Return(s, FALSE)
         [] s.starttls = "failure" -> Return(IsConnected(p), FALSE)
         [] s.starttls = "success" ->
               Return(IsConnected([p EXCEPT !.connected = s.starttls]), TRUE)

\* _on_receive_starttls
OnReceiveStartTLS(s) ==
    LET p == Process(s)
    IN CASE s.starttls = "asked" -> Return(s, FALSE)
         [] s.starttls = "failure" -> Return(IsConnected(p), FALSE)
         [] s.starttls = "success" ->
               Return(IsConnected([p EXCEPT !.connected = "tls"]), TRUE)

\* _on_tcp_stream_start.  With "ssl", NonBlockingTLS is plugged already, and
\* has succeeded.
OnTcpStreamStart(s) ==
    LET offered == s.version = "1.0" /\ s.features.starttls
        p == Process(s)
        asked == IF p.starttls = "success" THEN p
                 ELSE Send([p EXCEPT !.starttls = "asked"], "starttls")
    IN IF s.type = "plain" \/ ~offered THEN IsConnected(s)
       ELSE OnReceive(asked, "starttls", OnReceiveStartTLS(asked))

\* on_stream_start()
OnStreamStart(s) ==
    CASE s.on_stream_start = "tcp" -> OnTcpStreamStart(s)
      [] s.on_stream_start = "auth" -> OnDocAttrs(s)
      [] s.on_stream_start = "none" -> s

-----------------------------------------------------------------------------
(* Answers.                                                                *)

\* _on_session, which reports twice; after a failure the second time raises
OnSession(s, ok) ==
    LET once == OnSaslAuth(Process(s), ok)
    IN IF Live(once) THEN OnSaslAuth(Process(once), ok) ELSE once

\* The callbacks of SendAndWaitForResponse
Respond(s, id, ok) ==
    CASE id = "username" -> IF ok THEN SendAndWait(s, "password")
                            ELSE OnAuth(s, FALSE)
      [] id = "password" -> OnAuth(s, ok)
      [] id = "bind" -> IF ok THEN SendAndWait(s, "session")
                        ELSE OnSaslAuth(s, FALSE)
      [] id = "session" -> OnSession(s, ok)
      [] id \in Asks -> s

\* Mutant: what the callback has asked for is not waited for
WaitForDataThenProcess(s) ==
    LET id == s.witid
    IN IF s.expected[id] = "waiting" THEN s
       ELSE [Process(Respond(s, id, s.expected[id] = "ok"))
                EXCEPT !.told = @ \cup {id}, !.expected[id] = "no"]

\* WaitForData, after the data has been dispatched: it looks at _witid only,
\* the request that was sent last
WaitForData(s) ==
    LET id == s.witid
    IN IF s.expected[id] = "waiting" THEN s
       ELSE [Respond(Process(s), id, s.expected[id] = "ok")
                EXCEPT !.told = @ \cup {id}, !.expected[id] = "no"]

\* SASLHandler, which calls _on_start_sasl back
SaslGoesOn(s) == OnStartSasl(s).cl

\* Dispatcher.dispatch, with the handlers that are registered
Dispatch(s, e) ==
    CASE e.tag = "header" -> [s EXCEPT !.version = e.version]
      [] e.tag = "features" ->
            [s EXCEPT !.features = e.offer,
                      !.bound = IF s.startsasl # "success" THEN @
                                ELSE IF e.offer.bind THEN "offered"
                                ELSE "failure"]
      [] e.tag = "proceed" ->
            Restart([s EXCEPT !.starttls = "success", !.secure = "tls"])
      [] e.tag = "tlsfailure" -> [s EXCEPT !.starttls = "failure"]
      [] e.tag = "challenge" ->
            SaslGoesOn(IF e.known
                       THEN Send([s EXCEPT !.challenges = @ + 1], "response")
                       ELSE [s EXCEPT !.startsasl = "failure"])
      [] e.tag = "saslfailure" ->
            SaslGoesOn([s EXCEPT !.startsasl = "failure"])
      [] e.tag = "success" ->
            SaslGoesOn(Restart([s EXCEPT !.startsasl = "success"]))
      [] e.tag = "answer" ->
            IF s.expected[e.id] = "no" THEN s
            ELSE [s EXCEPT !.expected[e.id] = IF e.ok THEN "ok" ELSE "error"]
      [] e.tag = "stanza" -> IF e.asks THEN AskNext(s) ELSE s

\* What on_receive(data) does after the data has been dispatched: it looks for
\* what it has been waiting for
Handle(s, handler) ==
    LET started == OnStreamStart(Process(s))
    IN CASE handler = "process" -> s
         [] handler = "attrs" -> OnReceiveDocumentAttrs(s, started).cl
         [] handler = "features" -> OnReceiveStreamFeatures(s, started).cl
         [] handler = "starttls" -> OnReceiveStartTLS(s).cl
         [] handler = "sasl" -> OnStartSasl(s).cl
         [] handler = "bind" -> OnAuthBind(s).cl
         [] handler = "wait" -> WaitForData(s)

-----------------------------------------------------------------------------
(* Actions of the client and its account.                                  *)

\* pollin, _do_receive: on_receive is called with what one read returns, which
\* may end in the middle of an element.  The rest of the read is one callback
\* of the loop, so that nothing else happens until it ends.
Read ==
    /\ Live(cl) /\ reading = None /\ wire # <<>>
    /\ reading' = cl.on_receive
    /\ UNCHANGED <<cl, wire, granted>>

\* An element ends in the data
DispatchNext ==
    /\ reading # None /\ Live(cl) /\ wire # <<>>
    /\ cl' = Dispatch(cl, Head(wire))
    /\ wire' = Tail(wire)
    /\ UNCHANGED <<reading, granted>>

\* All of the data has been dispatched
EndOfRead ==
    /\ reading # None
    /\ cl' = IF Live(cl) THEN Handle(cl, reading) ELSE cl
    /\ reading' = None
    /\ UNCHANGED <<wire, granted>>

\* The last thing in the data is the end tag of the stream.  ProcessNonBlocking
\* closes the socket with disconnect, which does not call on_connect_failure.
EndTag ==
    /\ reading # None /\ Live(cl) /\ wire = <<>>
    /\ cl' = [cl EXCEPT !.stage = "closed"]
    /\ reading' = None
    /\ UNCHANGED <<wire, granted>>

\* The user says whether a plain connection will do: connection_accepted, or
\* disconnect, which leaves the client open
Decide(accept) ==
    /\ reading = None /\ cl.stage = "asking"
    /\ cl' = IF accept THEN Authenticate(cl) ELSE [cl EXCEPT !.stage = "away"]
    /\ UNCHANGED <<reading, wire, granted>>

\* A ping, a privacy list, a registration form...
Ask ==
    /\ reading = None /\ cl.stage = "in" /\ cl.asked # Asks
    /\ cl' = AskNext(cl)
    /\ UNCHANGED <<reading, wire, granted>>

\* Mutant: _is_connected forgets to reset on_connect_failure
LoseReportedTwice ==
    /\ Live(cl) /\ reading = None
    /\ cl' = [cl EXCEPT !.stage = IF cl.stage = "in" THEN "closed" ELSE "failed"]
    /\ wire' = <<>>
    /\ UNCHANGED <<reading, granted>>

\* pollend: on_connect_failure is called until on_connect was, the disconnect
\* handlers afterwards
Lose ==
    /\ Live(cl) /\ reading = None
    /\ cl' = [cl EXCEPT !.stage = IF cl.stage = "opening" THEN "failed"
                                  ELSE "closed"]
    /\ wire' = <<>>
    /\ UNCHANGED <<reading, granted>>

-----------------------------------------------------------------------------
(* The server.                                                             *)

\* What it may offer: TLS in the first stream, mechanisms until one was used,
\* and to bind a resource afterwards
Offers ==
    {f \in Offer : /\ f.starttls => granted = {}
                   /\ f.bind => "sasl" \in granted
                   /\ f.mechanisms # "none" => "sasl" \notin granted}

Tag(tag) == <<[tag |-> tag]>>
Answer(id, ok) == <<[tag |-> "answer", id |-> id, ok |-> ok]>>

Serve(reply, grants) ==
    /\ wire' = wire \o reply
    /\ granted' = granted \cup grants

ServeOpen ==
    \/ \E f \in Offers :
          Serve(<<[tag |-> "header", version |-> "1.0"],
                  [tag |-> "features", offer |-> f]>>, {})
    \/ granted = {} /\ Serve(<<[tag |-> "header", version |-> "none"]>>, {})

ServeStartTLS ==
    Serve(Tag("proceed"), {"tls"}) \/ Serve(Tag("tlsfailure"), {})

ServeSasl ==
    \/ Serve(Tag("success"), {"sasl"})
    \/ Serve(Tag("saslfailure"), {})
    \/ /\ cl.challenges < MaxChallenges
       /\ \E known \in BOOLEAN :
             Serve(<<[tag |-> "challenge", known |-> known]>>, {})

ServeRequest(id) ==
    \/ Serve(Answer(id, FALSE), {})
    \/ /\ id = "bind" => cl.bound = "offered"
       /\ Serve(Answer(id, TRUE), {id})

\* The server answers what was sent, requests in any order
Server ==
    /\ Live(cl) /\ reading = None
    /\ UNCHANGED reading
    /\ \E x \in cl.sent :
          /\ cl' = [cl EXCEPT !.sent = @ \ {x}]
          /\ \/ x = "open" /\ ServeOpen
             \/ x = "starttls" /\ ServeStartTLS
             \/ x \in {"auth", "response"} /\ ServeSasl
             \/ x \in Id /\ ServeRequest(x)

\* Another stanza, whose handler may send a request
Stanza ==
    /\ cl.stage = "in" /\ reading = None /\ Len(wire) < MaxWire
    /\ \E asks \in BOOLEAN : Serve(<<[tag |-> "stanza", asks |-> asks]>>, {})
    /\ UNCHANGED <<cl, reading>>

-----------------------------------------------------------------------------
Account == (\E accept \in BOOLEAN : Decide(accept)) \/ Ask

Next ==
    \/ Read \/ DispatchNext \/ EndOfRead \/ EndTag
    \/ Account \/ Lose \/ Server \/ Stanza

Spec == Init /\ [][Next]_vars

\* The loop reads what has arrived, callbacks return, elements are finite, and
\* the server answers
FairSpec ==
    /\ Spec
    /\ WF_vars(Read) /\ SF_vars(DispatchNext) /\ WF_vars(EndOfRead)
    /\ SF_vars(Server)

-----------------------------------------------------------------------------
(* Properties.                                                             *)

\* An account that is logged in was let in by the server, by all the steps of
\* one of the two ways, whatever was read together; and an account sends
\* nothing of its password unless the connection is of the type it tries: the
\* checks of _connect_success hold for the stream that is authenticated.
LoginIsGranted ==
    /\ cl.stage = "in" =>
          \/ {"sasl", "bind", "session"} \subseteq granted
          \/ {"username", "password"} \subseteq granted
    /\ cl.stage \in {"auth", "in"} =>
          cl.secure = cl.type /\ (cl.type = "tls" => "tls" \in granted)

\* An answer to the request that was sent last is passed on as soon as it is
\* read: SendAndCallForResponse promises to "call back when recipient replies".
\* (To any request but the last one it is not, see the README.)
LastAnswerDelivered ==
    reading = None /\ Live(cl) /\ cl.witid # None => cl.expected[cl.witid] \notin {"ok", "error"}

\* If the server answers, a login comes to an end or to a question: however
\* the stream is cut into reads, no handler waits for what was parsed before
\* it was installed, and none is replaced by one that waits for less.
LoginEnds ==
    cl.stage \in {"opening", "auth"} ~> cl.stage \notin {"opening", "auth"}

\* The client keeps to what Connection takes for granted of it.
LoginPhases ==
    INSTANCE Login WITH
        phase <- IF cl.stage \in {"asking", "away"} THEN "ready" ELSE cl.stage
ImplementsLogin == LoginPhases!Spec

=============================================================================
