--------------------------- MODULE HttpServer_proof ---------------------------
(***************************************************************************)
(* Proofs about HttpServer, for any set of clients, any scripts and any    *)
(* protected sources.                                                      *)
(***************************************************************************)
EXTENDS HttpServer, SequenceTheorems, TLAPS

-----------------------------------------------------------------------------
(* What one more signal does to the log of a connection. *)

(* The first signal of an upgraded connection. *)
LEMMA ToldOpen ==
    ASSUME NEW log \in Seq(AppSignal), ToldOnce(log, FALSE, FALSE)
    PROVE  /\ Append(log, "open") \in Seq(AppSignal)
           /\ ToldOnce(Append(log, "open"), TRUE, FALSE)
<1>1. Len(log) = 0 /\ log = <<>>
  BY DEF ToldOnce, Range
<1>2. Append(log, "open") = <<"open">>
  BY <1>1
<1> QED BY <1>2 DEF ToldOnce, Range, AppSignal

(* The last signal of an upgraded connection. *)
LEMMA ToldClosed ==
    ASSUME NEW log \in Seq(AppSignal), ToldOnce(log, TRUE, FALSE)
    PROVE  /\ Append(log, "closed") \in Seq(AppSignal)
           /\ ToldOnce(Append(log, "closed"), TRUE, TRUE)
<1> DEFINE new == Append(log, "closed")
<1>1. /\ new \in Seq(AppSignal)
      /\ Len(new) = Len(log) + 1
      /\ \A i \in 1..Len(log) : new[i] = log[i]
      /\ new[Len(log) + 1] = "closed"
  BY AppendProperties DEF AppSignal
<1>2. Len(log) \in Nat /\ Len(log) # 0
  BY DEF ToldOnce, Range
<1>3. \A i \in DOMAIN log : log[i] # "closed"
  BY DEF ToldOnce, Range
<1> QED BY <1>1, <1>2, <1>3 DEF ToldOnce, Range

(* A message may be signalled at any time after the upgrade. *)
LEMMA ToldMessage ==
    ASSUME NEW log \in Seq(AppSignal), NEW gone \in BOOLEAN, ToldOnce(log, TRUE, gone)
    PROVE  /\ Append(log, "message") \in Seq(AppSignal)
           /\ ToldOnce(Append(log, "message"), TRUE, gone)
<1> DEFINE new == Append(log, "message")
<1>1. /\ new \in Seq(AppSignal)
      /\ Len(new) = Len(log) + 1
      /\ \A i \in 1..Len(log) : new[i] = log[i]
      /\ new[Len(log) + 1] = "message"
  BY AppendProperties DEF AppSignal
<1>2. Len(log) \in Nat /\ Len(log) # 0
  BY DEF ToldOnce, Range
<1> QED BY <1>1, <1>2 DEF ToldOnce, Range

(* A connection that was never upgraded ends without a signal. *)
LEMMA ToldNothing ==
    ASSUME NEW log \in Seq(AppSignal), ToldOnce(log, FALSE, FALSE)
    PROVE  ToldOnce(log, FALSE, TRUE)
BY DEF ToldOnce

-----------------------------------------------------------------------------
(* What a handler that parses HTTP may do to a connection that is not      *)
(* upgraded: it stays as it is, or it becomes a WebSocket and the          *)
(* application is told.                                                    *)
PlainConn == {k \in Conn : k.parse # 10 /\ k.websocket = FALSE}

HttpStep(c) ==
    /\ UNCHANGED <<http_garbage_timer, sock>>
    /\ unsent' \in [Client -> BOOLEAN]
    /\ \E rest \in Seq(Token) : inbuf' = [inbuf EXCEPT ![c] = rest]
    /\ \E k \in Conn :
        /\ conn' = [conn EXCEPT ![c] = k]
        /\ \/ k \in PlainConn /\ app_log' = app_log
           \/ /\ k.parse = 10 /\ k.websocket = TRUE
              /\ app_log' = [app_log EXCEPT ![c] = Append(@, "open")]

(* Moving on in the request leaves the connection plain HTTP. *)
LEMMA ParseSet ==
    ASSUME NEW k \in PlainConn, NEW n \in {1, 2}
    PROVE  [k EXCEPT !.parse = n] \in PlainConn
BY DEF PlainConn, Conn

(* Reading without an answer is a step of the HTTP parser. *)
LEMMA PauseStep ==
    ASSUME TypeOK, NEW c \in Client, NEW k \in PlainConn, NEW rest \in Seq(Token),
           Pause(c, k, rest)
    PROVE  HttpStep(c)
BY DEF TypeOK, Pause, Settle, HttpStep, PlainConn

(* So is a response, sendError() included. *)
LEMMA ResponseStep ==
    ASSUME TypeOK, NEW c \in Client, NEW k \in PlainConn, NEW rest \in Seq(Token),
           sendResponse(c, k, rest)
    PROVE  HttpStep(c)
BY DEF TypeOK, sendResponse, Settle, HttpStep, PlainConn

(* StartWebsocket() answers with an error or upgrades. *)
LEMMA WebsocketStep ==
    ASSUME TypeOK, NEW c \in Client, NEW k \in PlainConn, NEW rest \in Seq(Token),
           StartWebsocket(c, k, rest)
    PROVE  HttpStep(c)
<1>1. CASE sendResponse(c, k, rest)
  BY <1>1, ResponseStep
<1>2. CASE ~sendResponse(c, k, rest)
  <2> DEFINE up == [k EXCEPT !.parse = 10, !.websocket = TRUE]
  <2>1. up \in Conn /\ up.parse = 10 /\ up.websocket = TRUE
    BY DEF PlainConn, Conn
  <2>2. /\ Settle(c, up, rest)
        /\ unsent' = [unsent EXCEPT ![c] = TRUE]
        /\ app_log' = [app_log EXCEPT ![c] = Append(@, "open")]
    BY <1>2 DEF StartWebsocket
  <2> QED BY <2>1, <2>2 DEF Settle, HttpStep, TypeOK
<1> QED BY <1>1, <1>2

(* SendCgiSource() answers or starts a script. *)
LEMMA CgiStep ==
    ASSUME TypeOK, NEW c \in Client, NEW k \in PlainConn, NEW rest \in Seq(Token),
           SendCgiSource(c, k, rest)
    PROVE  HttpStep(c)
<1>1. [k EXCEPT !.cgi = @ + 1] \in PlainConn
  BY DEF PlainConn, Conn
<1> QED BY <1>1, PauseStep, ResponseStep DEF SendCgiSource

(* Whatever ProcessRequest() dispatches to is such a step. *)
LEMMA RequestStep ==
    ASSUME TypeOK, NEW c \in Client, NEW k \in PlainConn, NEW rest \in Seq(Token),
           ProcessRequest(c, k, rest)
    PROVE  HttpStep(c)
BY WebsocketStep, CgiStep, ResponseStep DEF ProcessRequest, SendStaticSource, requestReceived

(* What a handler leaves unread is a token sequence. *)
LEMMA RestIsTokens ==
    ASSUME NEW buf \in Seq(Token), NEW n \in Nat
    PROVE  SubSeq(buf, n + 1, Len(buf)) \in Seq(Token)
<1>1. \A i \in (n + 1)..Len(buf) : buf[i] \in Token
  BY ElementOfSeq
<1> QED BY <1>1, SubSeqProperties, LenProperties

(* ReadBody() waits for more or has the request processed. *)
LEMMA BodyStep ==
    ASSUME TypeOK, NEW c \in Client, NEW k \in PlainConn, NEW buf \in Seq(Token),
           ReadBody(c, k, buf)
    PROVE  HttpStep(c)
<1> DEFINE want == k.len - k.body
           n    == IF want < 0 THEN 0 ELSE IF want < Len(buf) THEN want ELSE Len(buf)
           k2   == [k EXCEPT !.body = @ + n]
           rest == SubSeq(buf, n + 1, Len(buf))
<1>1. n \in Nat
  BY LenProperties DEF PlainConn, Conn
<1>2. k2 \in PlainConn
  BY <1>1 DEF PlainConn, Conn
<1>3. rest \in Seq(Token)
  BY <1>1, RestIsTokens
<1>4. ProcessRequest(c, k2, rest) \/ Pause(c, k2, rest)
  BY DEF ReadBody
<1> QED BY <1>2, <1>3, <1>4, RequestStep, PauseStep

(* The header lines leave the record of a plain connection one. *)
LEMMA HeadersTyped ==
    ASSUME NEW k \in PlainConn, NEW lines \in Seq(Token)
    PROVE  WithHeaders(k, lines) \in PlainConn
<1> DEFINE lens == {lines[i].len : i \in LastOf(lines, "content-length")}
           len  == IF lens = {} THEN k.len ELSE CHOOSE n \in lens : TRUE
<1>1. \A i \in LastOf(lines, "content-length") : lines[i].len \in Int
  <2> SUFFICES ASSUME NEW i \in LastOf(lines, "content-length")
               PROVE  lines[i].len \in Int
    OBVIOUS
  <2>1. lines[i] \in Token /\ lines[i].t = "header"
    BY ElementOfSeq, LenProperties DEF LastOf, Sets, IsHeader
  <2> QED BY <2>1 DEF Token, RequestLine, Header, Plain, Frame
<1>2. len \in Int
  BY <1>1 DEF PlainConn, Conn
<1> QED BY <1>2 DEF WithHeaders, PlainConn, Conn

(* Every way out of the loop of ReadHeaders(). *)
LEMMA HeadersStep ==
    ASSUME TypeOK, NEW c \in Client, NEW k \in PlainConn, NEW buf \in Seq(Token),
           ReadHeaders(c, k, buf)
    PROVE  HttpStep(c)
<1>1. PICK n \in 0..Len(buf) :
        LET k2   == WithHeaders(k, SubSeq(buf, 1, n))
            rest == SubSeq(buf, n + 1, Len(buf))
        IN \/ Pause(c, k2, rest)
           \/ sendResponse(c, k2, rest)
           \/ ProcessRequest(c, k2, rest)
           \/ ReadBody(c, [k2 EXCEPT !.parse = 2], rest)
  BY DEF ReadHeaders
<1> DEFINE k2   == WithHeaders(k, SubSeq(buf, 1, n))
           rest == SubSeq(buf, n + 1, Len(buf))
<1>2. SubSeq(buf, 1, n) \in Seq(Token)
  <2>1. \A i \in 1..n : buf[i] \in Token
    BY ElementOfSeq, LenProperties
  <2> QED BY <2>1, SubSeqProperties
<1>3. k2 \in PlainConn
  BY <1>2, HeadersTyped
<1>4. [k2 EXCEPT !.parse = 2] \in PlainConn
  BY <1>3, ParseSet
<1>5. rest \in Seq(Token)
  BY RestIsTokens, LenProperties
<1> QED BY <1>1, <1>3, <1>4, <1>5, PauseStep, ResponseStep, RequestStep, BodyStep

(* Every way out of ReadMethodLine(). *)
LEMMA MethodLineStep ==
    ASSUME TypeOK, NEW c \in Client, NEW k \in PlainConn,
           NEW buf \in Seq(Token), buf # <<>>, ReadMethodLine(c, k, buf)
    PROVE  HttpStep(c)
<1> DEFINE line   == Head(buf)
           method == IF line.t = "request" /\ line.method \in Methods THEN line.method
                     ELSE k.method
           k2     == [k EXCEPT !.method = method, !.source = line.source,
                               !.minor = line.minor]
<1>1. line \in Token /\ Tail(buf) \in Seq(Token)
  BY HeadTailProperties
<1>2. CASE sendResponse(c, k, Tail(buf))
  BY <1>1, <1>2, ResponseStep
<1>3. CASE line.t = "request" /\ ~sendResponse(c, k, Tail(buf))
  <2>1. line \in RequestLine
    BY <1>1, <1>3 DEF Token, RequestLine, Header, Plain, Frame
  <2>2. k2 \in PlainConn
    BY <2>1 DEF PlainConn, Conn, RequestLine
  <2>3. [k2 EXCEPT !.parse = 1] \in PlainConn
    BY <2>2, ParseSet
  <2>4. \/ sendResponse(c, k2, Tail(buf))
        \/ ReadHeaders(c, [k2 EXCEPT !.parse = 1], Tail(buf))
    BY <1>3 DEF ReadMethodLine
  <2> QED BY <1>1, <2>2, <2>3, <2>4, ResponseStep, HeadersStep
<1>4. line.t = "request" \/ sendResponse(c, k, Tail(buf))
  BY DEF ReadMethodLine
<1> QED BY <1>2, <1>3, <1>4

-----------------------------------------------------------------------------
(* A step that concerns one existing connection and leaves the table alone *)
(* preserves the invariant if what the invariant says of that connection   *)
(* holds after it.                                                         *)
LEMMA OneConnection ==
    ASSUME IInv, TypeOK', NEW c \in Client, Live(c),
           UNCHANGED <<http_connections, conn_id>>,
           \A d \in Client \ {c} :
               conn'[d] = conn[d] /\ sock'[d] = sock[d] /\ app_log'[d] = app_log[d],
           sock'[c] \in {"connected", "closing", "unconnected"},
           http_garbage_timer => http_garbage_timer',
           sock'[c] = "unconnected" => http_garbage_timer',
           conn'[c].parse = 10 <=> conn'[c].websocket = TRUE,
           ToldOnce(app_log'[c], conn'[c].websocket,
                    sock'[c] \in {"unconnected", "deleted"})
    PROVE  IInv'
<1>1. \A d \in Client : Live(d)' <=> Live(d)
  BY DEF Live
<1>2. TableSound'
  <2>1. \A i \in DOMAIN http_connections : http_connections[i] \in Client \cup {NoClient}
    BY ElementOfSeq, LenProperties DEF IInv, TypeOK
  <2> QED BY <1>1, <2>1 DEF IInv, TableSound
<1>3. GarbageArmed'
  BY DEF IInv, GarbageArmed
<1>4. ApplicationToldOnce'
  BY DEF IInv, ApplicationToldOnce
<1>5. ParserMode'
  BY DEF IInv, ParserMode
<1> QED BY <1>2, <1>3, <1>4, <1>5 DEF IInv

(* The signal disconnected() keeps the invariant. *)
LEMMA DisconnectedStep ==
    ASSUME IInv, NEW c \in Client, sock[c] \in {"connected", "closing"},
           disconnectedData(c),
           conn'[c].websocket = conn[c].websocket, conn'[c].parse = conn[c].parse,
           conn' \in [Client -> Conn],
           \A d \in Client \ {c} : conn'[d] = conn[d],
           SocketOnly
    PROVE  IInv'
<1> USE DEF IInv, SocketOnly
<1>1. app_log[c] \in Seq(AppSignal) /\ conn[c].websocket \in BOOLEAN
  BY DEF TypeOK, Conn
<1>2. ToldOnce(app_log[c], conn[c].websocket, FALSE)
  <2>1. sock[c] \notin {"unconnected", "deleted"}
    OBVIOUS
  <2>2. ToldOnce(app_log[c], conn[c].websocket, sock[c] \in {"unconnected", "deleted"})
    BY DEF ApplicationToldOnce
  <2> QED BY <2>1, <2>2 DEF ToldOnce
<1>3. /\ app_log'[c] \in Seq(AppSignal)
      /\ ToldOnce(app_log'[c], conn'[c].websocket, TRUE)
  <2>1. CASE conn[c].websocket = TRUE
    BY <2>1, <1>1, <1>2, ToldClosed DEF disconnectedData, TypeOK
  <2>2. CASE conn[c].websocket = FALSE
    BY <2>2, <1>1, <1>2, ToldNothing DEF disconnectedData, TypeOK
  <2> QED BY <1>1, <2>1, <2>2
<1>4. /\ sock'[c] = "unconnected"
      /\ http_garbage_timer' = TRUE
      /\ \A d \in Client \ {c} : sock'[d] = sock[d] /\ app_log'[d] = app_log[d]
  BY DEF disconnectedData, TypeOK
<1>5. TypeOK'
  BY <1>3 DEF disconnectedData, TypeOK
<1>6. Live(c)
  BY DEF Live
<1>7. conn'[c].parse = 10 <=> conn'[c].websocket = TRUE
  BY DEF ParserMode
<1> QED BY <1>3, <1>4, <1>5, <1>6, <1>7, OneConnection

(* Nothing but the socket's state, which stays clear of "unconnected", and *)
(* the write buffer change.                                                *)
LEMMA BufferStep ==
    ASSUME IInv, NEW c \in Client, sock[c] \in {"connected", "closing"},
           sock' \in {sock, [sock EXCEPT ![c] = "closing"]},
           unsent' \in [Client -> BOOLEAN],
           conn'[c].websocket = conn[c].websocket, conn'[c].parse = conn[c].parse,
           conn' \in [Client -> Conn],
           \A d \in Client \ {c} : conn'[d] = conn[d],
           UNCHANGED <<app_log, http_garbage_timer>>,
           SocketOnly
    PROVE  IInv'
<1> USE DEF IInv, SocketOnly
<1>1. TypeOK'
  BY DEF TypeOK
<1>2. /\ sock'[c] \in {"connected", "closing"}
      /\ \A d \in Client \ {c} : sock'[d] = sock[d]
  BY DEF TypeOK
<1>3. ToldOnce(app_log'[c], conn'[c].websocket, sock'[c] \in {"unconnected", "deleted"})
  BY <1>2 DEF ApplicationToldOnce
<1>4. Live(c)
  BY DEF Live
<1>5. conn'[c].parse = 10 <=> conn'[c].websocket = TRUE
  BY DEF ParserMode
<1> QED BY <1>1, <1>2, <1>3, <1>4, <1>5, OneConnection

(* Closing a socket keeps it, with or without a wait. *)
LEMMA DisconnectFromHostStep ==
    ASSUME IInv, NEW c \in Client, sock[c] \in {"connected", "closing"},
           NEW pending \in BOOLEAN, disconnectFromHost(c, pending),
           conn'[c].websocket = conn[c].websocket, conn'[c].parse = conn[c].parse,
           conn' \in [Client -> Conn],
           \A d \in Client \ {c} : conn'[d] = conn[d],
           SocketOnly
    PROVE  IInv'
<1>1. CASE disconnectedData(c)
  BY <1>1, DisconnectedStep
<1>2. CASE ~disconnectedData(c)
  <2>1. /\ sock' = [sock EXCEPT ![c] = "closing"]
        /\ unsent' = [unsent EXCEPT ![c] = TRUE]
        /\ UNCHANGED <<app_log, http_garbage_timer>>
    BY <1>2 DEF disconnectFromHost
  <2>2. unsent' \in [Client -> BOOLEAN]
    BY <2>1 DEF IInv, TypeOK
  <2> QED BY <2>1, <2>2, BufferStep
<1> QED BY <1>1, <1>2

-----------------------------------------------------------------------------
(* One lemma for each action. *)

(* The table stays sound when a connection takes a slot. *)
LEMMA NewConnectionStep ==
    ASSUME IInv, NEW c \in Client, newConnectionData(c)
    PROVE  IInv'
<1> USE DEF IInv
<1>1. PICK id \in 1..(Len(http_connections) + 1) :
        /\ \/ /\ id = Len(http_connections) + 1
              /\ http_connections' = Append(http_connections, c)
           \/ /\ id \in 1..Len(http_connections)
              /\ http_connections[id] = NoClient
              /\ http_connections' = [http_connections EXCEPT ![id] = c]
        /\ conn_id' = [conn_id EXCEPT ![c] = id]
  <2>1. Len(http_connections) \in Nat
    BY LenProperties DEF TypeOK
  <2>2. PICK n \in 1..(Len(http_connections) + 1) :
          /\ \/ n > Len(http_connections) /\ http_connections' = Append(http_connections, c)
             \/ /\ n <= Len(http_connections)
                /\ http_connections[n] = NoClient
                /\ http_connections' = [http_connections EXCEPT ![n] = c]
          /\ conn_id' = [conn_id EXCEPT ![c] = n]
    BY DEF newConnectionData
  <2>3. \/ /\ n = Len(http_connections) + 1
           /\ http_connections' = Append(http_connections, c)
        \/ /\ n \in 1..Len(http_connections)
           /\ http_connections[n] = NoClient
           /\ http_connections' = [http_connections EXCEPT ![n] = c]
    BY <2>1, <2>2
  <2> QED BY <2>2, <2>3, Zenon
<1>2. /\ sock[c] = "none"
      /\ sock' = [sock EXCEPT ![c] = "connected"]
      /\ UNCHANGED <<http_garbage_timer, conn, inbuf, unsent, script, app_log>>
  BY DEF newConnectionData
<1>3. /\ http_connections' \in Seq(Client \cup {NoClient})
      /\ Len(http_connections') \in Nat
      /\ DOMAIN http_connections' = 1..Len(http_connections')
      /\ DOMAIN http_connections \subseteq DOMAIN http_connections'
      /\ \A i \in DOMAIN http_connections' :
            http_connections'[i] = IF i = id THEN c ELSE http_connections[i]
      /\ \A i \in DOMAIN http_connections' : i # id => i \in DOMAIN http_connections
      /\ id \in DOMAIN http_connections'
  <2> DEFINE S   == Client \cup {NoClient}
             len == Len(http_connections)
  <2>1. /\ http_connections \in Seq(S) /\ len \in Nat
        /\ DOMAIN http_connections = 1..len
    BY LenProperties DEF TypeOK
  <2>2. CASE id = len + 1 /\ http_connections' = Append(http_connections, c)
    <3>1. /\ http_connections' \in Seq(S)
          /\ Len(http_connections') = len + 1
          /\ \A i \in 1..len : http_connections'[i] = http_connections[i]
          /\ http_connections'[len + 1] = c
      BY <2>1, <2>2, AppendProperties
    <3>2. DOMAIN http_connections' = 1..(len + 1)
      BY <3>1, LenProperties
    <3> QED BY <2>1, <2>2, <3>1, <3>2
  <2>3. CASE id \in 1..len /\ http_connections' = [http_connections EXCEPT ![id] = c]
    <3>1. /\ http_connections' \in Seq(S)
          /\ Len(http_connections') = len
          /\ \A i \in 1..len :
                http_connections'[i] = IF i = id THEN c ELSE http_connections[i]
      BY <2>1, <2>3, ExceptSeq
    <3>2. DOMAIN http_connections' = 1..len
      BY <2>1, <3>1, LenProperties
    <3> QED BY <2>1, <2>3, <3>1, <3>2
  <2> QED BY <1>1, <2>2, <2>3
<1>4. TypeOK'
  <2>1. conn_id' \in [Client -> Nat]
    BY <1>1, LenProperties DEF TypeOK
  <2>2. sock' \in [Client -> {"none", "connected", "closing", "unconnected", "deleted"}]
    BY <1>2 DEF TypeOK
  <2> QED BY <1>2, <1>3, <2>1, <2>2 DEF TypeOK
<1>5. /\ \A d \in Client \ {c} : sock'[d] = sock[d] /\ conn_id'[d] = conn_id[d]
      /\ sock'[c] = "connected" /\ conn_id'[c] = id
  BY <1>1, <1>2 DEF TypeOK
<1>6. /\ ~Live(c) /\ Live(c)'
      /\ \A d \in Client \ {c} : Live(d)' <=> Live(d)
  BY <1>2, <1>5 DEF Live
<1>7. TableSound'
  <2>1. ASSUME NEW i \in DOMAIN http_connections', http_connections'[i] # NoClient
        PROVE  /\ sock'[http_connections'[i]] \in {"connected", "closing", "unconnected"}
               /\ conn_id'[http_connections'[i]] = i
    <3>1. CASE i = id
      BY <1>3, <1>5, <1>6, <3>1
    <3>2. CASE i # id
      <4>1. /\ i \in DOMAIN http_connections
            /\ http_connections'[i] = http_connections[i]
            /\ http_connections[i] \in Client
        BY <1>3, <2>1, <3>2, ElementOfSeq, LenProperties DEF TypeOK
      <4>2. Live(http_connections[i]) /\ conn_id[http_connections[i]] = i
        BY <2>1, <4>1 DEF TableSound
      <4> QED BY <1>5, <1>6, <4>1, <4>2 DEF Live
    <3> QED BY <3>1, <3>2
  <2>2. ASSUME NEW d \in Client, Live(d)'
        PROVE  /\ conn_id'[d] \in DOMAIN http_connections'
               /\ http_connections'[conn_id'[d]] = d
    <3>1. CASE d = c
      BY <1>3, <1>5, <3>1
    <3>2. CASE d # c
      <4>1. /\ conn_id'[d] = conn_id[d]
            /\ conn_id[d] \in DOMAIN http_connections
            /\ http_connections[conn_id[d]] = d
        BY <1>5, <1>6, <2>2, <3>2 DEF TableSound
      <4>2. conn_id[d] # id
        BY <1>1, <4>1, LenProperties, NoClientAssumption DEF TypeOK
      <4> QED BY <1>3, <4>1, <4>2
    <3> QED BY <3>1, <3>2
  <2> QED BY <2>1, <2>2 DEF TableSound, Live
<1>8. GarbageArmed'
  BY <1>2, <1>5 DEF GarbageArmed
<1>9. ApplicationToldOnce'
  BY <1>2, <1>5 DEF ApplicationToldOnce
<1>10. ParserMode'
  BY <1>2, <1>5 DEF ParserMode
<1> QED BY <1>4, <1>7, <1>8, <1>9, <1>10

(* The table and the logs agree after a garbage pass. *)
LEMMA GarbageStep ==
    ASSUME IInv, garbageData
    PROVE  IInv'
<1> USE DEF IInv
<1>1. /\ http_connections' \in Seq(Client \cup {NoClient})
      /\ DOMAIN http_connections' = DOMAIN http_connections
      /\ \A i \in DOMAIN http_connections :
           /\ http_connections[i] \in Client \cup {NoClient}
           /\ http_connections'[i] =
                 IF http_connections[i] # NoClient /\ Stale(http_connections[i])
                 THEN NoClient ELSE http_connections[i]
  <2>1. /\ DOMAIN http_connections = 1..Len(http_connections)
        /\ Len(http_connections) \in Nat
        /\ \A i \in DOMAIN http_connections : http_connections[i] \in Client \cup {NoClient}
    BY LenProperties, ElementOfSeq DEF TypeOK
  <2>2. http_connections' \in [1..Len(http_connections) -> Client \cup {NoClient}]
    BY <2>1 DEF garbageData
  <2>3. http_connections' \in Seq(Client \cup {NoClient})
    BY <2>1, <2>2, SeqDef
  <2> QED BY <2>1, <2>3 DEF garbageData
<1>2. \A d \in Client :
        /\ Stale(d) <=> sock[d] \in {"closing", "unconnected"}
        /\ sock'[d] = IF Stale(d) THEN "deleted" ELSE sock[d]
        /\ conn'[d] = IF Stale(d) THEN [conn[d] EXCEPT !.cgi = 0] ELSE conn[d]
        /\ app_log'[d] = IF sock[d] = "closing" /\ conn[d].websocket
                         THEN Append(app_log[d], "closed") ELSE app_log[d]
        /\ conn_id'[d] = conn_id[d]
  BY DEF garbageData, Stale, Live
<1>3. \A d \in Client :
        /\ conn'[d] \in Conn
        /\ conn'[d].websocket = conn[d].websocket
        /\ conn'[d].parse = conn[d].parse
  <2> SUFFICES ASSUME NEW d \in Client
               PROVE  /\ conn'[d] \in Conn
                      /\ conn'[d].websocket = conn[d].websocket
                      /\ conn'[d].parse = conn[d].parse
    OBVIOUS
  <2>1. conn[d] \in Conn
    BY DEF TypeOK
  <2>2. conn'[d] \in {conn[d], [conn[d] EXCEPT !.cgi = 0]}
    BY <1>2
  <2> QED BY <2>1, <2>2 DEF Conn
<1>4. ASSUME NEW d \in Client
      PROVE  /\ app_log'[d] \in Seq(AppSignal)
             /\ ToldOnce(app_log'[d], conn'[d].websocket,
                         sock'[d] \in {"unconnected", "deleted"})
  <2>1. /\ app_log[d] \in Seq(AppSignal) /\ conn[d].websocket \in BOOLEAN
        /\ ToldOnce(app_log[d], conn[d].websocket, sock[d] \in {"unconnected", "deleted"})
    BY DEF TypeOK, Conn, ApplicationToldOnce
  <2>2. CASE sock[d] = "closing"
    <3>1. sock'[d] = "deleted"
      BY <1>2, <2>2
    <3>2. ToldOnce(app_log[d], conn[d].websocket, FALSE)
      BY <2>1, <2>2 DEF ToldOnce
    <3>3. CASE conn[d].websocket = TRUE
      <4>1. /\ app_log'[d] \in Seq(AppSignal)
            /\ ToldOnce(app_log'[d], conn'[d].websocket, TRUE)
        BY <1>2, <1>3, <2>1, <2>2, <3>2, <3>3, ToldClosed
      <4> QED BY <3>1, <4>1 DEF ToldOnce
    <3>4. CASE conn[d].websocket = FALSE
      <4>1. /\ app_log'[d] \in Seq(AppSignal)
            /\ ToldOnce(app_log'[d], conn'[d].websocket, TRUE)
        BY <1>2, <1>3, <2>1, <2>2, <3>2, <3>4, ToldNothing
      <4> QED BY <3>1, <4>1 DEF ToldOnce
    <3> QED BY <2>1, <3>3, <3>4
  <2>3. CASE sock[d] # "closing"
    <3>1. /\ app_log'[d] = app_log[d]
          /\ sock'[d] \in {"unconnected", "deleted"} <=> sock[d] \in {"unconnected", "deleted"}
      BY <1>2, <2>3
    <3> QED BY <1>3, <2>1, <3>1 DEF ToldOnce
  <2> QED BY <2>2, <2>3
<1>5. TypeOK'
  BY <1>1, <1>3, <1>4 DEF garbageData, TypeOK
<1>6. \A d \in Client : Live(d)' <=> Live(d) /\ ~Stale(d)
  BY <1>2 DEF Live
<1>7. TableSound'
  <2>1. ASSUME NEW i \in DOMAIN http_connections', http_connections'[i] # NoClient
        PROVE  /\ sock'[http_connections'[i]] \in {"connected", "closing", "unconnected"}
               /\ conn_id'[http_connections'[i]] = i
    <3>1. /\ i \in DOMAIN http_connections
          /\ http_connections'[i] = http_connections[i]
          /\ http_connections[i] \in Client /\ ~Stale(http_connections[i])
      BY <1>1, <2>1
    <3>2. Live(http_connections[i]) /\ conn_id[http_connections[i]] = i
      BY <3>1, NoClientAssumption DEF TableSound
    <3> QED BY <1>2, <3>1, <3>2 DEF Live
  <2>2. ASSUME NEW d \in Client, Live(d)'
        PROVE  /\ conn_id'[d] \in DOMAIN http_connections'
               /\ http_connections'[conn_id'[d]] = d
    <3>1. Live(d) /\ ~Stale(d)
      BY <1>6, <2>2
    <3>2. conn_id[d] \in DOMAIN http_connections /\ http_connections[conn_id[d]] = d
      BY <3>1 DEF TableSound
    <3>3. conn_id'[d] = conn_id[d] /\ http_connections'[conn_id[d]] = d
      BY <1>1, <1>2, <3>1, <3>2
    <3> QED BY <1>1, <3>2, <3>3
  <2> QED BY <2>1, <2>2 DEF TableSound, Live
<1>8. GarbageArmed'
  BY <1>2 DEF GarbageArmed
<1>9. ApplicationToldOnce'
  BY <1>4 DEF ApplicationToldOnce
<1>10. ParserMode'
  <2>1. \A d \in Client : sock'[d] = "none" => sock[d] = "none"
    BY <1>2
  <2> QED BY <1>3, <2>1 DEF ParserMode
<1> QED BY <1>5, <1>7, <1>8, <1>9, <1>10

(* ReadWebsocket(), for whatever it takes for a frame. *)
LEMMA FrameStep ==
    ASSUME IInv, NEW c \in Client, sock[c] = "connected", conn[c].parse = 10,
           NEW buf \in Seq(Token), ReadWebsocket(c, buf),
           script' \in [Client -> Seq(Token)],
           UNCHANGED <<http_connections, conn_id>>
    PROVE  IInv'
<1> USE DEF IInv
<1> DEFINE log == app_log[c]
           Said(l) == l \in Seq(AppSignal) /\ ToldOnce(l, TRUE, FALSE)
           Over(l) == l \in Seq(AppSignal) /\ ToldOnce(l, TRUE, TRUE)
<1>1. conn[c].websocket = TRUE
  BY DEF ParserMode
<1>2. Said(log)
  <2>1. sock[c] \notin {"unconnected", "deleted"}
    OBVIOUS
  <2>2. ToldOnce(log, conn[c].websocket, sock[c] \in {"unconnected", "deleted"})
    BY DEF ApplicationToldOnce
  <2> QED BY <1>1, <2>1, <2>2 DEF TypeOK, ToldOnce
<1>3. Said(Append(log, "message"))
  BY <1>2, ToldMessage
<1>4. Over(Append(log, "closed"))
  BY <1>2, ToldClosed
<1>5. Over(Append(Append(log, "closed"), "message"))
  BY <1>4, ToldMessage
<1>6. /\ inbuf' = [inbuf EXCEPT ![c] = <<>>]
      /\ UNCHANGED conn
      /\ \/ /\ sock' \in {sock, [sock EXCEPT ![c] = "closing"]}
            /\ app_log' \in {app_log, [app_log EXCEPT ![c] = Append(@, "message")]}
            /\ UNCHANGED http_garbage_timer
         \/ /\ sock' = [sock EXCEPT ![c] = "unconnected"]
            /\ app_log' \in {[app_log EXCEPT ![c] = Append(@, "closed")],
                            [app_log EXCEPT ![c] = Append(Append(@, "closed"), "message")]}
            /\ http_garbage_timer' = TRUE
      /\ unsent' \in [Client -> BOOLEAN]
  BY ZenonT(40) DEF ReadWebsocket, TypeOK, Frame
<1>7. /\ \A d \in Client \ {c} : sock'[d] = sock[d] /\ app_log'[d] = app_log[d]
      /\ \/ sock'[c] \in {"connected", "closing"} /\ Said(app_log'[c])
         \/ sock'[c] = "unconnected" /\ http_garbage_timer' /\ Over(app_log'[c])
  BY <1>2, <1>3, <1>4, <1>5, <1>6 DEF TypeOK
<1>8. TypeOK'
  <2>1. app_log' \in [Client -> Seq(AppSignal)]
    BY <1>6, <1>7 DEF TypeOK
  <2>2. inbuf' \in [Client -> Seq(Token)]
    BY <1>6, EmptySeq DEF TypeOK
  <2>3. sock' \in [Client -> {"none", "connected", "closing", "unconnected", "deleted"}]
    BY <1>6 DEF TypeOK
  <2>4. http_garbage_timer' \in BOOLEAN
    BY <1>6 DEF TypeOK
  <2> QED BY <1>6, <2>1, <2>2, <2>3, <2>4 DEF TypeOK
<1>9. ToldOnce(app_log'[c], conn'[c].websocket, sock'[c] \in {"unconnected", "deleted"})
  BY <1>1, <1>6, <1>7 DEF ToldOnce
<1>10. Live(c) /\ (conn'[c].parse = 10 <=> conn'[c].websocket = TRUE)
  BY <1>1, <1>6 DEF Live
<1>11. http_garbage_timer => http_garbage_timer'
  BY <1>6
<1> QED BY <1>6, <1>7, <1>8, <1>9, <1>10, <1>11, OneConnection

(* A step of the HTTP parser, put together with the rest. *)
LEMMA HttpLineStep ==
    ASSUME IInv, NEW c \in Client, sock[c] = "connected", HttpStep(c),
           conn[c].websocket = FALSE,
           script' \in [Client -> Seq(Token)],
           UNCHANGED <<http_connections, conn_id>>
    PROVE  IInv'
<1> USE DEF IInv
<1>1. PICK k \in Conn :
        /\ conn' = [conn EXCEPT ![c] = k]
        /\ \/ k \in PlainConn /\ app_log' = app_log
           \/ /\ k.parse = 10 /\ k.websocket = TRUE
              /\ app_log' = [app_log EXCEPT ![c] = Append(@, "open")]
  BY DEF HttpStep
<1>2. app_log[c] \in Seq(AppSignal) /\ ToldOnce(app_log[c], FALSE, FALSE)
  <2>1. sock[c] \notin {"unconnected", "deleted"}
    OBVIOUS
  <2>2. ToldOnce(app_log[c], conn[c].websocket, sock[c] \in {"unconnected", "deleted"})
    BY DEF ApplicationToldOnce
  <2> QED BY <2>1, <2>2 DEF TypeOK, ToldOnce
<1>3. /\ app_log'[c] \in Seq(AppSignal)
      /\ ToldOnce(app_log'[c], k.websocket, FALSE)
      /\ k.parse = 10 <=> k.websocket = TRUE
  <2>1. CASE k \in PlainConn /\ app_log' = app_log
    BY <1>2, <2>1 DEF PlainConn
  <2>2. CASE /\ k.parse = 10 /\ k.websocket = TRUE
             /\ app_log' = [app_log EXCEPT ![c] = Append(@, "open")]
    BY <1>2, <2>2, ToldOpen DEF TypeOK
  <2> QED BY <1>1, <2>1, <2>2
<1>4. /\ conn'[c] = k
      /\ UNCHANGED <<sock, http_garbage_timer>>
      /\ \A d \in Client \ {c} : conn'[d] = conn[d] /\ app_log'[d] = app_log[d]
  BY <1>1 DEF HttpStep, TypeOK
<1>5. TypeOK'
  <2>1. app_log' \in [Client -> Seq(AppSignal)]
    BY <1>1, <1>3 DEF TypeOK
  <2>2. inbuf' \in [Client -> Seq(Token)]
    BY DEF HttpStep, TypeOK
  <2>3. conn' \in [Client -> Conn]
    BY <1>1 DEF TypeOK
  <2> QED BY <2>1, <2>2, <2>3 DEF HttpStep, TypeOK
<1>6. ToldOnce(app_log'[c], conn'[c].websocket, sock'[c] \in {"unconnected", "deleted"})
  BY <1>3, <1>4 DEF ToldOnce
<1> QED BY <1>3, <1>4, <1>5, <1>6, OneConnection DEF Live

(* readyReadData() parses HTTP or reads a frame. *)
LEMMA ReadyReadKinds ==
    ASSUME IInv, NEW c \in Client, readyReadData(c)
    PROVE  /\ sock[c] = "connected" /\ UNCHANGED <<http_connections, conn_id>>
           /\ script' \in [Client -> Seq(Token)]
           /\ \/ conn[c].websocket = FALSE /\ HttpStep(c)
              \/ /\ conn[c].parse = 10
                 /\ \E buf \in Seq(Token) : ReadWebsocket(c, buf)
<1> USE DEF IInv
<1>1. PICK n \in 1..Len(script[c]) :
        /\ script' = [script EXCEPT ![c] = SubSeq(@, n + 1, Len(@))]
        /\ LET buf == inbuf[c] \o SubSeq(script[c], 1, n)
           IN CASE conn[c].parse = 0  -> ReadMethodLine(c, conn[c], buf)
                [] conn[c].parse = 1  -> ReadHeaders(c, conn[c], buf)
                [] conn[c].parse = 2  -> ReadBody(c, conn[c], buf)
                [] conn[c].parse = 10 -> ReadWebsocket(c, buf)
  BY DEF readyReadData
<1> DEFINE got == SubSeq(script[c], 1, n)
           buf == inbuf[c] \o got
<1>2. script[c] \in Seq(Token) /\ inbuf[c] \in Seq(Token) /\ conn[c] \in Conn
  BY DEF TypeOK
<1>3. got \in Seq(Token) /\ Len(got) = n
  <2>1. \A i \in 1..n : script[c][i] \in Token
    BY <1>2, ElementOfSeq, LenProperties
  <2> QED BY <2>1, SubSeqProperties
<1>4. buf \in Seq(Token) /\ buf # <<>>
  <2>1. buf \in Seq(Token) /\ Len(buf) = Len(inbuf[c]) + n
    BY <1>2, <1>3, ConcatProperties
  <2>2. Len(inbuf[c]) \in Nat /\ Len(<<>>) = 0
    BY <1>2, LenProperties, EmptySeq
  <2> QED BY <2>1, <2>2
<1>5. script' \in [Client -> Seq(Token)]
  BY <1>1, <1>2, RestIsTokens DEF TypeOK
<1>6. sock[c] = "connected" /\ UNCHANGED <<http_connections, conn_id>>
  BY DEF readyReadData
<1>7. CASE conn[c].parse = 10
  <2>1. ReadWebsocket(c, buf)
    BY <1>1, <1>7
  <2> QED BY <1>4, <1>5, <1>6, <1>7, <2>1
<1>8. CASE conn[c].parse # 10
  <2>1. conn[c] \in PlainConn
    BY <1>2, <1>8 DEF ParserMode, PlainConn, Conn
  <2>2. conn[c].parse \in {0, 1, 2}
    BY <1>2, <1>8 DEF Conn
  <2>3. \/ ReadMethodLine(c, conn[c], buf)
        \/ ReadHeaders(c, conn[c], buf)
        \/ ReadBody(c, conn[c], buf)
    <3>1. CASE conn[c].parse = 0
      BY <1>1, <3>1
    <3>2. CASE conn[c].parse = 1
      BY <1>1, <3>2
    <3>3. CASE conn[c].parse = 2
      BY <1>1, <3>3
    <3> QED BY <2>2, <3>1, <3>2, <3>3
  <2>4. HttpStep(c)
    BY <1>4, <2>1, <2>3, MethodLineStep, HeadersStep, BodyStep
  <2> QED BY <1>5, <1>6, <2>1, <2>4 DEF PlainConn
<1> QED BY <1>7, <1>8

(* readyReadData() *)
LEMMA ReadyReadStep ==
    ASSUME IInv, NEW c \in Client, readyReadData(c)
    PROVE  IInv'
BY ReadyReadKinds, FrameStep, HttpLineStep

(* The peer closes its end. *)
LEMMA PeerCloseStep ==
    ASSUME IInv, NEW c \in Client, PeerClose(c)
    PROVE  IInv'
<1>1. unsent[c] \in BOOLEAN
  BY DEF IInv, TypeOK
<1> QED BY <1>1, DisconnectFromHostStep DEF PeerClose, IInv, TypeOK

(* The peer resets the connection. *)
LEMMA PeerResetStep ==
    ASSUME IInv, NEW c \in Client, PeerReset(c)
    PROVE  IInv'
BY DisconnectedStep DEF PeerReset, IInv, TypeOK

(* A write buffer is written out. *)
LEMMA FlushStep ==
    ASSUME IInv, NEW c \in Client, Flush(c)
    PROVE  IInv'
<1>1. CASE sock[c] = "closing"
  BY <1>1, DisconnectedStep DEF Flush, IInv, TypeOK
<1>2. CASE sock[c] # "closing"
  BY <1>2, BufferStep DEF Flush, IInv, TypeOK
<1> QED BY <1>1, <1>2

(* cgiReadyReadData() *)
LEMMA CgiReadyReadStep ==
    ASSUME IInv, NEW c \in Client, cgiReadyReadData(c)
    PROVE  IInv'
BY BufferStep DEF cgiReadyReadData, IInv, TypeOK

(* cgiFinishedData() and cgiErrorData() *)
LEMMA CgiFinishedStep ==
    ASSUME IInv, NEW c \in Client, cgiFinishedData(c)
    PROVE  IInv'
<1>1. /\ conn' \in [Client -> Conn]
      /\ conn'[c].websocket = conn[c].websocket
      /\ conn'[c].parse = conn[c].parse
      /\ \A d \in Client \ {c} : conn'[d] = conn[d]
  <2>1. conn[c] \in Conn /\ conn[c].cgi > 0
    BY DEF cgiFinishedData, IInv, TypeOK
  <2>2. [conn[c] EXCEPT !.cgi = @ - 1] \in Conn
    BY <2>1 DEF Conn
  <2>3. conn' = [conn EXCEPT ![c] = [conn[c] EXCEPT !.cgi = @ - 1]]
    BY DEF cgiFinishedData, IInv, TypeOK
  <2> QED BY <2>1, <2>2, <2>3 DEF IInv, TypeOK, Conn
<1>2. CASE sock[c] = "connected"
  <2>1. PICK wrote \in BOOLEAN : disconnectFromHost(c, unsent[c] \/ wrote)
    BY <1>2 DEF cgiFinishedData
  <2>2. (unsent[c] \/ wrote) \in BOOLEAN
    OBVIOUS
  <2>3. SocketOnly
    BY DEF cgiFinishedData
  <2> QED BY <1>1, <1>2, <2>1, <2>2, <2>3, DisconnectFromHostStep
<1>3. CASE sock[c] # "connected"
  <2>1. UNCHANGED <<sock, unsent, app_log, http_garbage_timer>> /\ SocketOnly /\ Live(c)
    BY <1>3 DEF cgiFinishedData
  <2>2. TypeOK'
    BY <1>1, <2>1 DEF IInv, TypeOK, SocketOnly
  <2>3. ToldOnce(app_log'[c], conn'[c].websocket, sock'[c] \in {"unconnected", "deleted"})
    BY <1>1, <2>1 DEF IInv, ApplicationToldOnce
  <2>4. /\ sock'[c] \in {"connected", "closing", "unconnected"}
        /\ sock'[c] = "unconnected" => http_garbage_timer'
    BY <2>1 DEF IInv, GarbageArmed, Live
  <2>5. conn'[c].parse = 10 <=> conn'[c].websocket = TRUE
    BY <1>1 DEF IInv, ParserMode
  <2> QED BY <1>1, <2>1, <2>2, <2>3, <2>4, <2>5, OneConnection DEF SocketOnly
<1> QED BY <1>2, <1>3

(* The application answers. *)
LEMMA SendSocketStep ==
    ASSUME IInv, NEW c \in Client, sendSocketMessage(c)
    PROVE  IInv'
<1>1. /\ unsent' = [unsent EXCEPT ![http_connections[conn_id[c]]] = TRUE]
      /\ UNCHANGED <<conn, sock, app_log, http_garbage_timer>> /\ SocketOnly
  BY DEF sendSocketMessage
<1>2. unsent' \in [Client -> BOOLEAN]
  BY <1>1 DEF IInv, TypeOK
<1> QED BY <1>1, <1>2
    DEF IInv, TypeOK, TableSound, GarbageArmed, ApplicationToldOnce, ParserMode,
        Live, SocketOnly

-----------------------------------------------------------------------------
(* The invariant is inductive. *)
LEMMA InitIInv == Init => IInv
<1> SUFFICES ASSUME Init PROVE IInv
  OBVIOUS
<1>1. NewConn \in Conn /\ NewConn.parse = 0 /\ NewConn.websocket = FALSE
  BY DEF NewConn, Conn, Sources
<1>2. TypeOK
  <2>1. script \in [Client -> Seq(Token)]
    BY ScriptsAssumption DEF Init
  <2> QED BY <1>1, <2>1, EmptySeq DEF Init, TypeOK
<1>3. TableSound
  BY DEF Init, TableSound, Live
<1>4. GarbageArmed
  BY DEF Init, GarbageArmed
<1>5. ApplicationToldOnce
  <2>1. ToldOnce(<<>>, FALSE, FALSE)
    BY DEF ToldOnce, Range
  <2> SUFFICES ASSUME NEW c \in Client
               PROVE  ToldOnce(app_log[c], conn[c].websocket,
                               sock[c] \in {"unconnected", "deleted"})
    BY DEF ApplicationToldOnce
  <2>2. /\ app_log[c] = <<>> /\ conn[c].websocket = FALSE
        /\ sock[c] \notin {"unconnected", "deleted"}
    BY <1>1 DEF Init
  <2> QED BY <2>1, <2>2 DEF ToldOnce
<1>6. ParserMode
  BY <1>1 DEF Init, ParserMode
<1> QED BY <1>2, <1>3, <1>4, <1>5, <1>6 DEF IInv

(* Every action keeps the inductive invariant. *)
LEMMA NextIInv == IInv /\ [Next]_vars => IInv'
<1> SUFFICES ASSUME IInv, [Next]_vars PROVE IInv'
  OBVIOUS
<1>1. ASSUME NEW c \in Client, newConnectionData(c) PROVE IInv'
  BY <1>1, NewConnectionStep
<1>2. ASSUME NEW c \in Client, readyReadData(c) PROVE IInv'
  BY <1>2, ReadyReadStep
<1>3. ASSUME NEW c \in Client, PeerClose(c) \/ PeerReset(c) PROVE IInv'
  BY <1>3, PeerCloseStep, PeerResetStep
<1>4. ASSUME NEW c \in Client, Flush(c) PROVE IInv'
  BY <1>4, FlushStep
<1>5. ASSUME NEW c \in Client, cgiReadyReadData(c) \/ cgiFinishedData(c) PROVE IInv'
  BY <1>5, CgiReadyReadStep, CgiFinishedStep
<1>6. ASSUME NEW c \in Client, sendSocketMessage(c) PROVE IInv'
  BY <1>6, SendSocketStep
<1>7. CASE garbageData
  BY <1>7, GarbageStep
<1>8. CASE UNCHANGED vars
  BY <1>8 DEF vars, IInv, TypeOK, TableSound, GarbageArmed, ApplicationToldOnce,
              ParserMode, Live
<1> QED BY <1>1, <1>2, <1>3, <1>4, <1>5, <1>6, <1>7, <1>8 DEF Next

(* It holds of every behaviour. *)
LEMMA Invariance == Spec => []IInv
BY InitIInv, NextIInv, PTL DEF Spec

(* Every variable of the server keeps its type. *)
THEOREM TypeCorrect == Spec => []TypeOK
<1>1. IInv => TypeOK
  BY DEF IInv
<1> QED BY <1>1, Invariance, PTL

(* The table and the connections always agree: newConnectionData() gives   *)
(* out a free slot, garbageData() frees the slots of what it deletes.      *)
THEOREM TableAgrees == Spec => []TableSound
<1>1. IInv => TableSound
  BY DEF IInv
<1> QED BY <1>1, Invariance, PTL

(* A garbage pass is due as long as a dead connection stands in the table. *)
THEOREM GarbageIsArmed == Spec => []GarbageArmed
<1>1. IInv => GarbageArmed
  BY DEF IInv
<1> QED BY <1>1, Invariance, PTL

(* newSocketConnection() and socketConnectionClosed() reach the            *)
(* application once each, in this order, for every upgraded connection.    *)
THEOREM ToldOnceAlways == Spec => []ApplicationToldOnce
<1>1. IInv => ApplicationToldOnce
  BY DEF IInv
<1> QED BY <1>1, Invariance, PTL

(* In an invariant state an open session is a live, upgraded connection.   *)
Ended(c) == sock[c] \in {"unconnected", "deleted"}

OpenView ==
    \A c \in Client :
        /\ c \in OpenClients <=> conn[c].websocket = TRUE /\ sock[c] \in {"connected", "closing"}
        /\ c \in EndedSessions <=> conn[c].websocket = TRUE /\ Ended(c)
        /\ c \in OpenClients => /\ conn_id[c] \in DOMAIN http_connections
                         /\ http_connections[conn_id[c]] = c

(* The invariant gives that view of the sessions. *)
LEMMA OpenMeansLive == IInv => OpenView
<1> SUFFICES ASSUME IInv, NEW c \in Client
             PROVE  /\ c \in OpenClients <=> conn[c].websocket = TRUE
                                      /\ sock[c] \in {"connected", "closing"}
                    /\ c \in EndedSessions <=> conn[c].websocket = TRUE /\ Ended(c)
                    /\ c \in OpenClients => /\ conn_id[c] \in DOMAIN http_connections
                                     /\ http_connections[conn_id[c]] = c
  BY DEF OpenView
<1>1. /\ "open" \in Range(app_log[c]) <=> conn[c].websocket
      /\ "closed" \in Range(app_log[c]) <=>
            conn[c].websocket /\ sock[c] \in {"unconnected", "deleted"}
  BY DEF IInv, ApplicationToldOnce, ToldOnce
<1>2. conn[c].websocket \in BOOLEAN
  BY DEF IInv, TypeOK, Conn
<1>3. sock[c] = "none" => conn[c].websocket = FALSE
  BY DEF IInv, ParserMode
<1>4. sock[c] \in {"none", "connected", "closing", "unconnected", "deleted"}
  BY DEF IInv, TypeOK
<1>5. c \in OpenClients <=> conn[c].websocket = TRUE /\ sock[c] \in {"connected", "closing"}
  BY <1>1, <1>2, <1>3, <1>4 DEF OpenClients, EndedSessions
<1>6. c \in OpenClients => Live(c)
  BY <1>5 DEF Live
<1> QED BY <1>1, <1>2, <1>5, <1>6 DEF EndedSessions, Ended, IInv, TableSound

(* A message sent on an identifier that is open goes to the client that    *)
(* identifier was announced for.                                           *)
THEOREM AnnouncedIdsAreLive == Spec => []AnnouncedIdIsLive
<1>1. IInv => AnnouncedIdIsLive
  BY OpenMeansLive DEF OpenView, AnnouncedIdIsLive, OpenClients
<1> QED BY <1>1, Invariance, PTL

-----------------------------------------------------------------------------
(* The server implements SocketSessions.  A step upgrades one connection,  *)
(* which opens its session, or upgrades none.                              *)

Calm ==
    \A c \in Client :
        /\ conn'[c].websocket = conn[c].websocket
        /\ sock[c] # "none" => conn_id'[c] = conn_id[c]
        /\ sock[c] = "none" => ~Ended(c)'
        /\ Ended(c) => Ended(c)'

Upgrades(c) ==
    /\ sock[c] = "connected"
    /\ conn[c].websocket = FALSE /\ conn'[c].websocket = TRUE
    /\ \A d \in Client \ {c} : conn'[d].websocket = conn[d].websocket
    /\ UNCHANGED <<conn_id, sock, http_connections>>

(* One action opens a session; no other does. *)
LEMMA CalmOrUpgrade ==
    ASSUME IInv, [Next]_vars
    PROVE  Calm \/ \E c \in Client : Upgrades(c)
<1> USE DEF IInv, TypeOK
<1>1. ASSUME NEW c \in Client, newConnectionData(c) PROVE Calm
  BY <1>1 DEF newConnectionData, Calm, Ended
<1>2. ASSUME NEW c \in Client, readyReadData(c) PROVE Calm \/ Upgrades(c)
  <2>1. CASE conn[c].websocket = FALSE /\ HttpStep(c)
    <3>1. PICK k \in Conn : conn' = [conn EXCEPT ![c] = k]
      BY <2>1 DEF HttpStep
    <3>2. /\ sock' = sock /\ sock[c] = "connected"
          /\ UNCHANGED <<http_connections, conn_id>>
      BY <1>2, <2>1, ReadyReadKinds DEF HttpStep
    <3>3. /\ conn'[c] = k /\ k.websocket \in BOOLEAN
          /\ \A d \in Client \ {c} : conn'[d] = conn[d]
      BY <3>1 DEF Conn
    <3>4. CASE k.websocket = TRUE
      BY <2>1, <3>2, <3>3, <3>4 DEF Upgrades
    <3>5. CASE k.websocket = FALSE
      BY <2>1, <3>2, <3>3, <3>5 DEF Calm, Ended
    <3> QED BY <3>3, <3>4, <3>5
  <2>2. CASE \E buf \in Seq(Token) : ReadWebsocket(c, buf)
    <3>1. /\ UNCHANGED <<conn, conn_id>> /\ sock[c] = "connected"
          /\ \A d \in Client \ {c} : sock'[d] = sock[d]
      <4>1. sock[c] = "connected" /\ UNCHANGED conn_id
        BY <1>2, ReadyReadKinds
      <4>2. PICK buf \in Seq(Token) : ReadWebsocket(c, buf)
        BY <2>2
      <4>3. UNCHANGED conn /\ \A d \in Client \ {c} : sock'[d] = sock[d]
        BY <4>2 DEF ReadWebsocket
      <4> QED BY <4>1, <4>3
    <3> QED BY <3>1 DEF Calm, Ended
  <2> QED BY <1>2, <2>1, <2>2, ReadyReadKinds
<1>3. ASSUME NEW c \in Client,
             PeerClose(c) \/ PeerReset(c) \/ Flush(c) \/ cgiReadyReadData(c)
                \/ sendSocketMessage(c)
      PROVE  Calm
  BY <1>3 DEF PeerClose, PeerReset, Flush, cgiReadyReadData, sendSocketMessage,
              disconnectFromHost, disconnectedData, SocketOnly, Calm, Ended
<1>4. ASSUME NEW c \in Client, cgiFinishedData(c) PROVE Calm
  <2>1. \A d \in Client : conn'[d].websocket = conn[d].websocket
    BY <1>4 DEF cgiFinishedData, Conn
  <2>2. sock' \in {sock, [sock EXCEPT ![c] = "closing"], [sock EXCEPT ![c] = "unconnected"]}
        /\ (sock' # sock => sock[c] = "connected")
    BY <1>4 DEF cgiFinishedData, disconnectFromHost, disconnectedData
  <2>3. conn_id' = conn_id
    BY <1>4 DEF cgiFinishedData, SocketOnly
  <2> QED BY <2>1, <2>2, <2>3 DEF Calm, Ended
<1>5. CASE garbageData
  <2>1. \A d \in Client : /\ conn'[d] \in {conn[d], [conn[d] EXCEPT !.cgi = 0]}
                          /\ conn[d] \in Conn
                          /\ sock'[d] = IF Stale(d) THEN "deleted" ELSE sock[d]
                          /\ conn_id' = conn_id
    BY <1>5 DEF garbageData
  <2>2. \A d \in Client : conn'[d].websocket = conn[d].websocket
    BY <2>1 DEF Conn
  <2> QED BY <2>1, <2>2 DEF Calm, Ended, Stale, Live
<1>6. CASE UNCHANGED vars
  BY <1>6 DEF vars, Calm, Ended
<1> QED BY <1>1, <1>2, <1>3, <1>4, <1>5, <1>6 DEF Next

(* All other steps end the sessions that are gone, or none. *)
LEMMA CalmEnds ==
    ASSUME IInv, IInv', Calm
    PROVE  Sessions!Close(OpenSessions \ OpenSessions')
<1> DEFINE gone == OpenSessions \ OpenSessions'
<1>1. \A c \in Client :
        /\ c \in OpenClients' => c \in OpenClients
        /\ c \in OpenClients => conn_id'[c] = conn_id[c]
        /\ c \in EndedSessions' <=> c \in EndedSessions \/ (c \in OpenClients /\ c \notin OpenClients')
  <2> SUFFICES ASSUME NEW c \in Client
               PROVE  /\ c \in OpenClients' => c \in OpenClients
                      /\ c \in OpenClients => conn_id'[c] = conn_id[c]
                      /\ c \in EndedSessions' <=>
                            c \in EndedSessions \/ (c \in OpenClients /\ c \notin OpenClients')
    OBVIOUS
  <2>1. OpenView /\ OpenView'
    BY OpenMeansLive, PTL
  <2>2. sock[c] # "none" => conn_id'[c] = conn_id[c]
    BY DEF Calm
  <2>3. conn'[c].websocket = conn[c].websocket /\ (Ended(c) => Ended(c)')
    BY DEF Calm
  <2>4. sock[c] = "none" => ~Ended(c)'
    BY DEF Calm
  <2>5. sock'[c] \in {"connected", "closing"} \/ Ended(c)' \/ sock'[c] = "none"
    BY DEF IInv, TypeOK, Ended
  <2> QED BY SMTT(30), <2>1, <2>2, <2>3, <2>4, <2>5 DEF OpenView, Calm, Ended, IInv, ParserMode, TypeOK
<1>0. OpenClients \subseteq Client /\ OpenClients' \subseteq Client
  BY DEF OpenClients
<1>2. OpenSessions' \subseteq OpenSessions
  <2> SUFFICES ASSUME NEW p \in OpenSessions' PROVE p \in OpenSessions
    OBVIOUS
  <2>1. PICK c \in OpenClients' : p = <<conn_id'[c], c>>
    BY DEF OpenSessions
  <2>2. c \in OpenClients /\ conn_id'[c] = conn_id[c]
    BY <1>1, <1>0
  <2> QED BY <2>1, <2>2 DEF OpenSessions
<1>3. EndedSessions' = EndedSessions \cup {p[2] : p \in gone}
  <2>1. \A c \in Client : c \in OpenClients /\ c \notin OpenClients' => <<conn_id[c], c>> \in gone
    BY DEF OpenSessions
  <2>2. ASSUME NEW p \in gone
        PROVE  p[2] \in Client /\ p[2] \in OpenClients /\ p[2] \notin OpenClients'
    <3>1. PICK c \in OpenClients : p = <<conn_id[c], c>>
      BY DEF OpenSessions
    <3>2. c \in Client /\ conn_id'[c] = conn_id[c]
      BY <1>1, <1>0
    <3>3. c \notin OpenClients'
      BY <3>1, <3>2 DEF OpenSessions
    <3> QED BY <3>1, <3>2, <3>3
  <2>3. EndedSessions \subseteq Client /\ EndedSessions' \subseteq Client
    BY DEF EndedSessions
  <2> DEFINE owners == {p[2] : p \in gone}
  <2>4. owners \subseteq Client
    BY <2>2
  <2>5. \A c \in Client : c \in owners <=> c \in OpenClients /\ c \notin OpenClients'
    <3> SUFFICES ASSUME NEW c \in Client
                 PROVE  c \in owners <=> c \in OpenClients /\ c \notin OpenClients'
      OBVIOUS
    <3>1. ASSUME c \in owners PROVE c \in OpenClients /\ c \notin OpenClients'
      BY <2>2, <3>1
    <3>2. ASSUME c \in OpenClients, c \notin OpenClients' PROVE c \in owners
      <4>1. <<conn_id[c], c>> \in gone
        BY <2>1, <3>2
      <4> HIDE DEF gone
      <4>2. <<conn_id[c], c>>[2] \in owners
        BY <4>1
      <4> QED BY <4>2
    <3> QED BY <3>1, <3>2
  <2> HIDE DEF owners
  <2>6. \A c \in Client : c \in EndedSessions' <=> c \in EndedSessions \cup owners
    BY <1>1, <2>5
  <2>7. EndedSessions' = EndedSessions \cup owners
    BY <2>3, <2>4, <2>6
  <2> QED BY <2>7 DEF owners
<1> QED BY <1>2, <1>3 DEF Sessions!Close

(* An upgrade opens a session under a free identifier. *)
LEMMA UpgradeOpens ==
    ASSUME IInv, IInv', NEW c \in Client, Upgrades(c)
    PROVE  Sessions!Open(<<conn_id[c], c>>) /\ <<conn_id[c], c>> \in OpenSessions' \ OpenSessions
<1>1. OpenView /\ OpenView'
  BY OpenMeansLive, PTL
<1>2. /\ c \notin OpenClients /\ c \in OpenClients'
      /\ \A d \in Client \ {c} : d \in OpenClients' <=> d \in OpenClients
      /\ EndedSessions' = EndedSessions
      /\ c \notin EndedSessions
      /\ conn_id' = conn_id
  <2>1. \A d \in Client : d \in EndedSessions' <=> d \in EndedSessions
    BY <1>1 DEF OpenView, Upgrades, Ended
  <2>2. EndedSessions \subseteq Client /\ EndedSessions' \subseteq Client
    BY DEF EndedSessions
  <2> QED BY <1>1, <2>1, <2>2 DEF OpenView, Upgrades, Ended
<1>3. /\ http_connections' = http_connections
      /\ http_connections[conn_id[c]] = c
  BY <1>1, <1>2 DEF OpenView, Upgrades
<1>0. OpenClients \subseteq Client /\ OpenClients' \subseteq Client
  BY DEF OpenClients
<1>4. ASSUME NEW q \in OpenSessions
      PROVE  q[2] # c /\ http_connections[q[1]] = q[2]
  <2>1. PICK d \in OpenClients : q = <<conn_id[d], d>>
    BY DEF OpenSessions
  <2> QED BY <1>1, <1>2, <1>0, <2>1 DEF OpenView
<1>5. OpenSessions' = OpenSessions \cup {<<conn_id[c], c>>}
  <2>1. OpenClients' = OpenClients \cup {c}
    BY <1>2, <1>0
  <2> QED BY <1>2, <2>1 DEF OpenSessions
<1>6. <<conn_id[c], c>> \notin OpenSessions
  BY <1>4
<1>7. \A q \in OpenSessions : q[1] # conn_id[c]
  BY <1>3, <1>4
<1> QED BY <1>2, <1>4, <1>5, <1>6, <1>7 DEF Sessions!Open

(* Every step of the server is one of the sessions, or none. *)
LEMMA SessionStep == IInv /\ IInv' /\ [Next]_vars => [Sessions!Next]_<<OpenSessions, EndedSessions>>
<1> SUFFICES ASSUME IInv, IInv', [Next]_vars
             PROVE  Sessions!Next
  OBVIOUS
<1>1. CASE Calm
  BY <1>1, CalmEnds DEF Sessions!Next
<1>2. ASSUME NEW c \in Client, Upgrades(c) PROVE Sessions!Next
  BY <1>2, UpgradeOpens DEF Sessions!Next
<1> QED BY <1>1, <1>2, CalmOrUpgrade

(* The server implements the sessions it announces to the application.     *)
THEOREM ServerImplementsSessions == Spec => SessionsRefined
<1>1. Init => Sessions!Init
  BY DEF Init, Sessions!Init, OpenSessions, EndedSessions, OpenClients, Range
<1> QED BY <1>1, Invariance, SessionStep, PTL DEF Spec, SessionsRefined, Sessions!Spec, Sessions!vars
=============================================================================
