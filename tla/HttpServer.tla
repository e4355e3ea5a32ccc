----------------------------- MODULE HttpServer -----------------------------
(***************************************************************************)
(* WHHttpServer and the WHHttpConnection objects it owns: the table of     *)
(* connections, the parser that readyReadData() drives, the dispatch of a  *)
(* complete request, the hand-over to WebSocket mode, and the deferred     *)
(* deletion of dead connections by the garbage timer.                      *)
(*                                                                         *)
(* The server is single-threaded: one action is one slot run by the Qt     *)
(* event loop.  Every client of the model makes one TCP connection, so a   *)
(* client also names the connection object made for it; a connection       *)
(* identifier is the index of a slot in http_connections (from 1 here,     *)
(* from 0 in the code).                                                    *)
(*                                                                         *)
(* What a client sends is a sequence of tokens.  A token is one complete   *)
(* line (request line, header, blank line, line of a body) or one          *)
(* WebSocket frame; the length of a body counts lines.  unsent[c] says     *)
(* that bytes for c still wait in the socket's write buffer.               *)
(***************************************************************************)
EXTENDS Integers, Sequences, Functions

CONSTANTS
    Client,     \* the TCP connections that will be made
    NoClient,   \* NULL in a slot of the table
    Scripts,    \* the token sequences a client may send
    Protected   \* the kinds of source that were added with a realm

Methods    == {"GET", "POST", "HEAD"}
Sources    == {"static", "cgi", "socket", "unknown"}
HeaderName == {"host", "content-length", "upgrade", "sec-websocket-key",
               "sec-websocket-protocol", "authorization"}

(* source is the table of sources that has the URI; minor = 2 stands for   *)
(* every protocol version that the server refuses.                         *)
RequestLine == [t : {"request"}, method : Methods \cup {"PUT"},
                source : Sources, minor : 0..2]
(* ok = FALSE: a port or a length that is no number, an upgrade to another *)
(* protocol, an empty key, a sub-protocol that no socket source has,       *)
(* credentials that authenticateUser() refuses.  len is a content length;  *)
(* in a malformed Host header it tells one with several colons (not 0)     *)
(* from one with a bad port.                                               *)
Header   == [t : {"header"}, name : HeaderName, ok : BOOLEAN, len : Int]
Plain    == [t : {"blank", "text"}]
(* ok = FALSE: an extension bit is set or the mask bit is clear. *)
Frame    == [t : {"frame"}, op : {"text", "close", "ping", "other"}, ok : BOOLEAN]
Token    == RequestLine \cup Header \cup Plain \cup Frame

ASSUME NoClientAssumption == NoClient \notin Client
ASSUME ScriptsAssumption == Scripts \subseteq Seq(Token)

VARIABLES
    http_connections,     \* the table: sequence of clients and NoClient
    http_garbage_timer,   \* TRUE iff the single-shot timer is armed
    conn_id,              \* the identifier given to each connection
    conn,                 \* the parser state of each connection
    sock,                 \* state of each QTcpSocket
    inbuf,                \* tokens received and not yet read
    unsent,               \* write buffer not empty
    script,               \* what each client has still to send
    app_log               \* signals the application received, per connection

vars == <<http_connections, http_garbage_timer, conn_id, conn, sock, inbuf,
          unsent, script, app_log>>

Conn == [parse : {0, 1, 2, 10}, method : Methods \cup {"None"}, source : Sources,
         minor : 0..2, hdrs : SUBSET HeaderName, len : Int, body : Nat,
         websocket : BOOLEAN, cgi : Nat]

NewConn == [parse |-> 0, method |-> "None", source |-> "unknown", minor |-> 0,
            hdrs |-> {}, len |-> 0, body |-> 0, websocket |-> FALSE, cgi |-> 0]

Live(c) == sock[c] \in {"connected", "closing", "unconnected"}

(* Its socket is not in ConnectedState: the next garbage pass deletes it.  *)
Stale(c) == Live(c) /\ sock[c] # "connected"

(* The application holds an identifier for each of these: it was told of   *)
(* the connection and not yet of its end.                                  *)
EndedSessions == {c \in Client : "closed" \in Range(app_log[c])}
OpenClients   == {c \in Client : "open" \in Range(app_log[c])} \ EndedSessions

-----------------------------------------------------------------------------
Init ==
    /\ http_connections = <<>>
    /\ http_garbage_timer = FALSE
    /\ conn_id = [c \in Client |-> 0]
    /\ conn = [c \in Client |-> NewConn]
    /\ sock = [c \in Client |-> "none"]
    /\ inbuf = [c \in Client |-> <<>>]
    /\ unsent = [c \in Client |-> FALSE]
    /\ script \in [Client -> Scripts]
    /\ app_log = [c \in Client |-> <<>>]

(* Mutant: the slot of a connection that is no longer connected is reused. *)
EagerNewConnectionData(c) ==
    /\ sock[c] = "none"
    /\ \E id \in {Len(http_connections) + 1} \cup
                 {i \in DOMAIN http_connections :
                    http_connections[i] = NoClient \/ Stale(http_connections[i])} :
        /\ http_connections' = [i \in 1..(IF id > Len(http_connections) THEN id
                                          ELSE Len(http_connections)) |->
                                   IF i = id THEN c ELSE http_connections[i]]
        /\ conn_id' = [conn_id EXCEPT ![c] = id]
    /\ sock' = [sock EXCEPT ![c] = "connected"]
    /\ UNCHANGED <<http_garbage_timer, conn, inbuf, unsent, script, app_log>>

(* The first free slot of the table, or one past its end. *)
newConnectionData(c) ==
    /\ sock[c] = "none"
    /\ \E id \in 1..(Len(http_connections) + 1) :
        /\ \A j \in 1..(id - 1) : http_connections[j] # NoClient
        /\ \/ /\ id > Len(http_connections)
              /\ http_connections' = Append(http_connections, c)
           \/ /\ id <= Len(http_connections)
              /\ http_connections[id] = NoClient
              /\ http_connections' = [http_connections EXCEPT ![id] = c]
        /\ conn_id' = [conn_id EXCEPT ![c] = id]
    /\ sock' = [sock EXCEPT ![c] = "connected"]
    /\ UNCHANGED <<http_garbage_timer, conn, inbuf, unsent, script, app_log>>

-----------------------------------------------------------------------------
(* The parser.  k is the connection's record as the handler has it so far, *)
(* rest the tokens the handler leaves in the socket's read buffer.         *)

Settle(c, k, rest) ==
    /\ conn' = [conn EXCEPT ![c] = k]
    /\ inbuf' = [inbuf EXCEPT ![c] = rest]
    /\ UNCHANGED <<http_garbage_timer, sock>>

Pause(c, k, rest) ==
    Settle(c, k, rest) /\ UNCHANGED <<unsent, app_log>>

(* sendError() and sendResponse(): status line, headers and body are       *)
(* queued; neither the parse state nor the socket changes.                 *)
sendResponse(c, k, rest) ==
    /\ Settle(c, k, rest)
    /\ unsent' = [unsent EXCEPT ![c] = TRUE]
    /\ UNCHANGED app_log

AuthenticateRealm(k, source) == source \notin Protected \/ "authorization" \in k.hdrs

(* The code's comparison: the connection's version is at most 1.minor. *)
protocolAtLeast(k, minor) == k.minor <= minor

(* Mutant: setWebsocket(true) is forgotten. *)
UnmarkedStartWebsocket(c, k, rest) ==
    /\ Settle(c, [k EXCEPT !.parse = 10], rest)
    /\ unsent' = [unsent EXCEPT ![c] = TRUE]
    /\ app_log' = [app_log EXCEPT ![c] = Append(@, "open")]

StartWebsocket(c, k, rest) ==
    IF /\ AuthenticateRealm(k, "socket")
       /\ protocolAtLeast(k, 1)
       /\ k.method = "GET"
       /\ "sec-websocket-key" \in k.hdrs
    THEN /\ Settle(c, [k EXCEPT !.parse = 10, !.websocket = TRUE], rest)
         /\ unsent' = [unsent EXCEPT ![c] = TRUE]
         /\ app_log' = [app_log EXCEPT ![c] = Append(@, "open")]
    ELSE sendResponse(c, k, rest)

SendCgiSource(c, k, rest) ==
    IF AuthenticateRealm(k, "cgi") /\ k.method # "HEAD"
    THEN Pause(c, [k EXCEPT !.cgi = @ + 1], rest)
    ELSE sendResponse(c, k, rest)

(* The file, 401, 404, 405 or 500: one response in each case. *)
SendStaticSource(c, k, rest) == sendResponse(c, k, rest)

(* The request is left to the handler of its method, which a subclass may  *)
(* override; those of the class answer 404.                                *)
requestReceived(c, k, rest) == sendResponse(c, k, rest)

(* A socket source matches by its URI or by its sub-protocol. *)
ProcessRequest(c, k, rest) ==
    CASE /\ "upgrade" \in k.hdrs
         /\ k.source = "socket" \/ "sec-websocket-protocol" \in k.hdrs
         -> StartWebsocket(c, k, rest)
      [] "upgrade" \notin k.hdrs /\ k.source = "static" -> SendStaticSource(c, k, rest)
      [] "upgrade" \notin k.hdrs /\ k.source = "cgi" -> SendCgiSource(c, k, rest)
      [] OTHER -> requestReceived(c, k, rest)

(* Mutant: a negative Content-Length is added to what was read. *)
SignedReadBody(c, k, buf) ==
    LET want == k.len - k.body
        k2   == [k EXCEPT !.body = IF want < Len(buf) THEN @ + want ELSE @ + Len(buf)]
        rest == SubSeq(buf, 1 + k2.body, Len(buf))
    IN Pause(c, k2, IF k2.body < 0 THEN buf ELSE rest)

ReadBody(c, k, buf) ==
    LET want == k.len - k.body
        n    == IF want < 0 THEN 0 ELSE IF want < Len(buf) THEN want ELSE Len(buf)
        k2   == [k EXCEPT !.body = @ + n]
        rest == SubSeq(buf, n + 1, Len(buf))
    IN IF k2.body = k2.len THEN ProcessRequest(c, k2, rest) ELSE Pause(c, k2, rest)

IsHeader(line, name) == line.t = "header" /\ line.name = name

Malformed(line) ==
    ~line.ok /\ (IsHeader(line, "content-length") \/ IsHeader(line, "host"))

(* A line that makes ReadHeaders() return. *)
EndsHeaders(line) == line.t = "blank" \/ (line.t = "header" /\ Malformed(line))

(* Of several headers with one name the last one counts; a malformed       *)
(* length is not stored, nor is a host with several colons.                *)
Ignored(line, name) ==
    ~line.ok /\ (name = "content-length" \/ (name = "host" /\ line.len # 0))

Sets(line, name) == IsHeader(line, name) /\ ~Ignored(line, name)

LastOf(lines, name) ==
    {i \in DOMAIN lines : /\ Sets(lines[i], name)
                         /\ \A j \in (i + 1)..Len(lines) : ~Sets(lines[j], name)}

WithHeaders(k, lines) ==
    LET lens == {lines[i].len : i \in LastOf(lines, "content-length")}
    IN [k EXCEPT !.hdrs = {name \in HeaderName :
                              \/ \E i \in LastOf(lines, name) : lines[i].ok
                              \/ name \in k.hdrs /\ LastOf(lines, name) = {}},
                 !.len = IF lens = {} THEN k.len ELSE CHOOSE n \in lens : TRUE]

(* The while loop: lines are read up to the first one that ends it. *)
ReadHeaders(c, k, buf) ==
    \E n \in 0..Len(buf) :
        /\ \A i \in 1..(n - 1) : ~EndsHeaders(buf[i])
        /\ n = Len(buf) \/ (n > 0 /\ EndsHeaders(buf[n]))
        /\ LET k2   == WithHeaders(k, SubSeq(buf, 1, n))
               rest == SubSeq(buf, n + 1, Len(buf))
           IN CASE n = 0 \/ ~EndsHeaders(buf[n]) -> Pause(c, k2, rest)
                [] n > 0 /\ buf[n].t = "header" /\ EndsHeaders(buf[n]) -> sendResponse(c, k2, rest)
                [] OTHER ->
                     IF k2.minor = 1 /\ "host" \notin k2.hdrs
                     THEN sendResponse(c, k2, rest)
                     ELSE IF k2.method = "GET" THEN ProcessRequest(c, k2, rest)
                     ELSE ReadBody(c, [k2 EXCEPT !.parse = 2], rest)

ReadMethodLine(c, k, buf) ==
    LET line   == Head(buf)
        isReq  == line.t = "request"
        method == IF isReq /\ line.method \in Methods THEN line.method ELSE k.method
    IN CASE ~isReq           -> sendResponse(c, k, Tail(buf))
         [] isReq /\ method = "None" -> sendResponse(c, k, Tail(buf))
         [] OTHER ->
              LET k2 == [k EXCEPT !.method = method, !.source = line.source,
                                  !.minor = line.minor]
              IN IF line.minor > 1 THEN sendResponse(c, k2, Tail(buf))
                 ELSE ReadHeaders(c, [k2 EXCEPT !.parse = 1], Tail(buf))

(* readAll(): whatever has arrived, lines left over from the handshake     *)
(* included, is taken for exactly one frame.  After closing the socket for *)
(* a malformed frame the handler goes on with it.                          *)
ReadWebsocket(c, buf) == \E f \in Frame :
    LET Heard(log) == IF f.op = "text" THEN Append(log, "message") ELSE log
    IN /\ Head(buf).t = "frame" => f = Head(buf)
       /\ inbuf' = [inbuf EXCEPT ![c] = <<>>]
       /\ UNCHANGED conn
       /\ CASE ~f.ok /\ unsent[c] ->
                 /\ sock' = [sock EXCEPT ![c] = "closing"]
                 /\ app_log' = [app_log EXCEPT ![c] = Heard(@)]
                 /\ UNCHANGED <<unsent, http_garbage_timer>>
            [] ~f.ok /\ ~unsent[c] ->
                 /\ sock' = [sock EXCEPT ![c] = "unconnected"]
                 /\ app_log' = [app_log EXCEPT ![c] = Heard(Append(@, "closed"))]
                 /\ http_garbage_timer' = TRUE
                 /\ UNCHANGED unsent
            [] f.ok /\ f.op = "close" ->
                 /\ sock' = [sock EXCEPT ![c] = "closing"]
                 /\ unsent' = [unsent EXCEPT ![c] = TRUE]
                 /\ UNCHANGED <<app_log, http_garbage_timer>>
            [] OTHER ->
                 /\ unsent' = [unsent EXCEPT ![c] = @ \/ f.op = "ping"]
                 /\ app_log' = [app_log EXCEPT ![c] = Heard(@)]
                 /\ UNCHANGED <<sock, http_garbage_timer>>

(* The next n tokens of c's script arrive and readyRead() is emitted.  A   *)
(* WebSocket client sends frames once the connection is upgraded, and only *)
(* then.                                                                   *)
readyReadData(c) ==
    /\ sock[c] = "connected"
    /\ \E n \in 1..Len(script[c]) :
        /\ \A i \in 1..n : script[c][i].t = "frame" <=> conn[c].parse = 10
        /\ script' = [script EXCEPT ![c] = SubSeq(@, n + 1, Len(@))]
        /\ LET buf == inbuf[c] \o SubSeq(script[c], 1, n)
           IN CASE conn[c].parse = 0  -> ReadMethodLine(c, conn[c], buf)
                [] conn[c].parse = 1  -> ReadHeaders(c, conn[c], buf)
                [] conn[c].parse = 2  -> ReadBody(c, conn[c], buf)
                [] conn[c].parse = 10 -> ReadWebsocket(c, buf)
    /\ UNCHANGED <<http_connections, conn_id>>

-----------------------------------------------------------------------------
(* Mutant: the garbage timer is started for WebSocket connections only. *)
LazyDisconnectedData(c) ==
    /\ sock' = [sock EXCEPT ![c] = "unconnected"]
    /\ unsent' = [unsent EXCEPT ![c] = FALSE]
    /\ app_log' = [app_log EXCEPT ![c] =
                     IF conn[c].websocket THEN Append(@, "closed") ELSE @]
    /\ http_garbage_timer' = (http_garbage_timer \/ conn[c].websocket)

(* QAbstractSocket emits disconnected(), which runs disconnectedData(). *)
disconnectedData(c) ==
    /\ sock' = [sock EXCEPT ![c] = "unconnected"]
    /\ unsent' = [unsent EXCEPT ![c] = FALSE]
    /\ app_log' = [app_log EXCEPT ![c] =
                     IF conn[c].websocket THEN Append(@, "closed") ELSE @]
    /\ http_garbage_timer' = TRUE

(* QAbstractSocket::disconnectFromHost(): wait for the write buffer. *)
disconnectFromHost(c, pending) ==
    IF pending THEN /\ sock' = [sock EXCEPT ![c] = "closing"]
                    /\ unsent' = [unsent EXCEPT ![c] = TRUE]
                    /\ UNCHANGED <<app_log, http_garbage_timer>>
    ELSE disconnectedData(c)

SocketOnly == UNCHANGED <<http_connections, conn_id, inbuf, script>>

PeerClose(c) ==
    /\ sock[c] = "connected"
    /\ disconnectFromHost(c, unsent[c])
    /\ UNCHANGED conn /\ SocketOnly

PeerReset(c) ==
    /\ sock[c] \in {"connected", "closing"}
    /\ disconnectedData(c)
    /\ UNCHANGED conn /\ SocketOnly

(* The event loop writes the buffer out. *)
Flush(c) ==
    /\ sock[c] \in {"connected", "closing"} /\ unsent[c]
    /\ IF sock[c] = "closing" THEN disconnectedData(c)
       ELSE /\ unsent' = [unsent EXCEPT ![c] = FALSE]
            /\ UNCHANGED <<sock, app_log, http_garbage_timer>>
    /\ UNCHANGED conn /\ SocketOnly

(* cgiReadyReadData(): output of the script is relayed. *)
cgiReadyReadData(c) ==
    /\ conn[c].cgi > 0 /\ sock[c] = "connected"
    /\ unsent' = [unsent EXCEPT ![c] = TRUE]
    /\ UNCHANGED <<conn, sock, app_log, http_garbage_timer>> /\ SocketOnly

(* Mutant: the socket is left open when the script ends. *)
OpenCgiFinishedData(c) ==
    /\ conn[c].cgi > 0 /\ Live(c)
    /\ conn' = [conn EXCEPT ![c].cgi = @ - 1]
    /\ UNCHANGED <<sock, unsent, app_log, http_garbage_timer>> /\ SocketOnly

(* cgiFinishedData() or cgiErrorData(): a last write, possibly of nothing, *)
(* then the socket is closed.                                              *)
cgiFinishedData(c) ==
    /\ conn[c].cgi > 0 /\ Live(c)
    /\ conn' = [conn EXCEPT ![c].cgi = @ - 1]
    /\ IF sock[c] = "connected"
       THEN \E wrote \in BOOLEAN : disconnectFromHost(c, unsent[c] \/ wrote)
       ELSE UNCHANGED <<sock, unsent, app_log, http_garbage_timer>>
    /\ SocketOnly

(* The application answers on an identifier it holds: the message goes to  *)
(* whatever connection the table has in that slot.  A NULL slot, which     *)
(* AnnouncedIdIsLive rules out, would be a null dereference: no next state.*)
sendSocketMessage(c) ==
    /\ c \in OpenClients
    /\ LET d == http_connections[conn_id[c]]
       IN /\ d # NoClient
          /\ sock[d] \in {"connected", "closing"}
          /\ unsent' = [unsent EXCEPT ![d] = TRUE]
    /\ UNCHANGED <<conn, sock, app_log, http_garbage_timer>> /\ SocketOnly

(* Mutant: the signals of a socket are cut off before it is deleted. *)
SilentGarbageData ==
    /\ http_garbage_timer
    /\ http_connections' =
         [i \in DOMAIN http_connections |->
            IF http_connections[i] # NoClient /\ Stale(http_connections[i])
            THEN NoClient ELSE http_connections[i]]
    /\ sock' = [c \in Client |-> IF Stale(c) THEN "deleted" ELSE sock[c]]
    /\ unsent' = [c \in Client |-> unsent[c] /\ ~Stale(c)]
    /\ conn' = [c \in Client |-> IF Stale(c) THEN [conn[c] EXCEPT !.cgi = 0] ELSE conn[c]]
    /\ http_garbage_timer' = FALSE
    /\ UNCHANGED <<conn_id, inbuf, script, app_log>>

(* Every connection whose socket is not in ConnectedState is deleted.      *)
(* Deleting a socket that is still closing aborts it: what it had not sent *)
(* is dropped and disconnected() is emitted from the destructor.           *)
garbageData ==
    /\ http_garbage_timer
    /\ http_connections' =
         [i \in DOMAIN http_connections |->
            IF http_connections[i] # NoClient /\ Stale(http_connections[i])
            THEN NoClient ELSE http_connections[i]]
    /\ sock' = [c \in Client |-> IF Stale(c) THEN "deleted" ELSE sock[c]]
    /\ unsent' = [c \in Client |-> unsent[c] /\ ~Stale(c)]
    /\ conn' = [c \in Client |-> IF Stale(c) THEN [conn[c] EXCEPT !.cgi = 0] ELSE conn[c]]
    /\ app_log' = [c \in Client |->
                     IF sock[c] = "closing" /\ conn[c].websocket
                     THEN Append(app_log[c], "closed") ELSE app_log[c]]
    /\ http_garbage_timer' = (\E c \in Client : sock[c] = "closing")
    /\ UNCHANGED <<conn_id, inbuf, script>>

-----------------------------------------------------------------------------
Next ==
    \/ \E c \in Client :
        \/ newConnectionData(c)
        \/ readyReadData(c)
        \/ PeerClose(c)
        \/ PeerReset(c)
        \/ Flush(c)
        \/ cgiReadyReadData(c)
        \/ cgiFinishedData(c)
        \/ sendSocketMessage(c)
    \/ garbageData

(* What waits in a write buffer is written out, or TCP gives the peer up.  *)
Drain(c) == unsent[c] /\ (Flush(c) \/ PeerReset(c))

(* The event loop runs an armed zero-delay timer, drains the sockets and   *)
(* sees every child process end.  Nothing else is assumed of clients.      *)
Fairness ==
    /\ WF_vars(garbageData)
    /\ \A c \in Client : WF_vars(Drain(c)) /\ WF_vars(cgiFinishedData(c))

Spec == Init /\ [][Next]_vars /\ Fairness
-----------------------------------------------------------------------------
AppSignal == {"open", "message", "closed"}

(* Every variable holds values of its kind. *)
TypeOK ==
    /\ http_connections \in Seq(Client \cup {NoClient})
    /\ http_garbage_timer \in BOOLEAN
    /\ conn_id \in [Client -> Nat]
    /\ conn \in [Client -> Conn]
    /\ sock \in [Client -> {"none", "connected", "closing", "unconnected", "deleted"}]
    /\ inbuf \in [Client -> Seq(Token)]
    /\ unsent \in [Client -> BOOLEAN]
    /\ script \in [Client -> Seq(Token)]
    /\ app_log \in [Client -> Seq(AppSignal)]

(* The table and the connections agree: a connection object that exists    *)
(* stands in exactly the slot it was given as its identifier, and a slot   *)
(* points at no deleted object (newConnectionData(), garbageData()).       *)
TableSound ==
    /\ \A i \in DOMAIN http_connections :
         http_connections[i] # NoClient =>
            Live(http_connections[i]) /\ conn_id[http_connections[i]] = i
    /\ \A c \in Client :
         Live(c) => /\ conn_id[c] \in DOMAIN http_connections
                    /\ http_connections[conn_id[c]] = c

(* An identifier that newSocketConnection() announced and                  *)
(* socketConnectionClosed() did not yet revoke selects the connection it   *)
(* was announced for: no message reaches another client through a slot     *)
(* that was freed and given away (sendSocketMessage()).                    *)
AnnouncedIdIsLive ==
    \A c \in OpenClients :
        /\ conn_id[c] \in DOMAIN http_connections
        /\ http_connections[conn_id[c]] = c

(* A connection whose socket is gone is always followed by a garbage pass, *)
(* also when it went away inside such a pass (disconnectedData()).         *)
GarbageArmed ==
    \A c \in Client : sock[c] = "unconnected" => http_garbage_timer

(* The application hears of every upgraded connection exactly once, and    *)
(* exactly once of its end, whichever of the peer, the parser and the      *)
(* garbage pass ended it; "closed" is never ahead of "open".               *)
ToldOnce(log, upgraded, gone) ==
    /\ "open" \in Range(log) <=> upgraded
    /\ "closed" \in Range(log) <=> upgraded /\ gone
    /\ \A i \in DOMAIN log : log[i] = "open" <=> i = 1
    /\ \A i, j \in DOMAIN log : log[i] = "closed" /\ log[j] = "closed" => i = j

ApplicationToldOnce ==
    \A c \in Client :
        ToldOnce(app_log[c], conn[c].websocket, sock[c] \in {"unconnected", "deleted"})

(* The parse state says the same as the mark on the connection, and a      *)
(* connection that was not made has neither.                               *)
ParserMode ==
    \A c \in Client :
        /\ conn[c].parse = 10 <=> conn[c].websocket = TRUE
        /\ sock[c] = "none" => conn[c].websocket = FALSE

(* The inductive invariant of HttpServer_proof. *)
IInv == TypeOK /\ TableSound /\ GarbageArmed /\ ApplicationToldOnce /\ ParserMode

(* What the application sees of the table is a set of sessions.            *)
OpenSessions == {<<conn_id[c], c>> : c \in OpenClients}

Sessions == INSTANCE SocketSessions WITH sessions <- OpenSessions, ended <- EndedSessions

(* The server implements the sessions: an identifier is never open for two *)
(* clients at a time, a closed one does not come back, and a garbage pass  *)
(* ends all the sessions it deletes.                                       *)
SessionsRefined == Sessions!Spec

(* Every connection that was closed, or is closing, is deleted in the end  *)
(* and its slot is free again (disconnectedData(), garbageData()).         *)
EveryCloseReclaimed ==
    \A c \in Client : sock[c] \in {"closing", "unconnected"} ~> sock[c] = "deleted"

(* A connection on which a CGI script was started is closed once the       *)
(* script ends, however often one was started on it (cgiFinishedData()).   *)
CgiEndsConnection ==
    \A c \in Client : conn[c].cgi > 0 ~> sock[c] # "connected"
=============================================================================
