-------------------------- MODULE WebSocketFrames ---------------------------
(***************************************************************************)
(* One WebSocket connection, byte by byte: the frames a client sends, what *)
(* ReadWebsocket() makes of them, and what the server sends back.          *)
(*                                                                         *)
(* ReadWebsocket() takes all that has arrived for one frame.  A read may   *)
(* hold several frames, of which the first is seen, or end inside a frame. *)
(* In the second case it reads zeros for what is missing, and takes the    *)
(* rest for a new frame later: the first of these steps is modelled, and   *)
(* the connection is not followed further.                                 *)
(***************************************************************************)
EXTENDS FrameCodec, SequencesExt

CONSTANTS
    Scripts,        \* the frames that a client sends, in their order
    AppMessages,    \* what the application may send
    CloseReasons,   \* what it may close the connection with
    MaxSends        \* bound on how often it does either

Bytes   == Seq(Byte)
Message == [op : 0..15, payload : Bytes]
CloseReason == [status : {n \in Nat : n < 65536}, body : Bytes]

(* No payload has 4 GB or more; a QByteArray holds less than 2 GB.         *)
ASSUME ScriptsAssumption ==
    Scripts \subseteq Seq({f \in Frame : Fits(Len(f.payload), f.form)})
ASSUME AppMessagesAssumption ==
    AppMessages \subseteq {m \in [op : {1, 2}, payload : Bytes] : Fits(Len(m.payload), 8)}
ASSUME CloseReasonsAssumption ==
    CloseReasons \subseteq {reason \in CloseReason : Fits(Len(reason.body) + 2, 8)}
ASSUME MaxSendsAssumption == MaxSends \in Nat

Continuation == 0
Close        == 8
Ping         == 9
Pong         == 10

VARIABLES
    script,     \* the frames of the client
    taken,      \* how many of them were read off the socket
    seen,       \* those that ReadWebsocket() looked at
    inStep,     \* every read so far ended where a frame ends
    socket,     \* "open", or "closed" by the server
    app, cntl,  \* the messages that are put together: of data, of control
    delivered,  \* socketMessageReceived(), with the frame that caused it
    closing,    \* the status and the body of the close, as the application hears them
    wire,       \* all the bytes that the server wrote
    promised,   \* the messages that the client should find in them
    sends       \* how often the application has sent

vars == <<script, taken, seen, inStep, socket, app, cntl, delivered, closing,
          wire, promised, sends>>

Init ==
    /\ script \in Scripts
    /\ taken = 0 /\ seen = {} /\ inStep = TRUE
    /\ socket = "open"
    /\ app = [op |-> Close, payload |-> <<>>]
    /\ cntl = [op |-> Close, payload |-> <<>>]
    /\ delivered = <<>>
    /\ closing = <<>>
    /\ wire = <<>> /\ promised = <<>>
    /\ sends = 0

-----------------------------------------------------------------------------
(* The bytes of the next k frames. *)
NextBytes(k) == FlattenSeq([i \in 1..k |-> Encoded(script[taken + i])])

(* A frame as the server sends it. *)
Packet(op, payload) == <<128 + op>> \o LengthBytes(Len(payload)) \o payload

(* Mutant: a ping is put together with the data. *)
LateControlMessage(op) == op > Ping

isControlMessage(op) == op >= Close

(* Mutant: the payload of the message before is kept. *)
KeptBegun(opcode, old) == IF opcode = Continuation THEN old ELSE [old EXCEPT !.op = opcode]

Begun(opcode, old) ==
    IF opcode = Continuation THEN old ELSE [op |-> opcode, payload |-> <<>>]

(* The body is handed on as a C string. *)
CString(bytes) ==
    LET zero == SelectInSeq(bytes, LAMBDA b : b = 0)
    IN IF zero = 0 THEN bytes ELSE SubSeq(bytes, 1, zero - 1)

(* What ReadWebsocket() does when data has arrived; a malformed frame      *)
(* closes the socket, and is looked at like any other.                     *)
Disposition(data) ==
    LET opcode  == OpCode(data)
        control == isControlMessage(opcode)
        old     == IF control THEN cntl ELSE app
        msg     == [Begun(opcode, old) EXCEPT !.payload = @ \o Payload(data)]
        open    == Extension(data) = 0 /\ Masked(data)
        Send(packet) == wire' = IF open THEN wire \o packet ELSE wire
    IN /\ app' = IF control THEN app ELSE msg
       /\ cntl' = IF control THEN msg ELSE cntl
       /\ delivered' = IF msg.op \in 1..7 /\ Finished(data)
                       THEN Append(delivered, [frame |-> taken + 1, message |-> msg])
                       ELSE delivered
       /\ closing' = IF msg.op = Close /\ Len(msg.payload) >= 2
                     THEN [status |-> 256 * msg.payload[1] + msg.payload[2],
                           body |-> CString(SubSeq(msg.payload, 3, Len(msg.payload)))]
                     ELSE closing
       /\ CASE msg.op = Close -> Send(Packet(Close, msg.payload))
            [] msg.op = Ping  -> Send(Packet(Pong, msg.payload))
            [] OTHER          -> UNCHANGED wire
       /\ socket' = IF open /\ msg.op # Close THEN "open" ELSE "closed"

(* What the client can expect for a frame. *)
WellFormed(f) == f.ext = 0 /\ f.key # <<>>

Answer(f) ==
    IF WellFormed(f) /\ f.op \in {Ping, Close}
    THEN <<[op |-> IF f.op = Ping THEN Pong ELSE Close, payload |-> f.payload]>>
    ELSE <<>>

(* n bytes have arrived; what the client has sent may be more.             *)
ReadWebsocket ==
    /\ socket = "open" /\ inStep
    /\ LET rest == NextBytes(Len(script) - taken)
       IN \E n \in 1..Len(rest) :
            LET whole == {k \in 0..(Len(script) - taken) : Len(NextBytes(k)) <= n}
                k     == Max(whole)
            IN /\ Disposition(SubSeq(rest, 1, n))
               /\ taken' = taken + k
               /\ seen' = IF k > 0 THEN seen \cup {taken + 1} ELSE seen
               /\ inStep' = (Len(NextBytes(k)) = n)
               /\ promised' = IF k > 0 THEN promised \o Answer(script[taken + 1])
                              ELSE promised
    /\ UNCHANGED <<script, sends>>

-----------------------------------------------------------------------------
(* The application sends, at any time while the connection is open. *)
Send(op, payload) ==
    /\ socket = "open" /\ inStep
    /\ sends < MaxSends
    /\ sends' = sends + 1
    /\ wire' = wire \o Packet(op, payload)
    /\ promised' = Append(promised, [op |-> op, payload |-> payload])
    /\ UNCHANGED <<script, taken, seen, inStep, socket, app, cntl, delivered, closing>>

sendSocketMessage(m) == Send(m.op, m.payload)

(* The socket stays open until the client answers. *)
closeSocketConnection(reason) ==
    Send(Close, <<reason.status \div 256, reason.status % 256>> \o reason.body)

Next ==
    \/ ReadWebsocket
    \/ \E m \in AppMessages : sendSocketMessage(m)
    \/ \E reason \in CloseReasons : closeSocketConnection(reason)

Spec == Init /\ [][Next]_vars

-----------------------------------------------------------------------------
(* Every variable holds values of its kind. *)
TypeOK ==
    /\ script \in Scripts
    /\ taken \in 0..Len(script) /\ seen \subseteq 1..taken
    /\ inStep \in BOOLEAN /\ socket \in {"open", "closed"}
    /\ app \in Message /\ cntl \in Message
    /\ delivered \in Seq([frame : 1..Len(script), message : Message])
    /\ closing = <<>> \/ closing \in CloseReason
    /\ wire \in Bytes /\ promised \in Seq(Message)
    /\ sends \in 0..MaxSends

(* The fragments of the message that frame j ends or goes on with: the     *)
(* last data frame that begins a message, and the continuations after it.  *)
Data(k) == script[k].op < Close

Fragments(j) ==
    {k \in 1..j : Data(k) /\ \A i \in (k + 1)..j : Data(i) => script[i].op = Continuation}

(* Frame j ends a message of which ReadWebsocket() saw every frame.        *)
SeenWhole(j) ==
    /\ Data(j) /\ Fragments(j) \subseteq seen
    /\ \A k \in Fragments(j) : WellFormed(script[k]) /\ (script[k].fin <=> k = j)
    /\ \E k \in Fragments(j) : script[k].op # Continuation

Sent(j) ==
    [op |-> script[Min(Fragments(j))].op,
     payload |-> FlattenSeq([k \in 1..j |-> IF k \in Fragments(j) THEN script[k].payload
                                            ELSE <<>>])]

(* A message none of whose frames shared a read with an earlier one is     *)
(* delivered once, when its last frame is read, as the client sent it:     *)
(* whatever was swallowed before it, whatever control frames stand between *)
(* its fragments, and in whatever form its lengths are written.  Nothing   *)
(* is delivered twice or out of order, and nothing for a control frame.    *)
(* The status and the body of a close are those that the client gave.      *)
DeliveredAsSent ==
    inStep =>
      /\ \A j \in 1..taken : SeenWhole(j) =>
            \E d \in ToSet(delivered) : d.frame = j /\ d.message = Sent(j)
      /\ \A i \in DOMAIN delivered :
            /\ delivered[i].frame \in seen /\ Data(delivered[i].frame)
            /\ \A k \in 1..(i - 1) : delivered[k].frame < delivered[i].frame
      /\ \A j \in seen : WellFormed(script[j]) /\ script[j].op = Close
                                              /\ Len(script[j].payload) >= 2 =>
            closing = [status |-> 256 * script[j].payload[1] + script[j].payload[2],
                       body |-> CString(SubSeq(script[j].payload, 3, Len(script[j].payload)))]

(* A packet that begins with byte i, as the RFC reads it: how many bytes   *)
(* hold its length, and the first and the last byte of its payload.        *)
FormAt(bytes, i) ==
    IF bytes[i + 1] < 126 THEN 0 ELSE IF bytes[i + 1] = 126 THEN 2 ELSE 8

FirstAt(bytes, i) == i + 2 + FormAt(bytes, i)

LastAt(bytes, i) == FirstAt(bytes, i) + RfcLength(SubSeq(bytes, i + 1, Len(bytes))) - 1

CutOff(bytes, i) ==
    i = Len(bytes) \/ FirstAt(bytes, i) > Len(bytes) + 1 \/ LastAt(bytes, i) > Len(bytes)

(* What the client reads from byte i on, when from[k] is what it reads     *)
(* from a later byte k on.                                                 *)
ReadFrom(bytes, from, i) ==
    IF i > Len(bytes) THEN <<>>
    ELSE IF CutOff(bytes, i) THEN <<[op |-> bytes[i], payload |-> <<>>]>>
    ELSE <<[op |-> bytes[i] - 128,
            payload |-> SubSeq(bytes, FirstAt(bytes, i), LastAt(bytes, i))]>>
         \o from[LastAt(bytes, i) + 1]

(* The messages that a client which follows the RFC reads from the bytes   *)
(* of the server.                                                          *)
RfcMessages(bytes) ==
    LET from[i \in Nat \ {0}] == ReadFrom(bytes, from, i)
    IN from[1]

(* A continuation was seen before any other data: app still has the kind   *)
(* it was made with, and the code takes the frame for a close.             *)
Orphan ==
    \E j \in seen : /\ script[j].op = Continuation
                    /\ \A k \in seen : k < j => ~Data(k)

(* The client reads from the bytes of the server, in order, an answer with *)
(* the same payload to every ping and close that the server saw, and every *)
(* message that the application sent, of any length.  One connection is    *)
(* excepted: that on which a continuation came first.                      *)
ReceivedAsSent == inStep /\ ~Orphan => RfcMessages(wire) = promised
=============================================================================
