------------------------------ MODULE CgiRelay ------------------------------
(***************************************************************************)
(* How WHHttpConnection runs one CGI script and relays what it prints:     *)
(* startCgiScript() and the four slots connected to the QProcess.          *)
(*                                                                         *)
(* The output of a script is a sequence of pieces, known by their position *)
(* in it: the chunks in which it arrives are not those in which it is      *)
(* read.  Pieces read+1 .. written wait in the QProcess.                   *)
(***************************************************************************)
EXTENDS Integers, Sequences, SequencesExt, FiniteSets

CONSTANT Outputs    \* what scripts may print

(* A header line; one in two parts, of which the second may be the line    *)
(* end alone; an empty line; text.                                         *)
Piece == {"header", "part", "rest", "newline", "blank", "text"}

ASSUME OutputsAssumption == Outputs \subseteq Seq(Piece)

VARIABLES
    output,     \* what the script prints
    verdict,    \* how it ends
    post,       \* the method is POST: the script is sent the body
    proc,       \* the state of conn_cgi_process
    written,    \* pieces that the script has written
    read,       \* pieces that the server has read
    conn_cgi_headers_active,
    conn_cgi_headers,
    sock,       \* conn_socket
    sent        \* what was written to conn_socket

script == <<output, verdict, post>>
relay  == <<read, conn_cgi_headers_active, conn_cgi_headers>>
vars   == <<script, proc, written, relay, sock, sent>>

Status(code) == [t |-> "status", code |-> code]
At(i)        == [t |-> "piece", code |-> i]
End          == [t |-> "end", code |-> 0]
Item         == [t : {"status", "piece", "end"}, code : Nat]

Upto(i, j) == [k \in 1..(IF j < i THEN 0 ELSE j - i + 1) |-> At(i + k - 1)]

(* startCgiScript() *)
Init ==
    /\ output \in Outputs
    /\ verdict \in {"ok", "nonzero", "crash", "no program"}
    /\ post \in BOOLEAN
    /\ proc = "starting"
    /\ written = 0 /\ read = 0
    /\ conn_cgi_headers_active = TRUE
    /\ conn_cgi_headers = <<>>
    /\ sock = "open"
    /\ sent = <<>>

(* Writing to a socket that was closed has no effect. *)
Write(items) == sent' = IF sock = "open" THEN sent \o items ELSE sent

-----------------------------------------------------------------------------
(* What one readLine() takes of the pieces up to w: a line, or the part of *)
(* one that is there, or nothing.                                          *)
LineLength(w) ==
    CASE w = read -> 0
      [] w > read + 1 /\ output[read + 1] = "part" -> 2
      [] OTHER -> 1

(* It is empty once trimmed. *)
EmptyLine(w) ==
    w = read \/ (LineLength(w) = 1 /\ output[read + 1] \in {"blank", "newline"})

(* Mutant: what follows the empty line in the same chunk is dropped. *)
DroppingRelay(w) ==
    IF conn_cgi_headers_active /\ ~EmptyLine(w)
    THEN /\ conn_cgi_headers' = conn_cgi_headers \o Upto(read + 1, read + LineLength(w))
         /\ read' = read + LineLength(w)
         /\ UNCHANGED <<conn_cgi_headers_active, sent>>
    ELSE /\ Write(IF conn_cgi_headers_active
                  THEN <<Status(200)>> \o conn_cgi_headers \o <<End>>
                  ELSE Upto(read + 1, w))
         /\ conn_cgi_headers_active' = FALSE
         /\ read' = w
         /\ UNCHANGED conn_cgi_headers

(* Mutant: a line is taken for read although there was none. *)
BlindRelay(w) ==
    /\ conn_cgi_headers_active' = FALSE
    /\ read' = read + 1
    /\ Write(Upto(read + 1, w))
    /\ UNCHANGED conn_cgi_headers

(* The body of cgiReadyReadData(): one header line is read each time,      *)
(* until one is empty; then everything is relayed that has arrived.        *)
Relay(w) ==
    CASE conn_cgi_headers_active /\ ~EmptyLine(w) ->
           /\ conn_cgi_headers' = conn_cgi_headers \o Upto(read + 1, read + LineLength(w))
           /\ read' = read + LineLength(w)
           /\ UNCHANGED <<conn_cgi_headers_active, sent>>
      [] conn_cgi_headers_active /\ EmptyLine(w) ->
           /\ Write(<<Status(200)>> \o conn_cgi_headers \o <<End>>
                      \o Upto(read + 1 + LineLength(w), w))
           /\ conn_cgi_headers_active' = FALSE
           /\ read' = w
           /\ UNCHANGED conn_cgi_headers
      [] ~conn_cgi_headers_active ->
           /\ Write(Upto(read + 1, w))
           /\ read' = w
           /\ UNCHANGED <<conn_cgi_headers_active, conn_cgi_headers>>

(* sendError() *)
sendError == Write(<<Status(500)>>)

Close == sock' = IF sock = "open" THEN "closed" ELSE sock

-----------------------------------------------------------------------------
(* The program was started; cgiStartedData() writes the request body.      *)
cgiStartedData ==
    /\ proc = "starting" /\ verdict # "no program"
    /\ proc' = "running"
    /\ UNCHANGED <<script, written, relay, sock, sent>>

(* A chunk arrives and readyReadStandardOutput() is emitted once for it.   *)
cgiReadyReadData ==
    /\ proc = "running"
    /\ \E w \in (written + 1)..Len(output) : written' = w /\ Relay(w)
    /\ UNCHANGED <<script, proc, sock>>

(* Mutant: the socket is left to the finished() signal. *)
LeavingErrorData ==
    /\ \/ proc = "starting" /\ verdict = "no program" /\ proc' = "ended"
       \/ proc = "running" /\ verdict = "crash" /\ proc' = "crashed"
       \/ proc = "running" /\ post /\ UNCHANGED proc
    /\ sendError
    /\ UNCHANGED <<script, written, relay, sock>>

(* FailedToStart; Crashed, before the finished() of the same process;      *)
(* WriteError, when the script closes its input before it has the body.    *)
cgiErrorData ==
    /\ \/ proc = "starting" /\ verdict = "no program" /\ proc' = "ended"
       \/ proc = "running" /\ verdict = "crash" /\ proc' = "crashed"
       \/ proc = "running" /\ post /\ UNCHANGED proc
    /\ sendError /\ Close
    /\ UNCHANGED <<script, written, relay>>

(* Mutant: the exit code is not looked at. *)
TrustingFinishedData ==
    /\ \/ proc = "running" /\ verdict \in {"ok", "nonzero"} /\ written = Len(output)
       \/ proc = "crashed"
    /\ proc' = "ended"
    /\ Relay(written)
    /\ Close
    /\ UNCHANGED <<script, written>>

(* A script that crashes may have output that it did not write. *)
cgiFinishedData ==
    /\ \/ proc = "running" /\ verdict \in {"ok", "nonzero"} /\ written = Len(output)
       \/ proc = "crashed"
    /\ proc' = "ended"
    /\ IF verdict = "ok" THEN Relay(written) ELSE sendError /\ UNCHANGED relay
    /\ Close
    /\ UNCHANGED <<script, written>>

(* The client closes its end; the garbage timer deletes the connection and *)
(* with it the QProcess (see HttpServer).                                  *)
PeerClose ==
    /\ sock = "open"
    /\ sock' = "gone"
    /\ proc' = "ended"
    /\ UNCHANGED <<script, written, relay, sent>>

Next ==
    \/ cgiStartedData \/ cgiReadyReadData \/ cgiErrorData \/ cgiFinishedData
    \/ PeerClose

(* A script that was started goes on, ends, and the event loop sees it.    *)
Fairness ==
    /\ WF_vars(cgiStartedData) /\ WF_vars(cgiReadyReadData) /\ WF_vars(cgiFinishedData)
    /\ WF_vars(cgiErrorData /\ proc' # proc)

Spec == Init /\ [][Next]_vars /\ Fairness

-----------------------------------------------------------------------------
(* Every variable holds values of its kind. *)
TypeOK ==
    /\ output \in Outputs
    /\ verdict \in {"ok", "nonzero", "crash", "no program"}
    /\ post \in BOOLEAN
    /\ proc \in {"starting", "running", "crashed", "ended"}
    /\ written \in 0..Len(output) /\ read \in 0..written
    /\ conn_cgi_headers_active \in BOOLEAN
    /\ conn_cgi_headers \in Seq(Item)
    /\ sock \in {"open", "closed", "gone"}
    /\ sent \in Seq(Item)

(* What the script prints reaches the client in the order in which it was  *)
(* printed and no piece of it twice, however it falls into chunks.  Once   *)
(* the headers are out, nothing that was read is held back or lost but the *)
(* one empty line that ended them: while the connection is open, and also  *)
(* by the last relay in cgiFinishedData(), which closes it.  A client that *)
(* went away or was told of an error is promised no more.                  *)
RelayedOnce ==
    /\ \A i, j \in DOMAIN sent :
          i < j /\ sent[i].t = "piece" /\ sent[j].t = "piece" => sent[i].code < sent[j].code
    /\ ~conn_cgi_headers_active /\ sock # "gone" /\ Status(500) \notin ToSet(sent) =>
          LET missing == {i \in 1..read : At(i) \notin ToSet(sent)}
          IN Cardinality(missing) <= 1 /\ \A i \in missing : output[i] \in {"blank", "newline"}

(* A failure of the script is reported to a client that is still there:    *)
(* also when it had been relayed in part, and when error() and finished()  *)
(* are both emitted for it.                                                *)
FailureIsReported ==
    proc = "ended" /\ verdict # "ok" /\ sock # "gone" => Status(500) \in ToSet(sent)

(* The error response is the last thing written, and a response to a       *)
(* script that printed comes first.                                        *)
ErrorIsLast ==
    \A i \in DOMAIN sent : /\ sent[i] = Status(500) => i = Len(sent)
                           /\ sent[i] = Status(200) => i = 1

(* Whatever the script does, the connection is closed in the end.          *)
ConnectionEnds == <>(sock # "open")

(* A script that printed its headers and an empty line and returned zero   *)
(* is answered: WHCgiApplication::exit() prints two headers and relies on  *)
(* it.                                                                     *)
ScriptIsAnswered ==
    /\ proc = "ended" /\ verdict = "ok" /\ ~post /\ sock # "gone"
    /\ "blank" \in ToSet(output)
    => Status(200) \in ToSet(sent)
=============================================================================
