---------------------------- MODULE MCHttpServer ----------------------------
(* Model values and scripts for checking HttpServer with TLC. *)
EXTENDS HttpServer, TLC

Request(method, source, minor) ==
    [t |-> "request", method |-> method, source |-> source, minor |-> minor]
Hdr(name)      == [t |-> "header", name |-> name, ok |-> TRUE, len |-> 0]
BadHdr(name)   == [t |-> "header", name |-> name, ok |-> FALSE, len |-> 0]
ManyColons     == [t |-> "header", name |-> "host", ok |-> FALSE, len |-> 1]
BodyLength(n)  == [t |-> "header", name |-> "content-length", ok |-> TRUE, len |-> n]
Blank          == [t |-> "blank"]
Text           == [t |-> "text"]
WsFrame(op)    == [t |-> "frame", op |-> op, ok |-> TRUE]
BadFrame(op)   == [t |-> "frame", op |-> op, ok |-> FALSE]

Upgrade == <<Request("GET", "socket", 1), Hdr("host"), Hdr("upgrade"),
             Hdr("sec-websocket-key"), Blank>>

(* A session that pings, talks and closes; one that forgets the key first  *)
(* and then breaks the protocol.                                           *)
Chat   == Upgrade \o <<WsFrame("ping"), WsFrame("text"), WsFrame("close")>>
Rude   == <<Request("GET", "socket", 1), Hdr("host"), Hdr("upgrade"), Blank,
            Hdr("sec-websocket-key"), Blank, BadFrame("text"), WsFrame("other")>>
(* An upgrade by sub-protocol from HTTP/1.0, without a Host header.        *)
OldChat == <<Request("GET", "cgi", 0), Hdr("upgrade"), Hdr("sec-websocket-protocol"),
             Hdr("sec-websocket-key"), Blank, Text>>
(* A request for a script that authenticates after the blank line only,    *)
(* and asks again.                                                         *)
Script  == <<Request("GET", "cgi", 1), Hdr("host"), Blank, Hdr("authorization"), Blank, Blank>>
Post    == <<Request("POST", "cgi", 1), Hdr("host"), Hdr("authorization"),
             BodyLength(1), Blank, Text, Text>>
Negative == <<Request("POST", "cgi", 1), Hdr("host"), BodyLength(-1), Blank, Text>>
(* Requests that are refused at one point or another.                      *)
NoRequest == <<Text, Request("PUT", "static", 1), Request("GET", "static", 2),
               Request("GET", "static", 0), Blank>>
Refused == <<Request("HEAD", "cgi", 1), BadHdr("host"), Blank, Hdr("host"),
             BadHdr("content-length"), ManyColons, Blank>>
HeadUpgrade == <<Request("HEAD", "socket", 1), Hdr("host"), Hdr("upgrade"),
                 Hdr("sec-websocket-key"), Blank>>

(* A script is started, then the same connection is upgraded.              *)
Both    == <<Request("GET", "cgi", 0), Hdr("authorization"), Blank, Hdr("upgrade"),
             Hdr("sec-websocket-protocol"), Hdr("sec-websocket-key"), Blank>>

AllScripts  == {Both, Chat, Rude, OldChat, Script, Post, Negative, NoRequest, Refused,
                HeadUpgrade}
=============================================================================
