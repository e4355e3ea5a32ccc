--------------------------- MODULE SocketSessions ---------------------------
(***************************************************************************)
(* What WHHttpServer promises an application about its WebSocket           *)
(* connections, through newSocketConnection() and                          *)
(* socketConnectionClosed(): a session is a pair of an identifier and a    *)
(* client.  An identifier names one client at a time and may be used again *)
(* after its session ended; a client has one session.                      *)
(***************************************************************************)
VARIABLES
    sessions,   \* the pairs <<identifier, client>> announced and not ended
    ended       \* the clients whose session has ended

vars == <<sessions, ended>>

Init == sessions = {} /\ ended = {}

Open(p) ==
    /\ p[2] \notin ended
    /\ \A q \in sessions : q[1] # p[1] /\ q[2] # p[2]
    /\ sessions' = sessions \cup {p}
    /\ UNCHANGED ended

(* One pass of the garbage timer may end several sessions. *)
Close(gone) ==
    /\ gone \subseteq sessions
    /\ sessions' = sessions \ gone
    /\ ended' = ended \cup {p[2] : p \in gone}

Next ==
    \/ \E p \in sessions' \ sessions : Open(p)
    \/ Close(sessions \ sessions')

Spec == Init /\ [][Next]_vars
=============================================================================
