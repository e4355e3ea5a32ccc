SPECIFICATION Spec
CONSTANTS
    c1 = c1
    c2 = c2
    Client = {c1, c2}
    NoClient = NoClient
    Scripts <- AllScripts
    Protected = {"cgi"}
INVARIANTS
    TypeOK
    TableSound
    AnnouncedIdIsLive
    GarbageArmed
    ApplicationToldOnce
PROPERTIES
    SessionsRefined
    EveryCloseReclaimed
    CgiEndsConnection
CHECK_DEADLOCK FALSE
