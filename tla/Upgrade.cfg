SPECIFICATION Spec
CONSTANTS
    Cgi = {c1, c2}
    NoCgi = NoCgi
    MaxPolls = 2
    Kind = {"word", "words", "wide", "pair"}
INVARIANTS
    TypeOK
    PackageIsKept
    NothingLeftBehind
PROPERTIES
    AppliedIsReclaimed
    CgiFinishes
CHECK_DEADLOCK FALSE
