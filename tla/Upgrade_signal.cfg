SPECIFICATION Spec
CONSTANTS
    Cgi = {c1}
    NoCgi = NoCgi
    MaxPolls = 2
    Kind = {"word", "words", "wide", "pair"}
INVARIANTS
    HeardMeansComplete
CHECK_DEADLOCK FALSE
