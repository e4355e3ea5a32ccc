SPECIFICATION Spec
CONSTANTS
    Cgi = {c1}
    NoCgi = NoCgi
    MaxPolls = 2
    Kind = {"word", "words", "wide", "pair"}
PROPERTIES
    DeletedAfterApplying
CHECK_DEADLOCK FALSE
