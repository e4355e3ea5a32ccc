SPECIFICATION Spec
CONSTANTS
    u1 = u1
    u2 = u2
    p1 = p1
    p2 = p2
    User = {u1, u2}
    Password = {p1, p2}
    MaxSections = 3
    InitialFiles <- SomeFiles
INVARIANTS
    TypeOK
    ViewIsCurrent
PROPERTIES
    RewriteIsExact
