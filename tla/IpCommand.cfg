SPECIFICATION Spec
CONSTANTS
    a1 = a1
    a2 = a2
    Address = {a1, a2}
    None = None
    Orders <- SomeOrders
INVARIANTS
    TypeOK
    IpTakesEffect
    ShownAsCommanded
    NothingRefused
