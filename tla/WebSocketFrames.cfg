SPECIFICATION Spec
CONSTANTS
    ByteXor <- BitXor
    Scripts <- SomeScripts
    AppMessages <- SomeMessages
    CloseReasons <- SomeReasons
    MaxSends = 2
CHECK_DEADLOCK FALSE
INVARIANTS
    TypeOK
    DeliveredAsSent
    ReceivedAsSent
