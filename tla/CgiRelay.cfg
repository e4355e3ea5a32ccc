SPECIFICATION Spec
CONSTANT Outputs <- AllOutputs
INVARIANTS
    TypeOK
    RelayedOnce
    FailureIsReported
    ErrorIsLast
PROPERTY
    ConnectionEnds
CHECK_DEADLOCK FALSE
