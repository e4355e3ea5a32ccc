SPECIFICATION Spec
CONSTANTS
    Forms <- SomeForms
    Filenames = {"one", "two"}
    PipeSize = 16
INVARIANTS
    TypeOK
    FormAsSent
    NothingLeftOnDisk
PROPERTY
    FormIsProcessed
CHECK_DEADLOCK FALSE
