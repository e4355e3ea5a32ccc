SPECIFICATION Spec
CONSTANTS
    RespawnDelay = 1
    KillInterval = 3
    MaxRestarts = 3
INVARIANTS
    TypeOK
    SingleService
    TermIsFollowedUp
PROPERTIES
    Respawned
    RestartReplaces
