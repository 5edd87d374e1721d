SPECIFICATION Spec
CONSTANTS
    Valid = {r1, r2}
    Malformed = {bad}
    Oversized = {huge}
    MaxConnections = 1
    MaxFrames = 3
    IdleLimit = 1
INVARIANTS
    DispatchedInOrder
    NoRequestLeftBehind
PROPERTIES
    DeadConnectionsAreClosed
CHECK_DEADLOCK FALSE
