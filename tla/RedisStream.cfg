SPECIFICATION Spec
CONSTANTS
    NoStream = NoStream
    Stream = {events}
    InitStart <- MCStart
    StreamTTL = {events}
    Concurrency = 2
    BatchSize = 2
    MaxEntry = 3
    MaxStart = 2
INVARIANTS ReplayComplete OldOnce NothingVanishes
PROPERTIES Heard
CHECK_DEADLOCK FALSE
