SPECIFICATION AtspiSpec
CONSTANTS
    Nil = Nil
    Null = Null
    Desk = "desk"
    AppRoots = {"a", "b"}
    Inner = {"w", "g"}
    Bus <- MCBus
    Readers = {"c"}
    MaxTracked = 3
    MaxNodes = 4
    MaxDepth = 3
    Callers = {"c1", "c2", "c3"}
    Strict = {"c1"}
    Families <- OneFamily
    Required = {"f"}
    Buffer = 1
    RetryLimit = 1
    Parts = {"observations", "events"}
    Worlds <- AllWorlds
    Scenes <- AllScenes
INVARIANTS
    SnapshotsAreCurrent
    HandlesKeepTheirObject
    RegistrationsMatchRuns
    StreamsAreExact
    CancellationIsPrivate
CHECK_DEADLOCK FALSE
