SPECIFICATION DesktopSpec
CONSTANTS
    FailureLimit = 2
    TotalLimit = 3
    StreakBudget = 2
    Waiters <- Both
    Scenes <- SafetyScenes
    Buffer <- Buffers
    MaxTime = 0
    LogTime = 4
    MaxEvaluations = 7
    Queries <- AllQueries
    Fallback = 2
    Window = 3
    MaxUint = 11
    Channels = 2
    Unanswered = Unanswered
    Questions <- AllQuestions
    Slack = 4
    IdBytes = 3
    Frame = 5
    Waits <- AllWaits
    Contents <- Shown
    MaxRounds = 5
    Base = 10
    Cap = 50
    Callers = {c1, c2, c3}
    Geometries = {"s", "l"}
    MaxConns = 3
    Tasks <- AllTasks
    MinInt <- Least
    MaxInt = 2
    DesktopChanges = 3
    MaxRepaints = 3
    Refused = Refused
    NotFound = NotFound
    None = None
    Nil = Nil
INVARIANTS
    WakeupsAreExact
    VerdictFollowsReadings
    SearchesAreExact
    AnswersAreExact
    WaitsAreTrue
    GivesUpExactly
    CapturesAreExact
    DispatchesAreExact
CHECK_DEADLOCK FALSE
