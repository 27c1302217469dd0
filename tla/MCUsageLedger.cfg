CONSTANTS
    Users = {u1, u2}
    BatchLimit = 1
    OutboxBudget = 2
    MaxBytes = 1
    MaxRuntime = 2
    MaxClock = 3
    MaxRestore = 1
    Minute = 2
    Day = 6
    DayStarts <- MCDayStarts
    MonthStarts <- MCMonthStarts
    Retention = 12
    Slack = 1
    CleanLimit = 1
SPECIFICATION FairSpec
INVARIANTS
    ExactlyOnce
    BytesConserved
    LossIsMarked
    RetainedUntilCommitted
    FinalBeforeBaseline
    QueriesAreExact
PROPERTIES
    HoleIsNeverSkipped
    BatchesDrain
CHECK_DEADLOCK FALSE
