SPECIFICATION Spec
CONSTANTS
    NumChannels = 2
    Drafts <- LastChannel
    MinRounds = 1
    Cooldown = 2
    MaxVariants = 2
    MinCycles = 2
    MaxScalings = 1
    MinSeries = 2
    SeriesCap = 3
    MaxMeasured = 3
    MaxDeaths = 1
    MaxTasks = 6
    Key <- Ids
    NoKey = 0
    MaxAttempts = 1
    RetryBase = 1
    RetryCap = 0
    LeaseTime = 0
    MaxDelay = 0
INVARIANTS VariantsSpaced SucceededIsRecorded ScalingsBounded FanOutComplete
