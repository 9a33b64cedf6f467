CONSTANTS
    k1 = k1
    k2 = k2
    NoKey = NoKey
    Key <- MCKey
    Request <- MCRequests
    MaxTasks = 2
    MaxAttempts = 4
    RetryBase = 1
    RetryCap = 2
    LeaseTime = 1
    MaxDelay = 1
SPECIFICATION FairSpec
INVARIANTS TypeOK DependenciesFirst OneTaskPerKey ClosedGateHolds
PROPERTIES GateOpensByRelease ImplementsContract Settles FailurePropagates
