SPECIFICATION Spec
CONSTANTS
  w1 = w1
  w2 = w2
  h1 = h1
  h2 = h2
  NoKey = NoKey
  Worker <- OneWorker
  Human <- OneHuman
  MayCrash <- OneWorker
  Overlap = FALSE
  Key <- LifecycleChain
  MaxTasks = 5
  MaxAttempts = 2
  RetryBase = 1
  RetryCap = 0
  LeaseTime = 1
  MaxDelay = 0
INVARIANTS
  LiveWhenDeployed
