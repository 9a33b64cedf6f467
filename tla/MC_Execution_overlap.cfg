SPECIFICATION Spec
CONSTANTS
  w1 = w1
  w2 = w2
  h1 = h1
  h2 = h2
  NoKey = NoKey
  Worker <- TwoWorkers
  Human <- OneHuman
  MayCrash <- Nobody
  Overlap = TRUE
  Key <- BuildAndDeploy
  MaxTasks = 3
  MaxAttempts = 1
  RetryBase = 1
  RetryCap = 0
  LeaseTime = 1
  MaxDelay = 0
SYMMETRY WorkerSymmetry
INVARIANTS
  EveryCopySound
  DeployOnlyReleased
