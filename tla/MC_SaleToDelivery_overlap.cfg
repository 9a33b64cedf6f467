SPECIFICATION Spec
CONSTANTS
  w1 = w1
  w2 = w2
  h1 = h1
  h2 = h2
  p1 = p1
  p2 = p2
  NoKey = NoKey
  Pay <- OnePayment
  NoRef <- Nobody
  Key <- SaleKey
  MaxCycles = 1
  Worker <- TwoWorkers
  Human <- OneHuman
  MayCrash <- Everybody
  MaxOverlaps = 2
  AutoDelivery = TRUE
  Reaccept = TRUE
  Measured = FALSE
  MaxTasks = 4
  MaxAttempts = 1
  RetryBase = 1
  RetryCap = 0
  LeaseTime = 0
  MaxDelay = 0
SYMMETRY WorkerSymmetry
INVARIANTS
  EarnedOnly
  NoSecondDeliver
