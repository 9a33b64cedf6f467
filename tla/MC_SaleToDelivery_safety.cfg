SPECIFICATION FairSpec
CONSTANTS
  w1 = w1
  w2 = w2
  h1 = h1
  h2 = h2
  p1 = p1
  p2 = p2
  NoKey = NoKey
  Pay <- TwoPayments
  NoRef <- OnePayment
  Key <- SaleKey
  MaxCycles = 1
  Worker <- OneWorker
  Human <- OneHuman
  MayCrash <- Nobody
  MaxOverlaps = 0
  AutoDelivery = TRUE
  Reaccept = FALSE
  Measured = TRUE
  MaxTasks = 4
  MaxAttempts = 2
  RetryBase = 1
  RetryCap = 0
  LeaseTime = 0
  MaxDelay = 0
INVARIANTS
  DeliverPerPayment
  SentOnce
  RecordMatchesOutbox
  NoTractionUnsold
  OneCheckUnderWay
PROPERTIES
  BookedSettles
