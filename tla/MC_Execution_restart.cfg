SPECIFICATION FairSpec
CONSTANTS
  w1 = w1
  w2 = w2
  h1 = h1
  h2 = h2
  NoKey = NoKey
  Worker <- OneWorker
  Human <- OneHuman
  MayCrash <- Everybody
  Overlap = FALSE
  Key <- PageAndStrays
  MaxTasks = 2
  MaxAttempts = 2
  RetryBase = 2
  RetryCap = 1
  LeaseTime = 0
  MaxDelay = 0
INVARIANTS
  AbandonedIsQuiet
PROPERTIES
  ChainSettles
  AbandonedStays
