SPECIFICATION Spec
CONSTANTS
  a1 = a1
  a2 = a2
  b1 = b1
  Opp <- TwoIdeas
  Cat <- CategoryOf
  Rank <- RankOf
  Adjacent <- NextTo
  Capacity = 1
  PerCategory = 1
  MaxShortlist = 1
  SweepAt = 2
  SweepKeep = 1
  StaleCycles = 2
  DiscoverMax = 2
  MaxEdits = 1
  MaxCrashes = 1
INVARIANTS
  CapacityHeld
  TestedIsPublished
  RequestsMatchBoard
PROPERTIES
  DecisionsStick
