SPECIFICATION Spec
CONSTANTS
  c1 = c1
  c2 = c2
  p1 = p1
  p2 = p2
  o1 = o1
  o2 = o2
  Cand <- One
  Pay = {p1, p2}
  PaidFor <- MCPaidFor
  Order = {o1}
  CaptureOf <- MCCaptureOf
  Goal <- Researching
  ShortlistN = 1
  Target = 3
  MaxCycles = 3
  MaxRuns = 1
  MaxDeaths = 1
  MaxImports = 2
  MaxDrafts = 2
INVARIANTS GatesHeld MailsAreDue
PROPERTIES NeverDowngraded
