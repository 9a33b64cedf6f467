SPECIFICATION Spec
CONSTANTS
    l1 = l1
    l2 = l2
    c1 = c1
    c2 = c2
    Link = {l1, l2}
    Commission = {c1, c2}
    LinkOf <- BothThrough1
    Ref = {r1, r2}
    Handler = {t1, t2}
    None = None
    MaxClicks = 2
    MaxCrashes = 1
INVARIANTS ClicksAccounted ConversionsAccounted CountsOnce ReversalReported
SYMMETRY Interchangeable
CHECK_DEADLOCK FALSE
