SPECIFICATION Spec
CONSTANTS
    t1 = t1
    t2 = t2
    Transfers = {t1, t2}
    Uses <- SplitAndControl
    Urbs <- UrbsThree
    MaxTime = 1
    MaxSubmits = 2
INVARIANTS RestWaited
CHECK_DEADLOCK FALSE
