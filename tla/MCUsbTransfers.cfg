SPECIFICATION FairSpec
CONSTANTS
    t1 = t1
    t2 = t2
    Transfers = {t1, t2}
    Uses <- SplitAndControl
    Urbs <- UrbsThree
    MaxTime = 1
    MaxSubmits = 2
INVARIANTS NeverReapsFreed OneCallback NothingLost VerdictHasCause
PROPERTY CalledBack
CHECK_DEADLOCK FALSE
