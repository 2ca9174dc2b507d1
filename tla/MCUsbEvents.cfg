SPECIFICATION FairSpec
CONSTANTS
    s1 = s1
    loop = loop
    m1 = m1
    home = home
    Syncs = {s1}
    Loopers = {loop}
    Modifiers = {m1}
    Home = home
    MaxCalls = 2
INVARIANTS PollIsFresh
PROPERTIES CallbackIsOwed CallsReturn
CHECK_DEADLOCK FALSE
