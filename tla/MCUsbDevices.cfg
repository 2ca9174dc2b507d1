SPECIFICATION FairSpec
CONSTANTS
    theHub = theHub
    theStick = theStick
    c1 = c1
    Devices = {theHub, theStick}
    Parent <- Tree
    Callbacks = {c1}
    Driven = {theStick}
    MaxPlugs = 1
    MaxLists = 1
    MaxTransfers = 1
INVARIANTS RefsCounted MessagesAlive ListTracksBus ExitFreesAll
PROPERTY DeparturesHeard
CHECK_DEADLOCK FALSE
