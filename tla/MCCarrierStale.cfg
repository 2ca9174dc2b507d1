SPECIFICATION Spec
CONSTANTS Timeout = 2
          Sleep = 4
          MaxCalls = 3
INVARIANT PassMeansSensed
CHECK_DEADLOCK FALSE
