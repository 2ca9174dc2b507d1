SPECIFICATION Spec
CONSTANTS Boards <- MCBoards
          Coarse = 5
          Fine = 1
          MaxLost = 1
          MaxCalls = 3
INVARIANTS PassMeansCalibrated PassesAgain LeftProtected
CHECK_DEADLOCK FALSE
