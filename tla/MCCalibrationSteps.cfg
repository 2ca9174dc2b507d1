SPECIFICATION Spec
CONSTANTS Boards <- MCBoards
          Coarse = 5
          Fine = 1
          MaxLost = 0
          MaxCalls = 2
INVARIANTS AdjustableIsAdjusted
CHECK_DEADLOCK FALSE
