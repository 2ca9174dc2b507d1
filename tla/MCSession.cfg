SPECIFICATION Spec
CONSTANTS
  b1 = b1
  b2 = b2
  NoBoard = NoBoard
  Boards <- MCBoards
  Codes = {"code"}
  Defects <- MCDefects
  MaxChoices = 2
  MaxFaults = 1
INVARIANTS LogMeansGood FailureIsDefect AddressKept LeftQuiet
