CONSTANTS
  SerialCommands <- MCSerialCommands
  RemoteCommands <- MCRemoteCommands
  BinaryLimit = 2
  BinaryLength = 2
  LongLength = 3
  MaxLines = 3
  MaxFrames = 3
SPECIFICATION FairSpec
INVARIANTS
  TakenOnce
  RemoteOffHolds
  EventTellsFrame
  LinesKept
  
PROPERTIES
  EventHandled
  
CHECK_DEADLOCK FALSE
