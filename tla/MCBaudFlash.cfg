CONSTANTS
  BaudList <- MCBaudList
  DefaultBaud = 115200
  HostBaud = 115200
  Targets <- MCTargets
  Word <- MCWord
  ProgramWord <- MCProgramWord
  MaxResets = 2
  MaxLine = 3
SPECIFICATION Spec
INVARIANTS
  CleanCallStores
PROPERTIES
  ImplementsSetting
CHECK_DEADLOCK FALSE
