SPECIFICATION Spec
CONSTANTS
  Clients = {c1, c2}
  Commands = {"SDCARD_PRINT_FILE", "EVENT"}
  SdCommands = {"other"}
  FileLen = 3
  Chunk = 2
  MaxCommands = 3
  MaxSkips = 0
INVARIANTS RunoutHolds
CHECK_DEADLOCK FALSE
