SPECIFICATION FairSpec
CONSTANTS
  Clients = {c1, c2}
  Commands = {"PAUSE", "RESUME", "CLEAR_PAUSE", "CANCEL_PRINT", "SDCARD_RESET_FILE", "SDCARD_PRINT_FILE", "M23", "M24", "M25", "M26", "EVENT"}
  SdCommands = {"other", "PAUSE", "RESUME", "CLEAR_PAUSE", "CANCEL_PRINT", "SDCARD_RESET_FILE", "SDCARD_PRINT_FILE", "M24", "M25", "SDCARD_LOOP_END"}
  FileLen = 3
  Chunk = 2
  MaxCommands = 3
  MaxSkips = 1
INVARIANTS JobInv  PauseHolds
PROPERTIES LineOfOpenFile CommandsEnd
CHECK_DEADLOCK FALSE
