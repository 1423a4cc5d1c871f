SPECIFICATION FairSpec
CONSTANTS
  Proc = {p1, p2}
  MaxEmits = 1
  MaxCrashes = 1
  HardStop = 2
  CrashAt <- CrashAnywhere
  Faults <- AnyFaults
  HolderMayStall = TRUE
  BinaryReplaced = TRUE
  NoFile = NoFile
PROPERTY EmitTerminates
