SPECIFICATION Spec
CONSTANTS
  Proc = {p1, p2}
  MaxEmits = 2
  MaxCrashes = 1
  HardStop = 3
  CrashAt <- CrashKeepsCounter
  Faults <- CleanFaults
  HolderMayStall = FALSE
  BinaryReplaced = FALSE
  NoFile = NoFile
INVARIANTS MutualExclusion MonotoneIds
PROPERTY ImplementsStream
