SPECIFICATION FairSpec
CONSTANTS
  Proc = {p1, p2}
  Commands <- AllCommands
  MaxCommands = 2
  MaxCrashes = 1
  Window = {w1}
  Job = {j1}
  EmitMayFail = TRUE
  Free = Free
INVARIANTS ItemsCurrent ContractKept MirrorAgrees
PROPERTIES HistoryKept CommandEnds
