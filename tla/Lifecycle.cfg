SPECIFICATION Spec
CONSTANTS
  Proc = {p1, p2}
  Commands <- AllCommands
  MaxCommands = 1
  MaxEdits = 1
  MayCrash = TRUE
  Block = {b1}
  Pool <- OnePool
  Replies <- SomeReplies
  Begins <- SomeBegins
SYMMETRY Symmetric
INVARIANTS UndisturbedKept
PROPERTIES CloseEarned PruneSpares
