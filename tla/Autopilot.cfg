SPECIFICATION Spec
CONSTANTS
  Proc = {p1, p2}
  t1 = t1
  t2 = t2
  Task = {t1, t2}
  Local = Local
  Net = Net
  Command = {Local, Net}
  NoCommand = NoCommand
  Effect <- MCEffect
  Failure = {f1}
  NoFailure = NoFailure
  Backlogs <- MCBacklogs
  HandStatus = {"pending", "in_progress"}
  Modes <- MCModes
  RetryLimit = 1
  MaxTurns = 2
  MaxOps = 3
  MaxKills = 1
SYMMETRY Symmetry
CHECK_DEADLOCK FALSE
INVARIANTS PassIsEarned RetryVisible DoneIsProven
