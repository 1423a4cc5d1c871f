SPECIFICATION Spec
CONSTANTS
  Dispatcher = {d1, d2}
  Window = {w1, w2}
  Closing = {{d1}}
  Modes = {{}}
  SaveMayFail = TRUE
  EmitMayFail = TRUE
  ReporterDies = TRUE
  MaxReports = 2
SYMMETRY WindowSymmetry
PROPERTY ClosedOnSuccess
