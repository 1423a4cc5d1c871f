SPECIFICATION FairSpec
CONSTANTS
  Dispatcher = {d1}
  Window = {w1}
  Closing = {{}, {d1}}
  Modes = {{}, {d1}}
  SaveMayFail = FALSE
  EmitMayFail = FALSE
  ReporterDies = FALSE
  MaxReports = 3
INVARIANTS ResultIsOwn
PROPERTIES ReportSettles WaitEnds
