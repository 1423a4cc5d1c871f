SPECIFICATION TerminalSpec
CONSTANTS
  g1 = g1
  j1 = j1
  Goal = {g1}
  Job = {j1}
  Old = {o1}
  New = {n1, n2}
  Options <- SomeOptions
  SetupLines = 1
  MaxTries = 2
PROPERTIES PromptReachesAgent TextWhole BusyIsSpared CompletionIsOwn DispatchEnds
