SPECIFICATION Spec
CONSTANTS
  a = a
  b = b
  c = c
  d = d
  r1 = r1
  r2 = r2
  Job = {a, b, c}
  Children <- Chain
  RunnerOf <- OneRunner
  Writes = {}
  InTmux = {}
  Tested = {}
  MaxConcurrency = 1
  RetryOn = {"rate_limited", "timeout"}
  MaxRetries = 0
  Backoff = 1
  MaxBackoff = 1
  RetryBudget = 1
  HealthRetries = 0
  Leftover = {}
  PruneMayFail = FALSE
  DrainMayTimeOut = FALSE
INVARIANTS CycleIsReal
