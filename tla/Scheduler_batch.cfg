SPECIFICATION FairSpec
CONSTANTS
  a = a
  b = b
  c = c
  d = d
  r1 = r1
  r2 = r2
  Job = {a, b, c, d}
  Children <- Join
  RunnerOf <- TwoRunners
  Writes = {a, c, d}
  InTmux = {b}
  Tested = {a, d}
  MaxConcurrency = 2
  RetryOn = {"rate_limited", "timeout"}
  MaxRetries = 2
  Backoff = 2
  MaxBackoff = 3
  RetryBudget = 4
  HealthRetries = 1
  Leftover = {d}
  PruneMayFail = TRUE
  DrainMayTimeOut = TRUE
INVARIANTS AttemptIsDead KeptIsReported
PROPERTIES RetryBounded SubmitReturns ImplementsBatch
