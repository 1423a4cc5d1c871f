SPECIFICATION Spec
CONSTANTS
  Agent <- MCAgent
  RunOf <- MCRunOf
  RunnerOf <- MCRunnerOf
  GoalOf <- MCGoalOf
  BinOf <- MCBinOf
  Constrained = {"a1", "a2", "a4"}
  OwnReport <- MCOwnReport
  Remover = {"u1"}
  Waiter = {"w1", "w2"}
  WaitsFor <- MCWaitsFor
  Casts <- MCCasts
  Runs = {"r1", "r2"}
  Here = {"r1", "r2"}
  Age <- MCAge
  NoRun = "none"
  FirstHooks <- MCFirstHooks
  UserEntry = "new"
  MaxEdits = 1
  MaxHand = 1
  MaxReports = 2
  MaxKills = 1
  MaxCloses = 1
INVARIANTS UserHooksKept HookRuns EndpointsAgree ReportIsOwn
CHECK_DEADLOCK FALSE
