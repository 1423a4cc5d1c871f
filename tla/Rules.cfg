SPECIFICATION RulesSpec
CONSTANTS
  MaxRounds = 4
  MaxCount = 2
  RunFields <- SomeFields
  RunChoices <- SomeChoices
  FirstRun <- SomeRun
  Ledgers <- SomeLedgers
  Heads = {"same", "unknown", "forward", "rewrite"}
  Key = {k1, k2}
  Val = {a, b}
  MaxLen = 3
  EscalateKeys = {e1}
  Budgets = {35999, 72000}
  Universe = {1, 2}
  LegalPatterns = {1}
  Votes <- SomeVotes
  CandidateReplies <- SomeCandidates
  ReviewReplies <- SomeReviews
  MaxVotes = 3
  MaxCandidates = 2
  MaxReviews = 2
  MaxDecisions = 1
  Runs = {"r1", "r2"}
  Jobs = {"j1", "j2", "j3"}
  RunOf <- JobRun
  Works = {"codex implements"}
  WorkOf <- JobWork
  Models = {"m1", "m2"}
  FinishedAs = {"ok", "failed", "skipped"}
  ReportedAs = {"timeout", "unknown"}
  MaxEvents = 3
  MaxDays = 2
  RecentCompletions = 3
  MinRateSamples = 3
  ColdStreak = 2
  MinAgentRuns = 1
  MinAgentResults = 2
  MinEvidenceRuns = 2
  MinEvidenceSum = 1
  Runners <- SomeRunners
  FileFields = {"runner", "sandbox", "reason", "approved", "headless", "tools", "env", "type", "isolation"}
  FileChoices <- SomeFileChoices
  EnvKeys = {"CODEX_SANDBOX", "CODEX_PROFILE"}
  MaxCases = 1
INVARIANTS VerdictAgrees GatesAgree LoopMerges ConvergedIsBacked BriefIsComplete PermissionHolds
PROPERTIES FailureNeverHelps
CHECK_DEADLOCK FALSE
