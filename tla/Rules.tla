-------------------------------- MODULE Rules -------------------------------
(***************************************************************************)
(* The rules of the program that several places decide on their own, side  *)
(* by side: what the rounds of a ledger mean (Convergence), what stands    *)
(* between a run and its closing (Gates), how two versions of a collection *)
(* are merged (MergeLoop), how votes become a decision (Consensus),        *)
(* which runner may work unattended (Evidence) and what jobs may do        *)
(* (Permissions, JobMakers).  A behaviour is about one of these topics;    *)
(* its inputs grow as the program's do.                                    *)
(***************************************************************************)
EXTENDS Gates

CONSTANTS
  MaxRounds, MaxCount,   \* bounds: rounds of a ledger, findings in a round
  RunFields, RunChoices, \* fields of a run that are changed, field -> values
  FirstRun, Ledgers, Heads   \* a run to begin with; ledgers and heads beside it

CONSTANTS Key, Val, MaxLen
CONSTANTS EscalateKeys, Budgets, Universe, LegalPatterns, Votes, CandidateReplies,
          ReviewReplies, MaxVotes, MaxCandidates, MaxReviews, MaxDecisions
CONSTANTS Runs, Jobs, RunOf, Works, WorkOf, Models, FinishedAs, ReportedAs, MaxEvents, MaxDays,
          RecentCompletions, MinRateSamples, ColdStreak, MinAgentRuns, MinAgentResults,
          MinEvidenceRuns, MinEvidenceSum
CONSTANTS Runners, FileFields, FileChoices, EnvKeys, MaxCases

\* "none" is what head_drift says of a HEAD that has not moved.
ASSUME RulesBounds == MaxRounds \in Nat /\ MaxCount \in Nat /\ "none" \notin Heads
\* What FailureNeverHelps needs of the gate's limits: a streak that is too
\* long in a cold start is at least half of the first full sample.
ASSUME StreakReachesRate ==
  /\ RecentCompletions \in Nat /\ MinRateSamples \in Nat /\ ColdStreak \in Nat
  /\ 2 * (ColdStreak + 1) >= MinRateSamples

VARIABLES
  topic,                 \* what this behaviour is about
  ledger, run, head,     \* ledger and gates
  cur, nxt, merged, positions, taken,             \* merge
  request, budget, spawned, outcome, decisions,   \* decision
  log, votes, recorded, day,                      \* evidence
  by, jobs, subject, report                       \* permissions

merging  == <<cur, nxt, merged, positions, taken>>
deciding == <<request, budget, spawned, outcome, decisions>>
telling  == <<log, votes, recorded, day>>
gating   == <<run, head>>
making   == <<by, jobs, subject, report>>
rulesVars == <<topic, ledger, gating, merging, deciding, telling, making>>

Merge == INSTANCE MergeLoop
Panel == INSTANCE Consensus
Proof == INSTANCE Evidence
Work  == INSTANCE JobMakers

\* What is edited in a job file: the fields of a job, and of its policy one by one.
ASSUME FileFieldsKnown ==
  FileFields \subseteq (DOMAIN Work!FileJob \ {"policy"}) \cup DOMAIN Work!DefaultPolicy
\* What serde makes of an answer: the votes and findings in it are lists, and
\* a vote is a DirectionVote; a budget is unsigned.
ASSUME AnswersTyped ==
  /\ Budgets \subseteq Nat
  /\ \A v \in Votes : v.decision \in {"pick_task", "pick_pattern", "needs_human"} /\ v.value \in Nat
  /\ \A c \in CandidateReplies : Panel!IsList(c.findings) /\ Panel!IsList(c.text)
  /\ \A v \in ReviewReplies : Panel!IsList(v.findings) /\ Panel!IsList(v.items)

-----------------------------------------------------------------------------
RulesInit ==
  /\ topic \in {"ledger", "gates", "merge", "decision", "evidence", "permissions"}
  /\ run = FirstRun
  /\ head = "same"
  /\ ledger = Absent
  /\ IF topic = "merge" THEN Merge!Init
     ELSE cur = << >> /\ nxt = << >> /\ merged = << >> /\ taken = 0 /\ positions = << >>
  /\ IF topic = "decision" THEN Panel!Init
     ELSE /\ request = Panel!Idle /\ budget = 0 /\ spawned = {} /\ outcome = Panel!NoOutcome
          /\ decisions = 0
  /\ Proof!Init
  /\ Work!Init

\* A round is appended, as audit does it.
AddRound ==
  /\ topic = "ledger"
  /\ Len(ledger.rows) < MaxRounds
  /\ \E high \in 0 .. MaxCount, critical \in 0 .. MaxCount, lineage \in BOOLEAN :
       ledger' = Appended(EnsureExists(ledger),
                          [label |-> 0, high |-> high, critical |-> critical, by |-> 0,
                           auditors |-> IF lineage THEN {"codex"} ELSE {}, coverage |-> "filled"])
  /\ UNCHANGED <<topic, gating, merging, deciding, telling, making>>

\* Some command, or the host, changes one field of the run.
ChangeRun ==
  /\ topic = "gates"
  /\ \E f \in RunFields : \E v \in RunChoices[f] :
       run[f] # v /\ run' = [run EXCEPT ![f] = v]
  /\ UNCHANGED <<topic, ledger, head, merging, deciding, telling, making>>

\* An audit or a hand changes the ledger, git the head.
ChangeLedger ==
  /\ topic = "gates"
  /\ ledger' \in Ledgers \ {ledger}
  /\ UNCHANGED <<topic, gating, merging, deciding, telling, making>>
ChangeHead ==
  /\ topic = "gates"
  /\ head' \in Heads \ {head}
  /\ UNCHANGED <<topic, run, ledger, merging, deciding, telling, making>>

MergeStep ==
  topic = "merge" /\ Merge!Take /\ UNCHANGED <<topic, ledger, gating, deciding, telling, making>>
DecisionStep ==
  topic = "decision" /\ Panel!Next /\ UNCHANGED <<topic, ledger, gating, merging, telling, making>>
EvidenceStep ==
  topic = "evidence" /\ Proof!Next /\ UNCHANGED <<topic, ledger, gating, merging, deciding, making>>
PermissionStep ==
  topic = "permissions" /\ Work!Next /\ UNCHANGED <<topic, ledger, gating, merging, deciding, telling>>

RulesNext ==
  \/ AddRound \/ ChangeRun \/ ChangeLedger \/ ChangeHead
  \/ MergeStep \/ DecisionStep \/ EvidenceStep \/ PermissionStep

RulesSpec == RulesInit /\ [][RulesNext]_rulesVars

-----------------------------------------------------------------------------
\* The verdict of evaluate_ledger and the advice of diagnose, computed from the
\* same rounds by different code, do not contradict each other, rounds keep
\* their numbers, and strict convergence is a measure: the last round has at
\* least one blocker less for each round before it.  A steady fall has a single
\* peak, so from the third round on it is advised to review as well.
VerdictAgrees ==
  LET rows == ParseLedger(ledger)
      v == EvaluateLedger(rows, FALSE)
      s == EvaluateLedger(rows, TRUE)
      b == Blockers(rows)
      n == Len(rows)
      d == Diagnose(rows)
  IN  topic = "ledger" /\ n > 0 =>
        /\ \A i \in 1 .. n : rows[i].label = i
        /\ (v = "CONVERGED") <=> (d.terminal = "zero")
        /\ v = "CONVERGING" => d.direction \in {"improving", "flat"} /\ d.oscillation = "none"
        /\ v = "REBOUND" => d.direction \in {"worsening", "mixed"}
        /\ d.oscillation = "alternating" => d.direction = "mixed"
        /\ d.envelope = "expanding" => ~(v = "CONVERGING")
        /\ s = "CONVERGING" => v = "CONVERGING" /\ b[n] <= b[1] - (n - 1)
        /\ s = "CONVERGING" => (SuggestsEntropyReview(d) <=> n >= 3)

\* The places that decide about closing agree.  `lto check --to closed
\* --strict' without errors means that closeout will not refuse, but for a
\* missing audit of a high-risk run, which only closeout asks for, or because
\* the run is closed; the hooks refuse nothing closeout would pass; a run that
\* may be implemented passes preflight, and with a contract it can be
\* observed; `lto next' sends to closeout only a run without blocks and open
\* risks, and to judge only one that closeout refuses; resume asks for
\* validation only where check sees the HEAD moved, and a decision anchored at
\* the run's own HEAD and phase has to be reaffirmed exactly there.  It is
\* about what is recorded: closeout's run of the instruments and a missing
\* run-state.md, for which it refuses as well, are left out.
GatesAgree ==
  LET errors(target) == StrictErrors(run, target, ledger, FALSE, head, TRUE, TRUE)
      before == GatesBefore(run, ledger, FALSE)
      after  == GatesAfter(run, ledger, FALSE, FALSE, FALSE)
      route  == CmdNext(run).route
  IN topic = "gates" =>
     /\ errors("closed") = {} => before \in {"none", "closed"} /\ after \in {"none", "no audit"}
     /\ before = "none" => \A h \in {"pre_commit", "pre_deploy", "pre_closeout"} :
                             ~HookBlocks(h, run, FALSE)
     /\ errors("implementation") = {} => PreflightPasses({}, run)
     /\ PreflightPasses({}, run) /\ Completeness(run.contract).present =>
          Observability(run, "none") # "missing"
     /\ LedgerExit(ledger, TRUE) = "1" => "ledger" \in errors("spec")
     /\ route = "closeout" => before # "blocks" /\ after # "risks"
     /\ route = "judge" => before # "none" \/ after # "none"
     /\ route # "escalate" => CmdNext(run).brief = {"judge or closeout"}
     /\ Resume(run, head, TRUE) # {} => errors("none") \cap {"anchor", "drift"} # {}
     /\ run.phase # "closed" =>
          (RebaseRequired(run, run.phase, head) <=> errors("none") \cap {"anchor", "drift"} # {})

\* At every point of merge_stable_by_key's loop the result is the declarative
\* merge of the disk's version with the items taken so far, the map finds the
\* one place that a later item with a key must replace, and in the end merging
\* the same version once more (a save that is repeated) changes nothing.
LoopMerges ==
  topic = "merge" => Merge!IsMerge /\ Merge!Idempotent

\* A direction that run_decision calls converged has the backing it claims,
\* in whatever order the answers arrived.
ConvergedIsBacked == topic = "decision" => Panel!ConvergedIsBacked

\* The host is shown all that was said, and the footer about the budget is
\* what the budget gate will say.
BriefIsComplete == topic = "decision" => Panel!BriefIsComplete

\* A failure never opens the autonomous gate for a runner judged unreliable.
FailureNeverHelps == Proof!FailureNeverHelps

\* The jobs of every command are accepted where the program means them to be,
\* never examined by their own family, no profile changes what its jobs may
\* do, and what the check accepts is what the runner is held to.
PermissionHolds == topic = "permissions" => Work!PermissionHolds
=============================================================================
