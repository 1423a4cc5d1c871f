------------------------------- MODULE Gates --------------------------------
(***************************************************************************)
(* What stands between a run and its closing, each written on its own in   *)
(* the code: the gates of `lto closeout', the checklist of `lto check --to *)
(* <phase>', the findings of `lto check', preflight and the git hooks.     *)
(* A run state st has the fields phase, goal, doneWhen, why (are they      *)
(* filled?), host, contract, blocks, risks, tasks (the kinds of tasks it   *)
(* has: a status, where "bare" is done without and "proven" done with      *)
(* evidence) and high (does a task name one of the high-risk words?).      *)
(***************************************************************************)
EXTENDS Convergence

ValidPhases ==
  <<"intake", "spec", "audit", "implementation", "deploy", "observe", "closed">>

\* assess_run_readiness.
Readiness(st) ==
  [missing  |-> (IF st.goal THEN {} ELSE {"--goal"})
                  \cup (IF st.doneWhen THEN {} ELSE {"--done-when"}),
   advisory |-> (IF st.why THEN {} ELSE {"--why"})
                  \cup (IF st.host = {"unknown"} THEN {"--host"} ELSE {})]

\* completeness_missing.  c.instruments holds "runs" and "empty" for
\* instruments with and without a command.
Completeness(c) ==
  LET present == c.targets \/ c.constraints \/ c.entropy \/ c.instruments # {}
      runs    == "runs" \in c.instruments
  IN [present  |-> present,
      missing  |-> IF ~present THEN {}
                   ELSE (IF c.targets THEN {} ELSE {"--target"})
                          \cup (IF runs /\ "empty" \notin c.instruments THEN {}
                                ELSE {"--instrument"}),
      advisory |-> IF ~present THEN {}
                   ELSE (IF c.constraints THEN {} ELSE {"--constraint"})
                          \cup (IF c.entropy THEN {} ELSE {"--entropy-check"})]

\* Mutant of OpenRisks: risks are not looked at.
OpenRisksNone(st) == {}

\* risk_is_open_unverified.
OpenRisks(st) == {k \in DOMAIN st.risks : st.risks[k].open /\ ~st.risks[k].verified}

\* done_tasks_without_evidence, and the tasks that are not done or skipped.
DoneWithoutEvidence(st) == st.tasks \cap {"bare"}
OpenTasks(st) == st.tasks \ {"bare", "proven", "skipped"}

\* has_high_risk_task.
HasHighRiskTask(st) == st.high

\* assess_preflight_run, preflight's verdict: environment and run.
PreflightMissing(st) == Readiness(st).missing \cup Completeness(st.contract).missing
PreflightPasses(checks, st) == (\A c \in checks : c.pass \/ c.advisory) /\ PreflightMissing(st) = {}

-----------------------------------------------------------------------------
\* enforce_gates up to the instruments, in the order of the code: what it
\* refuses for, or "none".
GatesBefore(st, l, force) ==
  IF force THEN "none"
  ELSE IF Readiness(st).missing # {} THEN "readiness"
  ELSE IF Completeness(st.contract).missing # {} THEN "contract"
  ELSE IF ParseFails(l) THEN "ledger unreadable"
  ELSE IF /\ l.file # "absent"
          /\ EvaluateLedger(ParseLedger(l), FALSE) \notin {"CONVERGED", "NO_OBSERVATIONS"}
       THEN "ledger"
  ELSE IF st.blocks # {} THEN "blocks"
  ELSE IF st.phase = "closed" THEN "closed"
  ELSE "none"

\* enforce_gates after the instruments.  dirty was read at the start; the
\* ledger is read again.
GatesAfter(st, l, force, dirty, allowDirty) ==
  IF dirty /\ ~allowDirty THEN "dirty"
  ELSE IF force THEN "none"
  ELSE IF OpenRisks(st) # {} THEN "risks"
  ELSE IF HasHighRiskTask(st) /\ (l.file = "absent" \/ ParseFails(l) \/ ParseLedger(l) = << >>)
       THEN "no audit"
  ELSE "none"

-----------------------------------------------------------------------------
Check(id, status, required) == [id |-> id, status |-> status, required |-> required]
OkOr(ok, bad) == IF ok THEN "ok" ELSE bad

PhaseRank(phase) == CHOOSE i \in 1 .. Len(ValidPhases) : ValidPhases[i] = phase

\* phase_direction.
PhaseDirection(current, target) ==
  IF PhaseRank(current) < PhaseRank(target) THEN "forward"
  ELSE IF PhaseRank(current) = PhaseRank(target) THEN "same" ELSE "backward"

\* Mutant of ReadinessChecks: the contract is forgotten.
ReadinessChecksOnly(st) ==
  {Check("run_readiness", OkOr(Readiness(st).missing = {}, "missing"), TRUE)}

\* add_run_readiness_phase_checks and add_delivery_contract_phase_check.
ReadinessChecks(st) ==
  LET r == Readiness(st) c == Completeness(st.contract) IN
  {Check("run_readiness", OkOr(r.missing = {}, "missing"), TRUE)}
    \cup (IF r.advisory = {} THEN {} ELSE {Check("run_readiness_advisory", "warn", FALSE)})
    \cup (IF c.present
          THEN {Check("delivery_contract_complete", OkOr(c.missing = {}, "missing"), TRUE)}
          ELSE {})
    \cup (IF c.present /\ c.advisory # {}
          THEN {Check("delivery_contract_advisory", "warn", FALSE)} ELSE {})

\* add_ledger_phase_check: shown as missing, but never required.
LedgerPhaseCheck(l, strict, required) ==
  LET status ==
    IF l.file = "absent" \/ ParseFails(l) \/ ParseLedger(l) = << >> THEN "warn"
    ELSE IF EvaluateLedger(ParseLedger(l), strict) = "CONVERGED" THEN "ok"
    ELSE IF required THEN "missing" ELSE "warn"
  IN Check("audit_ledger_converged_if_present", status, FALSE)

\* phase_report for implementation.
ImplementationChecks(st, l, strict) ==
  ReadinessChecks(st) \cup
  {Check("no_unresolved_blocks", OkOr(st.blocks = {} /\ OpenRisks(st) = {}, "missing"), TRUE),
   LedgerPhaseCheck(l, strict, FALSE),
   Check("tasks_present", OkOr(st.tasks # {}, "warn"), FALSE)}

\* phase_report for closed.
ClosedChecks(st, l, strict, handoff, manifest) ==
  ReadinessChecks(st) \cup
  {Check("no_open_tasks", OkOr(OpenTasks(st) = {}, "missing"), TRUE),
   Check("no_unresolved_blocks", OkOr(st.blocks = {}, "missing"), TRUE),
   Check("risk_points_verified", OkOr(OpenRisks(st) = {}, "missing"), TRUE),
   Check("done_tasks_have_evidence", OkOr(DoneWithoutEvidence(st) = {}, "missing"), TRUE),
   LedgerPhaseCheck(l, strict, TRUE),
   Check("handoff_exists", OkOr(handoff, "missing"), TRUE),
   Check("artifact_manifest_exists", OkOr(manifest, "warn"), FALSE)}

\* phase_report.
PhaseReport(st, target, l, strict, handoff, manifest) ==
  {Check("phase_direction", OkOr(PhaseDirection(st.phase, target) # "backward", "warn"), FALSE)}
    \cup CASE target = "implementation" -> ImplementationChecks(st, l, strict)
           [] target = "closed"         -> ClosedChecks(st, l, strict, handoff, manifest)
           [] OTHER                     -> {}

\* collect_c2_state_checks: what a strict check makes errors of.
C2Issues(st) ==
  (IF Readiness(st).missing = {} THEN {} ELSE {"readiness"})
    \cup (IF Completeness(st.contract).missing = {} THEN {} ELSE {"contract"})

\* head_drift; head tells what the recorded HEAD is to the repository's.
HeadDrift(head) ==
  IF head \in {"unknown", "gone"} THEN "unreachable"
  ELSE IF head = "same" THEN "none" ELSE head

\* collect_git_anchor_checks.
AnchorIssues(st, head) ==
  IF head \in {"unknown", "gone"} THEN {"anchor"}
  ELSE IF st.phase # "closed" /\ head # "same" THEN {"drift"} ELSE {}

\* collect_ledger_check.
LedgerIssues(l, strict) ==
  IF \/ ParseFails(l)
     \/ ParseLedger(l) # << >> /\ EvaluateLedger(ParseLedger(l), strict) # "CONVERGED"
  THEN {"ledger"} ELSE {}

\* collect_state_checks: the closed run without handoff.md is always an error.
StateIssues(st, target, dirty, head) ==
  (IF target = "none" THEN C2Issues(st) ELSE {})
    \cup AnchorIssues(st, head) \cup (IF dirty THEN {"dirty"} ELSE {})

\* collect_check [--to target] --strict: the errors, for which cmd_check exits 1.
StrictErrors(st, target, l, dirty, head, handoff, manifest) ==
  (IF target = "none" THEN {}
   ELSE {c.id : c \in {d \in PhaseReport(st, target, l, TRUE, handoff, manifest) :
                          d.required /\ d.status = "missing"}})
    \cup StateIssues(st, target, dirty, head) \cup LedgerIssues(l, TRUE)
    \cup (IF st.phase = "closed" /\ ~handoff THEN {"handoff"} ELSE {})

-----------------------------------------------------------------------------
\* analyze_state: the facts `lto next' decides on.
AnalyzeState(st) ==
  [hasTasks |-> st.tasks # {}, allDone |-> st.tasks # {} /\ OpenTasks(st) = {},
   blocked |-> "blocked" \in st.tasks,
   remaining |-> st.tasks \cap {"pending", "in_progress"} # {},
   unverified |-> OpenRisks(st) # {}, unresolved |-> st.blocks # {}]

\* route_next.
RouteNext(facts) ==
  IF ~facts.hasTasks \/ ~facts.allDone THEN "escalate"
  ELSE IF ~facts.unresolved /\ ~facts.unverified THEN "closeout" ELSE "judge"

\* decision_brief: the candidate actions it lists.
DecisionBrief(facts) ==
  (IF facts.blocked THEN {"fix blocked"} ELSE {})
    \cup (IF facts.remaining THEN {"pursue"} ELSE {})
    \cup (IF facts.allDone THEN {"judge or closeout"} ELSE {})

\* cmd_next, which only reads the run.
CmdNext(st) == LET facts == AnalyzeState(st) IN [route |-> RouteNext(facts), brief |-> DecisionBrief(facts)]

\* cmd_resume: the kinds of tasks that must be validated again.  related: has
\* a file changed that a task touched?
Revalidatable(st) == st.tasks \cap {"in_progress", "bare", "proven"}
Resume(st, head, related) ==
  LET drift == HeadDrift(head) IN
  IF st.phase = "closed" THEN {}
  ELSE IF drift = "rewrite" \/ (drift = "forward" /\ related) THEN Revalidatable(st)
  ELSE IF drift = "unreachable" THEN st.tasks \ {"pending"} ELSE {}

\* freshness_report_at, head_reason for a decision with this anchor.
RebaseRequired(st, anchorPhase, anchorHead) ==
  anchorPhase # st.phase \/ HeadDrift(anchorHead) # "none"

\* run_observability::assess.  evidence tells how the latest runner evidence
\* is linked to an instrument: not at all, by reference or by its command.
Observability(st, evidence) ==
  IF ~st.goal \/ ~st.doneWhen \/ "runs" \notin st.contract.instruments THEN "missing"
  ELSE IF evidence \in {"reference", "command"} THEN "observable_verified"
  ELSE "signal_declared"

\* hook_pre_commit, hook_pre_deploy, hook_pre_closeout: does the hook refuse?
HookBlocks(hook, st, force) ==
  CASE hook = "pre_commit"   -> st.blocks # {} /\ ~force
    [] hook = "pre_deploy"   -> st.phase = "closed" \/ st.blocks # {}
    [] hook = "pre_closeout" -> st.blocks # {}
=============================================================================
