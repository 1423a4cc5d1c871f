----------------------------- MODULE JobMakers ------------------------------
(***************************************************************************)
(* The commands that submit jobs: runner with a prompt or a job file,      *)
(* audit, the autopilot's worker, llm-judge, and plugin eval-run, which    *)
(* runs the cases of an eval pack one after the other, each with a bare    *)
(* and a profiled job, and has the pair judged.                            *)
(***************************************************************************)
EXTENDS Permissions

CONSTANTS
  Runners,              \* runner names that are asked for, unknown ones too
  FileFields, FileChoices,   \* fields of a job in a file, field -> values
  EnvKeys,              \* keys of a profile's env, all with the same value
  MaxCases              \* bound: cases of an eval pack

VARIABLES
  by,        \* the command; "none" before there is one
  jobs,      \* the jobs it has submitted last
  subject,   \* whose work they examine; "none" otherwise
  report     \* eval-run: what is reported so far

vars == <<by, jobs, subject, report>>

Judges == {JUDGE_POOL[i] : i \in 1 .. Len(JUDGE_POOL)}
NoReport == [approved |-> "none", cases |-> 0, ok |-> TRUE, ran |-> FALSE, event |-> "none"]

Init == by = "none" /\ jobs = << >> /\ subject = "none" /\ report = NoReport

Submits(command, made, whose) ==
  /\ by = "none"
  /\ by' = command /\ jobs' = made /\ subject' = whose
  /\ UNCHANGED report

\* cmd_runner --prompt.
CmdRunnerPrompt ==
  \E r \in Runners, headless \in BOOLEAN : Submits("runner", <<RunnerJob(r, headless)>>, "none")

\* cmd_runner --job-file, cmd_parallel, cmd_pipeline: load_jobs takes the file
\* as it is; ...
FileJob == [runner |-> "codex", policy |-> DefaultPolicy, env |-> NoEnv, type |-> "none",
            isolation |-> "none", worktree |-> FALSE, prompt |-> TRUE]
LoadJobs == Submits("file", <<FileJob>>, "none")

\* ... whoever writes it may put anything in a field, and submit it again.
EditFile ==
  /\ by = "file"
  /\ \E f \in FileFields : \E v \in FileChoices[f] :
       LET j == jobs[1]
       IN  jobs' = <<IF f \in DOMAIN j.policy THEN [j EXCEPT !.policy[f] = v]
                     ELSE [j EXCEPT ![f] = v]>>
  /\ UNCHANGED <<by, subject, report>>

\* submit_auto_dispatch, for the auditors that were picked.
AUDITOR_POOL == <<"codex", "pi", "agy">>
SubmitAutoDispatch ==
  \E host \in Runners, same \in BOOLEAN :
    Submits("audit", AutoDispatchJobs(PickAuditorsWith(AUDITOR_POOL, {host}, same)),
            IF same THEN "none" ELSE host)

RunTmuxWorker == Submits("worker", <<WorkerJob>>, "none")

\* The one event that tells of a judge, in cmd_llm_judge and in run_judge.  A
\* reply that parses is a vote even if the runner failed.
JudgeEvents(plan) ==
  IF plan = << >> THEN {"skipped"}
  ELSE IF ~Accepted(plan) THEN {"escalated"} ELSE {"voted", "escalated"}

\* cmd_llm_judge; without --execute ("none") the plan is only printed.
CmdLlmJudge ==
  /\ by = "none"
  /\ by' = "judge"
  /\ \E candidate \in Runners, named \in Runners \cup {"none"}, healthy \in SUBSET Judges,
        long \in BOOLEAN :
       /\ jobs' = PlanJudge(candidate, named, healthy, long)
       /\ subject' = candidate
       /\ \E event \in JudgeEvents(jobs') \cup {"none"} : report' = [NoReport EXCEPT !.event = event]

-----------------------------------------------------------------------------
(* plugin eval-run *)

\* mounted_sandbox: read-only unless the run's mount file approves another
\* ("other": a name that is no sandbox).
MountedSandbox(mount) == IF mount = "absent" THEN "read-only" ELSE mount

\* eval_run up to its loop.
EvalRun ==
  /\ by = "none"
  /\ by' = "eval"
  /\ \E mount \in Sandboxes \cup {"absent", "other"} :
       report' = [NoReport EXCEPT !.approved = MountedSandbox(mount)]
  /\ UNCHANGED <<jobs, subject>>

\* Mutant of FilterCandidateEnv: only the plugin's own list counts.
FilterAllowlistOnly(env, allowed) == [k \in DOMAIN env \cap allowed |-> env[k]]

\* filter_candidate_env.
EnvKeyBlocklist == {"CODEX_SANDBOX", "PATH"}
FilterCandidateEnv(env, allowed) ==
  [k \in (DOMAIN env \cap allowed) \ EnvKeyBlocklist |-> env[k]]

\* token_env.
TokenEnv(runner, env) ==
  IF runner # "codex" THEN env
  ELSE [k \in DOMAIN env \cup {"CODEX_JSON"} |-> IF k \in DOMAIN env THEN env[k] ELSE "1"]

\* run_negative_case: a refusal is expected, and it is the expected one.
NegativeOk(pair, expected) == ~(Validate(pair[1]) /\ Validate(pair[2])) /\ expected

\* sandbox_exceeds, on the snapshot of a result.
Rank(sandbox) == CASE sandbox = "read-only" -> 0
                   [] sandbox = "workspace-write" -> 1
                   [] sandbox = "danger-full-access" -> 2
SandboxExceeds(sandbox, approved) == Rank(sandbox) > Rank(approved)

\* The entry of a case, in eval_run's list.
ReportCase(runner, made, ok, ran, event) ==
  /\ jobs' = made
  /\ subject' = runner
  /\ report' = [report EXCEPT !.cases = @ + 1, !.ok = @ /\ ok, !.ran = ran, !.event = event]

\* run_case.  The case is refused (broken: its brief is too long or its profile
\* cannot be rendered), negative, or run; the judge does not change its result.
\* An approval that is no sandbox ends the command in make_job.
RunCase ==
  /\ by = "eval"
  /\ report.cases < MaxCases
  /\ \E runner \in Runners, broken, negative \in BOOLEAN, keys, allowed \in SUBSET EnvKeys :
       LET ready == ~broken /\ runner \in KnownRunners /\ report.approved \in Sandboxes
           env  == FilterCandidateEnv([k \in keys |-> "workspace-write"], allowed)
           pair == <<EvalJob(runner, report.approved, TokenEnv(runner, NoEnv)),
                     EvalJob(runner, report.approved, TokenEnv(runner, env))>>
       IN  \/ /\ broken \/ runner \notin KnownRunners
              /\ ReportCase(runner, << >>, FALSE, FALSE, "none")
           \/ /\ ready /\ negative
              /\ \E expected \in BOOLEAN : ReportCase(runner, pair, NegativeOk(pair, expected), FALSE, "none")
           \/ /\ ready /\ ~negative /\ ~Accepted(pair)
              /\ ReportCase(runner, pair, FALSE, FALSE, "none")
           \/ /\ ready /\ ~negative /\ Accepted(pair)
              /\ \E ok \in BOOLEAN, healthy \in SUBSET Judges, long \in BOOLEAN :
                   LET plan == PlanJudge(runner, "none", healthy, long)
                   IN  \E event \in JudgeEvents(plan) : ReportCase(runner, pair \o plan, ok, TRUE, event)
  /\ UNCHANGED by

Next ==
  \/ CmdRunnerPrompt \/ LoadJobs \/ EditFile \/ SubmitAutoDispatch \/ RunTmuxWorker
  \/ CmdLlmJudge \/ EvalRun \/ RunCase

-----------------------------------------------------------------------------
\* The jobs that commands build from a wish to only read pass the check that
\* a later component makes of them, but for gemini, which readonly_intent_to_policy
\* forgets, and a runner nobody knows; and they work where they are started.
OwnJobsPass ==
  by \in {"runner", "audit", "worker", "judge"} =>
    \A i \in 1 .. Len(jobs) :
      /\ jobs[i].runner \in KnownRunners \ {"gemini"} => Validate(jobs[i])
      /\ ~JobNeedsWorktree(jobs[i])

\* Who examines is of another family than what is examined, whoever was
\* healthy or named; an audit falls back on the host's own only when no other
\* family is there.
ExaminerIsOther ==
  /\ by \in {"audit", "judge"} /\ subject # "none" =>
       \A i \in 1 .. Len(jobs) : ~SameFamily({jobs[i].runner}, {subject})
  /\ by = "eval" /\ Len(jobs) = 3 => ~SameFamily({jobs[3].runner}, {subject}) /\ Validate(jobs[3])

\* What was accepted is enforced: the environment the runner gets takes nothing
\* back from what a codex job asked for, read-only is promised only for runners
\* that keep it, writing was given a reason, and the flag that allows it
\* headless only ever allows more.
AcceptedIsEnforced ==
  \A i \in 1 .. Len(jobs) :
    LET j == jobs[i]
    IN  Validate(j) =>
          /\ j.runner = "codex" => \A k \in DOMAIN j.env : RunnerEnv(j)[k] = j.env[k]
          /\ RunnerEnv(j)["CODEX_SANDBOX"] = "read-only" => j.runner \notin {"agy", "gemini", "tmux"}
          /\ JobNeedsWorktree(j) /\ j.isolation = "none" /\ ~j.worktree => j.policy.reason
          /\ Validate([j EXCEPT !.policy.headless = TRUE])

\* The plugin under evaluation changes nothing of what its jobs may do: both
\* are accepted or both refused, and none exceeds what the mount approved.
LegsAreEqual ==
  by = "eval" /\ Len(jobs) >= 2 =>
    /\ Validate(jobs[1]) <=> Validate(jobs[2])
    /\ RunnerEnv(jobs[1])["CODEX_SANDBOX"] = RunnerEnv(jobs[2])["CODEX_SANDBOX"]
    /\ \A i \in {1, 2} : ~SandboxExceeds(jobs[i].policy.sandbox, report.approved)

PermissionHolds == OwnJobsPass /\ ExaminerIsOther /\ AcceptedIsEnforced /\ LegsAreEqual
=============================================================================
