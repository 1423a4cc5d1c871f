---------------------------- MODULE Permissions -----------------------------
(***************************************************************************)
(* What a job may do: its permission policy, what validate refuses, what   *)
(* the scheduler makes of it, and the jobs that the program's own commands *)
(* build.  A reason or a prompt is there or not; tools are a set of names; *)
(* env is a function from names to values.                                 *)
(***************************************************************************)
EXTENDS Auditors

KnownRunners == {"codex", "pi", "agy", "aix", "gemini", "claude", "tmux"}
Sandboxes == {"read-only", "workspace-write", "danger-full-access"}

\* PermissionPolicy::default.
DefaultPolicy ==
  [sandbox |-> "read-only", reason |-> FALSE, approved |-> FALSE, headless |-> FALSE,
   tools |-> {}]

\* Mutant of ReadonlyIntent: every runner is believed to enforce read-only.
ReadonlyIntentDefault(runner) == DefaultPolicy

\* readonly_intent_to_policy: a runner that cannot enforce read-only is given
\* the least it can enforce.
ReadonlyIntent(runner) ==
  IF runner \in {"agy", "tmux"}
  THEN [DefaultPolicy EXCEPT !.sandbox = "workspace-write", !.reason = TRUE,
                             !.headless = (runner = "agy")]
  ELSE DefaultPolicy

\* readonly_tool_allowlist, one tool for each list.
ReadonlyTools(runner) ==
  CASE runner = "claude" -> {"Read"}
    [] runner = "pi"     -> {"read"}
    [] OTHER             -> {}

\* validate_for_runner.
ValidateForRunner(policy, runner, env) ==
  LET writes == policy.sandbox # "read-only"
  IN  /\ runner \in KnownRunners
      /\ writes => policy.reason
      /\ policy.sandbox = "danger-full-access" => policy.approved
      /\ writes /\ runner # "tmux" => policy.headless
      /\ runner = "codex" /\ "CODEX_SANDBOX" \in DOMAIN env =>
           env["CODEX_SANDBOX"] = policy.sandbox
      /\ runner \in {"agy", "gemini", "tmux"} => writes
      /\ runner \in {"claude", "pi"} /\ ~writes => policy.tools \subseteq ReadonlyTools(runner)

\* AgentJob::validate, and validate_batch for jobs with ids of their own.
Validate(job) ==
  /\ job.runner \in KnownRunners
  /\ job.isolation \in {"none", "worktree"}
  /\ job.prompt
  /\ ValidateForRunner(job.policy, job.runner, job.env)
Accepted(jobs) == \A i \in 1 .. Len(jobs) : Validate(jobs[i])

-----------------------------------------------------------------------------
(* What the scheduler makes of a job. *)

IsWriteTaskType(job) ==
  job.type \in {"write", "implementation", "feature", "migration", "refactor"}
JobNeedsWorktree(job) ==
  \/ job.worktree
  \/ job.isolation = "worktree"
  \/ job.policy.sandbox = "workspace-write" /\ IsWriteTaskType(job)

\* runner_env.
RunnerEnv(job) ==
  [k \in DOMAIN job.env \cup {"CODEX_SANDBOX"} |->
     IF k = "CODEX_SANDBOX" THEN job.policy.sandbox ELSE job.env[k]]

-----------------------------------------------------------------------------
(* The jobs the program builds. *)

NoEnv == [k \in {} |-> "1"]
OwnJob(runner, policy, env, type) ==
  [runner |-> runner, policy |-> policy, env |-> env, type |-> type, isolation |-> "none",
   worktree |-> FALSE, prompt |-> TRUE]

\* cmd_runner with a prompt; --allow-headless-write.
RunnerJob(runner, headless) ==
  OwnJob(runner, [ReadonlyIntent(runner) EXCEPT !.headless = @ \/ headless], NoEnv, "runner")

\* audit_job; submit_auto_dispatch adds the session.
AuditJob(runner) ==
  OwnJob(runner, ReadonlyIntent(runner),
         [k \in {"LTO_LEAN_CONTEXT", "LTO_SESSION_ID"} |-> "1"], "audit")
AutoDispatchJobs(auditors) == [i \in 1 .. Len(auditors) |-> AuditJob(auditors[i])]

\* run_tmux_autopilot_worker.
WorkerJob == OwnJob("tmux", ReadonlyIntent("tmux"), NoEnv, "autopilot_worker")

\* The job of plan_judge_dispatch.
JudgeJob(runner) ==
  OwnJob(runner, ReadonlyIntent(runner), [k \in {"LTO_LEAN_CONTEXT"} |-> "1"], "judge")

\* pick_healthy_judge_runner: the first healthy one of another family.
JUDGE_POOL == <<"codex", "pi", "agy", "claude">>
PickHealthyJudge(candidate, healthy) ==
  Picked(JUDGE_POOL, {i \in 1 .. Len(JUDGE_POOL) :
                        /\ ~SameFamily({JUDGE_POOL[i]}, {candidate})
                        /\ JUDGE_POOL[i] \in healthy})

\* Mutant of PlanJudge: a runner named by hand is not compared.
PlanJudgeNamed(candidate, named, healthy, long) ==
  LET found == PickHealthyJudge(candidate, healthy)
  IN  IF long THEN << >>
      ELSE IF named # "none" THEN <<JudgeJob(named)>>
      ELSE IF found = << >> THEN << >> ELSE <<JudgeJob(Head(found))>>

\* plan_judge_dispatch: at most one job; none if it is skipped.
PlanJudge(candidate, named, healthy, long) ==
  LET found == PickHealthyJudge(candidate, healthy)
  IN  IF long \/ (named # "none" /\ SameFamily({named}, {candidate})) THEN << >>
      ELSE IF named # "none" THEN <<JudgeJob(named)>>
      ELSE IF found = << >> THEN << >> ELSE <<JudgeJob(Head(found))>>

\* make_job of eval-run: what the mount has approved.
EvalJob(runner, sandbox, env) ==
  OwnJob(runner, [sandbox |-> sandbox, reason |-> sandbox # "read-only",
                  approved |-> sandbox = "danger-full-access", headless |-> FALSE, tools |-> {}],
         env, "eval")
=============================================================================
