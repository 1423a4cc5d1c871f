----------------------------- MODULE Scheduler ------------------------------
(***************************************************************************)
(* Scheduler::submit: a batch of agent jobs is validated, the runners are  *)
(* probed, and the jobs run in waves along their dependencies.  The jobs   *)
(* of a wave are concurrent tasks that share a semaphore; each makes       *)
(* attempts, a process apiece, until one settles it or the retries are     *)
(* used up.  A job that writes works in a git worktree, which is kept for  *)
(* the host to merge or removed.                                           *)
(***************************************************************************)
EXTENDS Naturals, FiniteSets

CONSTANTS
  Job,            \* the jobs of the batch
  Children,       \* job -> the jobs that must wait for it
  RunnerOf,       \* job -> runner
  Writes,         \* jobs that get a worktree of their own
  InTmux,         \* jobs for the tmux runner
  Tested,         \* jobs with a test command
  MaxConcurrency, \* semaphore size
  RetryOn,        \* retry_policy.retry_on
  MaxRetries,     \* retry_policy.max_retries
  Backoff,        \* retry_policy.backoff_sec
  MaxBackoff,     \* max_backoff_sec
  RetryBudget,    \* min(total_retry_wall_sec, timeout_sec)
  HealthRetries,  \* healthcheck_retries
  Leftover,       \* writing jobs whose path may hold a worktree of an earlier batch
  PruneMayFail,   \* may `git worktree remove' fail?
  DrainMayTimeOut \* may a pipe stay open after the process?

Status == {"ok", "failed", "timeout", "rate_limited", "quota_exhausted"}
Marker == {"quota", "rate"}

ASSUME BatchAssumption ==
  /\ IsFiniteSet(Job)
  /\ Children \in [Job -> SUBSET Job]
  /\ Writes \subseteq Job /\ InTmux \subseteq Job /\ Tested \subseteq Job
  /\ DOMAIN RunnerOf = Job
  /\ RetryOn \subseteq Status
  /\ Leftover \subseteq Writes
  /\ {PruneMayFail, DrainMayTimeOut} \subseteq BOOLEAN
ASSUME LimitsAssumption ==
  /\ MaxConcurrency \in Nat \ {0}
  /\ {MaxRetries, Backoff, MaxBackoff, RetryBudget, HealthRetries} \subseteq Nat

VARIABLES
  phase,     \* "validate", "health", "plan", "wave", "done", "rejected" or "cycle"
  health,    \* runners found healthy
  probes,    \* probes made
  remaining, \* jobs without a result
  wave,      \* jobs of the wave in progress
  result,    \* job -> its result in `results'
  jpc,       \* job -> step of its task
  out,       \* job -> result of its current or last attempt
  attempt,   \* job -> attempts started
  slept,     \* job -> backoff so far
  tree,      \* job -> its worktree: "none", "old", "there", "kept" or "stuck"
  procs,     \* jobs with a live runner process
  spent      \* history: jobs with a collected output that says the quota is gone

planVars == <<phase, health, probes, remaining, wave, result>>
jobVars  == <<jpc, out, attempt, slept, tree, procs, spent>>
vars == <<planVars, jobVars>>

-----------------------------------------------------------------------------
NoResult == [status |-> "none", review |-> FALSE]
Res(status) == [status |-> status, review |-> FALSE]

Parents(j) == {p \in Job : j \in Children[p]}
Runners == {RunnerOf[j] : j \in Job}
Good(r) == r.status = "ok" /\ ~ r.review
Bad(r) == r # NoResult /\ ~ Good(r)

\* Mutant of Blocked: a parent that has not ended yet blocks, too.
BlockedUnlessGood == {j \in remaining : \E p \in Parents(j) : ~ Good(result[p])}

\* dependency_blocked_jobs and dependencies_satisfied.
Blocked == {j \in remaining : \E p \in Parents(j) : Bad(result[p])}

Ready == {j \in remaining \ Blocked : \A p \in Parents(j) : Good(result[p])}

\* Mutant of Classify: a rate limit is looked for first.
ClassifyRateFirst(code, empty, marks) ==
  CASE code = 0 -> IF empty THEN "failed" ELSE "ok"
    [] code # 0 /\ "rate" \in marks -> "rate_limited"
    [] code # 0 /\ "quota" \in marks /\ "rate" \notin marks -> "quota_exhausted"
    [] code = 124 /\ marks = {} -> "timeout"
    [] code \notin {0, 124} /\ marks = {} -> "failed"

\* classify_exit: an exit code, whether the reply is empty, and the markers
\* found in it and in stderr.
Classify(code, empty, marks) ==
  CASE code = 0 -> IF empty THEN "failed" ELSE "ok"
    [] code # 0 /\ "quota" \in marks -> "quota_exhausted"
    [] code # 0 /\ "rate" \in marks /\ "quota" \notin marks -> "rate_limited"
    [] code = 124 /\ marks = {} -> "timeout"
    [] code \notin {0, 124} /\ marks = {} -> "failed"

\* next_backoff_sec: exponential, capped.
Delay(retry) ==
  LET raw == Backoff * 2 ^ (retry - 1) IN IF raw < MaxBackoff THEN raw ELSE MaxBackoff

\* Mutant of MayRetry: what was slept already is forgotten.
MayRetryUncounted(j) ==
  /\ out[j].status \in RetryOn
  /\ attempt[j] <= MaxRetries
  /\ Delay(attempt[j]) <= RetryBudget

\* retry_delay_after_attempt.
MayRetry(j) ==
  /\ out[j].status \in RetryOn
  /\ attempt[j] <= MaxRetries
  /\ slept[j] + Delay(attempt[j]) <= RetryBudget

\* skipped_for_dependency: the results of a pass, with those of the blocked jobs.
SkippedForDependency == [j \in Job |-> IF j \in Blocked THEN Res("skipped") ELSE result[j]]

\* skipped_for_unhealthy: the ready jobs whose runner did not answer.
SkippedForUnhealthy == {j \in Ready : RunnerOf[j] \notin health}

\* collect_drain_task: all of a stream, or nothing of it if its pipe stays open
\* past the deadline or its log cannot be written.
Collected(stream) == {stream} \cup (IF DrainMayTimeOut THEN {{}} ELSE {})

Holding == {j \in Job : jpc[j] \notin {"idle", "queued", "done"}}

JGoto(j, step) == jpc' = [jpc EXCEPT ![j] = step]
Attempted(j, r) == out' = [out EXCEPT ![j] = r]

\* prune_worktree: its git commands may fail, and nobody looks.
Prune(j) ==
  \/ tree' = [tree EXCEPT ![j] = "none"]
  \/ PruneMayFail /\ tree' = [tree EXCEPT ![j] = "stuck"]

Init ==
  /\ phase = "validate"
  /\ health = {} /\ probes = 0
  /\ remaining = Job /\ wave = {}
  /\ result = [j \in Job |-> NoResult]
  /\ jpc = [j \in Job |-> "idle"]
  /\ out = [j \in Job |-> NoResult]
  /\ attempt = [j \in Job |-> 0]
  /\ slept = [j \in Job |-> 0]
  /\ \E old \in SUBSET Leftover :
       tree = [j \in Job |-> IF j \in old THEN "old" ELSE "none"]
  /\ procs = {} /\ spent = {}

-----------------------------------------------------------------------------
(* The batch.                                                              *)

\* validate_batch: too many jobs, a duplicate id or an invalid job.
Validate ==
  /\ phase = "validate"
  /\ phase' \in {"health", "rejected"}
  /\ UNCHANGED <<health, probes, remaining, wave, result, jobVars>>

\* healthcheck: the first probe decides if it fails; later ones only add.
Probe ==
  /\ phase = "health"
  /\ probes <= HealthRetries /\ health # Runners
  /\ probes' = probes + 1
  /\ \/ /\ \E found \in SUBSET (Runners \ health) : health' = health \cup found
        /\ UNCHANGED phase
     \/ /\ probes = 0
        /\ phase' = "plan"
        /\ UNCHANGED health
  /\ UNCHANGED <<remaining, wave, result, jobVars>>

Probed ==
  /\ phase = "health"
  /\ probes > HealthRetries \/ health = Runners
  /\ phase' = "plan"
  /\ UNCHANGED <<health, probes, remaining, wave, result, jobVars>>

\* Mutant of StartWave: a job that is skipped stays among those to run.
StartWaveKeepsBlocked ==
  /\ phase = "plan" /\ remaining # {}
  /\ result' = SkippedForDependency
  /\ remaining' = remaining
  /\ IF Ready = {}
     THEN phase' = "plan" /\ UNCHANGED <<wave, jpc, out>>
     ELSE /\ phase' = "wave" /\ wave' = Ready
          /\ jpc' = [j \in Job |-> IF j \in Ready THEN "queued" ELSE jpc[j]]
          /\ UNCHANGED out
  /\ UNCHANGED <<health, probes, attempt, slept, tree, procs, spent>>

\* One pass of run_dependency_plan: blocked jobs are skipped, the ready ones
\* become the next wave; those with an unhealthy runner are settled at once.
\* A batch without edges is a single wave.
StartWave ==
  /\ phase = "plan" /\ remaining # {}
  /\ result' = SkippedForDependency
  /\ remaining' = remaining \ Blocked
  /\ \/ /\ Ready # {}
        /\ phase' = "wave" /\ wave' = Ready
        /\ jpc' = [j \in Job |-> IF j \in SkippedForUnhealthy THEN "done"
                                 ELSE IF j \in Ready THEN "queued" ELSE jpc[j]]
        /\ out' = [j \in Job |-> IF j \in SkippedForUnhealthy THEN Res("skipped") ELSE out[j]]
     \/ /\ Ready = {}
        /\ phase' = IF remaining = Blocked THEN "plan" ELSE "cycle"
        /\ UNCHANGED <<wave, jpc, out>>
  /\ UNCHANGED <<health, probes, attempt, slept, tree, procs, spent>>

\* run_parallel_jobs has joined every task of the wave.
EndWave ==
  /\ phase = "wave"
  /\ \A j \in wave : jpc[j] = "done"
  /\ result' = [j \in Job |-> IF j \in wave THEN out[j] ELSE result[j]]
  /\ remaining' = remaining \ wave
  /\ wave' = {}
  /\ phase' = "plan"
  /\ UNCHANGED <<health, probes, jobVars>>

Return ==
  /\ phase = "plan" /\ remaining = {}
  /\ phase' = "done"
  /\ UNCHANGED <<health, probes, remaining, wave, result, jobVars>>

-----------------------------------------------------------------------------
(* The task of one job: run_job, run_once and finalize_write_task.         *)

\* The task gets a permit and keeps it to its end.
Acquire(j) ==
  /\ jpc[j] = "queued"
  /\ Cardinality(Holding) < MaxConcurrency
  /\ JGoto(j, "open")
  /\ attempt' = [attempt EXCEPT ![j] = 1]
  /\ UNCHANGED <<planVars, out, slept, tree, procs, spent>>

\* The attempt's directory, prompt and runner script; then the worktree, which
\* must not exist yet.  Any of these may fail.
Open(j) ==
  /\ jpc[j] = "open"
  /\ \/ /\ Attempted(j, Res("failed"))
        /\ JGoto(j, "settle")
        /\ UNCHANGED tree
     \/ /\ j \notin InTmux
        /\ j \in Writes => tree[j] = "none"
        /\ tree' = IF j \in Writes THEN [tree EXCEPT ![j] = "there"] ELSE tree
        /\ JGoto(j, "spawn")
        /\ UNCHANGED out
     \/ /\ j \in InTmux \ Writes
        /\ \E s \in Status : Attempted(j, Res(s))
        /\ JGoto(j, "settle")
        /\ UNCHANGED tree
  /\ UNCHANGED <<planVars, attempt, slept, procs, spent>>

\* Mutant of Spawn: a failed spawn leaves the worktree behind.
SpawnLeaves(j) ==
  /\ jpc[j] = "spawn"
  /\ \/ /\ procs' = procs \cup {j}
        /\ JGoto(j, "run")
        /\ UNCHANGED out
     \/ /\ Attempted(j, Res("failed"))
        /\ JGoto(j, "settle")
        /\ UNCHANGED procs
  /\ UNCHANGED <<planVars, attempt, slept, tree, spent>>

\* The log file and the process; on failure the worktree is pruned.
Spawn(j) ==
  /\ jpc[j] = "spawn"
  /\ \/ /\ procs' = procs \cup {j}
        /\ JGoto(j, "run")
        /\ UNCHANGED <<out, tree>>
     \/ /\ Attempted(j, Res("failed"))
        /\ IF j \in Writes THEN Prune(j) ELSE UNCHANGED tree
        /\ JGoto(j, "settle")
        /\ UNCHANGED procs
  /\ UNCHANGED <<planVars, attempt, slept, spent>>

\* The attempt ends with this code, reply and markers in what was collected.
Exited(j, code, empty, marks) ==
  /\ Attempted(j, Res(Classify(code, empty, marks)))
  /\ spent' = IF code # 0 /\ "quota" \in marks THEN spent \cup {j} ELSE spent

\* The runner exits, or dies of a signal (no code): its output is collected,
\* though stderr is lost if something else keeps the pipe open for too long.
Exit(j) ==
  /\ jpc[j] = "run"
  /\ procs' = procs \ {j}
  /\ \/ \E code \in {0, 1, 124}, empty \in BOOLEAN,
           reply \in SUBSET Marker, stderr \in SUBSET Marker :
        \E read \in Collected(stderr) :
          (empty => reply = {}) /\ Exited(j, code, empty, reply \cup read)
     \/ Attempted(j, Res("failed")) /\ UNCHANGED spent
  /\ JGoto(j, "finish")
  /\ UNCHANGED <<planVars, attempt, slept, tree>>

\* Mutant of Deadline: the runner is not killed.
DeadlineLeaves(j) ==
  /\ jpc[j] = "run"
  /\ \E s \in {"timeout", "failed"} : Attempted(j, Res(s))
  /\ JGoto(j, "finish")
  /\ UNCHANGED <<planVars, attempt, slept, tree, procs, spent>>

\* Mutant of Deadline: the runner is waited for without a deadline.
DeadlineIgnored(j) ==
  /\ jpc[j] = "run"
  /\ UNCHANGED vars

\* The time budget or the stall limit is reached, or waiting fails: the
\* process group is killed and reaped.
Deadline(j) ==
  /\ jpc[j] = "run"
  /\ \E s \in {"timeout", "failed"} : Attempted(j, Res(s))
  /\ procs' = procs \ {j}
  /\ JGoto(j, "finish")
  /\ UNCHANGED <<planVars, attempt, slept, tree, spent>>

\* emit_diff has come to an end: only a success with a diff keeps its worktree,
\* for a merge review.
Reviewed(j, statuses) ==
  /\ \/ /\ Attempted(j, Res("failed"))
        /\ Prune(j)
     \/ /\ \E s \in statuses : Attempted(j, [status |-> s, review |-> TRUE])
        /\ tree' = [tree EXCEPT ![j] = "kept"]
  /\ JGoto(j, "settle")

\* finalize_write_task, up to the job's test command if it has one.
Finish(j) ==
  /\ jpc[j] = "finish"
  /\ \/ /\ j \notin Writes
        /\ JGoto(j, "settle")
        /\ UNCHANGED <<out, tree>>
     \/ /\ j \in Writes /\ out[j].status # "ok"
        /\ Prune(j)
        /\ JGoto(j, "settle")
        /\ UNCHANGED out
     \/ /\ j \in Writes /\ out[j].status = "ok" /\ j \notin Tested
        /\ Reviewed(j, {"ok"})
     \/ /\ j \in Writes /\ out[j].status = "ok" /\ j \in Tested
        /\ JGoto(j, "test")
        /\ UNCHANGED <<out, tree>>
  /\ UNCHANGED <<planVars, attempt, slept, procs, spent>>

\* The test command ends, for which nothing sets a limit; failing tests turn
\* the result into a failure that still has a review.
EndTest(j) ==
  /\ jpc[j] = "test"
  /\ Reviewed(j, {"ok", "failed"})
  /\ UNCHANGED <<planVars, attempt, slept, procs, spent>>

\* run_job after an attempt: sleep and try again, or be done.
Settle(j) ==
  /\ jpc[j] = "settle"
  /\ \/ /\ MayRetry(j)
        /\ slept' = [slept EXCEPT ![j] = @ + Delay(attempt[j])]
        /\ JGoto(j, "sleep")
     \/ /\ ~ MayRetry(j)
        /\ JGoto(j, "done")
        /\ UNCHANGED slept
  /\ UNCHANGED <<planVars, out, attempt, tree, procs, spent>>

Wake(j) ==
  /\ jpc[j] = "sleep"
  /\ attempt' = [attempt EXCEPT ![j] = @ + 1]
  /\ JGoto(j, "open")
  /\ UNCHANGED <<planVars, out, slept, tree, procs, spent>>

\* submit has returned.
Idle == phase \in {"done", "rejected", "cycle"} /\ UNCHANGED vars

PlanStep == Validate \/ Probe \/ Probed \/ StartWave \/ EndWave \/ Return
TaskStep(j) ==
  \/ Acquire(j) \/ Open(j) \/ Spawn(j) \/ Exit(j) \/ Deadline(j) \/ Finish(j)
  \/ EndTest(j) \/ Settle(j) \/ Wake(j)

Next == PlanStep \/ (\E j \in Job : TaskStep(j)) \/ Idle

Spec == Init /\ [][Next]_vars

\* The runtime polls every task that can go on, and deadlines come; git and the
\* file system answer.  Nothing makes a runner exit, and nothing ends the
\* healthcheck script or a test command: their output is awaited without limit.
FairSpec ==
  /\ Spec
  /\ WF_vars(Validate \/ Probed \/ StartWave \/ EndWave \/ Return)
  /\ \A j \in Job :
       WF_vars(Acquire(j) \/ Open(j) \/ Spawn(j) \/ Deadline(j) \/ Finish(j)
               \/ Settle(j) \/ Wake(j))

-----------------------------------------------------------------------------
\* No runner of an attempt is alive once that attempt is over: before the next
\* one, and when submit returns (kill_child_group).
AttemptIsDead ==
  \A j \in procs : jpc[j] = "run"

\* Once a job has settled, a worktree of this batch that git did not refuse to
\* remove is on disk exactly if the result carries the merge review that names
\* it (finalize_write_task, WorktreeCleanupGuard): nothing leaks, and nothing
\* to review is lost.
KeptIsReported ==
  \A j \in Job : jpc[j] = "done" => (tree[j] \in {"there", "kept"} <=> out[j].review)

\* Retries end: the sleeps between attempts stay within the retry budget, the
\* attempts within max_retries, and a job whose runner failed with an output
\* that says the quota is exhausted is not tried again, whatever else the
\* output says (next_backoff_sec, classify_exit, retry_delay_after_attempt).
RetryBounded ==
  /\ [](\A j \in Job : slept[j] <= RetryBudget /\ attempt[j] <= MaxRetries + 1)
  /\ [][\A j \in spent : attempt'[j] = attempt[j]]_vars

\* submit gives up with DependencyCycle only if some job waits for itself,
\* directly or through others (run_dependency_plan).
Reach(S) == S \cup UNION {Children[j] : j \in S}
Descendants(j) ==
  LET grow[n \in Nat] == IF n = 0 THEN Children[j] ELSE Reach(grow[n - 1])
  IN  grow[Cardinality(Job)]
CycleIsReal == phase = "cycle" => \E j \in Job : j \in Descendants(j)

\* submit returns, whatever the runners do: no task waits for ever for a
\* permit, a process, a backoff or another task.  Only a healthcheck script or
\* a test command that never ends holds it up; such a test command holds its
\* own permit and nothing else of its wave, whose other jobs end unless every
\* permit is held like that (run_test_command, run_parallel_jobs).
Testing == {j \in Job : jpc[j] = "test"}
HeldUp ==
  \/ phase = "health"
  \/ /\ phase = "wave" /\ Testing # {}
     /\ \A j \in wave \ Testing :
          jpc[j] = "done" \/ (jpc[j] = "queued" /\ Cardinality(Testing) = MaxConcurrency)
SubmitReturns == <>(phase \in {"done", "rejected", "cycle"}) \/ <>[]HeldUp

\* The scheduler implements the promise of JobBatch: outcomes are for good, no
\* job ran before its parents, none was passed over without a reason.
Outcome(r) ==
  CASE r = NoResult -> "none"
    [] r.status = "skipped" -> "skipped"
    [] Good(r) -> "good"
    [] r.review -> "review"
    [] OTHER -> "bad"
Batch == INSTANCE JobBatch WITH
  outcome <- [j \in Job |-> Outcome(result[j])],
  verdict <- CASE phase = "done" -> "done"
               [] phase \in {"rejected", "cycle"} -> "refused"
               [] OTHER -> "open"
ImplementsBatch == Batch!Spec
=============================================================================
