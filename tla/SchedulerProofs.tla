-------------------------- MODULE SchedulerProofs ---------------------------
(***************************************************************************)
(* Scheduler::submit for every batch, dependency graph, semaphore, retry   *)
(* policy and fault: the scheduler implements JobBatch, no runner outlives *)
(* its attempt, and, for a policy that retries neither a success nor a     *)
(* failure nor an exhausted quota, worktrees and results agree and retries *)
(* are bounded.                                                            *)
(***************************************************************************)
EXTENDS Scheduler, TLAPS

Phase   == {"validate", "health", "plan", "wave", "done", "rejected", "cycle"}
JobStep == {"idle", "queued", "open", "spawn", "run", "finish", "test", "settle",
            "sleep", "done"}
Result  == [status : Status \cup {"none", "skipped"}, review : BOOLEAN]
Tree    == {"none", "old", "there", "kept", "stuck"}

Types ==
  /\ phase \in Phase
  /\ remaining \subseteq Job /\ wave \subseteq remaining
  /\ result \in [Job -> Result] /\ out \in [Job -> Result]
  /\ jpc \in [Job -> JobStep]
  /\ tree \in [Job -> Tree]
  /\ attempt \in [Job -> Nat]
  /\ slept = [j \in Job |-> slept[j]]
  /\ procs \subseteq Job /\ spent \subseteq Job

\* A job has no result until its wave has ended; only the jobs of the wave run,
\* and all their parents have succeeded.
PlanInv ==
  /\ \A j \in Job : j \in remaining <=> result[j] = NoResult
  /\ phase # "wave" => wave = {}
  /\ \A j \in wave : \A p \in Parents(j) : Good(result[p])
  /\ \A j \in Job \ wave : jpc[j] \in {"idle", "done"}
  /\ \A j \in remaining \ wave : jpc[j] = "idle"

\* An attempt that is over has a result and no runner.
AttemptInv ==
  \A j \in Job : /\ jpc[j] \in {"finish", "test", "settle", "done"} => out[j].status # "none"
                 /\ j \in procs => jpc[j] = "run"

BatchInv == Types /\ PlanInv /\ AttemptInv

-----------------------------------------------------------------------------
\* Every exit of a runner is classified.
LEMMA ClassifyTotal ==
  ASSUME NEW code \in {0, 1, 124}, NEW empty \in BOOLEAN, NEW marks \in SUBSET Marker
  PROVE  /\ Classify(code, empty, marks) \in Status
         /\ code # 0 /\ "quota" \in marks => Classify(code, empty, marks) = "quota_exhausted"
<1>1. marks = {} \/ "quota" \in marks \/ "rate" \in marks
  BY DEF Marker
<1> QED BY <1>1 DEF Classify, Status

\* What was read of a runner's output has no markers that are not there.
LEMMA CollectedMarks ==
  ASSUME NEW stderr \in SUBSET Marker, NEW read \in Collected(stderr)
  PROVE  read \in SUBSET Marker
  BY DEF Collected

\* Results are results.
LEMMA ResIsResult == \A s \in Status \cup {"skipped"} : Res(s) \in Result /\ ~Res(s).review
                                                        /\ Res(s).status = s /\ s # "none"
  BY DEF Res, Result, Status

\* What an attempt may leave as its result, and in the history.
LEMMA ExitResult ==
  ASSUME NEW j \in Job, Exit(j)
  PROVE  /\ \E s \in Status : out' = [out EXCEPT ![j] = Res(s)]
         /\ \/ spent' = spent
            \/ spent' = spent \cup {j} /\ out' = [out EXCEPT ![j] = Res("quota_exhausted")]
<1>1. CASE Attempted(j, Res("failed")) /\ UNCHANGED spent
  BY <1>1 DEF Status, Attempted
<1>2. CASE \E code \in {0, 1, 124}, empty \in BOOLEAN,
            reply \in SUBSET Marker, stderr \in SUBSET Marker :
         \E read \in Collected(stderr) :
           (empty => reply = {}) /\ Exited(j, code, empty, reply \cup read)
  <2>1. PICK code \in {0, 1, 124}, empty \in BOOLEAN, reply \in SUBSET Marker,
             stderr \in SUBSET Marker :
               \E read \in Collected(stderr) : Exited(j, code, empty, reply \cup read)
    BY <1>2
  <2>2. PICK read \in Collected(stderr) : Exited(j, code, empty, reply \cup read)
    BY <2>1
  <2> DEFINE marks == reply \cup read
  <2>3. marks \in SUBSET Marker
    BY CollectedMarks
  <2>4. Exited(j, code, empty, marks)
    BY <2>2
  <2> HIDE DEF marks
  <2>5. /\ Classify(code, empty, marks) \in Status
        /\ code # 0 /\ "quota" \in marks => Classify(code, empty, marks) = "quota_exhausted"
    BY <2>3, ClassifyTotal
  <2> QED BY <2>4, <2>5 DEF Exited, Attempted
<1> QED BY <1>1, <1>2 DEF Exit
-----------------------------------------------------------------------------
LEMMA InitBatchInv == Init => BatchInv
<1> SUFFICES ASSUME Init PROVE BatchInv
  OBVIOUS
<1>1. NoResult \in Result
  BY DEF NoResult, Result
<1>2. Types
  <2>1. tree \in [Job -> Tree]
    BY DEF Init, Tree
  <2> QED BY <1>1, <2>1 DEF Init, Types, Phase, JobStep
<1> QED BY <1>2 DEF Init, BatchInv, PlanInv, AttemptInv, NoResult

\* A task works on its own job only, while it has something to do, and leaves
\* the plan alone.
LEMMA TaskStepMoves ==
  ASSUME BatchInv, NEW j \in Job, TaskStep(j)
  PROVE  /\ UNCHANGED planVars
         /\ jpc[j] \notin {"idle", "done"}
         /\ \E s \in JobStep \ {"idle"} : jpc' = [jpc EXCEPT ![j] = s]
         /\ out' = out \/ \E r \in Result : out' = [out EXCEPT ![j] = r]
         /\ jpc'[j] \in {"finish", "test", "settle", "done"} => out'[j].status # "none"
         /\ procs' \in {procs, procs \cup {j}, procs \ {j}}
         /\ j \in procs' => jpc'[j] = "run"
         /\ Types'
<1> USE DEF BatchInv, Types, JGoto
<1>1. CASE Acquire(j)
  BY <1>1 DEF Acquire, AttemptInv, planVars, JobStep
<1>2. CASE Open(j)
  <2>1. \A s \in Status : Res(s) \in Result /\ Res(s).status # "none"
    BY ResIsResult
  <2>2. tree' \in [Job -> Tree]
    BY <1>2 DEF Open, Tree
  <2>3. CASE out' = out /\ jpc' = [jpc EXCEPT ![j] = "spawn"]
    BY <1>2, <2>2, <2>3 DEF Open, AttemptInv, planVars, JobStep
  <2>4. ASSUME NEW s \in Status, out' = [out EXCEPT ![j] = Res(s)],
               jpc' = [jpc EXCEPT ![j] = "settle"]
        PROVE  /\ UNCHANGED planVars
               /\ jpc[j] \notin {"idle", "done"}
               /\ \E t \in JobStep \ {"idle"} : jpc' = [jpc EXCEPT ![j] = t]
               /\ out' = out \/ \E r \in Result : out' = [out EXCEPT ![j] = r]
               /\ jpc'[j] \in {"finish", "test", "settle", "done"} => out'[j].status # "none"
               /\ procs' \in {procs, procs \cup {j}, procs \ {j}}
               /\ j \in procs' => jpc'[j] = "run"
               /\ Types'
    BY <1>2, <2>1, <2>2, <2>4 DEF Open, AttemptInv, planVars, JobStep
  <2> QED BY <1>2, <2>3, <2>4 DEF Open, Attempted, Status
<1>3. CASE Spawn(j)
  <2>1. Res("failed") \in Result /\ Res("failed").status # "none"
    BY ResIsResult DEF Status
  <2>2. tree' \in [Job -> Tree]
    BY <1>3 DEF Spawn, Prune, Tree
  <2> QED BY <1>3, <2>1, <2>2 DEF Spawn, AttemptInv, Attempted, planVars, JobStep
<1>4. CASE Exit(j)
  <2>1. \A s \in Status : Res(s) \in Result /\ Res(s).status # "none"
    BY ResIsResult
  <2>2. PICK s \in Status : out' = [out EXCEPT ![j] = Res(s)]
    BY <1>4, ExitResult
  <2>3. spent' \subseteq Job
    BY <1>4, ExitResult
  <2> QED BY <1>4, <2>1, <2>2, <2>3 DEF Exit, AttemptInv, planVars, JobStep
<1>5. CASE Deadline(j)
  <2>1. \A s \in Status : Res(s) \in Result /\ Res(s).status # "none"
    BY ResIsResult
  <2>2. PICK s \in Status : out' = [out EXCEPT ![j] = Res(s)]
    BY <1>5 DEF Deadline, Attempted, Status
  <2> QED BY <1>5, <2>1, <2>2 DEF Deadline, AttemptInv, planVars, JobStep
<1>6. CASE Finish(j) \/ EndTest(j)
  <2>1. /\ Res("failed") \in Result /\ Res("failed").status # "none"
        /\ [status |-> "ok", review |-> TRUE] \in Result
        /\ [status |-> "failed", review |-> TRUE] \in Result
    BY ResIsResult DEF Status, Result
  <2>2. tree' \in [Job -> Tree]
    BY <1>6 DEF Finish, EndTest, Reviewed, Prune, Tree
  <2>3. \/ out' = out
        \/ \E r \in Result : out' = [out EXCEPT ![j] = r] /\ r.status # "none"
    BY <1>6, <2>1 DEF Finish, EndTest, Reviewed, Attempted
  <2>4. out'[j].status # "none" /\ out' \in [Job -> Result]
    BY <1>6, <2>3 DEF Finish, EndTest, AttemptInv
  <2>5. \E s \in {"test", "settle"} : jpc' = [jpc EXCEPT ![j] = s]
    BY <1>6 DEF Finish, EndTest, Reviewed
  <2>6. UNCHANGED <<planVars, attempt, slept, procs, spent>> /\ jpc[j] \in {"finish", "test"}
    BY <1>6 DEF Finish, EndTest
  <2>7. PICK s \in {"test", "settle"} : jpc' = [jpc EXCEPT ![j] = s]
    BY <2>5
  <2>8. /\ jpc[j] \notin {"idle", "done"} /\ s \in JobStep \ {"idle"}
        /\ jpc' \in [Job -> JobStep] /\ UNCHANGED planVars
    BY <2>6, <2>7 DEF JobStep
  <2>9. procs' = procs /\ j \notin procs
    BY <2>6 DEF AttemptInv
  <2>10. Types'
    BY <2>2, <2>4, <2>6, <2>8 DEF planVars
  <2>11. out' = out \/ \E r \in Result : out' = [out EXCEPT ![j] = r]
    BY <2>3
  <2> QED BY <2>4, <2>7, <2>8, <2>9, <2>10, <2>11
<1>7. CASE Settle(j) \/ Wake(j)
  BY <1>7 DEF Settle, Wake, AttemptInv, planVars, JobStep
<1> QED BY <1>1, <1>2, <1>3, <1>4, <1>5, <1>6, <1>7 DEF TaskStep

\* The step of a task keeps the invariant.
LEMMA TaskKeeps ==
  ASSUME BatchInv, NEW j \in Job, TaskStep(j)
  PROVE  BatchInv'
<1>1. PICK s \in JobStep \ {"idle"} : jpc' = [jpc EXCEPT ![j] = s]
  BY TaskStepMoves
<1>2. Types' /\ UNCHANGED planVars /\ jpc[j] \notin {"idle", "done"}
  BY TaskStepMoves
<1>3. \A k \in Job \ {j} : jpc'[k] = jpc[k] /\ out'[k] = out[k] /\ (k \in procs' => k \in procs)
  BY TaskStepMoves DEF BatchInv, Types
<1>4. AttemptInv'
  <2>1. /\ jpc'[j] \in {"finish", "test", "settle", "done"} => out'[j].status # "none"
        /\ j \in procs' => jpc'[j] = "run"
    BY TaskStepMoves
  <2> QED BY <1>3, <2>1 DEF BatchInv, AttemptInv
<1>5. j \in wave
  BY <1>2 DEF BatchInv, PlanInv
<1>6. PlanInv'
  <2>1. UNCHANGED <<phase, remaining, wave, result>>
    BY <1>2 DEF planVars
  <2>2. \A k \in Job \ wave : jpc'[k] = jpc[k]
    BY <1>3, <1>5
  <2>3. wave \subseteq Job /\ remaining \subseteq Job
    BY DEF BatchInv, Types
  <2>4. \A k \in wave' : \A q \in Parents(k)' : Good(result[q])'
    BY <2>1, Zenon DEF BatchInv, PlanInv, Parents, Good
  <2> QED BY <2>1, <2>2, <2>3, <2>4 DEF BatchInv, PlanInv
<1> QED BY <1>2, <1>4, <1>6 DEF BatchInv

\* A job that is ready has all its parents' results, so it is not its own
\* parent and not blocked.
LEMMA ReadyFacts ==
  ASSUME BatchInv
  PROVE  /\ Ready \subseteq remaining \ Blocked
         /\ Blocked \subseteq remaining
         /\ \A j \in Ready : \A p \in Parents(j) : p \in Job \ remaining /\ Good(result[p])
         /\ \A j \in Blocked : \E p \in Parents(j) : Bad(result[p])
<1>1. ~Good(NoResult)
  BY DEF Good, NoResult
<1> QED BY <1>1 DEF BatchInv, PlanInv, Types, Ready, Blocked, Parents

LEMMA StartWaveKeeps ==
  ASSUME BatchInv, StartWave
  PROVE  BatchInv'
<1> USE DEF BatchInv
<1>0. /\ Res("skipped") \in Result /\ Res("skipped").status = "skipped"
      /\ Res("skipped") # NoResult
  BY ResIsResult DEF NoResult, Res
<1>1. wave = {} /\ \A j \in Job : jpc[j] \in {"idle", "done"}
  BY DEF StartWave, PlanInv
<1>2. /\ result' = [j \in Job |-> IF j \in Blocked THEN Res("skipped") ELSE result[j]]
      /\ remaining' = remaining \ Blocked
  BY DEF StartWave, SkippedForDependency
<1>3. \A j \in Job : j \in remaining' <=> result'[j] = NoResult
  BY <1>0, <1>2 DEF PlanInv
<1>4. result' \in [Job -> Result] /\ remaining' \subseteq Job
  BY <1>0, <1>2 DEF Types
<1>5. CASE Ready = {}
  <2>1. UNCHANGED <<wave, jpc, out>> /\ phase' \in {"plan", "cycle"}
    BY <1>5 DEF StartWave
  <2>2. UNCHANGED <<attempt, slept, tree, procs, spent>>
    BY DEF StartWave
  <2>3. Types'
    BY <1>1, <1>4, <2>1, <2>2 DEF Types, Phase
  <2>4. PlanInv'
    BY <1>1, <1>2, <1>3, <2>1 DEF PlanInv
  <2> QED BY <2>1, <2>2, <2>3, <2>4 DEF AttemptInv
<1>6. CASE Ready # {}
  <2>1. /\ phase' = "wave" /\ wave' = Ready
        /\ jpc' = [j \in Job |-> IF j \in SkippedForUnhealthy THEN "done"
                                  ELSE IF j \in Ready THEN "queued" ELSE jpc[j]]
        /\ out' = [j \in Job |-> IF j \in SkippedForUnhealthy THEN Res("skipped")
                                  ELSE out[j]]
    BY <1>6 DEF StartWave
  <2>2. UNCHANGED <<attempt, slept, tree, procs, spent>>
    BY DEF StartWave
  <2>3. SkippedForUnhealthy \subseteq Ready /\ Ready \subseteq remaining' /\ Ready \subseteq Job
    BY <1>2, ReadyFacts DEF SkippedForUnhealthy, Types
  <2>4. Types'
    BY <1>0, <1>4, <2>1, <2>2, <2>3 DEF Types, Phase, JobStep
  <2>5. \A j \in Ready : \A p \in Parents(j) : Good(result'[p])
    BY <1>2, ReadyFacts
  <2>6. PlanInv'
    <3>1. \A j \in Job \ wave' : jpc'[j] = jpc[j]
      BY <2>1, <2>3
    <3>2. \A j \in remaining' \ wave' : jpc[j] = "idle"
      BY <1>1, <1>2 DEF PlanInv
    <3>3. \A j \in wave' : \A p \in Parents(j)' : Good(result[p])'
      BY <2>1, <2>5 DEF Parents, Good
    <3> QED BY <1>1, <1>3, <1>4, <2>1, <3>1, <3>2, <3>3 DEF PlanInv
  <2>7. AttemptInv'
    BY <1>0, <1>1, <2>1, <2>2, <2>3 DEF AttemptInv
  <2> QED BY <2>4, <2>6, <2>7
<1> QED BY <1>5, <1>6

LEMMA NextBatchInv == BatchInv /\ [Next]_vars => BatchInv'
<1> SUFFICES ASSUME BatchInv, [Next]_vars PROVE BatchInv'
  OBVIOUS
<1>1. CASE Validate \/ Probe \/ Probed \/ Return
  BY <1>1 DEF Validate, Probe, Probed, Return, BatchInv, Types, PlanInv, AttemptInv,
              jobVars, Phase
<1>2. CASE StartWave
  BY <1>2, StartWaveKeeps
<1>3. CASE EndWave
  <2> USE DEF BatchInv
  <2>1. Types'
    BY <1>3 DEF EndWave, Types, jobVars, Phase
  <2>2. \A j \in wave : out[j] # NoResult
    BY <1>3 DEF EndWave, AttemptInv, NoResult, Types
  <2>3. PlanInv'
    BY <1>3, <2>2 DEF EndWave, PlanInv, Types, jobVars
  <2> QED BY <1>3, <2>1, <2>3 DEF EndWave, AttemptInv, jobVars
<1>4. ASSUME NEW j \in Job, TaskStep(j) PROVE BatchInv'
  BY <1>4, TaskKeeps
<1>5. CASE Idle \/ UNCHANGED vars
  BY <1>5 DEF Idle, vars, planVars, jobVars, BatchInv, Types, PlanInv, AttemptInv
<1> QED BY <1>1, <1>2, <1>3, <1>4, <1>5 DEF Next, PlanStep

\* A runner lives only while its attempt runs, for every batch: none is left
\* when the next attempt starts or when submit returns.
THEOREM AttemptTheorem == Spec => []AttemptIsDead
<1>1. BatchInv => AttemptIsDead
  BY DEF BatchInv, AttemptInv, Types, AttemptIsDead
<1> QED BY <1>1, InitBatchInv, NextBatchInv, PTL DEF Spec
-----------------------------------------------------------------------------
(* Worktrees and results.                                                  *)

Removed(j) == tree[j] \in {"none", "old", "stuck"}

\* A worktree is there from Open to the end of the attempt; after that it is
\* there if and only if the result has a review, which only a success or a
\* failure has.
TreeInv ==
  \A j \in Job :
    /\ jpc[j] \in {"idle", "queued", "open", "sleep"} => Removed(j)
    /\ jpc[j] \in {"spawn", "run", "finish"} => (j \in Writes \/ Removed(j))
    /\ jpc[j] \in {"finish", "test"} => ~out[j].review
    /\ jpc[j] \in {"settle", "done"} =>
         /\ out[j].review <=> tree[j] \in {"there", "kept"}
         /\ out[j].review => out[j].status \in {"ok", "failed"}

\* What the passes of the plan do to the jobs of TreeInv and RetryInv: an idle
\* job is queued, or is done with a result that says it was skipped.
LEMMA PlanStepMoves ==
  ASSUME BatchInv, PlanStep \/ Idle \/ UNCHANGED vars, NEW j \in Job
  PROVE  /\ UNCHANGED <<tree, attempt, slept, spent>>
         /\ \/ jpc'[j] = jpc[j] /\ out'[j] = out[j]
            \/ jpc[j] = "idle" /\ jpc'[j] = "queued"
            \/ jpc[j] = "idle" /\ jpc'[j] = "done" /\ out'[j] = Res("skipped")
<1>1. CASE StartWave
  <2>1. UNCHANGED <<tree, attempt, slept, spent>>
    BY <1>1 DEF StartWave
  <2>2. Ready \subseteq remaining /\ SkippedForUnhealthy \subseteq Ready /\ wave = {}
    BY <1>1, ReadyFacts DEF SkippedForUnhealthy, StartWave, BatchInv, PlanInv
  <2>3. j \in Ready => jpc[j] = "idle"
    BY <2>2 DEF BatchInv, PlanInv
  <2> QED BY <1>1, <2>1, <2>2, <2>3 DEF StartWave
<1>2. CASE Validate \/ Probe \/ Probed \/ EndWave \/ Return
  BY <1>2 DEF Validate, Probe, Probed, EndWave, Return, jobVars
<1>3. CASE Idle \/ UNCHANGED vars
  BY <1>3 DEF Idle, vars, jobVars
<1> QED BY <1>1, <1>2, <1>3 DEF PlanStep

\* A task's step does not touch the other jobs.
LEMMA TaskStepOthers ==
  ASSUME BatchInv, NEW j \in Job, TaskStep(j), NEW k \in Job, k # j
  PROVE  /\ jpc'[k] = jpc[k] /\ out'[k] = out[k] /\ tree'[k] = tree[k]
         /\ attempt'[k] = attempt[k] /\ slept'[k] = slept[k] /\ (k \in spent' <=> k \in spent)
<1>1. jpc'[k] = jpc[k] /\ out'[k] = out[k]
  BY TaskStepMoves DEF BatchInv, Types
<1>2. k \in spent' <=> k \in spent
  <2>1. CASE Exit(j)
    BY <2>1, ExitResult
  <2> QED BY <2>1 DEF TaskStep, Acquire, Open, Spawn, Deadline, Finish, EndTest, Settle, Wake
<1>3. tree'[k] = tree[k] /\ attempt'[k] = attempt[k] /\ slept'[k] = slept[k]
  BY DEF BatchInv, Types, TaskStep, Acquire, Open, Spawn, Exit, Deadline, Finish, EndTest,
         Reviewed, Settle, Wake, Prune
<1> QED BY <1>1, <1>2, <1>3

LEMMA NextTreeInv ==
  ASSUME RetryOn \cap {"ok", "failed"} = {}, BatchInv, TreeInv, [Next]_vars
  PROVE  TreeInv'
<1>1. CASE PlanStep \/ Idle \/ UNCHANGED vars
  <2>1. ~Res("skipped").review
    BY DEF Res
  <2> QED BY <1>1, <2>1, PlanStepMoves DEF TreeInv, Removed, BatchInv, Types, Tree
<1>2. ASSUME NEW j \in Job, TaskStep(j) PROVE TreeInv'
  <2> DEFINE I == /\ jpc[j] \in {"idle", "queued", "open", "sleep"} => Removed(j)
                  /\ jpc[j] \in {"spawn", "run", "finish"} => (j \in Writes \/ Removed(j))
                  /\ jpc[j] \in {"finish", "test"} => ~out[j].review
                  /\ jpc[j] \in {"settle", "done"} =>
                       /\ out[j].review <=> tree[j] \in {"there", "kept"}
                       /\ out[j].review => out[j].status \in {"ok", "failed"}
  <2>0. I
    BY DEF TreeInv
  <2> USE DEF BatchInv, Types, JGoto, Removed
  <2>a. \A s \in Status : ~Res(s).review /\ Res(s).status = s
    BY DEF Res
  <2>1. ASSUME (Acquire(j) \/ Wake(j)) PROVE I'
    BY <2>0, <2>1 DEF Acquire, Wake
  <2>2. ASSUME Open(j) PROVE I'
    BY <2>0, <2>2, <2>a DEF Open, Attempted, Status
  <2>3. ASSUME Spawn(j) PROVE I'
    BY <2>0, <2>3, <2>a DEF Spawn, Attempted, Prune, Status
  <2>4. ASSUME Exit(j) PROVE I'
    <3>1. PICK s \in Status : out' = [out EXCEPT ![j] = Res(s)]
      BY <2>4, ExitResult
    <3> QED BY <2>0, <2>4, <2>a, <3>1 DEF Exit
  <2>5. ASSUME Deadline(j) PROVE I'
    BY <2>0, <2>5, <2>a DEF Deadline, Attempted, Status
  <2>6. ASSUME Finish(j) \/ EndTest(j) PROVE I'
    BY <2>0, <2>6, <2>a DEF Finish, EndTest, Reviewed, Attempted, Prune, Status
  <2>7. ASSUME Settle(j) PROVE I'
    <3>1. out[j].review => ~MayRetry(j)
      BY <2>0, <2>7 DEF Settle, MayRetry
    <3>2. tree[j] \in Tree
      OBVIOUS
    <3> QED BY <2>0, <2>7, <3>1, <3>2 DEF Settle, Tree
  <2>8. I'
    BY <1>2, <2>1, <2>2, <2>3, <2>4, <2>5, <2>6, <2>7 DEF TaskStep
  <2>9. \A k \in Job \ {j} : jpc'[k] = jpc[k] /\ out'[k] = out[k] /\ tree'[k] = tree[k]
    BY <1>2, TaskStepOthers
  <2> QED BY <2>8, <2>9 DEF TreeInv
<1> QED BY <1>1, <1>2 DEF Next

\* For every batch whose policy retries neither a success nor a plain failure
\* (default_retry_on has neither), a settled job has its worktree on disk if
\* and only if its result carries the review that names it, or git refused to
\* remove it.
THEOREM TreeTheorem ==
  ASSUME RetryOn \cap {"ok", "failed"} = {}
  PROVE  Spec => []KeptIsReported
<1>1. Init => BatchInv /\ TreeInv
  BY InitBatchInv DEF Init, TreeInv, Removed
<1>2. BatchInv /\ TreeInv /\ [Next]_vars => BatchInv' /\ TreeInv'
  BY NextBatchInv, NextTreeInv
<1>3. TreeInv => KeptIsReported
  BY DEF TreeInv, KeptIsReported
<1> QED BY <1>1, <1>2, <1>3, PTL DEF Spec

-----------------------------------------------------------------------------
(* Retries.                                                                *)

\* The bounds, and a job with an exhausted quota is on its way to its end.
RetryInv ==
  \A j \in Job :
    /\ slept[j] <= RetryBudget /\ attempt[j] <= MaxRetries + 1
    /\ jpc[j] = "sleep" => attempt[j] <= MaxRetries
    /\ j \in spent => /\ jpc[j] \in {"finish", "settle", "done"}
                      /\ out[j].status = "quota_exhausted"

LEMMA NextRetryInv ==
  ASSUME "quota_exhausted" \notin RetryOn, BatchInv, RetryInv, [Next]_vars
  PROVE  RetryInv' /\ \A j \in spent : attempt'[j] = attempt[j]
<1>0. MaxRetries \in Nat
  BY LimitsAssumption
<1>s. spent \subseteq Job /\ spent' \subseteq Job
  BY NextBatchInv DEF BatchInv, Types
<1>1. CASE PlanStep \/ Idle \/ UNCHANGED vars
  BY <1>1, <1>s, PlanStepMoves DEF RetryInv
<1>2. ASSUME NEW j \in Job, TaskStep(j)
      PROVE  RetryInv' /\ \A k \in spent : attempt'[k] = attempt[k]
  <2> DEFINE I == /\ slept[j] <= RetryBudget /\ attempt[j] <= MaxRetries + 1
                  /\ jpc[j] = "sleep" => attempt[j] <= MaxRetries
                  /\ j \in spent => /\ jpc[j] \in {"finish", "settle", "done"}
                                    /\ out[j].status = "quota_exhausted"
  <2>0. I
    BY DEF RetryInv
  <2> USE <1>0 DEF BatchInv, Types, JGoto
  <2>1. ASSUME (Acquire(j) \/ Wake(j)) PROVE I'
    BY <2>0, <2>1 DEF Acquire, Wake
  <2>2. ASSUME (Open(j) \/ Spawn(j) \/ Deadline(j)) PROVE I'
    BY <2>0, <2>2 DEF Open, Spawn, Deadline
  <2>3. ASSUME Exit(j) PROVE I'
    <3>1. Res("quota_exhausted").status = "quota_exhausted"
      BY DEF Res
    <3>2. j \in spent' => out'[j].status = "quota_exhausted"
      <4>1. j \notin spent
        BY <2>0, <2>3 DEF Exit
      <4>2. spent' = spent \/ out' = [out EXCEPT ![j] = Res("quota_exhausted")]
        BY <2>3, ExitResult
      <4> QED BY <3>1, <4>1, <4>2
    <3> QED BY <2>0, <2>3, <3>2 DEF Exit
  <2>4. ASSUME Finish(j) \/ EndTest(j) PROVE I'
    <3>1. j \in spent => out' = out /\ jpc'[j] = "settle"
      BY <2>0, <2>4 DEF Finish, EndTest
    <3>2. jpc'[j] \in {"test", "settle"}
      BY <2>4 DEF Finish, EndTest, Reviewed
    <3> QED BY <2>0, <2>4, <3>1, <3>2 DEF Finish, EndTest
  <2>5. ASSUME Settle(j) PROVE I'
    <3>1. MayRetry(j) => slept[j] + Delay(attempt[j]) <= RetryBudget /\ attempt[j] <= MaxRetries
      BY DEF MayRetry
    <3>2. j \in spent => ~MayRetry(j)
      BY <2>0 DEF MayRetry
    <3>3. MayRetry(j) => slept'[j] = slept[j] + Delay(attempt[j])
      BY <2>5 DEF Settle
    <3> QED BY <2>0, <2>5, <3>1, <3>2, <3>3 DEF Settle
  <2>6. I'
    BY <1>2, <2>1, <2>2, <2>3, <2>4, <2>5 DEF TaskStep
  <2>7. j \in spent => attempt'[j] = attempt[j]
    BY <1>2, <2>0 DEF TaskStep, Acquire, Open, Spawn, Deadline, Exit, Finish, EndTest,
                              Settle, Wake
  <2>8. \A k \in Job \ {j} : /\ jpc'[k] = jpc[k] /\ out'[k] = out[k]
                             /\ attempt'[k] = attempt[k] /\ slept'[k] = slept[k]
                             /\ (k \in spent' <=> k \in spent)
    BY <1>2, TaskStepOthers
  <2> QED BY <2>6, <2>7, <2>8, <1>s DEF RetryInv
<1> QED BY <1>1, <1>2 DEF Next

\* For every policy that does not retry an exhausted quota (default_retry_on
\* leaves it out on purpose): sleeps and attempts stay within their budgets,
\* and a job whose runner said the quota is gone is never tried again.
THEOREM RetryTheorem ==
  ASSUME "quota_exhausted" \notin RetryOn
  PROVE  Spec => RetryBounded
<1>1. Init => BatchInv /\ RetryInv
  BY InitBatchInv, LimitsAssumption DEF Init, RetryInv
<1>2. BatchInv /\ RetryInv /\ [Next]_vars => BatchInv' /\ RetryInv'
  BY NextBatchInv, NextRetryInv
<1>3. BatchInv /\ RetryInv /\ [Next]_vars => [\A j \in spent : attempt'[j] = attempt[j]]_vars
  BY NextRetryInv
<1>4. RetryInv => \A j \in Job : slept[j] <= RetryBudget /\ attempt[j] <= MaxRetries + 1
  BY DEF RetryInv
<1> QED BY <1>1, <1>2, <1>3, <1>4, PTL DEF Spec, RetryBounded
-----------------------------------------------------------------------------
(* The refinement of JobBatch.                                             *)

\* The outcomes of JobBatch in terms of results.
LEMMA OutcomeFacts ==
  ASSUME NEW r \in Result
  PROVE  /\ Outcome(r) \in {"none", "skipped", "good", "review", "bad"}
         /\ Outcome(r) = "none" <=> r = NoResult
         /\ Good(r) => Outcome(r) = "good"
         /\ Bad(r) => Outcome(r) \notin {"none", "good"}
<1>1. r = NoResult <=> r.status = "none" /\ ~r.review
  BY DEF Result, NoResult
<1>2. CASE r = NoResult
  BY <1>1, <1>2 DEF Outcome, Good, Bad
<1>3. CASE r # NoResult /\ r.status = "skipped"
  BY <1>3 DEF Outcome, Good, Bad
<1>4. CASE r # NoResult /\ r.status # "skipped" /\ Good(r)
  BY <1>4 DEF Outcome, Good, Bad
<1>5. CASE r # NoResult /\ r.status # "skipped" /\ ~Good(r) /\ r.review
  BY <1>5 DEF Outcome, Good
<1>6. CASE r # NoResult /\ r.status # "skipped" /\ ~Good(r) /\ ~r.review
  BY <1>6 DEF Outcome, Good
<1> QED BY <1>2, <1>3, <1>4, <1>5, <1>6

\* The jobs of S get the outcomes of their new results, which are as JobBatch
\* wants them.
Settles(S) ==
  /\ S \subseteq remaining
  /\ result' \in [Job -> Result]
  /\ \A j \in Job \ S : result'[j] = result[j]
  /\ \A j \in S : /\ result'[j] # NoResult
                 /\ \/ \A p \in Parents(j) : Good(result[p])
                    \/ /\ result'[j] = Res("skipped")
                       /\ \E p \in Parents(j) : Bad(result[p])

verdict == CASE phase = "done" -> "done"
             [] phase \in {"rejected", "cycle"} -> "refused"
             [] OTHER -> "open"
outcome == [j \in Job |-> Outcome(result[j])]

LEMMA SettlesIsSettle ==
  ASSUME BatchInv, NEW S \in SUBSET Job, Settles(S),
         phase \in {"plan", "wave"}, phase' \in {"plan", "wave"}
  PROVE  \E how \in [S -> Batch!Ran \cup {"skipped"}] : Batch!Settle(S, how)
<1> DEFINE how == [j \in S |-> Outcome(result'[j])]
<1>1. \A j \in Job : result[j] \in Result /\ result'[j] \in Result
  BY DEF BatchInv, Types, Settles
<1>2. \A j \in S : result[j] = NoResult
  BY DEF Settles, BatchInv, PlanInv
<1>3. how \in [S -> Batch!Ran \cup {"skipped"}]
  BY <1>1, OutcomeFacts DEF Settles, Batch!Ran
<1>4. \A j \in S : /\ outcome[j] = "none"
                   /\ \/ \A p \in Parents(j) : outcome[p] = "good"
                      \/ /\ how[j] = "skipped"
                         /\ \E p \in Parents(j) : outcome[p] \notin {"none", "good"}
  <2> SUFFICES ASSUME NEW j \in S
               PROVE  /\ outcome[j] = "none"
                      /\ \/ \A p \in Parents(j) : outcome[p] = "good"
                         \/ /\ how[j] = "skipped"
                            /\ \E p \in Parents(j) : outcome[p] \notin {"none", "good"}
    OBVIOUS
  <2>1. outcome[j] = "none"
    BY <1>1, <1>2, OutcomeFacts DEF outcome
  <2>2. Outcome(Res("skipped")) = "skipped"
    <3>1. Res("skipped") # NoResult
      BY DEF Res, NoResult
    <3>2. Res("skipped").status = "skipped" /\ ~Res("skipped").review
      BY DEF Res
    <3> QED BY <3>1, <3>2 DEF Outcome, Good
  <2>3. \A p \in Parents(j) : /\ p \in Job /\ outcome[p] = Outcome(result[p])
                             /\ result[p] \in Result
    BY <1>1 DEF Parents, outcome
  <2> QED BY <2>1, <2>2, <2>3, OutcomeFacts DEF Settles
<1>5. outcome' = [j \in Job |-> IF j \in S THEN how[j] ELSE outcome[j]]
  BY DEF outcome, Settles
<1>6. verdict = "open" /\ verdict' = "open"
  BY DEF verdict
<1> HIDE DEF how
<1>7. Batch!Settle(S, how)
  BY <1>3, <1>4, <1>5, <1>6
     DEF Batch!Settle, Batch!Parents, Parents, outcome, verdict
<1> QED BY <1>3, <1>7

LEMMA BatchStep ==
  ASSUME BatchInv, [Next]_vars
  PROVE  [Batch!Next]_<<outcome, verdict>>
<1>1. CASE UNCHANGED <<phase, result>>
  BY <1>1 DEF outcome, verdict
<1>2. CASE Validate
  <2>1. CASE phase' = "rejected"
    <3>1. result' = result /\ phase = "validate"
      BY <1>2 DEF Validate
    <3>2. verdict = "open" /\ verdict' = "refused" /\ outcome' = outcome
      BY <2>1, <3>1 DEF verdict, outcome
    <3>3. Batch!Refuse({})
      BY <3>2 DEF Batch!Refuse, verdict, outcome
    <3> QED BY <3>3 DEF Batch!Next
  <2>2. CASE phase' = "health"
    BY <1>2, <2>2 DEF Validate, outcome, verdict
  <2> QED BY <1>2, <2>1, <2>2 DEF Validate
<1>3. CASE Probe \/ Probed
  BY <1>3 DEF Probe, Probed, outcome, verdict
<1>4. CASE EndWave
  <2>1. result' \in [Job -> Result] /\ wave \subseteq Job
    BY <1>4, NextBatchInv DEF BatchInv, Types
  <2>2. \A j \in wave : out[j] # NoResult
    BY <1>4 DEF EndWave, BatchInv, AttemptInv, NoResult, Types
  <2>3. Settles(wave)
    BY <1>4, <2>1, <2>2 DEF EndWave, Settles, BatchInv, Types, PlanInv
  <2> QED BY <1>4, <2>1, <2>3, SettlesIsSettle DEF EndWave, Batch!Next
<1>5. CASE StartWave
  <2>1. /\ result' \in [Job -> Result] /\ Blocked \subseteq Job /\ Blocked \subseteq remaining
        /\ \A j \in Blocked : \E p \in Parents(j) : Bad(result[p])
    BY <1>5, NextBatchInv, ReadyFacts DEF BatchInv, Types
  <2>2. Res("skipped") # NoResult
    BY DEF Res, NoResult
  <2>3. Settles(Blocked)
    BY <1>5, <2>1, <2>2 DEF StartWave, SkippedForDependency, Settles
  <2>4. CASE phase' \in {"plan", "wave"}
    BY <1>5, <2>1, <2>3, <2>4, SettlesIsSettle DEF StartWave, Batch!Next
  <2>5. CASE phase' = "cycle"
    <3>1. verdict = "open" /\ verdict' = "refused"
      BY <1>5, <2>5 DEF StartWave, verdict
    <3>2. \A j \in Job : result[j] \in Result /\ result'[j] \in Result
      BY <2>1 DEF BatchInv, Types
    <3>3. \A j \in Blocked : /\ result[j] = NoResult /\ result'[j] = Res("skipped")
                            /\ \E p \in Parents(j) : p \in Job /\ Bad(result[p])
      BY <1>5, <2>1 DEF StartWave, SkippedForDependency, BatchInv, PlanInv, Parents
    <3>4. Outcome(Res("skipped")) = "skipped"
      <4>1. Res("skipped").status = "skipped" /\ ~Res("skipped").review
        BY DEF Res
      <4> QED BY <2>2, <4>1 DEF Outcome, Good
    <3>5. \A j \in Blocked : /\ outcome[j] = "none"
                            /\ \E p \in Parents(j) : outcome[p] \notin {"none", "good"}
      BY <2>1, <3>2, <3>3, OutcomeFacts DEF outcome
    <3>6. outcome' = [j \in Job |-> IF j \in Blocked THEN "skipped" ELSE outcome[j]]
      BY <1>5, <3>3, <3>4 DEF StartWave, SkippedForDependency, outcome
    <3>7. Batch!Refuse(Blocked)
      BY <3>1, <3>5, <3>6 DEF Batch!Refuse, Batch!Parents, Parents, outcome, verdict
    <3> QED BY <2>1, <3>7 DEF Batch!Next
  <2> QED BY <1>5, <2>4, <2>5 DEF StartWave
<1>6. CASE Return
  <2>1. result' = result /\ \A j \in Job : result[j] # NoResult /\ result[j] \in Result
    BY <1>6 DEF Return, BatchInv, PlanInv, Types
  <2>2. \A j \in Job : outcome[j] # "none"
    BY <2>1, OutcomeFacts DEF outcome
  <2>3. verdict = "open" /\ verdict' = "done" /\ outcome' = outcome
    BY <1>6, <2>1 DEF Return, verdict, outcome
  <2>4. Batch!Return
    BY <2>2, <2>3 DEF Batch!Return, outcome, verdict
  <2> QED BY <2>4 DEF Batch!Next
<1>7. ASSUME NEW j \in Job, TaskStep(j) PROVE UNCHANGED <<phase, result>>
  BY <1>7, TaskStepMoves DEF planVars
<1>8. Idle \/ UNCHANGED vars => UNCHANGED <<phase, result>>
  BY DEF Idle, vars, planVars
<1> QED BY <1>1, <1>2, <1>3, <1>4, <1>5, <1>6, <1>7, <1>8 DEF Next, PlanStep

\* submit keeps the promise of JobBatch, for every batch and dependency graph:
\* one outcome per job and for good, no job run before its parents succeeded,
\* none passed over without a reason, none without an outcome unless the whole
\* batch is refused.
THEOREM BatchTheorem == Spec => ImplementsBatch
<1>1. Init => Batch!Init
  <2> SUFFICES ASSUME Init PROVE Batch!Init
    OBVIOUS
  <2>1. Outcome(NoResult) = "none"
    BY OutcomeFacts DEF Result, NoResult
  <2>2. outcome = [j \in Job |-> "none"] /\ verdict = "open"
    BY <2>1 DEF Init, outcome, verdict
  <2> QED BY <2>2 DEF Batch!Init, outcome, verdict
<1>2. BatchInv /\ [Next]_vars => [Batch!Next]_<<outcome, verdict>>
  BY BatchStep
<1> QED BY <1>1, <1>2, InitBatchInv, NextBatchInv, PTL
        DEF Spec, ImplementsBatch, Batch!Spec, outcome, verdict

=============================================================================
