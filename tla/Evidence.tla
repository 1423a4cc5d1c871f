------------------------------ MODULE Evidence ------------------------------
(***************************************************************************)
(* What the event logs of all runs tell about a runner, and whether it may *)
(* work unattended: cross_run_evidence of telemetry.rs sorts completions   *)
(* into slots (runner, model, kind of task, day), and the autonomous gate  *)
(* of autopilot judges the latest ones.  The scheduler tells of a job with *)
(* runner.finished, an agent that was sent off with                        *)
(* agent.dispatch.completed, which names neither a job nor a model.        *)
(* A work stands for a runner and a kind of task; times are the order of   *)
(* emission; a job id belongs to one run, whose id the completion's has.   *)
(***************************************************************************)
EXTENDS Integers, Sequences, FiniteSets, Picks

CONSTANTS
  Runs,             \* run ids
  Jobs, RunOf,      \* job ids (object_id), job -> its run
  Works, WorkOf,    \* works; job -> its work
  Models,           \* models a runner may report; Unknown if it does not
  FinishedAs, ReportedAs,   \* statuses of results, of reports
  MaxEvents,        \* bound: completions in all logs
  MaxDays,          \* bound: days
  RecentCompletions, MinRateSamples, ColdStreak,   \* the gate's limits
  MinAgentRuns, MinAgentResults, MinEvidenceRuns, MinEvidenceSum

VARIABLES
  log,       \* completions in the event logs, in the order of emission
  votes,     \* runs whose log has a decision.voted or judge.skipped
  recorded,  \* run -> results in its state's agent_runs
  day        \* today

vars == <<log, votes, recorded, day>>

Unknown == "unknown"
NoJob == "none"

\* is_failure.
IsFailure(status) == status \in {"failed", "timeout", "rate_limited", "quota_exhausted"}

\* is_completed_outcome.
IsCompletedOutcome(status) == status = "ok" \/ IsFailure(status)

-----------------------------------------------------------------------------
\* task_slot_key.
TaskSlot(e) == <<e.work, e.day>>

\* model_hints_for_run: the one model that runner.finished events of the run
\* name for the slot; none if they name several.
ModelHints(r, slot) ==
  {log[i].model : i \in {j \in 1 .. Len(log) :
     /\ log[j].type = "runner.finished" /\ log[j].run = r
     /\ log[j].model # Unknown /\ TaskSlot(log[j]) = slot}}

\* model_from_event and model_for_completed.
ModelFor(e) ==
  LET hints == ModelHints(e.run, TaskSlot(e))
  IN  IF e.model # Unknown \/ e.type = "runner.finished" \/ Cardinality(hints) # 1
      THEN e.model ELSE CHOOSE m \in hints : TRUE

\* slot_key, slot_key_with_model.
SlotKey(e) == <<e.work, ModelFor(e), e.day>>

At(S) == {log[i] : i \in S}
Indexes(key) == {i \in 1 .. Len(log) : SlotKey(log[i]) = key}

\* record_completion: a later event of the same job replaces the earlier; a
\* report is a completion of its own (its event id).
Same(i, j) == i = j \/ (log[i].job # NoJob /\ log[i].job = log[j].job)
Completions(key) == {i \in Indexes(key) : \A j \in Indexes(key) : Same(i, j) => j <= i}

\* record_runner_finished and record_agent_dispatch_completed: the runs of a
\* slot, those that failed there, those told by a report.  A runner.finished
\* with a status nobody knows counts as failed, a report's does not.
RunsOf(S) == {e.run : e \in At(S)}
RunnerFinished(key) ==
  LET mine == {i \in Indexes(key) : log[i].type = "runner.finished"}
  IN  [runs |-> RunsOf(mine),
       failed |-> RunsOf({i \in mine : log[i].status \notin {"ok", "skipped"}})]
DispatchCompleted(key) ==
  LET mine == {i \in Indexes(key) : log[i].type = "agent.dispatch.completed"}
  IN  [runs |-> RunsOf(mine), failed |-> RunsOf({i \in mine : IsFailure(log[i].status)})]

\* cross_run_evidence.
Keys == {SlotKey(log[i]) : i \in 1 .. Len(log)}
Entry(key) ==
  LET runs == RunnerFinished(key).runs \cup DispatchCompleted(key).runs
  IN  [key |-> key, distinct |-> runs,
       failed |-> RunnerFinished(key).failed \cup DispatchCompleted(key).failed,
       subjective |-> runs # {} /\ runs \subseteq votes,
       completions |-> Completions(key)]
CrossRunEvidence == {Entry(k) : k \in Keys}
EvidenceRuns == {log[i].run : i \in 1 .. Len(log)}

-----------------------------------------------------------------------------
\* assess_recent_reliability joins the days of a slot; of the events of a job
\* the one of the last day counts, as the entries come in that order.
Group(k) == <<k[1], k[2]>>
Groups == {Group(k) : k \in Keys}
Samples(g) ==
  LET all == UNION {e.completions : e \in {x \in CrossRunEvidence : Group(x.key) = g}}
      last == {i \in all : \A j \in all : Same(i, j) => j <= i}
  IN  Picked([i \in 1 .. Len(log) |-> i], {i \in last : IsCompletedOutcome(log[i].status)})

\* The outcomes of the last samples of a group, latest last.
Recent(g) ==
  LET s == Samples(g)
      n == IF Len(s) > RecentCompletions THEN RecentCompletions ELSE Len(s)
  IN  [k \in 1 .. n |-> log[s[Len(s) - n + k]].status]

Failures(recent) == Cardinality({k \in 1 .. Len(recent) : IsFailure(recent[k])})
TrailingFailures(recent) ==
  Cardinality({k \in 1 .. Len(recent) : \A j \in k .. Len(recent) : IsFailure(recent[j])})

\* Mutant of AtRisk: beyond the cold start a streak is forgotten.
AtRiskColdOnly(g) ==
  LET r == Recent(g) IN
  Len(r) < MinRateSamples /\ TrailingFailures(r) >= ColdStreak

\* assess_recent_reliability for one group: half of the samples, or a streak
\* while they are few.
AtRisk(g) ==
  LET r == Recent(g) IN
  IF Len(r) >= MinRateSamples THEN 2 * Failures(r) >= Len(r)
  ELSE TrailingFailures(r) >= ColdStreak
Risky == \E g \in Groups : AtRisk(g)

\* The sum over the entries of their distinct runs.
SumDistinct == Cardinality({x \in CrossRunEvidence \X Runs : x[2] \in x[1].distinct})

\* operational_reliability: why autopilot may not go on its own; "none" if it may.
Told(r) == recorded[r] > 0
Results ==
  LET sum[S \in SUBSET Runs] ==
        IF S = {} THEN 0
        ELSE LET r == CHOOSE x \in S : TRUE IN recorded[r] + sum[S \ {r}]
  IN  sum[Runs]
OperationalReliability ==
  IF Cardinality({r \in Runs : Told(r)}) < MinAgentRuns \/ Results < MinAgentResults
  THEN "few agent runs"
  ELSE IF CrossRunEvidence = {} THEN "no evidence"
  ELSE IF Cardinality(EvidenceRuns) < MinEvidenceRuns \/ SumDistinct < MinEvidenceSum
  THEN "few runs"
  ELSE IF \A e \in CrossRunEvidence : e.subjective THEN "subjective"
  ELSE IF Risky THEN "risk" ELSE "none"

-----------------------------------------------------------------------------
Init ==
  /\ log = << >>
  /\ votes = {}
  /\ recorded = [r \in Runs |-> 0]
  /\ day = 1

Emit(type, r, work, job, model, status) ==
  /\ Len(log) < MaxEvents
  /\ log' = Append(log, [type |-> type, run |-> r, work |-> work, job |-> job, model |-> model,
                         status |-> status, day |-> day])

\* emit_and_record_runner_results: the event, then the state.
Finished(job, model, status) ==
  /\ Emit("runner.finished", RunOf[job], WorkOf[job], job, model, status)
  /\ recorded' = [recorded EXCEPT ![RunOf[job]] = @ + 1]
  /\ UNCHANGED <<votes, day>>

\* cmd_agent_turn_completed: the agent's report; its status comes from rc.
Reported(r, work, status) ==
  /\ Emit("agent.dispatch.completed", r, work, NoJob, Unknown, status)
  /\ UNCHANGED <<votes, recorded, day>>

\* A vote or a skipped judge makes a run subjective.
Voted(r) == r \notin votes /\ votes' = votes \cup {r} /\ UNCHANGED <<log, recorded, day>>

NextDay == day < MaxDays /\ day' = day + 1 /\ UNCHANGED <<log, votes, recorded>>

Next ==
  \/ \E job \in Jobs, model \in Models \cup {Unknown}, status \in FinishedAs :
       Finished(job, model, status)
  \/ \E r \in Runs, work \in Works, status \in ReportedAs : Reported(r, work, status)
  \/ \E r \in Runs : Voted(r)
  \/ NextDay

-----------------------------------------------------------------------------
Known(e) == e.job # NoJob /\ \E i \in 1 .. Len(log) : log[i].job = e.job

\* A failure never opens the autonomous gate for a runner it had judged
\* unreliable: when a group of completions speaks against it (half of the
\* window, or a streak in a cold start) and the next thing to be logged is a
\* failure of a job not heard of before, the gate stays closed, also where
\* that failure is what completes the required amount of evidence or moves
\* the group from the one rule to the other.  The failure is of a model that
\* its run named before for this work, or of an unknown one: a new name makes
\* the earlier reports of the run change groups, and the gate may open.
FailureNeverHelps ==
  [][(/\ Len(log') = Len(log) + 1
       /\ LET e == log'[Len(log')] IN
            /\ IsFailure(e.status) /\ ~Known(e)
            /\ e.model \in ModelHints(e.run, TaskSlot(e)) \cup {Unknown}
       /\ Risky) =>
         OperationalReliability' # "none"]_vars
=============================================================================
