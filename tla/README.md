# A TLA+ model of LTO

LTO (`lto-rs`) keeps the books of long tasks that several coding agents work
on: what the goal is, which tasks are done and with what evidence, who audited
them, which agents were sent off and how they ended. Everything is in files
under `.lto/<run-id>/`. There is no daemon: every `lto` command, every report
an agent makes and every hook is a process of its own, and any number of them
work on the same files at the same time and may be killed at any point. That,
one concurrent scheduler inside a process, terminals that are driven by reading
their screens, and rules that several commands decide each on their own, is
where the code is hard to test and what these modules are about.

## The system

| Part | State | Operations | Talks to | Modules |
|---|---|---|---|---|
| Event log (`events.rs`) | `events.jsonl`, the id counter `.events.count`, the lock file `.events.lock`, a flock for reclaiming it | `emit`, `wait_for` | written by every command, read by waiters | `EventLog`, `EventStream` |
| Run state (`commands/util.rs`, `state.rs`) | `state.json`, `.state.lock`, the mirror `run-state.md` | `load_run`, `save_run` (merge), `save_run_locked`, contract set, decision record and reaffirm, phase, task, collect-agent-run | nearly every command | `Picks`, `StateMerge`, `MergeLoop`, `StateStore` |
| Dispatch and reports (`dispatch_goal.rs`, `agent_turn.rs`) | window records in `state.json`, the windows themselves, events | `dispatch-goal`, `dispatch-and-wait`, `agent-turn-completed` | run state, event log, window drivers | `Dispatch` |
| Completion signals and wake endpoints (`dispatch_goal.rs`, `agent_turn.rs`, `notify.rs`) | the user's `hooks.json` and `settings.json`, scripts beside them, `<stem>.dispatch.md`, `notify-endpoints.json`, TCP ports | install and uninstall hooks, route a report to a run, register, wake | agents, waiters | `Signals` |
| Window drivers (`tmux_runner.rs`, `dispatch_goal.rs`) | panes, input lines, screens, tmux signals, sentinel files | open or reuse a window, wait until ready, send, probe, confirm, answer menus, wait for a signal or a file | tmux, herdr, orca, paseo | `Terminal` |
| Scheduler (`scheduler.rs`, `worktree.rs`, `merge_review.rs`) | tasks, permits, processes and git worktrees of one batch | `submit` | runner scripts, git | `Scheduler`, `JobBatch` |
| Jobs and permissions (`agent_job.rs`, `audit_dispatch.rs`, `llm_judge.rs`, `plugin_eval_run.rs`, `ops.rs`) | the jobs a command builds, the mount approvals | runner, audit, judge, worker, eval-run, validate | scheduler | `Permissions`, `JobMakers` |
| Run life cycle (`cli.rs`, `closeout.rs`, `prune.rs`, `ops.rs`) | the phase, gates, `audit-ledger.md`, `artifacts.json`, `handoff.md`, bulk files | start, phase, audit, closeout, prune | run state, event log, git | `Lifecycle` |
| Gates (`closeout.rs`, `ops.rs`, `state.rs`, `resume.rs`) | none of their own | closeout, check, preflight, hooks, next, resume | run state, ledger, git | `Gates` |
| Audits (`ledger.rs`, `audit_ledger.rs`, `audit_dispatch.rs`, `audit.rs`) | `audit-ledger.md` | append a round, judge convergence, diagnose, choose auditors, count findings | scheduler, run state | `Convergence`, `Auditors` |
| Decisions (`decision.rs`) | a request, votes, candidates, reviews | `run_decision` | the host, the scheduler | `Consensus` |
| Evidence and autonomous gate (`telemetry.rs`, `autonomous_gate.rs`, `event_emit.rs`) | completions in the logs of all runs | cross-run evidence, recent reliability | autopilot | `Evidence` |
| Task runner and autopilot (`ops.rs`, `effect.rs`, `budget.rs`) | tasks with evidence, blockers and retry counts; the progress digest | runner, parallel, pipeline, autopilot | run state, scheduler, sandboxes | `Autopilot` |

What is hard: commands that keep a copy of the state over minutes of work and
then save it; a lock file whose holder may be dead, slow, or another program
under its pid; files that are read, edited and written without any lock; a wait
that begins after what it waits for; a report that settles the window of
another dispatch; a screen that still shows what an earlier program printed;
kills between any two file operations; retries of what half succeeded; and one
question (may this run be closed? is this runner reliable? may this job write?)
that is answered in several places. `PROJECT.json` lists the places under
`hazards`.

## The modules

**`EventStream`, `EventLog`.** `EventLog` has one action per file-system call of
`events::emit`: exclusive creation of the lock file, writing the owner record,
the staleness check (read, probe the process, take the reclaim flock, read and
probe again, hard-link, compare, unlink), the count, the truncating and the
rewriting of the counter, the append, the removal of the lock. `Crash` kills a
process at the steps of `CrashAt`, `Spawn` starts a new command under the same
pid, `Age` and `Expire` let the lock grow stale and the wait's limit pass,
`Faults` are the calls that may fail. A lock file is named by the emit that
created it, so that "the same file" is a comparison of names. `EventStream` is
what readers rely on: a log that only grows and numbers its events.

**`Picks`, `StateMerge`, `MergeLoop`, `StateStore`.** `Picks` is what a filter
keeps of a sequence, without recursion; it serves the merge, the auditors, the
diagnosis, the votes and the samples. `StateMerge` defines `merge_stable_by_key`
declaratively, `MergeLoop` is its loop with the position map. `StateStore` runs the commands of two processes against `state.json`: those
that read without a lock and save by merging, and those that hold `.state.lock`
throughout. The state is one record: four keyed collections (windows, phase
transitions, decisions, agent runs), the contract fields, the phase, and one
field for all that the saving command simply overwrites. `run-state.md` is what
it shows of the contract. Items carry the command that wrote them, which is how
"lost" and "stale" are said; `overlapped` remembers that a command saved a copy
that somebody else had overtaken.

**`Dispatch`.** `Dispatcher`s run `dispatch-goal` or `dispatch-and-wait` in
steps (load, prepare the target, persist the window, send the prompt, confirm
it, wait with a cursor, time out and retain), each with the copy of the window
records that it loaded. Every window has an agent that may report, more than
once, and the report is again a sequence of steps: read, append the event,
close the window, record it. `byHand` are the dispatchers that read the newest
event id first and wait with `events --wait --after`. `closing` are those
with `--close-window`; the flag is on the record that a dispatch writes over the
one before, and a report acts on the record of its own, perhaps older, copy. Two
histories say what that copy may be: the windows that a dispatch with the flag
has ever recorded (`asked`), and those of which that was so when their report
began (`granted`).

**`Signals`.** Around the dispatch: the completion protocol that is written into
a copy of the goal file, codex's Stop hook in the user's `hooks.json` and the
old hook in gemini's settings (each an entry and a script; read, edit, rename,
no lock), the routing of a report to a run by id, by directory or by the
current run, and the waiters that register a port under a lock, are woken or
fail to be, and leave. The event of a report may be dropped (`safe_emit`), and the
waiters are woken all the same. The user edits the same files; a codex that nobody
dispatched ends its turns too; any process may be killed.

**`Terminal`.** A window is what runs in the foreground, the input line as a
sequence of texts, and the screen as the set of marks the code's patterns tell
apart, scrollback included. `Goal`s are `dispatch-goal` through any of the four
backends, `Job`s the scheduler's tmux jobs with a signal or a sentinel file and
up to `MaxTries` attempts. Each tmux command is a step. The shell, the agent,
menus, people who type and windows that close are the world's actions.

**`JobBatch`, `Scheduler`.** `Scheduler` is `submit`: validation, health probes,
waves along the dependencies, and in each wave a task per job that gets a
permit, opens a worktree, spawns the runner, waits for exit or deadline,
classifies the exit, runs the job's test command, keeps or prunes the worktree,
and retries after a backoff.
Messages and texts are reduced to the exit code, whether the reply is empty, and
which markers it contains. `JobBatch` is the promise to the caller.

**`Permissions`, `JobMakers`.** A job is its runner, its policy (sandbox, reason,
approval, headless flag, tools), environment, task type, isolation and whether
it has a prompt. `Permissions` has the policy for a wish to only read, the check
`AgentJob::validate`, what the scheduler makes of a job, and the jobs of every
command; `JobMakers` the commands: `runner` with a prompt or with a job file in
which every field may hold anything, `audit`, the autopilot's worker, the judge
with its choice of a healthy runner of another family, and `plugin eval-run`
with mount approval, the filter on a profile's environment, negative cases and
the judge at the end.

**`Lifecycle`, `Gates`, `Convergence`, `Auditors`.** `Lifecycle` runs start
--force, phase, judge, audit with risk discovery, closeout and prune as
processes over one run directory: `state.json` (saved through the merge),
`audit-ledger.md` and `artifacts.json` (read, truncated, written, no lock),
`handoff.md` and the bulk files. Risk discovery saves the state with its result
even when its runner failed. `Gates` has what stands between a run and its
closing, as each command has it: the two halves of `enforce_gates`, the
checklist of `check --to`, the findings of `check`, preflight, the git hooks,
`next` and `resume`. `Convergence` is the ledger with its verdict and diagnosis,
`Auditors` families of runtimes, the choice of auditors and the counting of
findings.

**`Consensus`, `Evidence`.** `Consensus` is `run_decision` with budget gate,
escalation points, diverge phase, tally, review track, status and the brief
shown to the host, for answers that arrive one by one in any order. `Evidence`
turns the completions of all logs into slots (runner, model, kind of task, day)
and judges the latest ones by a streak below the minimum of samples and by a
rate above it, as `autopilot --autonomous` does.

**`Rules`** puts the pure rules side by side: a behaviour picks one `topic`
(ledger, gates, merge, decision, evidence, permissions) and its inputs grow as
the program's do. It instantiates `MergeLoop`, `Consensus`, `Evidence` and
`JobMakers` on its own variables and extends `Gates`.

**`Autopilot`.** The commands that move tasks: `task add`, `task update --status`,
`runner --command` (parallel and pipeline are loops around it), the state judge
and the autopilot pass, each with the copy of tasks, turns and digest it loaded,
and saves that write that copy back. A pass is stopped by the budget or by a
digest without progress, saves its turn, runs the command of every open task in
the sandbox or by a tmux worker, takes the digest again and saves. `AbortPass` is
an error in the middle, `Kill` the end of any process. A task is its status, its
planned and last command, the failures per command and the one number shown of
them, whether blockers are open, how often it passed, and the fingerprint of its
last failure. `Runnable` is what the loop runs and `HasActionableTask` what the
turn is paid for; they are written apart because the code has them apart.
`ledger_blockers` and verified risk points, which no command writes, are left out
of the digest. Whether tokens, the deadline or the autonomous gate let a pass
through is open here: a pass that is stopped there changes nothing.

The `MC*` modules name model values and give the constants that are functions
their values.

## What the runs check

| Run | Instance | Shows |
|---|---|---|
| `event_log_safe` | 2 pids, 2 emits each, a kill, pid reuse, failing owner and event writes | one emitter in the lock, growing ids; the file implements `EventStream` |
| `event_log_live` | every fault, stalls, a replaced binary, a kill anywhere | each emit ends |
| `state` | 2 processes, 2 commands each of every kind, a kill, failing events | no item lost or doubled; the contract changes only by `contract set`, whose failure restores both files; only an overlap undoes an edit or leaves `run-state.md` behind; every command ends |
| `dispatch_single` | one dispatch, with or without a cursor of its own, three reports | the outcome is the agent's own, with the cursor nothing is missed, a failed window stays, a reported window does not stay active, the wait ends |
| `dispatch_many` | two dispatches, one with `--close-window`, to the same window or to two, two reports, failing saves, dropped events, reports killed half-way | windows are closed only after success and on a record with `--close-window`, and recorded as cleaned only if closed |
| `signals` | codex, agy and aix dispatches, two of them with one goal file, an uninstall, two waiters, the user's editor, a codex started by hand, dropped events, a kill | the user's hooks survive, lto's entry always finds its script, registrations agree with who waits, a run is completed only by whom it was told to |
| `terminal` | a goal through each backend and a tmux job of each mode, alone or in one window | the prompt reaches the launched agent, what is entered is what was pasted, a busy pane is spared, a completion is of this attempt, every wait ends |
| `scheduler_batch` | two parents, a writing child, an independent writing job, two of the three writers with a test command; 2 permits, 2 retries, a path left behind | no attempt outlives its deadline, kept worktrees are reported, retries stay within count, time and kind; `submit` returns unless something without a limit holds it up, and implements `JobBatch` |
| `scheduler_chain` | a chain of three jobs | **violated**: a failure at its head is reported as a cycle and all results are lost |
| `lifecycle` | any two of six commands on one run, kills anywhere, one edit by hand | closeout closes only over what came after its load, rounds and artifacts are lost only to an overlap, prune spares what was not closed when it looked |
| `rules` | all small inputs of each topic | verdict and diagnosis, the places that decide about closing, the loop and the merge, a decision and its backing, the brief and the budget gate, jobs and the check they must pass do not contradict each other; a failure never opens the autonomous gate |
| `autopilot` | 2 processes, 3 commands in all on up to 2 tasks, one command with network access; a budget of 2 turns, a kill, an error in the middle of a pass | a pass pays before it runs anything and runs nothing after a pass with nothing in between, the retry count is that of the command to be run, done means proven |

The run that is violated shows a place where the code does not do what a test of
the repository says; `findings` in `PROJECT.json` quotes both sides.

Several properties say "unless": unless a copy was overtaken (`ItemsCurrent`,
`MirrorAgrees`), unless the file was changed under lto's hands
(`UserHooksKept`, `HookRuns`), unless the screen still showed an earlier agent
(`PromptReachesAgent`). The exception is a history variable that is set by
exactly that event; TLC finds a violation when it is dropped, and the list below
says what then happens.

**Bounds.** Two processes are enough for every race on one file, since a save
concerns only the copy it holds and the file; two commands each let one that
started late act on what an earlier one left. For the event log two pids with
two emits each give a holder that dies, a reclaimer and a later holder; the
theorems below are for any number of processes. Four jobs hold a join, a job
that is independent of it and contention for two permits, and two jobs with a
test command can hold both permits at once; the retry constants
are chosen so that the cap and the end of the budget are both reached. Of two
dispatches one has `--close-window`, as only a difference between them can show
the flag of one acted upon for the other; one dispatch has it or not. For autopilot three commands suffice for a pass between two others; the retry limit
of the code, 3, is 1 there, so that a failure, a reset by hand and a pass fit
in. In `rules` four rounds hold every shape the diagnosis tells apart
(a rise after a plateau, an alternation), lists of three items over two keys
every repetition of a key, three votes a majority and a tie; `RecentCompletions`,
`MinRateSamples` and the other limits of the autonomous gate are scaled down so
that three events pass the boundary between streak and rate (`StreakReachesRate`
states the relation of the two that the code's numbers have). Two findings per
round (`MaxCount`) are enough for a fall, a rise and a plateau above zero, and
`VerdictTheorem` has no such bound. `signals` runs
casts of processes that share something: a home, a goal file, a run's waiters.
`terminal` pairs a goal and a job that share a window with options that reach
each backend and mode. `MaxEmits`, `MaxCommands`, `MaxCrashes`, `MaxReports`,
`MaxOps`, `MaxKills`, `MaxEdits`, `MaxHand`, `MaxCloses`, `MaxRounds`,
`MaxCount`, `MaxLen`, `MaxVotes`, `MaxCandidates`, `MaxReviews`,
`MaxDecisions`, `MaxEvents`, `MaxDays` and `MaxCases` bound the runs and stand
for nothing in the code.

**Symmetry** is used for sets whose members are alike (processes, dispatchers),
never in a run that checks liveness. **Deadlock** is checked except in
`autopilot`, `signals` and `rules`, whose behaviours end when the bounds are
used up.

**Fairness.** A process that runs goes on to its next step and clocks advance:
weak fairness of the steps of one emit, one command, one dispatch, one task, one
terminal driver, and of the passing of time. An agent's process ends some day in
`Dispatch`; in `Terminal` nothing is assumed of programs or people. Nobody is
obliged to start a command, and an agent never to report. `Autopilot` has no
fairness: the sandbox ignores its timeout, so that nothing makes a pass end. A
blocking `flock` is granted because the kernel drops the lock of a dead process.
The tokio runtime polls every task that can go on, blocking calls have threads of
their own, and `wait_with_deadlines` bounds the runners, so that every step of a
job is fair, its deadline included, but for two: its runner need not exit of
itself (`Exit`), and its test command need not end (`EndTest`), as
`run_test_command` awaits it without a limit (`merge_review.rs:130`). Nor need the
healthcheck script (`Probe`, `scheduler.rs:293`). `SubmitReturns` is stated
accordingly: `submit` returns, or it is from some point on in the health phase or
in a wave whose only jobs that are not done are in their test command or, if those
hold every permit, queue behind it. git and the file system are assumed to answer.

## Known divergences without a run of their own

Each was met while modelling; TLC shows most of them when a constant or an
"unless" is changed as said.

State and tasks
* `ItemsCurrent` without `overlapped`: a task update that read the state before a
  reaffirm writes the old version of the decision back (`merge_stable_by_key`
  prefers the saver's item, touched or not). `CHANGELOG.md:50` says that
  concurrent saves no longer overwrite each other.
* In the same way a command that loaded before `lto phase --set closed` or
  closeout writes the old phase back, while `phase_transitions` ends in the
  change it undid.
* `MirrorAgrees` without `overlapped`: `cmd_phase` writes `run-state.md` after
  the lock is released (`ops.rs:1985`), over a newer contract.
* A runner that loaded before a pass paid its turn and saves after it takes the
  turn back, while `CHANGELOG.md:644` calls `turns_used` a monotonic counter.
* A task added, or set back to pending, after a pass is no progress for
  `has_progressed`: autopilot answers STALLED and does not run it until something
  else is done, fails in another way, or registers an artifact.
* An error in one task ends the pass without saving what the others did
  (`ops.rs:2959`); the sandbox ignores its timeout (`worktree.rs:128`).
* An agent run recorded a second time for a task has the job id and attempt number
  of the first (`ops.rs:2053`) and replaces it in `agent_runs`, while both
  `runner.finished` events remain.

Events
* `EventLog_safe.cfg` with `CrashAt` anywhere and two crashes: a burnt id, then a
  kill between truncating and rewriting the counter (`events.rs:319`), and the
  count of lines hands the same id out again; `CHANGELOG.md:297` promises unique
  ids.
* `dispatch-and-wait` has no cursor of its own: `wait_for` without `--after`
  begins behind the newest event, so a completion filed before the first read is
  missed and the command times out, against `COMMANDS.md:54`. `ResultIsOwn` for
  all dispatchers instead of `byHand` shows it.
* `process_exe_name` strips " (deleted)" from the name of the holder's binary, so
  that, as its comment says (`events.rs:543`), a holder whose binary is replaced
  is not taken for stale; `current_exe_name` (`events.rs:518`) writes the name into
  the owner record with that suffix. An emit that begins after the replacement
  (its command has run since before it), or one whose binary is renamed while it
  holds the lock, is reclaimed alive. `EventLog_safe.cfg` with `BinaryReplaced` shows two
  emitters in the lock.

Dispatch, signals, terminals
* A timeout retains the last active window, whose ever it is
  (`dispatch_goal.rs:575`).
* With two dispatches a save from an older copy makes a retained window active
  again and a second report, with code 0, closes it; a dispatch that could not
  confirm its prompt can record as retained a window that its agent's report has
  closed; a save that fails after the close leaves a closed window recorded.
* A dispatch without `--close-window` into a window of one that had it does not keep
  the window open if the report of the first has read its copy
  (`agent_turn.rs:289`), while `INSTALL.md:145` says that a window is kept unless the
  flag is given.
* A report whose event was dropped ends with a printed warning only, against the
  comment at `agent_turn.rs:49`.
* `hooks.json` is edited without a lock: two dispatches or a dispatch and the
  user's editor lose each other's change, and an install that overlaps an
  uninstall can leave an entry without its script.
* Two dispatches of one goal file share `<stem>.dispatch.md`; the earlier agent
  may read the later one's run id.
* Endpoints of killed waiters stay in the file until the run's directory goes.
* In a reused pane the ready mark of an earlier agent is still on the screen: the
  prompt may go to the shell. A question that was answered stays in the
  scrollback as well. The comment about skipping agy's trust question
  (`dispatch_goal.rs`, near 1517) is overtaken by `blocked_patterns`, which are
  looked at first; what the comment near 985 says of aix is not what
  `wait_for_stable_capture` does; the comment at `validate_dispatch_target` is
  true for tmux only. herdr, orca and paseo may open a window and then fail,
  which leaves the window unrecorded.

Scheduler and jobs
* `submit` waits for ever for a test command or a healthcheck script that does not
  end, whatever the job's own time limit.
* `KeptIsReported` with "failed" in `RetryOn`: the retry of a failed job that kept
  its worktree loses the merge review.
* Output is thrown away when a pipe stays open too long (`scheduler.rs:1307`), so
  that a quota marker that was already read may be missed.
* `readonly_intent_to_policy("gemini")` is a read-only policy, which
  `validate_for_runner` refuses for gemini: `runner --runner gemini --prompt` and
  a judge of that name never start. `PermissionHolds` excepts it.
* `make_job` of eval-run never sets the headless flag, so that a mount that
  approves writing makes every case of a headless runner fail at submission.
* A judge whose runner failed but whose reply parses is recorded as a vote.

Life cycle, audits, decisions
* `SKILL.md:87` wants a converged ledger for a high-risk run; `closeout.rs:224`
  and `:389` let NO_OBSERVATIONS pass in the first half and ask for an audit in
  the second only.
* `start --force` leaves the old ledger, handoff and events in place; ids
  `RP-auto-{len+1}` can collide (`cli.rs:2216`); a round in which every auditor
  failed is recorded as 0/0 and counts as CONVERGED (`cli.rs`, near 2040);
  `prune --keep-last` sorts by run id, not by age (`prune.rs:126`); prune removes
  the evidence of failures that the autonomous gate reads.
* Resume warns of changes "outside .lto" while `git_dirty` includes `.lto`
  (`resume.rs:75`); `git_stdout` trims, so that the first porcelain line loses its
  leading space (`util.rs:535`); `lto next` sends runs to closeout that closeout
  refuses.
* A tie in the tally converges to the smallest key; two votes of one runner count
  twice.
* A report and a `runner.finished` of the same work are two completions, and so
  are completions on two days or under two models. A failure that names a new
  model moves earlier reports of its run to another slot, which can open the
  autonomous gate, and a success can close it where the streak gives way to the
  rate.

## What is proved

Eight modules hold the theorems: one for each state machine, with `Terminal` in
`DispatchProofs`, whose hand-over it details, and `Rules` in `StateStoreProofs`,
whose merge it has as a loop; and one for the merge. Every safety property that
a passing run checks is the statement of a theorem. Each theorem is for every
value of the constants: any number of processes, commands, tasks, jobs, windows,
votes and bounds, kills wherever the model has them, and any initial files the
assumptions on the constants allow. A condition that the code relies on and
cannot enforce is an assumption in the statement of the theorem.

**`EventLogProofs`**
* `TypeCorrect`: `Spec => []TypeOK`.
* `MutexTheorem`: `Spec => []MutualExclusion`, assuming that no live emitter
  holds the lock longer than `LOCK_STALE_AFTER` (`HolderMayStall = FALSE`) and that
  no lto binary is replaced or renamed meanwhile (`BinaryReplaced = FALSE`).
  Mutual exclusion is not inductive: a reclaimer deletes the lock path some
  steps after it judged the lock stale. `LockInv` adds that a holder's inode is
  the one at the path (`OwnsLock`), that an aged inode belongs to an emit that is
  over (`AgedIsOver`), that inodes are not created ahead of their emit
  (`NoFutureInode`), that one process at a time is inside the reclaim flock
  (`OneReclaimer`), and that what it is about to unlink is over
  (`ReclaimsOver`). "Over" is stable because an emit under a pid never gets its
  number back (`OverStable`).
* `IdTheorem`: `Spec => []MonotoneIds`, assuming besides that nothing fails or is
  killed between truncating and rewriting the counter. `IdInv` adds to `LockInv`
  that the counter, or the count an emitter holds, is at least every id in the
  file.
* `StreamTheorem`: `Spec => ImplementsStream`, assuming besides that no write stops
  in the middle of a line. An emit is pending from its first step, takes effect
  in the append, and has failed if it ends without one; `AckInv` says that an
  emit that returned Ok has begun and only has to drop the lock.

**`SchedulerProofs`** for every dependency graph, semaphore and retry policy
* `AttemptTheorem`: `Spec => []AttemptIsDead`, by `BatchInv`: a job has no result
  until its wave has ended, only the jobs of the wave run and their parents
  succeeded (`PlanInv`), and an attempt that is over has a result and no process
  (`AttemptInv`).
* `BatchTheorem`: `Spec => ImplementsBatch`, from the same invariant. The end of a
  wave is the step of `JobBatch` that gives its jobs their outcomes.
* `TreeTheorem`: `Spec => []KeptIsReported` if neither "ok" nor "failed" is retried,
  as in `default_retry_on`. `TreeInv` says at each step of a job whether its
  worktree is there.
* `RetryTheorem`: `Spec => RetryBounded` if an exhausted quota is not retried.

**`StateMergeProofs`** has what `merge_stable_by_key` promises for any two
sequences (`MergeTheorem`): the keys on disk stay where they are, an item is the
saver's last version of it or, if the saver has none, the disk's, and no key comes
twice that was not twice on disk. `StateStoreProofs` and `DispatchProofs` rest on
it. Its lemmas go on to what one more item of the saver changes in the result
(`MergePut`, `MergePush`), to the merge done a second time (`MergeAgain`), and to
what a filter keeps of a sequence (`PickedIs`, `NthAppend`); those carry the
theorems about the loop, the votes and the samples.

**`StateStoreProofs`** from one inductive invariant, `IInv`
* `TypeTheorem`: `Spec => []TypeOK`.
* `ContractTheorem`: `Spec => []ContractKept`.
* `HistoryTheorem`: `Spec => HistoryKept`.
* `ItemsTheorem`: `Spec => []ItemsCurrent`.
* `MirrorTheorem`: `Spec => []MirrorAgrees`.

`FlowInv` says who holds `.state.lock` at which step, `SnapInv` what the holder
knows: its copy extends the file and has the file's contract, or its own. That
makes the contract and the keys safe whatever stale copies are about. `CurrentInv`
speaks of the copies without the lock: as long as nothing was overtaken, their
items are their own or on disk. `MirrorInv` says between which two writes of
`contract set` the files may differ.

**`StateStoreProofs`**, the section on `Rules` (whose specification has a name of
its own, like that of `Terminal`, as it is proved about beside another)
* `GatesTheorem`: `RulesSpec => []GatesAgree`. It needs no invariant but that "none" is
  no HEAD: the gates agree in every state, reachable or not, by cases over the
  findings that each place makes of the same run.
* `LoopTheorem`: `RulesSpec => []LoopMerges`. `LoopInv` is the loop's invariant: the
  result is the declarative merge of the disk's version with the items taken so
  far, and the map holds the place of every key.
* `VerdictTheorem`: `RulesSpec => []VerdictAgrees`. `LedgerInv` describes a ledger that
  only audits wrote: rows of numbers, labelled in order, none beside the
  template's empty row.
* `PermissionTheorem`: `RulesSpec => []PermissionHolds`. `JobsInv` says of the jobs of
  each command, as they are built one after the other, what the four parts say of
  them when they are submitted.
* `BriefTheorem` and `ConvergedTheorem`: `RulesSpec => []BriefIsComplete` and
  `RulesSpec => []ConvergedIsBacked`. `PanelInv` keeps the types of what was asked and
  answered and that an outcome is what `run_decision` made of its request. The
  replies are joined by a recursive function; that it is defined and has the items
  of all of them is shown by the least number of steps for which it would not
  (`LeastNumber`, `StepsExist`, `FlattenJoins`), as the induction theorems of the
  library are out of reach. That the tally of the reversed answers is the same
  follows from the bijection that mirrors the positions (`MirrorCard`,
  `TallyReversed`).
* `FailureTheorem`: `RulesSpec => FailureNeverHelps`. A failure of a new job that names
  no new model leaves every earlier completion in its slot (`KeysStay`), so that
  it joins the samples of one group and those of the others stay
  (`CountedJoins`). The window of that group then grows or slides by one
  (`LatestGrows`), and the count of failures and the streak cannot fall
  (`JoinedCounts`, `SlidCounts`); where the window reaches the size from which the
  rate counts, `StreakReachesRate` is what is needed.

**`SignalsProofs`**
* `EndpointsTheorem`: `Spec => []EndpointsAgree`. A waiter inside
  `with_endpoints_locked` has the lock of its run alone, so that what it read is
  still true when it writes (`WaitInv`).
* `HooksTheorem` and `ScriptTheorem`: `Spec => []UserHooksKept` and
  `Spec => []HookRuns`. `HookInv` says, of a home that nobody changed under lto's
  hands, what each process that is busy there relies on: its copy is the file,
  the script it is about to name exists, the entry whose script it is about to
  remove is gone (`Claim`).
* `ReportTheorem`: `Spec => []ReportIsOwn`. `ToldInv` follows the run id from the
  dispatch to the goal's copy, from there to what the agent was told and to the
  report; a shared copy may name another dispatch of the same goal, no other run.
  A report leaves one completion, or none if its event was dropped (`lost`).

**`DispatchProofs`**
* `CloseTheorem`: `Spec => ClosedOnSuccess`. A stale copy may record a window as
  anything but cleaned: `CloseInv` says of every copy, not only of the file, that
  a window it has as cleaned is closed for good (`Honest`, `Away`). It says as well
  that the flag of a record, in the file or in any copy, was once asked for by a
  dispatch to that window, and in the copy of a report before that report began;
  which of several dispatches wrote it does not matter.
* `WaitTheorem`: `Spec => []NothingMissed`, for any dispatches at once: the outcome
  printed is the return code of the first event behind the cursor, and a wait
  with a cursor of its own leaves no completion behind it of a window that no
  other dispatch uses.
* `ResultTheorem`: `Spec => []ResultIsOwn` for one dispatch, as the run has it:
  `check_events` takes the next completion whose ever it is, so with two the
  statement is false.

**`DispatchProofs`**, the section on `Terminal`, for any goals, jobs, windows and
options, people who type and windows that close
* `SparedTheorem`: `TerminalSpec => BusyIsSpared`.
* `WholeTheorem`: `TerminalSpec => TextWhole`.
* `PromptTheorem`: `TerminalSpec => PromptReachesAgent`.
* `CompletionTheorem`: `TerminalSpec => CompletionIsOwn`.

`WindowInv` says of every driver what it may rely on in its pane at each of its
steps (`Own`): in tmux the line between C-u and Enter is what this driver put
there (`Whole`), only a user who came later can have started what runs there
(`Spared`), and with nothing to excuse it there is no agent before the launch
line, and after it only the one launched, whose ready mark is not on the screen
before it waits (`Reached`). An excuse is noted in the driver by the step that
causes it: another driver or a user in the same window, an agent that was there
before, a mark of it that is still on the screen. `DoneInv` follows the attempt
numbers into texts, commands and signals: what bears the number of this attempt
comes from it, and a sentinel file that is seen after the old one was removed is
there because the last command has run.

**`LifecycleProofs`**
* `KeptTheorem`: `Spec => []UndisturbedKept`. `KeptInv` says that whoever is between
  reading and writing the ledger or the manifest has in its copy all that must
  be kept and its own addition (`Writer`), that the mark `alone` is right (`Lone`),
  and that the row a process carries from the dispatch to the ledger is its own
  (`RowInv`).
* `PruneTheorem`: `Spec => PruneSpares`.
* `CloseEarnedTheorem`: `Spec => CloseEarned`.

The last two are about a command that acts on a copy while the files move on.
`TrackedStep` shows that every step of anybody is noted for whoever is acting on
a copy; `PruneInv` and `CloseInv` then say, step by step of the command, what the
gates it has passed tell about the files now, up to what was noted.

**`AutopilotProofs`**
* `RetryTheorem`: `Spec => []RetryVisible`.
* `DoneTheorem`: `Spec => []DoneIsProven`.
* `PassTheorem`: `Spec => []PassIsEarned`.

The first two speak of the file, and the file is overwritten with whatever copy a
command took some time ago. `TaskInv` therefore says of every task of every copy
that it is good (`GoodTask`): per command, the failures since the last success are
at most the recorded ones, the shown count covers the next command, and a done
task is proven. It adds that the tasks a command is going to touch are in its copy
and that a pass only runs tasks with a next command (`AtHand`). For the third,
`TurnInv` counts: the passes that ran a command and those that have paid and may
still run one (`Credit`) are together no more than the turns in the file, which
needs the cardinality of a set that one process at a time enters and leaves.
`DigestInv` says of which copies the digest is that of their own tasks, so that a
pass right behind another computes the digest it finds in the file, and stops.

**Assumptions on the constants** are named in the modules that declare them, and
TLC evaluates them on every run. Most are types and bounds. `SignalsProcesses`
says that agents, removers and waiters are different processes, `SignalsHomes`
that a home without a settings file has no entries, `TaskAssumption`
that there are finitely many tasks, `LifecycleBegins` that a run begins with a
ledger that is a sequence of rounds, with no rounds if there is no file, and
`TerminalWorld` that goals and jobs are different processes, old and new windows
different windows, that there is at least one attempt and that the scheduler's
jobs use tmux. For `Rules`: `RulesBounds` says that "none" is not a HEAD but the
word for one that has not moved, `FileFieldsKnown` that a job file is edited in
fields a job has, `AnswersTyped` what serde guarantees of an answer (its votes
and findings are lists, a vote has one of three decisions, a budget is unsigned),
and `StreakReachesRate` the relation of the code's limits that `FailureNeverHelps`
rests on.

**Only model-checked.** Liveness (`EmitTerminates`, `CommandEnds`, `SubmitReturns`,
`ReportSettles`, `WaitEnds`, `DispatchEnds`) is out of the prover's reach, as it
needs fairness and ENABLED. What a theorem assumes of the constants beyond the
types (a holder that does not stall, a binary that is not replaced, no crash at a given call, one dispatch, a
status that is not retried) is where the statement is false without it; the list
of divergences says what then happens. `CycleIsReal` is violated.

## What is not modelled

* Two processes that write one file without a lock are interleaved at the level
  of whole reads, truncations, writes, renames and appends; a reader never sees
  half a rename, and an append is one call, which may be cut short by a full disk
  or a kill.
* `wait_for` reads the log whole; lines that do not parse are skipped, as in the
  code.
* The contents of prompts, replies, diffs and screens beyond the marks that the
  code's patterns tell apart; the text metrics of eval-run.
* The merge of `notify_cmd`, the second `blocked_patterns` of the tmux driver, reports
  without a window id, and findings that name their own source.
* In `GatesAgree`, closeout's second run of the instruments and a `run-state.md` that
  is missing.
* Panics of a scheduler task, and processes a runner leaves in the background.
* Argument parsing, rendering (`recap`, `describe`, `get`), the telemetry summary,
  redaction, plugin manifests, `release`, `memory`: files or text in, text out,
  without state that another command decides by.

## Plan

What the plan set out to model, check and prove is there; of the properties the
runs check only the liveness ones have no theorem. What could be added: the
telemetry summary and plugin manifests, which no other command decides by, and
the parts of the run life cycle and of the task runner that only read.
