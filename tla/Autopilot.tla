----------------------------- MODULE Autopilot -----------------------------
(***************************************************************************)
(* The tasks of one run and the commands that move them: lto autopilot,    *)
(* runner (and parallel and pipeline, which call it task by task), task    *)
(* add, task update and judge.  Each is a process that loads state.json    *)
(* without a lock, works on its copy, and saves it with save_run, which    *)
(* takes tasks, gates and budget from that copy (StateStore models the     *)
(* lock and the fields that are merged).  An autopilot call is one pass:   *)
(* it is stopped by the budget or by a digest that shows no progress, pays *)
(* for a turn before it runs anything, runs the command of every task that *)
(* is open, and writes its results once, at the end.                       *)
(***************************************************************************)
EXTENDS Integers, FiniteSets

CONSTANTS
  Proc,        \* process ids
  Task,        \* task ids
  Command,     \* shell commands
  NoCommand,   \* no command has been planned or run
  Effect,      \* Command -> its effect class
  Failure,     \* fingerprints of a failed command: exit code and stderr tail
  NoFailure,   \* fingerprint of a task that never failed
  Backlogs,    \* backlogs a run may begin with: task -> planned command
  HandStatus,  \* statuses a human sets
  Modes,       \* kinds of autopilot call: <<"brief" | "auto_exec" | "autonomous", carrier>>
  RetryLimit,  \* recorded failures after which a task is left to a human (3)
  MaxTurns,    \* budget.max_turns
  MaxOps,      \* bound: commands started in all
  MaxKills     \* bound: commands killed half-way

Effects  == {"reversible", "network", "needs_semantic_judgement"}
Statuses == {"pending", "in_progress", "blocked", "failed", "done", "skipped"}

ASSUME EffectAssumption == Effect \in [Command -> Effects]
ASSUME ModesAssumption ==
  Modes \subseteq {"brief", "auto_exec", "autonomous"} \X {"sandbox", "tmux"}
ASSUME BacklogAssumption ==
  /\ \A b \in Backlogs : \A t \in DOMAIN b : t \in Task /\ b[t] \in Command \cup {NoCommand}
  /\ HandStatus \subseteq Statuses \ {"failed"}
ASSUME AutopilotBounds ==
  RetryLimit \in Nat /\ MaxTurns \in Nat /\ MaxOps \in Nat /\ MaxKills \in Nat
ASSUME TaskAssumption == IsFiniteSet(Task)
ASSUME AutopilotNulls == NoCommand \notin Command /\ NoFailure \notin Failure

VARIABLES
  disk,       \* state.json: tasks, turns_used, autopilot_last_digest
  artifacts,  \* artifacts.json, as a version number
  pc,         \* pid -> step of the command
  op,         \* pid -> the command and its arguments
  snap,       \* pid -> the command's copy of the state
  todo,       \* pid -> tasks the pass has still to run
  started,    \* bound: commands started so far
  kills,      \* bound: commands killed so far
  working,    \* history: passes under way that have run a command
  spent,      \* history: passes that ran a command
  uncounted,  \* history: a save wrote fewer turns than had been counted
  since,      \* history: passes that nobody wrote behind since their digest
  calm        \* history: nothing has been written since a pass ended

histVars == <<working, spent, uncounted, since, calm>>
vars == <<disk, artifacts, pc, op, snap, todo, started, kills, histVars>>

-----------------------------------------------------------------------------
(* A task.  `last' is the last entry of commands_run, `open' tells whether  *)
(* blockers is non-empty, `passes' counts the evidence with rc = 0 and      *)
(* `failure' is failure_fingerprint.  `streak' (failures of a command since *)
(* its last success) and `by' (who set the status) can be read off the      *)
(* evidence; the code does not keep them.                                   *)
TaskRecord ==
  [status : Statuses, planned : Command \cup {NoCommand},
   last : Command \cup {NoCommand}, retry_by : [Command -> Nat],
   retry : Nat, open : BOOLEAN, passes : Nat, failure : Failure \cup {NoFailure},
   streak : [Command -> Nat], by : {"hand", "command"}]

NewTask(c) ==
  [status |-> "pending", planned |-> c, last |-> NoCommand,
   retry_by |-> [d \in Command |-> 0], retry |-> 0, open |-> FALSE, passes |-> 0,
   failure |-> NoFailure, streak |-> [d \in Command |-> 0], by |-> "hand"]

NoDigest == [done |-> 0, blocked |-> << >>, passes |-> << >>, artifacts |-> -1]

Tasks(s) == DOMAIN s.tasks

\* The command that autopilot takes for a task: the last one run, else the
\* planned one.
NextCommand(t) == IF t.last # NoCommand THEN t.last ELSE t.planned

\* bump_retry: failures are counted per command; retry_count shows the count
\* of the command that failed last.
BumpRetry(t, c) ==
  [t EXCEPT !.retry_by = [t.retry_by EXCEPT ![c] = @ + 1], !.retry = t.retry_by[c] + 1]

\* What a command that passed or failed leaves in its task.
Passed(t, c) ==
  [t EXCEPT !.status = "done", !.open = FALSE, !.passes = @ + 1,
            !.streak = [t.streak EXCEPT ![c] = 0], !.by = "command"]
Failed(t, c, f, status) ==
  [BumpRetry(t, c) EXCEPT !.status = status, !.failure = f,
                          !.streak = [t.streak EXCEPT ![c] = @ + 1], !.by = "command"]

-----------------------------------------------------------------------------
Blocked(s) == {t \in Tasks(s) : s.tasks[t].status = "blocked"}
Done(s)    == {t \in Tasks(s) : s.tasks[t].status = "done"}

\* progress_digest.  No command writes ledger_blockers or verifies a risk
\* point, so the two are left out.
ProgressDigest(s, a) ==
  [done |-> Cardinality(Done(s)),
   blocked |-> [t \in Blocked(s) |-> s.tasks[t].failure],
   passes |-> [t \in Tasks(s) |-> s.tasks[t].passes],
   artifacts |-> a]

\* blocked_task_got_success.
BlockedTaskGotSuccess(prev, curr) ==
  \E t \in DOMAIN prev.blocked \ DOMAIN curr.blocked :
    t \in DOMAIN curr.passes /\
    curr.passes[t] > (IF t \in DOMAIN prev.passes THEN prev.passes[t] ELSE 0)

\* failure_fingerprints_changed.
FailureFingerprintsChanged(prev, curr) ==
  \E t \in DOMAIN prev.blocked \cap DOMAIN curr.blocked :
    prev.blocked[t] # curr.blocked[t]

HasProgressed(prev, curr) ==
  \/ prev = NoDigest
  \/ curr.done > prev.done
  \/ /\ Cardinality(DOMAIN curr.blocked) < Cardinality(DOMAIN prev.blocked)
     /\ BlockedTaskGotSuccess(prev, curr)
  \/ FailureFingerprintsChanged(prev, curr)
  \/ curr.artifacts # prev.artifacts

\* update_autopilot_digest.
Digested(s) == [s EXCEPT !.digest = ProgressDigest(s, artifacts)]

-----------------------------------------------------------------------------
\* classify_effect as the sandbox applies it; autonomous calls get no network.
Allowed(mode, c) ==
  \/ mode[2] = "tmux"
  \/ /\ Effect[c] # "needs_semantic_judgement"
     /\ mode[1] = "autonomous" => Effect[c] # "network"

\* The tasks whose command auto_exec_tasks runs; the others it skips or holds.
Runnable(s, mode) ==
  {t \in Tasks(s) :
     /\ s.tasks[t].status \in {"pending", "in_progress"}
     /\ NextCommand(s.tasks[t]) # NoCommand
     /\ s.tasks[t].retry < RetryLimit
     /\ Allowed(mode, NextCommand(s.tasks[t]))}

\* Mutant of HasActionableTask: a task in progress is somebody's already.
HasActionableTaskPending(s, mode) ==
  \E t \in Runnable(s, mode) : s.tasks[t].status = "pending"

\* has_actionable_autopilot_task.
HasActionableTask(s, mode) ==
  \E t \in Tasks(s) :
     LET c == NextCommand(s.tasks[t])
     IN /\ s.tasks[t].status \in {"pending", "in_progress"}
        /\ c # NoCommand
        /\ s.tasks[t].retry < RetryLimit
        /\ CASE mode[2] = "tmux" -> TRUE
             [] mode[2] = "sandbox" ->
                  /\ Effect[c] # "needs_semantic_judgement"
                  /\ mode[1] # "autonomous" \/ Effect[c] # "network"

-----------------------------------------------------------------------------
Idle     == [kind |-> "none"]
NoState  == [tasks |-> << >>, turns |-> 0, digest |-> NoDigest]

Init ==
  /\ \E planned \in Backlogs :
       disk = [tasks |-> [t \in DOMAIN planned |-> NewTask(planned[t])],
               turns |-> 0, digest |-> NoDigest]
  /\ artifacts = 0
  /\ pc = [p \in Proc |-> "idle"]
  /\ op = [p \in Proc |-> Idle]
  /\ snap = [p \in Proc |-> NoState]
  /\ todo = [p \in Proc |-> {}]
  /\ started = 0 /\ kills = 0
  /\ working = {} /\ since = {}
  /\ spent = 0
  /\ uncounted = FALSE /\ calm = FALSE

\* p continues at `step' with the copy s.
Goto(p, step, s) ==
  /\ pc' = [pc EXCEPT ![p] = step]
  /\ snap' = [snap EXCEPT ![p] = s]

\* The command of p is over; its copy is gone with the process.
Ended(p) ==
  /\ Goto(p, "idle", NoState)
  /\ op' = [op EXCEPT ![p] = Idle]
  /\ todo' = [todo EXCEPT ![p] = {}]
  /\ working' = working \ {p}

\* The command o starts under p.
Started(p, o) ==
  /\ pc[p] = "idle"
  /\ started < MaxOps
  /\ started' = started + 1
  /\ op' = [op EXCEPT ![p] = o]

\* save_run of p's copy: tasks, gates and budget are the copy's.
SaveRun(p, counted) ==
  /\ disk' = snap[p]
  /\ uncounted' = (uncounted \/ snap[p].turns < disk.turns + counted)
  /\ since' = since \cap {p}

-----------------------------------------------------------------------------
(* lto task add, task update, runner, judge.                                *)

AddTask(p) ==
  \E t \in Task \ Tasks(disk), c \in Command \cup {NoCommand} :
    /\ Started(p, [kind |-> "add"])
    /\ Goto(p, "save", [disk EXCEPT !.tasks =
         [u \in Tasks(disk) \cup {t} |-> IF u = t THEN NewTask(c) ELSE disk.tasks[u]]])
    /\ UNCHANGED <<disk, artifacts, todo, kills, histVars>>

\* task update --status; the blockers of the task stay.
UpdateTask(p) ==
  \E t \in Tasks(disk), status \in HandStatus :
    /\ Started(p, [kind |-> "update"])
    /\ Goto(p, "save", [disk EXCEPT !.tasks[t] =
         [disk.tasks[t] EXCEPT !.status = status, !.by = "hand"]])
    /\ UNCHANGED <<disk, artifacts, todo, kills, histVars>>

BeginRunner(p) ==
  \E t \in Tasks(disk), c \in Command :
    /\ Started(p, [kind |-> "runner", task |-> t, command |-> c])
    /\ Goto(p, "work", disk)
    /\ UNCHANGED <<disk, artifacts, todo, kills, histVars>>

\* What runner adds: the command is the last of commands_run, and a failure is
\* a blocker.
RunnerPassed(t, c) == [Passed(t, c) EXCEPT !.last = c]
RunnerFailed(t, c, f, status) ==
  [Failed(t, c, f, status) EXCEPT !.open = TRUE, !.last = c]

\* Mutants of RunnerResult: a failed command is not added to commands_run; a
\* success leaves the blockers where they are.
RunnerResultUnlisted(t, c) ==
  {RunnerPassed(t, c)}
    \cup {[Failed(t, c, f, st) EXCEPT !.open = TRUE] : f \in Failure, st \in {"blocked", "failed"}}
RunnerResultKeepsBlockers(t, c) ==
  {[RunnerPassed(t, c) EXCEPT !.open = t.open]}
    \cup {RunnerFailed(t, c, f, st) : f \in Failure, st \in {"blocked", "failed"}}

\* run_task_command after the command has exited or was killed at its timeout.
RunnerResult(t, c) ==
  {RunnerPassed(t, c)}
    \cup {RunnerFailed(t, c, f, st) : f \in Failure, st \in {"blocked", "failed"}}

FinishRunner(p) ==
  /\ pc[p] = "work" /\ op[p].kind = "runner"
  /\ \E r \in RunnerResult(snap[p].tasks[op[p].task], op[p].command) :
       Goto(p, "save", [snap[p] EXCEPT !.tasks[op[p].task] = r])
  /\ UNCHANGED <<disk, artifacts, op, todo, started, kills, histVars>>

BeginJudge(p) ==
  /\ Tasks(disk) # {}
  /\ Started(p, [kind |-> "judge"])
  /\ Goto(p, "work", disk)
  /\ UNCHANGED <<disk, artifacts, todo, kills, histVars>>

\* cmd_state_judge: the verdict is registered as an artifact, then the state
\* is saved.
FinishJudge(p) ==
  /\ pc[p] = "work" /\ op[p].kind = "judge"
  /\ artifacts' = artifacts + 1
  /\ since' = since \cap {p}
  /\ calm' = FALSE
  /\ Goto(p, "save", snap[p])
  /\ UNCHANGED <<disk, op, todo, started, kills, working, spent, uncounted>>

-----------------------------------------------------------------------------
(* lto autopilot.                                                           *)

\* Mutant of WithinBudget: the last turn may be taken twice.
WithinBudgetInclusive(s) == s.turns <= MaxTurns

\* check_budget: a limit of 0 is exceeded at once.  Tokens and the deadline
\* may stop any pass; a pass that is stopped changes nothing.
WithinBudget(s) == s.turns < MaxTurns

\* The pass loads the state, passes its gates and compares digests.
BeginPass(p) ==
  \E mode \in Modes :
    LET progressed == HasProgressed(disk.digest, ProgressDigest(disk, artifacts))
    IN /\ WithinBudget(disk)
       /\ Started(p, [kind |-> "pass", mode |-> mode, calm |-> calm])
       /\ \/ /\ ~progressed
             /\ Goto(p, "save", Digested(disk))
             /\ since' = since \cup {p}
             /\ UNCHANGED todo
          \/ /\ progressed
             /\ mode[1] = "brief"
             /\ Goto(p, "save_digest", Digested(disk))
             /\ since' = since \cup {p}
             /\ UNCHANGED todo
          \/ /\ progressed
             /\ mode[1] # "brief"
             /\ IF HasActionableTask(disk, mode)
                THEN Goto(p, "pay", [disk EXCEPT !.turns = @ + 1])
                ELSE Goto(p, "exec", disk)
             /\ todo' = [todo EXCEPT ![p] = Runnable(disk, mode)]
             /\ UNCHANGED since
       /\ UNCHANGED <<disk, artifacts, kills, working, spent, uncounted, calm>>

\* Mutant of PayTurn: the turn is saved with the results.
PayTurnLater(p) ==
  /\ pc[p] = "pay"
  /\ Goto(p, "exec", snap[p])
  /\ UNCHANGED <<disk, artifacts, op, todo, started, kills, histVars>>

PayTurn(p) ==
  /\ pc[p] = "pay"
  /\ SaveRun(p, 1)
  /\ Goto(p, "exec", snap[p])
  /\ calm' = FALSE
  /\ UNCHANGED <<artifacts, op, todo, started, kills, working, spent>>

\* What auto_exec_tasks makes of a task.  A tmux worker that could not be
\* submitted, or did not end well, holds the task and is not counted as a
\* failure.  A worker without a completion contract has failed.
PassResult(t, carrier) ==
  LET c == NextCommand(t)
  IN {Passed(t, c)}
       \cup {Failed(t, c, f, "blocked") : f \in Failure}
       \cup (IF carrier = "tmux"
             THEN {t} \cup {[t EXCEPT !.failure = f] : f \in Failure}
             ELSE {})

\* p's pass runs a command: the first one makes it a pass that spent a turn.
Spends(p) ==
  /\ working' = working \cup {p}
  /\ spent' = IF p \in working THEN spent ELSE spent + 1

RunTask(p) ==
  /\ pc[p] = "exec"
  /\ \E t \in todo[p] :
       /\ \E r \in PassResult(snap[p].tasks[t], op[p].mode[2]) :
            Goto(p, "exec", [snap[p] EXCEPT !.tasks[t] = r])
       /\ todo' = [todo EXCEPT ![p] = @ \ {t}]
  /\ Spends(p)
  /\ UNCHANGED <<disk, artifacts, op, started, kills, uncounted, since, calm>>

\* An error ends the pass and what it had done so far is not saved: no
\* worktree for the command, or its result could not be recorded.
AbortPass(p) ==
  /\ pc[p] = "exec"
  /\ todo[p] # {}
  /\ \/ spent' = spent
     \/ spent' = IF p \in working THEN spent ELSE spent + 1
  /\ Ended(p)
  /\ UNCHANGED <<disk, artifacts, started, kills, uncounted, since, calm>>

\* Mutant of EndExec: the digest is that of the state in the file.
EndExecOldDigest(p) ==
  /\ pc[p] = "exec"
  /\ todo[p] = {}
  /\ Goto(p, "save_digest",
          [snap[p] EXCEPT !.digest = ProgressDigest(disk, artifacts)])
  /\ since' = since \cup {p}
  /\ UNCHANGED <<disk, artifacts, op, todo, started, kills, working, spent, uncounted, calm>>

EndExec(p) ==
  /\ pc[p] = "exec"
  /\ todo[p] = {}
  /\ Goto(p, "save_digest", Digested(snap[p]))
  /\ since' = since \cup {p}
  /\ UNCHANGED <<disk, artifacts, op, todo, started, kills, working, spent, uncounted, calm>>

\* update_autopilot_digest saves, and cmd_autopilot saves once more.
SaveDigest(p) ==
  /\ pc[p] = "save_digest"
  /\ SaveRun(p, 0)
  /\ Goto(p, "save", snap[p])
  /\ calm' = FALSE
  /\ UNCHANGED <<artifacts, op, todo, started, kills, working, spent>>

\* The last save of any command.
Save(p) ==
  /\ pc[p] = "save"
  /\ SaveRun(p, 0)
  /\ calm' = (op[p].kind = "pass" /\ p \in since)
  /\ Ended(p)
  /\ UNCHANGED <<artifacts, started, kills, spent>>

\* The process is killed.
Kill(p) ==
  /\ pc[p] # "idle"
  /\ kills < MaxKills
  /\ kills' = kills + 1
  /\ Ended(p)
  /\ UNCHANGED <<disk, artifacts, started, spent, uncounted, since, calm>>

Next ==
  \E p \in Proc :
    \/ AddTask(p) \/ UpdateTask(p)
    \/ BeginRunner(p) \/ FinishRunner(p)
    \/ BeginJudge(p) \/ FinishJudge(p)
    \/ BeginPass(p) \/ PayTurn(p) \/ RunTask(p) \/ AbortPass(p) \/ EndExec(p)
    \/ SaveDigest(p) \/ Save(p)
    \/ Kill(p)

Spec == Init /\ [][Next]_vars

-----------------------------------------------------------------------------
\* A pass is paid for and needed.  The hard brake: every pass that ran a command
\* has paid for a turn, also one that was killed or ended in an error, so that
\* no more than max_turns passes run anything; it rests on
\* has_actionable_autopilot_task and auto_exec_tasks agreeing on what is
\* actionable.  A save of an older copy takes a counted turn away; nothing is
\* claimed after that.  Stall detection: a pass that starts from what the last
\* pass left, with nothing written in between, runs no command.
PassIsEarned ==
  /\ ~uncounted => spent <= disk.turns /\ disk.turns <= MaxTurns
  /\ \A p \in Proc : pc[p] \in {"pay", "exec"} => ~op[p].calm

\* The retry brake works on retry_count alone, which shows one command's count
\* at a time: it must be that of the command autopilot would run, or a command
\* is run again and again.
RetryVisible ==
  \A t \in Tasks(disk) :
    LET c == NextCommand(disk.tasks[t])
    IN c # NoCommand => disk.tasks[t].streak[c] <= disk.tasks[t].retry

\* A task that a command set to done has a passing result of the command that
\* autopilot or a human would repeat, and no blocker left, however the commands
\* on it were interleaved.
DoneIsProven ==
  \A t \in Tasks(disk) :
    LET k == disk.tasks[t]
    IN k.status = "done" /\ k.by = "command" =>
         k.passes > 0 /\ ~k.open /\ k.streak[NextCommand(k)] = 0
=============================================================================
