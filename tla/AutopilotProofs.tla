-------------------------- MODULE AutopilotProofs --------------------------
(***************************************************************************)
(* RetryVisible, DoneIsProven and PassIsEarned hold in every state, for    *)
(* any number of processes, tasks and commands, any budget and any kills.  *)
(* The first two speak of the tasks in the file; a task gets there from    *)
(* some command's copy, so the invariant says of every task of every copy  *)
(* that it is good, and of every command under way that the tasks it will  *)
(* touch are in its copy.  For the third, turns that were paid and not yet *)
(* used are counted, and digests are compared with what they were made of. *)
(***************************************************************************)
EXTENDS Autopilot, FiniteSetTheorems, TLAPS

GoodTask(k) ==
  /\ k \in TaskRecord
  /\ \A c \in Command : k.streak[c] <= k.retry_by[c]
  /\ NextCommand(k) # NoCommand => k.streak[NextCommand(k)] <= k.retry
  /\ k.status = "done" /\ k.by = "command" =>
       k.passes > 0 /\ ~k.open /\ k.streak[NextCommand(k)] = 0

GoodState(s) ==
  /\ s = [tasks |-> s.tasks, turns |-> s.turns, digest |-> s.digest]
  /\ s.tasks = [t \in Tasks(s) |-> s.tasks[t]]
  /\ \A t \in Tasks(s) : GoodTask(s.tasks[t])

\* The tasks that a command at `step', with arguments o, copy s and tasks td
\* to run, will touch.
AtHand(step, o, s, td) ==
  /\ step = "work" /\ o.kind = "runner" => o.task \in Tasks(s) /\ o.command \in Command
  /\ td # {} => step \in {"pay", "exec"}
  /\ \A t \in td : t \in Tasks(s) /\ NextCommand(s.tasks[t]) \in Command

TaskInv ==
  /\ pc = [p \in Proc |-> pc[p]]
  /\ op = [p \in Proc |-> op[p]]
  /\ snap = [p \in Proc |-> snap[p]]
  /\ todo = [p \in Proc |-> todo[p]]
  /\ GoodState(disk)
  /\ \A p \in Proc : GoodState(snap[p]) /\ AtHand(pc[p], op[p], snap[p], todo[p])

-----------------------------------------------------------------------------
(* What the operators do to a good task.                                    *)

\* A new task is good.
LEMMA NewTaskGood ==
  ASSUME NEW c \in Command \cup {NoCommand}
  PROVE  GoodTask(NewTask(c))
<1> DEFINE k == NewTask(c)
<1>1. k \in TaskRecord
  BY AutopilotNulls DEF NewTask, TaskRecord, Statuses
<1>2. /\ k.status = "pending" /\ k.retry = 0 /\ k.last = NoCommand /\ k.planned = c
      /\ k.streak = [d \in Command |-> 0] /\ k.retry_by = [d \in Command |-> 0]
  BY DEF NewTask
<1>3. NextCommand(k) = c
  BY <1>2 DEF NextCommand
<1> QED
  BY <1>1, <1>2, <1>3 DEF GoodTask

\* A command that passed leaves a good task, whichever command it was, if it
\* is the task's next command afterwards.
LEMMA PassedGood ==
  ASSUME NEW k, GoodTask(k), NEW c \in Command, NEW l \in Command \cup {NoCommand},
         (l # NoCommand /\ l = c) \/ (l = k.last /\ NextCommand(k) = c)
  PROVE  GoodTask([Passed(k, c) EXCEPT !.last = l])
<1> DEFINE r == [Passed(k, c) EXCEPT !.last = l]
           st == [k.streak EXCEPT ![c] = 0]
<1>0. k \in TaskRecord
  BY DEF GoodTask
<1>1. r \in TaskRecord
  <2>1. st \in [Command -> Nat] /\ k.passes + 1 \in Nat
    BY <1>0 DEF TaskRecord
  <2>2. r = [k EXCEPT !.status = "done", !.open = FALSE, !.passes = k.passes + 1,
                      !.streak = st, !.by = "command", !.last = l]
    BY <1>0 DEF Passed, TaskRecord
  <2> HIDE DEF st
  <2> QED
    BY <1>0, <2>1, <2>2 DEF TaskRecord, Statuses
<1>2. /\ r.retry = k.retry /\ r.last = l /\ r.planned = k.planned
      /\ r.streak = [k.streak EXCEPT ![c] = 0] /\ r.retry_by = k.retry_by
      /\ r.passes = k.passes + 1 /\ r.open = FALSE
  BY DEF GoodTask, TaskRecord, Passed
<1>3. NextCommand(r) = c
  BY <1>2 DEF NextCommand
<1>4. r.streak[c] = 0 /\ r.retry \in Nat /\ k.passes \in Nat
  BY <1>2 DEF GoodTask, TaskRecord
<1>5. \A d \in Command : r.streak[d] <= r.retry_by[d]
  BY <1>2 DEF GoodTask, TaskRecord
<1> QED
  BY <1>1, <1>2, <1>3, <1>4, <1>5 DEF GoodTask

\* So does one that failed.  The task's own count is that of the command that
\* failed, which is the next one.
LEMMA FailedGood ==
  ASSUME NEW k, GoodTask(k), NEW c \in Command, NEW l \in Command \cup {NoCommand},
         (l # NoCommand /\ l = c) \/ (l = k.last /\ NextCommand(k) = c),
         NEW f \in Failure, NEW status \in {"blocked", "failed"}, NEW o \in BOOLEAN
  PROVE  GoodTask([Failed(k, c, f, status) EXCEPT !.open = o, !.last = l])
<1> DEFINE r  == [Failed(k, c, f, status) EXCEPT !.open = o, !.last = l]
           st == [k.streak EXCEPT ![c] = k.streak[c] + 1]
           rb == [k.retry_by EXCEPT ![c] = k.retry_by[c] + 1]
<1>0. k \in TaskRecord
  BY DEF GoodTask
<1>1. st \in [Command -> Nat] /\ rb \in [Command -> Nat] /\ k.retry_by[c] + 1 \in Nat
  BY <1>0 DEF TaskRecord
<1>2. r = [k EXCEPT !.retry_by = rb, !.retry = k.retry_by[c] + 1, !.status = status,
                    !.failure = f, !.streak = st, !.by = "command", !.open = o, !.last = l]
  BY <1>0 DEF Failed, BumpRetry, TaskRecord
<1>3. r \in TaskRecord
  <2> DEFINE m == k.retry_by[c] + 1
             h == [k EXCEPT !.retry_by = rb, !.retry = m, !.status = status, !.failure = f]
  <2>1. r = [h EXCEPT !.streak = st, !.by = "command", !.open = o, !.last = l] /\ m \in Nat
    BY <1>1, <1>2
  <2> HIDE DEF st, rb, m
  <2>2. h \in TaskRecord
    BY <1>0, <1>1, <2>1 DEF TaskRecord, Statuses
  <2> HIDE DEF h, r
  <2> QED
    BY <1>1, <2>1, <2>2 DEF TaskRecord
<1>4. /\ r.retry = k.retry_by[c] + 1 /\ r.last = l /\ r.planned = k.planned
      /\ r.streak = st /\ r.retry_by = rb /\ r.status = status
  <2> HIDE DEF st, rb
  <2> QED
    BY <1>0, <1>2 DEF TaskRecord
<1>5. NextCommand(r) = c
  BY <1>4 DEF NextCommand
<1>6. \A d \in Command : r.streak[d] <= r.retry_by[d]
  BY <1>0, <1>4 DEF GoodTask, TaskRecord
<1>7. r.streak[c] <= r.retry
  BY <1>0, <1>4 DEF GoodTask, TaskRecord
<1> QED
  BY <1>3, <1>4, <1>5, <1>6, <1>7 DEF GoodTask

\* A task that a pass holds only gets a new failure fingerprint.
LEMMA HeldGood ==
  ASSUME NEW k, GoodTask(k), NEW f \in Failure
  PROVE  GoodTask([k EXCEPT !.failure = f])
<1> DEFINE r == [k EXCEPT !.failure = f]
<1> SUFFICES GoodTask(r)
  OBVIOUS
<1>0. k \in TaskRecord
  BY DEF GoodTask
<1>1. r \in TaskRecord
  BY <1>0 DEF TaskRecord
<1>2. /\ r.retry = k.retry /\ r.last = k.last /\ r.planned = k.planned /\ r.streak = k.streak
      /\ r.retry_by = k.retry_by /\ r.status = k.status /\ r.by = k.by
      /\ r.passes = k.passes /\ r.open = k.open
  BY <1>0 DEF TaskRecord
<1>3. NextCommand(r) = NextCommand(k)
  BY <1>2 DEF NextCommand
<1> HIDE DEF r
<1> QED
  BY <1>1, <1>2, <1>3 DEF GoodTask

\* A status set by hand claims nothing about the commands.
LEMMA HandGood ==
  ASSUME NEW k, GoodTask(k), NEW status \in Statuses
  PROVE  GoodTask([k EXCEPT !.status = status, !.by = "hand"])
<1> DEFINE r == [k EXCEPT !.status = status, !.by = "hand"]
<1> SUFFICES GoodTask(r)
  OBVIOUS
<1>0. k \in TaskRecord
  BY DEF GoodTask
<1>1. r \in TaskRecord
  BY <1>0 DEF TaskRecord
<1>2. /\ r.retry = k.retry /\ r.last = k.last /\ r.planned = k.planned /\ r.streak = k.streak
      /\ r.retry_by = k.retry_by /\ r.by = "hand"
  BY <1>0 DEF TaskRecord
<1>3. NextCommand(r) = NextCommand(k)
  BY <1>2 DEF NextCommand
<1> HIDE DEF r
<1> QED
  BY <1>1, <1>2, <1>3 DEF GoodTask

\* What runner writes for a command is good, whichever command it was: it is
\* the last one run.
LEMMA RunnerResultGood ==
  ASSUME NEW k, GoodTask(k), NEW c \in Command, NEW r \in RunnerResult(k, c)
  PROVE  GoodTask(r)
<1>1. CASE r = RunnerPassed(k, c)
  BY <1>1, PassedGood, AutopilotNulls DEF RunnerPassed
<1>2. ASSUME NEW f \in Failure, NEW st \in {"blocked", "failed"}, r = RunnerFailed(k, c, f, st)
      PROVE  GoodTask(r)
  <2>1. GoodTask([Failed(k, c, f, st) EXCEPT !.open = TRUE, !.last = c])
    BY FailedGood, AutopilotNulls
  <2> QED
    BY <1>2, <2>1 DEF RunnerFailed
<1> QED
  BY <1>1, <1>2 DEF RunnerResult

\* What a pass writes is good because it runs the next command.
LEMMA PassResultGood ==
  ASSUME NEW k, GoodTask(k), NextCommand(k) \in Command, NEW carrier,
         NEW r \in PassResult(k, carrier)
  PROVE  GoodTask(r)
<1> DEFINE c == NextCommand(k)
<1>0. k \in TaskRecord /\ k.last \in Command \cup {NoCommand} /\ k.open \in BOOLEAN
  BY DEF GoodTask, TaskRecord
<1>1. CASE r = Passed(k, c)
  <2>1. r = [Passed(k, c) EXCEPT !.last = k.last]
    BY <1>0, <1>1 DEF Passed, TaskRecord
  <2> QED
    BY <1>0, <2>1, PassedGood
<1>2. CASE \E f \in Failure : r = Failed(k, c, f, "blocked")
  <2>1. PICK f \in Failure : r = Failed(k, c, f, "blocked")
    BY <1>2
  <2>2. r = [Failed(k, c, f, "blocked") EXCEPT !.open = k.open, !.last = k.last]
    BY <1>0, <2>1 DEF Failed, BumpRetry, TaskRecord
  <2> QED
    BY <1>0, <2>2, FailedGood
<1>3. CASE r = k \/ \E f \in Failure : r = [k EXCEPT !.failure = f]
  BY <1>3, HeldGood
<1> QED
  BY <1>1, <1>2, <1>3 DEF PassResult

-----------------------------------------------------------------------------
(* What the steps do to a copy of the state.                                *)

\* A good task in place of another leaves a good copy, and the other tasks as
\* they were.
LEMMA PutTask ==
  ASSUME NEW s, GoodState(s), NEW t \in Tasks(s), NEW r, GoodTask(r)
  PROVE  LET s1 == [s EXCEPT !.tasks[t] = r]
         IN  /\ GoodState(s1)
             /\ Tasks(s1) = Tasks(s)
             /\ \A u \in Tasks(s) : u # t => s1.tasks[u] = s.tasks[u]
<1> DEFINE s1 == [s EXCEPT !.tasks[t] = r]
           ts == [s.tasks EXCEPT ![t] = r]
<1>1. s1 = [tasks |-> ts, turns |-> s.turns, digest |-> s.digest]
  BY DEF GoodState
<1>2. /\ ts = [u \in Tasks(s) |-> ts[u]] /\ DOMAIN ts = Tasks(s)
      /\ ts[t] = r /\ \A u \in Tasks(s) : u # t => ts[u] = s.tasks[u]
  BY DEF Tasks
<1> HIDE DEF ts
<1>3. s1.tasks = ts
  BY <1>1
<1>4. GoodState(s1)
  BY <1>1, <1>2, <1>3 DEF GoodState, Tasks
<1> QED
  BY <1>2, <1>3, <1>4 DEF Tasks

\* Turns and digest say nothing about the tasks.
LEMMA SameTasks ==
  ASSUME NEW s, GoodState(s), NEW n, NEW d
  PROVE  /\ GoodState([s EXCEPT !.turns = n]) /\ [s EXCEPT !.turns = n].tasks = s.tasks
         /\ GoodState([s EXCEPT !.digest = d]) /\ [s EXCEPT !.digest = d].tasks = s.tasks
BY DEF GoodState, Tasks

\* A copy with one new task.
LEMMA OneMore ==
  ASSUME NEW s, GoodState(s), NEW t, NEW c \in Command \cup {NoCommand}
  PROVE  GoodState([s EXCEPT !.tasks =
           [u \in Tasks(s) \cup {t} |-> IF u = t THEN NewTask(c) ELSE s.tasks[u]]])
<1> DEFINE ts == [u \in Tasks(s) \cup {t} |-> IF u = t THEN NewTask(c) ELSE s.tasks[u]]
           s1 == [s EXCEPT !.tasks = ts]
<1> SUFFICES GoodState(s1)
  OBVIOUS
<1>1. \A u \in DOMAIN ts : GoodTask(ts[u])
  BY NewTaskGood DEF GoodState
<1>2. ts = [u \in DOMAIN ts |-> ts[u]]
  OBVIOUS
<1> HIDE DEF ts
<1>3. s1 = [tasks |-> ts, turns |-> s.turns, digest |-> s.digest]
  BY DEF GoodState
<1> QED
  BY <1>1, <1>2, <1>3 DEF GoodState, Tasks

\* A process without a command has an empty copy.
LEMMA NoStateGood == GoodState(NoState)
BY DEF GoodState, NoState, Tasks

-----------------------------------------------------------------------------
(* The steps.                                                               *)

\* A step of p leaves it with this.
Moves(p, step, o, s, td) ==
  /\ pc' = [pc EXCEPT ![p] = step] /\ op' = [op EXCEPT ![p] = o]
  /\ snap' = [snap EXCEPT ![p] = s] /\ todo' = [todo EXCEPT ![p] = td]

\* A step of p moves nothing of the other processes, so the invariant holds
\* afterwards if it does for the file and for p.
LEMMA OneProcess ==
  ASSUME TaskInv, NEW p \in Proc, NEW step, NEW o, NEW s, NEW td,
         Moves(p, step, o, s, td), GoodState(disk'), GoodState(s), AtHand(step, o, s, td)
  PROVE  TaskInv'
<1>1. /\ pc' = [q \in Proc |-> pc'[q]] /\ op' = [q \in Proc |-> op'[q]]
      /\ snap' = [q \in Proc |-> snap'[q]] /\ todo' = [q \in Proc |-> todo'[q]]
  BY DEF TaskInv, Moves
<1>2. /\ pc'[p] = step /\ op'[p] = o /\ snap'[p] = s /\ todo'[p] = td
      /\ \A q \in Proc \ {p} : /\ pc'[q] = pc[q] /\ op'[q] = op[q]
                               /\ snap'[q] = snap[q] /\ todo'[q] = todo[q]
  BY DEF TaskInv, Moves
<1>3. \A q \in Proc : GoodState(snap'[q]) /\ AtHand(pc'[q], op'[q], snap'[q], todo'[q])
  BY <1>2 DEF TaskInv
<1> QED
  BY <1>1, <1>3 DEF TaskInv

\* A variable that a step leaves alone.
LEMMA Untouched ==
  ASSUME TaskInv, NEW p \in Proc
  PROVE  /\ op = [op EXCEPT ![p] = op[p]] /\ todo = [todo EXCEPT ![p] = todo[p]]
         /\ snap = [snap EXCEPT ![p] = snap[p]]
BY DEF TaskInv

\* Nothing has been run or is under way.
LEMMA TaskInvInit == Init => TaskInv
<1> SUFFICES ASSUME Init PROVE TaskInv
  OBVIOUS
<1>1. GoodState(disk)
  <2>1. PICK planned \in Backlogs :
          disk = [tasks |-> [t \in DOMAIN planned |-> NewTask(planned[t])],
                  turns |-> 0, digest |-> NoDigest]
    BY DEF Init
  <2> DEFINE ts == [t \in DOMAIN planned |-> NewTask(planned[t])]
  <2>2. \A t \in DOMAIN ts : GoodTask(ts[t])
    BY NewTaskGood, BacklogAssumption
  <2>3. ts = [t \in DOMAIN ts |-> ts[t]]
    OBVIOUS
  <2> HIDE DEF ts
  <2> QED
    BY <2>1, <2>2, <2>3 DEF GoodState, Tasks, ts
<1>2. \A p \in Proc : GoodState(snap[p]) /\ AtHand(pc[p], op[p], snap[p], todo[p])
  BY NoStateGood DEF Init, AtHand
<1>3. /\ pc = [p \in Proc |-> pc[p]] /\ op = [p \in Proc |-> op[p]]
      /\ snap = [p \in Proc |-> snap[p]] /\ todo = [p \in Proc |-> todo[p]]
  BY DEF Init
<1> QED
  BY <1>1, <1>2, <1>3 DEF TaskInv

\* The commands that change one task at once, and the starts that change none.
LEMMA StartStep ==
  ASSUME TaskInv, NEW p \in Proc,
         AddTask(p) \/ UpdateTask(p) \/ BeginRunner(p) \/ BeginJudge(p)
  PROVE  TaskInv'
<1>0. GoodState(disk) /\ (pc[p] = "idle" => todo[p] = {})
  BY DEF TaskInv, AtHand
<1>1. CASE AddTask(p)
  <2>1. PICK t \in Task \ Tasks(disk), c \in Command \cup {NoCommand} :
          /\ Started(p, [kind |-> "add"])
          /\ Goto(p, "save", [disk EXCEPT !.tasks =
               [u \in Tasks(disk) \cup {t} |-> IF u = t THEN NewTask(c) ELSE disk.tasks[u]]])
          /\ UNCHANGED <<disk, artifacts, todo, kills, histVars>>
    BY <1>1 DEF AddTask
  <2> DEFINE s == [disk EXCEPT !.tasks =
               [u \in Tasks(disk) \cup {t} |-> IF u = t THEN NewTask(c) ELSE disk.tasks[u]]]
  <2>2. GoodState(s)
    BY <1>0, OneMore
  <2> HIDE DEF s
  <2>3. AtHand("save", [kind |-> "add"], s, {})
    BY DEF AtHand
  <2>4. Moves(p, "save", [kind |-> "add"], s, {})
    BY <1>0, <2>1, Untouched DEF Started, Goto, Moves, s
  <2> QED
    BY <1>0, <2>1, <2>2, <2>3, <2>4, OneProcess
<1>2. CASE UpdateTask(p)
  <2>1. PICK t \in Tasks(disk), status \in HandStatus :
          /\ Started(p, [kind |-> "update"])
          /\ Goto(p, "save", [disk EXCEPT !.tasks[t] =
               [disk.tasks[t] EXCEPT !.status = status, !.by = "hand"]])
          /\ UNCHANGED <<disk, artifacts, todo, kills, histVars>>
    BY <1>2 DEF UpdateTask
  <2> DEFINE r == [disk.tasks[t] EXCEPT !.status = status, !.by = "hand"]
             s == [disk EXCEPT !.tasks[t] = r]
  <2>2. GoodTask(disk.tasks[t]) /\ status \in Statuses
    BY <1>0, BacklogAssumption DEF GoodState
  <2>3. GoodTask(r)
    BY <2>2, HandGood
  <2> HIDE DEF r
  <2>4. GoodState(s)
    BY <1>0, <2>3, PutTask
  <2> HIDE DEF s
  <2>5. AtHand("save", [kind |-> "update"], s, {})
    BY DEF AtHand
  <2>6. Moves(p, "save", [kind |-> "update"], s, {})
    BY <1>0, <2>1, Untouched DEF Started, Goto, Moves, r, s
  <2> QED
    BY <1>0, <2>1, <2>4, <2>5, <2>6, OneProcess
<1>3. CASE BeginRunner(p)
  <2>1. PICK t \in Tasks(disk), c \in Command :
          /\ Started(p, [kind |-> "runner", task |-> t, command |-> c])
          /\ Goto(p, "work", disk)
          /\ UNCHANGED <<disk, artifacts, todo, kills, histVars>>
    BY <1>3 DEF BeginRunner
  <2>2. AtHand("work", [kind |-> "runner", task |-> t, command |-> c], disk, {})
    BY DEF AtHand
  <2>3. Moves(p, "work", [kind |-> "runner", task |-> t, command |-> c], disk, {})
    BY <1>0, <2>1, Untouched DEF Started, Goto, Moves
  <2> QED
    BY <1>0, <2>1, <2>2, <2>3, OneProcess
<1>4. CASE BeginJudge(p)
  <2>1. AtHand("work", [kind |-> "judge"], disk, {})
    BY DEF AtHand
  <2>2. Moves(p, "work", [kind |-> "judge"], disk, {}) /\ disk' = disk
    BY <1>0, <1>4, Untouched DEF BeginJudge, Started, Goto, Moves
  <2> QED
    BY <1>0, <2>1, <2>2, OneProcess
<1> QED
  BY <1>1, <1>2, <1>3, <1>4

\* A runner or a judge comes back with its result.
LEMMA FinishStep ==
  ASSUME TaskInv, NEW p \in Proc, FinishRunner(p) \/ FinishJudge(p)
  PROVE  TaskInv'
<1>0. /\ GoodState(disk) /\ GoodState(snap[p]) /\ pc[p] = "work" /\ todo[p] = {}
      /\ AtHand(pc[p], op[p], snap[p], todo[p])
  BY DEF TaskInv, AtHand, FinishRunner, FinishJudge
<1>1. CASE FinishRunner(p)
  <2>0. op[p].task \in Tasks(snap[p]) /\ op[p].command \in Command
    BY <1>0, <1>1 DEF AtHand, FinishRunner
  <2>1. PICK r \in RunnerResult(snap[p].tasks[op[p].task], op[p].command) :
          Goto(p, "save", [snap[p] EXCEPT !.tasks[op[p].task] = r])
    BY <1>1 DEF FinishRunner
  <2> DEFINE s == [snap[p] EXCEPT !.tasks[op[p].task] = r]
  <2>2. GoodTask(r)
    BY <1>0, <2>0, RunnerResultGood DEF GoodState
  <2>3. GoodState(s)
    BY <1>0, <2>0, <2>2, PutTask
  <2> HIDE DEF s
  <2>4. AtHand("save", op[p], s, {})
    BY DEF AtHand
  <2>5. disk' = disk /\ op' = op /\ todo' = todo
    BY <1>1 DEF FinishRunner
  <2>6. Moves(p, "save", op[p], s, {})
    BY <1>0, <2>1, <2>5, Untouched DEF Goto, Moves, s
  <2> QED
    BY <1>0, <2>3, <2>4, <2>5, <2>6, OneProcess
<1>2. CASE FinishJudge(p)
  <2>1. AtHand("save", op[p], snap[p], {})
    BY DEF AtHand
  <2>2. Moves(p, "save", op[p], snap[p], {}) /\ disk' = disk
    BY <1>0, <1>2, Untouched DEF FinishJudge, Goto, Moves
  <2> QED
    BY <1>0, <2>1, <2>2, OneProcess
<1> QED
  BY <1>1, <1>2

\* A pass starts: the tasks it will run have a next command, in its copy too.
LEMMA BeginPassStep ==
  ASSUME TaskInv, NEW p \in Proc, BeginPass(p)
  PROVE  TaskInv'
<1>0. GoodState(disk) /\ disk' = disk /\ pc[p] = "idle" /\ todo[p] = {}
  BY DEF TaskInv, AtHand, BeginPass, Started
<1>1. PICK mode \in Modes :
        /\ Started(p, [kind |-> "pass", mode |-> mode, calm |-> calm])
        /\ \/ Goto(p, "save", Digested(disk)) /\ UNCHANGED todo
           \/ Goto(p, "save_digest", Digested(disk)) /\ UNCHANGED todo
           \/ /\ \/ Goto(p, "pay", [disk EXCEPT !.turns = @ + 1])
                 \/ Goto(p, "exec", disk)
              /\ todo' = [todo EXCEPT ![p] = Runnable(disk, mode)]
  BY DEF BeginPass
<1> DEFINE o == [kind |-> "pass", mode |-> mode, calm |-> calm]
<1>2. op' = [op EXCEPT ![p] = o]
  BY <1>1 DEF Started
<1> HIDE DEF o
<1>3. ASSUME NEW step \in {"save", "save_digest"}, Goto(p, step, Digested(disk)), UNCHANGED todo
      PROVE  TaskInv'
  <2>1. GoodState(Digested(disk))
    BY <1>0, SameTasks DEF Digested
  <2>2. AtHand(step, o, Digested(disk), {})
    BY DEF AtHand
  <2>3. Moves(p, step, o, Digested(disk), {})
    BY <1>0, <1>2, <1>3, Untouched DEF Goto, Moves
  <2> QED
    BY <1>0, <2>1, <2>2, <2>3, OneProcess
<1>4. ASSUME NEW step \in {"pay", "exec"}, NEW s, GoodState(s), s.tasks = disk.tasks,
             Goto(p, step, s), todo' = [todo EXCEPT ![p] = Runnable(disk, mode)]
      PROVE  TaskInv'
  <2>1. \A t \in Runnable(disk, mode) : t \in Tasks(s) /\ NextCommand(s.tasks[t]) \in Command
    <3> SUFFICES ASSUME NEW t \in Runnable(disk, mode)
                 PROVE  t \in Tasks(s) /\ NextCommand(s.tasks[t]) \in Command
      OBVIOUS
    <3>1. t \in Tasks(disk) /\ NextCommand(disk.tasks[t]) # NoCommand
      BY DEF Runnable
    <3>2. disk.tasks[t] \in TaskRecord
      BY <1>0, <3>1 DEF GoodState, GoodTask
    <3> QED
      BY <1>4, <3>1, <3>2 DEF Tasks, NextCommand, TaskRecord
  <2>2. AtHand(step, o, s, Runnable(disk, mode))
    BY <2>1 DEF AtHand
  <2>3. Moves(p, step, o, s, Runnable(disk, mode))
    BY <1>2, <1>4 DEF Goto, Moves
  <2> QED
    BY <1>0, <1>4, <2>2, <2>3, OneProcess
<1>5. GoodState([disk EXCEPT !.turns = @ + 1]) /\ [disk EXCEPT !.turns = @ + 1].tasks = disk.tasks
  BY <1>0, SameTasks
<1> QED
  BY <1>0, <1>1, <1>3, <1>4, <1>5

\* A pass goes on: it pays, runs its tasks one by one, and takes the digest.
LEMMA PassStep ==
  ASSUME TaskInv, NEW p \in Proc, PayTurn(p) \/ RunTask(p) \/ EndExec(p) \/ SaveDigest(p)
  PROVE  TaskInv'
<1>0. /\ GoodState(disk) /\ GoodState(snap[p])
      /\ AtHand(pc[p], op[p], snap[p], todo[p])
  BY DEF TaskInv
<1>1. CASE PayTurn(p)
  <2>1. AtHand("exec", op[p], snap[p], todo[p])
    BY <1>0 DEF AtHand
  <2>2. Moves(p, "exec", op[p], snap[p], todo[p]) /\ disk' = snap[p]
    BY <1>1, Untouched DEF PayTurn, SaveRun, Goto, Moves
  <2> QED
    BY <1>0, <2>1, <2>2, OneProcess
<1>2. CASE RunTask(p)
  <2>0. PICK t \in todo[p] :
          /\ \E r \in PassResult(snap[p].tasks[t], op[p].mode[2]) :
               Goto(p, "exec", [snap[p] EXCEPT !.tasks[t] = r])
          /\ todo' = [todo EXCEPT ![p] = todo[p] \ {t}]
    BY <1>2 DEF RunTask
  <2>1. PICK r \in PassResult(snap[p].tasks[t], op[p].mode[2]) :
          Goto(p, "exec", [snap[p] EXCEPT !.tasks[t] = r])
    BY <2>0
  <2> DEFINE s == [snap[p] EXCEPT !.tasks[t] = r]
  <2>2. t \in Tasks(snap[p]) /\ NextCommand(snap[p].tasks[t]) \in Command
    BY <1>0 DEF AtHand
  <2>3. GoodTask(r)
    BY <1>0, <2>2, PassResultGood DEF GoodState
  <2>4. /\ GoodState(s) /\ Tasks(s) = Tasks(snap[p])
        /\ \A u \in Tasks(snap[p]) : u # t => s.tasks[u] = snap[p].tasks[u]
    BY <1>0, <2>2, <2>3, PutTask
  <2>5. disk' = disk /\ op' = op
    BY <1>2 DEF RunTask
  <2>6. Moves(p, "exec", op[p], s, todo[p] \ {t})
    BY <2>0, <2>1, <2>5, Untouched DEF Goto, Moves
  <2> HIDE DEF s
  <2>7. AtHand("exec", op[p], s, todo[p] \ {t})
    BY <1>0, <2>4 DEF AtHand
  <2> QED
    BY <1>0, <2>4, <2>5, <2>6, <2>7, OneProcess
<1>3. CASE EndExec(p)
  <2>1. GoodState(Digested(snap[p]))
    BY <1>0, SameTasks DEF Digested
  <2>2. AtHand("save_digest", op[p], Digested(snap[p]), {})
    BY DEF AtHand
  <2>3. Moves(p, "save_digest", op[p], Digested(snap[p]), {}) /\ disk' = disk
    BY <1>3, Untouched DEF EndExec, Goto, Moves
  <2> QED
    BY <1>0, <2>1, <2>2, <2>3, OneProcess
<1>4. CASE SaveDigest(p)
  <2>1. AtHand("save", op[p], snap[p], {}) /\ todo[p] = {}
    BY <1>0, <1>4 DEF AtHand, SaveDigest
  <2>2. Moves(p, "save", op[p], snap[p], {}) /\ disk' = snap[p]
    BY <1>4, <2>1, Untouched DEF SaveDigest, SaveRun, Goto, Moves
  <2> QED
    BY <1>0, <2>1, <2>2, OneProcess
<1> QED
  BY <1>1, <1>2, <1>3, <1>4

\* A command ends, saved, failed or killed.
LEMMA EndStep ==
  ASSUME TaskInv, NEW p \in Proc, AbortPass(p) \/ Save(p) \/ Kill(p)
  PROVE  TaskInv'
<1>1. Ended(p) /\ (disk' = disk \/ disk' = snap[p])
  BY DEF AbortPass, Save, SaveRun, Kill
<1>2. GoodState(disk')
  BY <1>1 DEF TaskInv
<1>3. Moves(p, "idle", Idle, NoState, {})
  BY <1>1 DEF Ended, Goto, Moves
<1>4. AtHand("idle", Idle, NoState, {})
  BY DEF AtHand
<1> QED
  BY <1>2, <1>3, <1>4, NoStateGood, OneProcess

\* Every step keeps the invariant.
LEMMA TaskInvStep == TaskInv /\ [Next]_vars => TaskInv'
<1> SUFFICES ASSUME TaskInv, [Next]_vars PROVE TaskInv'
  OBVIOUS
<1>1. CASE UNCHANGED vars
  BY <1>1 DEF vars, TaskInv
<1>2. CASE Next
  BY <1>2, StartStep, FinishStep, BeginPassStep, PassStep, EndStep DEF Next
<1> QED
  BY <1>1, <1>2

\* What the invariant says of the file.
LEMMA TaskInvImplies == TaskInv => RetryVisible /\ DoneIsProven
<1> SUFFICES ASSUME TaskInv PROVE RetryVisible /\ DoneIsProven
  OBVIOUS
<1>1. \A t \in Tasks(disk) : GoodTask(disk.tasks[t])
  BY DEF TaskInv, GoodState
<1> QED
  BY <1>1 DEF GoodTask, RetryVisible, DoneIsProven

-----------------------------------------------------------------------------
\* The retry brake of autopilot reads one number, retry_count; it is never less
\* than the failures in a row of the command autopilot would run, whatever
\* runners, passes and hands did to the task, in any order.
THEOREM RetryTheorem == Spec => []RetryVisible
BY TaskInvInit, TaskInvStep, TaskInvImplies, PTL DEF Spec

\* A task that a command set to done has a passing result, no blocker and no
\* failure of its next command since; a stale save cannot put together the
\* status of one result and the blockers or evidence of another.
THEOREM DoneTheorem == Spec => []DoneIsProven
BY TaskInvInit, TaskInvStep, TaskInvImplies, PTL DEF Spec

-----------------------------------------------------------------------------
(* A pass is paid for and needed.                                           *)

\* The passes that have paid for a turn and have not run a command yet.
Credit == {p \in Proc : pc[p] = "exec" /\ todo[p] # {} /\ p \notin working}

\* No copy has more turns than the budget, and every turn in the file is one of
\* a pass that ran a command or may still do so.
TurnInv ==
  /\ disk.turns \in 0 .. MaxTurns
  /\ \A p \in Proc : snap[p].turns \in 0 .. MaxTurns
  /\ spent \in Nat
  /\ IsFiniteSet(Credit)
  /\ ~uncounted => spent + Cardinality(Credit) <= disk.turns

\* The digest in a state is that of its tasks and of the artifacts there are.
Seen(s) == s.digest = ProgressDigest(s, artifacts)
Closing(p) == op[p].kind = "pass" /\ pc[p] \in {"save", "save_digest"}

\* While the passes in `since' have nobody behind them their digests are those of
\* what they will save, and after a calm pass that of the file is.
DigestInv ==
  /\ artifacts \in Nat
  /\ Tasks(disk) \subseteq Task
  /\ calm => Seen(disk)
  /\ \A p \in Proc : /\ Tasks(snap[p]) \subseteq Task
                     /\ p \in since /\ Closing(p) => Seen(snap[p])
                     /\ pc[p] \in {"pay", "exec"} => ~op[p].calm

\* What is paid for is what is run: has_actionable_autopilot_task and
\* auto_exec_tasks agree.
LEMMA ActionableIsRunnable ==
  ASSUME NEW s, NEW mode \in Modes, ~HasActionableTask(s, mode)
  PROVE  Runnable(s, mode) = {}
<1>1. mode[2] = "tmux" \/ mode[2] = "sandbox"
  BY ModesAssumption
<1> QED BY <1>1 DEF HasActionableTask, Runnable, Allowed

\* Taking the digest makes it the state's, and leaves its tasks alone.
LEMMA DigestIsSeen ==
  ASSUME NEW s, GoodState(s)
  PROVE  /\ Seen(Digested(s)) /\ Digested(s).tasks = s.tasks
         /\ Digested(s).turns = s.turns
<1> DEFINE d == Digested(s)
<1>1. d.tasks = s.tasks /\ d.turns = s.turns /\ d.digest = ProgressDigest(s, artifacts)
  BY DEF GoodState, Digested
<1> HIDE DEF d
<1>2. Tasks(d) = Tasks(s) /\ Blocked(d) = Blocked(s) /\ Done(d) = Done(s)
  BY <1>1 DEF Tasks, Blocked, Done
<1>3. ProgressDigest(d, artifacts) = ProgressDigest(s, artifacts)
  BY <1>1, <1>2 DEF ProgressDigest
<1> QED BY <1>1, <1>3 DEF Seen, d

\* A state whose digest is its own shows no progress.
LEMMA SeenIsStalled ==
  ASSUME NEW s, Seen(s), Tasks(s) \subseteq Task, artifacts \in Nat
  PROVE  ~HasProgressed(s.digest, ProgressDigest(s, artifacts))
<1> DEFINE d == ProgressDigest(s, artifacts)
<1>1. d.artifacts = artifacts /\ d.done = Cardinality(Done(s))
  BY DEF ProgressDigest
<1>2. IsFiniteSet(Done(s))
  <2>1. Done(s) \in SUBSET Task
    BY DEF Done
  <2> QED BY <2>1, TaskAssumption, FS_Subset
<1>3. d.done \in Nat
  BY <1>1, <1>2, FS_CardinalityType
<1>4. d # NoDigest
  BY <1>1 DEF NoDigest
<1>5. ~BlockedTaskGotSuccess(d, d) /\ ~FailureFingerprintsChanged(d, d)
  BY DEF BlockedTaskGotSuccess, FailureFingerprintsChanged
<1> HIDE DEF d
<1>6. ~HasProgressed(d, d)
  BY <1>3, <1>4, <1>5 DEF HasProgressed
<1> QED BY <1>6 DEF Seen, d

\* A step of p that neither pays nor runs a command.
LEMMA QuietTurn ==
  ASSUME TurnInv, NEW p \in Proc,
         Credit' \subseteq Credit, spent' = spent,
         (disk' = disk /\ uncounted' = uncounted) \/ SaveRun(p, 0),
         \A q \in Proc : snap'[q].turns \in 0 .. MaxTurns
  PROVE  TurnInv'
<1>1. IsFiniteSet(Credit') /\ Cardinality(Credit') <= Cardinality(Credit)
  BY FS_Subset DEF TurnInv
<1>2. Cardinality(Credit) \in Nat /\ Cardinality(Credit') \in Nat
  BY <1>1, FS_CardinalityType DEF TurnInv
<1>3. disk'.turns \in 0 .. MaxTurns
  BY DEF TurnInv, SaveRun
<1>4. ~uncounted' => ~uncounted /\ disk.turns <= disk'.turns
  <2>1. CASE disk' = disk /\ uncounted' = uncounted
    BY <2>1, AutopilotBounds DEF TurnInv
  <2>2. CASE SaveRun(p, 0)
    <3>1. ~uncounted' => ~uncounted /\ ~(snap[p].turns < disk.turns + 0)
      BY <2>2, Zenon DEF SaveRun
    <3>2. disk.turns \in Int /\ snap[p].turns \in Int /\ disk' = snap[p]
      BY <2>2, AutopilotBounds DEF TurnInv, SaveRun
    <3> QED BY <3>1, <3>2
  <2> QED BY <2>1, <2>2
<1> QED BY <1>1, <1>2, <1>3, <1>4, AutopilotBounds DEF TurnInv

\* The process p moves and the others stay.
LEMMA OthersStay ==
  ASSUME TaskInv, NEW p \in Proc, NEW step, NEW o, NEW s, NEW td, Moves(p, step, o, s, td)
  PROVE  /\ pc'[p] = step /\ op'[p] = o /\ snap'[p] = s /\ todo'[p] = td
         /\ \A q \in Proc \ {p} : /\ pc'[q] = pc[q] /\ op'[q] = op[q]
                                  /\ snap'[q] = snap[q] /\ todo'[q] = todo[q]
BY DEF TaskInv, Moves

\* What a command other than a pass begins with.
Begun(p, step, o, s) ==
  /\ step \in {"save", "work"} /\ o.kind # "pass" /\ Moves(p, step, o, s, {})
  /\ s.turns = disk.turns /\ Tasks(s) \subseteq Tasks(disk) \cup Task

LEMMA Starting ==
  ASSUME TaskInv, NEW p \in Proc,
         AddTask(p) \/ UpdateTask(p) \/ BeginRunner(p) \/ BeginJudge(p)
  PROVE  /\ pc[p] = "idle" /\ todo[p] = {}
         /\ UNCHANGED <<disk, artifacts, histVars>>
         /\ \E step, o, s : Begun(p, step, o, s)
<1>0. GoodState(disk) /\ (pc[p] = "idle" => todo[p] = {})
  BY DEF TaskInv, AtHand
<1>1. pc[p] = "idle" /\ UNCHANGED <<disk, artifacts, todo, histVars>>
  BY DEF AddTask, UpdateTask, BeginRunner, BeginJudge, Started
<1>2. todo' = [todo EXCEPT ![p] = {}]
  BY <1>0, <1>1, Untouched
<1>3. ASSUME AddTask(p) PROVE \E step, o, s : Begun(p, step, o, s)
  <2>1. PICK t \in Task \ Tasks(disk), c \in Command \cup {NoCommand} :
          /\ Started(p, [kind |-> "add"])
          /\ Goto(p, "save", [disk EXCEPT !.tasks =
               [u \in Tasks(disk) \cup {t} |-> IF u = t THEN NewTask(c) ELSE disk.tasks[u]]])
    BY <1>3 DEF AddTask
  <2> DEFINE ts == [u \in Tasks(disk) \cup {t} |-> IF u = t THEN NewTask(c) ELSE disk.tasks[u]]
             s == [disk EXCEPT !.tasks = ts]
  <2>2. DOMAIN ts = Tasks(disk) \cup {t}
    OBVIOUS
  <2> HIDE DEF ts
  <2>3. s.turns = disk.turns /\ Tasks(s) \subseteq Tasks(disk) \cup Task
    BY <1>0, <2>2 DEF GoodState, Tasks
  <2>4. Moves(p, "save", [kind |-> "add"], s, {})
    BY <1>2, <2>1 DEF Moves, Started, Goto, ts
  <2> HIDE DEF s
  <2> QED BY <2>3, <2>4 DEF Begun
<1>4. ASSUME UpdateTask(p) PROVE \E step, o, s : Begun(p, step, o, s)
  <2>1. PICK t \in Tasks(disk), status \in HandStatus :
          /\ Started(p, [kind |-> "update"])
          /\ Goto(p, "save", [disk EXCEPT !.tasks[t] =
               [disk.tasks[t] EXCEPT !.status = status, !.by = "hand"]])
    BY <1>4 DEF UpdateTask
  <2> DEFINE r == [disk.tasks[t] EXCEPT !.status = status, !.by = "hand"]
             s == [disk EXCEPT !.tasks[t] = r]
  <2> HIDE DEF r
  <2>2. s.turns = disk.turns /\ Tasks(s) \subseteq Tasks(disk) \cup Task
    BY <1>0 DEF GoodState, Tasks
  <2>3. Moves(p, "save", [kind |-> "update"], s, {})
    BY <1>2, <2>1 DEF Moves, Started, Goto, r
  <2> HIDE DEF s
  <2> QED BY <2>2, <2>3 DEF Begun
<1>5. ASSUME BeginRunner(p) PROVE \E step, o, s : Begun(p, step, o, s)
  <2>1. PICK t \in Tasks(disk), c \in Command :
          /\ Started(p, [kind |-> "runner", task |-> t, command |-> c])
          /\ Goto(p, "work", disk)
    BY <1>5 DEF BeginRunner
  <2>2. Moves(p, "work", [kind |-> "runner", task |-> t, command |-> c], disk, {})
    BY <1>2, <2>1 DEF Moves, Started, Goto
  <2> QED BY <2>2 DEF Begun
<1>6. ASSUME BeginJudge(p) PROVE \E step, o, s : Begun(p, step, o, s)
  <2>1. Moves(p, "work", [kind |-> "judge"], disk, {})
    BY <1>2, <1>6 DEF BeginJudge, Moves, Started, Goto
  <2> QED BY <2>1 DEF Begun
<1> QED BY <1>0, <1>1, <1>3, <1>4, <1>5, <1>6

LEMMA TurnStep ==
  ASSUME TaskInv, TurnInv, [Next]_vars
  PROVE  TurnInv'
<1> USE AutopilotBounds
<1>1. CASE UNCHANGED vars
  <2>1. Credit' = Credit
    BY <1>1 DEF Credit, vars, histVars
  <2> QED BY <1>1, <2>1 DEF TurnInv, vars, histVars
<1>2. SUFFICES ASSUME NEW p \in Proc,
                      \/ AddTask(p) \/ UpdateTask(p) \/ BeginRunner(p) \/ BeginJudge(p)
                      \/ FinishRunner(p) \/ FinishJudge(p)
                      \/ BeginPass(p) \/ PayTurn(p) \/ RunTask(p) \/ AbortPass(p) \/ EndExec(p)
                      \/ SaveDigest(p) \/ Save(p) \/ Kill(p)
               PROVE  TurnInv'
  BY <1>1 DEF Next
<1>3. /\ GoodState(disk) /\ GoodState(snap[p]) /\ AtHand(pc[p], op[p], snap[p], todo[p])
      /\ disk.turns \in 0 .. MaxTurns /\ \A q \in Proc : snap[q].turns \in 0 .. MaxTurns
  BY DEF TaskInv, TurnInv
<1>4. /\ op = [op EXCEPT ![p] = op[p]] /\ todo = [todo EXCEPT ![p] = todo[p]]
      /\ snap = [snap EXCEPT ![p] = snap[p]]
  BY Untouched
<1>5. ASSUME NEW step, NEW o, NEW s, NEW td, Moves(p, step, o, s, td),
             step # "exec" \/ td = {} \/ (pc[p] = "exec" /\ td \subseteq todo[p]),
             s.turns \in 0 .. MaxTurns, working \ {p} \subseteq working',
             p \in working => p \in working' \/ step # "exec",
             spent' = spent, (disk' = disk /\ uncounted' = uncounted) \/ SaveRun(p, 0)
      PROVE  TurnInv'
  <2>1. /\ pc'[p] = step /\ snap'[p] = s /\ todo'[p] = td
        /\ \A q \in Proc \ {p} : pc'[q] = pc[q] /\ snap'[q] = snap[q] /\ todo'[q] = todo[q]
    BY <1>5, OthersStay
  <2>2. Credit' \subseteq Credit
    BY <1>5, <2>1 DEF Credit
  <2>3. \A q \in Proc : snap'[q].turns \in 0 .. MaxTurns
    BY <1>3, <1>5, <2>1
  <2> QED BY <1>5, <2>2, <2>3, QuietTurn
<1>6. CASE AddTask(p) \/ UpdateTask(p) \/ BeginRunner(p) \/ BeginJudge(p)
  <2>1. UNCHANGED <<disk, histVars>> /\ \E step, o, s : Begun(p, step, o, s)
    BY <1>6, Starting
  <2>2. PICK step, o, s : Begun(p, step, o, s)
    BY <2>1
  <2>3. step # "exec" /\ Moves(p, step, o, s, {}) /\ s.turns \in 0 .. MaxTurns
    BY <1>3, <2>2 DEF Begun
  <2> QED BY <1>5, <2>1, <2>3 DEF histVars
<1>7. CASE FinishRunner(p)
  <2>0. op[p].task \in Tasks(snap[p]) /\ op[p].command \in Command
    BY <1>3, <1>7 DEF AtHand, FinishRunner
  <2>1. PICK r \in RunnerResult(snap[p].tasks[op[p].task], op[p].command) :
          Goto(p, "save", [snap[p] EXCEPT !.tasks[op[p].task] = r])
    BY <1>7 DEF FinishRunner
  <2> DEFINE s == [snap[p] EXCEPT !.tasks[op[p].task] = r]
  <2>2. s.turns = snap[p].turns
    BY <1>3 DEF GoodState
  <2>3. Moves(p, "save", op[p], s, todo[p])
    BY <1>4, <1>7, <2>1 DEF FinishRunner, Goto, Moves
  <2> HIDE DEF s
  <2> QED BY <1>3, <1>5, <1>7, <2>2, <2>3 DEF FinishRunner, histVars
<1>8. CASE FinishJudge(p)
  <2>1. Moves(p, "save", op[p], snap[p], todo[p])
    BY <1>4, <1>8 DEF FinishJudge, Goto, Moves
  <2> QED BY <1>3, <1>5, <1>8, <2>1 DEF FinishJudge
<1>9. CASE BeginPass(p)
  <2>1. PICK mode \in Modes :
          /\ WithinBudget(disk)
          /\ Started(p, [kind |-> "pass", mode |-> mode, calm |-> calm])
          /\ \/ Goto(p, "save", Digested(disk)) /\ UNCHANGED todo
             \/ Goto(p, "save_digest", Digested(disk)) /\ UNCHANGED todo
             \/ /\ IF HasActionableTask(disk, mode)
                   THEN Goto(p, "pay", [disk EXCEPT !.turns = @ + 1])
                   ELSE Goto(p, "exec", disk)
                /\ todo' = [todo EXCEPT ![p] = Runnable(disk, mode)]
    BY <1>9 DEF BeginPass
  <2> DEFINE o == [kind |-> "pass", mode |-> mode, calm |-> calm]
  <2>2. /\ op' = [op EXCEPT ![p] = o] /\ pc[p] = "idle"
        /\ UNCHANGED <<disk, working, spent, uncounted>>
    BY <1>9, <2>1 DEF Started, BeginPass
  <2> HIDE DEF o
  <2>3. ASSUME NEW step \in {"save", "save_digest"}, Goto(p, step, Digested(disk)), UNCHANGED todo
        PROVE  TurnInv'
    <3>1. Moves(p, step, o, Digested(disk), todo[p])
      BY <1>4, <2>2, <2>3 DEF Goto, Moves
    <3>2. Digested(disk).turns \in 0 .. MaxTurns
      BY <1>3, DigestIsSeen
    <3> QED BY <1>5, <2>2, <3>1, <3>2
  <2>4. ASSUME Goto(p, "pay", [disk EXCEPT !.turns = @ + 1]),
               todo' = [todo EXCEPT ![p] = Runnable(disk, mode)]
        PROVE  TurnInv'
    <3> DEFINE s == [disk EXCEPT !.turns = disk.turns + 1]
    <3>1. Moves(p, "pay", o, s, Runnable(disk, mode))
      BY <2>2, <2>4 DEF Goto, Moves
    <3>2. s.turns = disk.turns + 1
      BY <1>3 DEF GoodState
    <3>3. disk.turns + 1 \in 0 .. MaxTurns
      BY <1>3, <2>1 DEF WithinBudget
    <3> HIDE DEF s
    <3>4. s.turns \in 0 .. MaxTurns /\ "pay" # "exec"
      BY <3>2, <3>3
    <3> QED BY <1>5, <2>2, <3>1, <3>4
  <2>5. ASSUME ~HasActionableTask(disk, mode), Goto(p, "exec", disk),
               todo' = [todo EXCEPT ![p] = Runnable(disk, mode)]
        PROVE  TurnInv'
    <3>1. Moves(p, "exec", o, disk, {})
      BY <2>2, <2>5, ActionableIsRunnable DEF Goto, Moves
    <3> QED BY <1>3, <1>5, <2>2, <3>1
  <2> QED BY <2>1, <2>3, <2>4, <2>5
<1>10. CASE EndExec(p) \/ SaveDigest(p)
  <2>1. PICK step \in {"save_digest", "save"}, s \in {snap[p], Digested(snap[p])} :
          Moves(p, step, op[p], s, todo[p])
    BY <1>4, <1>10 DEF EndExec, SaveDigest, Goto, Moves
  <2>2. s.turns \in 0 .. MaxTurns
    BY <1>3, DigestIsSeen
  <2>3. /\ spent' = spent /\ working' = working
        /\ (disk' = disk /\ uncounted' = uncounted) \/ SaveRun(p, 0)
    BY <1>10 DEF EndExec, SaveDigest
  <2> QED BY <1>5, <2>1, <2>2, <2>3
<1>11. CASE Save(p) \/ Kill(p) \/ (AbortPass(p) /\ spent' = spent)
  <2>1. Moves(p, "idle", Idle, NoState, {}) /\ NoState.turns = 0
    BY <1>11 DEF Save, Kill, AbortPass, Ended, Goto, Moves, NoState
  <2>2. /\ working' = working \ {p} /\ spent' = spent
        /\ (disk' = disk /\ uncounted' = uncounted) \/ SaveRun(p, 0)
    BY <1>11 DEF Save, Kill, AbortPass, Ended
  <2> QED BY <1>5, <2>1, <2>2
<1>12. CASE PayTurn(p)
  <2>1. /\ Moves(p, "exec", op[p], snap[p], todo[p]) /\ disk' = snap[p]
        /\ spent' = spent /\ working' = working /\ pc[p] = "pay"
    BY <1>4, <1>12 DEF PayTurn, SaveRun, Goto, Moves
  <2>2. /\ pc'[p] = "exec" /\ snap'[p] = snap[p]
        /\ \A q \in Proc \ {p} : pc'[q] = pc[q] /\ snap'[q] = snap[q] /\ todo'[q] = todo[q]
    BY <2>1, OthersStay
  <2>3. Credit' \in SUBSET (Credit \cup {p})
    BY <2>1, <2>2 DEF Credit
  <2>4. /\ IsFiniteSet(Credit \cup {p}) /\ Cardinality(Credit) \in Nat
        /\ Cardinality(Credit \cup {p}) <= Cardinality(Credit) + 1
    <3>1. IsFiniteSet(Credit) /\ Cardinality(Credit) \in Nat
      BY FS_CardinalityType DEF TurnInv
    <3>2. /\ IsFiniteSet(Credit \cup {p})
          /\ Cardinality(Credit \cup {p}) = IF p \in Credit THEN Cardinality(Credit)
                                            ELSE Cardinality(Credit) + 1
      BY <3>1, FS_AddElement
    <3> QED BY <3>1, <3>2
  <2>5. IsFiniteSet(Credit') /\ Cardinality(Credit') <= Cardinality(Credit \cup {p})
    BY <2>3, <2>4, FS_Subset
  <2>6. Cardinality(Credit') \in Nat /\ Cardinality(Credit \cup {p}) \in Nat
    BY <2>4, <2>5, FS_CardinalityType
  <2>7. ~uncounted' => ~uncounted /\ ~(snap[p].turns < disk.turns + 1)
    BY <1>12, Zenon DEF PayTurn, SaveRun
  <2>8. ~uncounted' => spent' + Cardinality(Credit') <= disk'.turns
    BY <1>3, <2>1, <2>4, <2>5, <2>6, <2>7 DEF TurnInv
  <2> QED BY <1>3, <2>1, <2>2, <2>5, <2>8 DEF TurnInv
<1>13. CASE RunTask(p) \/ (AbortPass(p) /\ spent' # spent)
  <2>1. /\ disk' = disk /\ uncounted' = uncounted /\ pc[p] = "exec" /\ todo[p] # {}
        /\ spent' = IF p \in working THEN spent ELSE spent + 1
    BY <1>13 DEF RunTask, AbortPass, Spends
  <2>2. /\ \A q \in Proc \ {p} : /\ pc'[q] = pc[q] /\ snap'[q] = snap[q] /\ todo'[q] = todo[q]
                                 /\ (q \in working' <=> q \in working)
        /\ snap'[p].turns \in 0 .. MaxTurns
        /\ p \in working' \/ pc'[p] # "exec"
    <3>1. CASE RunTask(p)
      <4>1. PICK t \in todo[p] :
              /\ \E r \in PassResult(snap[p].tasks[t], op[p].mode[2]) :
                   Goto(p, "exec", [snap[p] EXCEPT !.tasks[t] = r])
              /\ todo' = [todo EXCEPT ![p] = todo[p] \ {t}]
        BY <3>1 DEF RunTask
      <4>2. PICK r \in PassResult(snap[p].tasks[t], op[p].mode[2]) :
              Goto(p, "exec", [snap[p] EXCEPT !.tasks[t] = r])
        BY <4>1
      <4> DEFINE s == [snap[p] EXCEPT !.tasks[t] = r]
      <4>3. s.turns = snap[p].turns
        BY <1>3 DEF GoodState
      <4>4. Moves(p, "exec", op[p], s, todo[p] \ {t}) /\ working' = working \cup {p}
        BY <1>4, <3>1, <4>1, <4>2 DEF RunTask, Goto, Moves, Spends
      <4> HIDE DEF s
      <4> QED BY <1>3, <4>3, <4>4, OthersStay
    <3>2. CASE AbortPass(p)
      <4>1. Moves(p, "idle", Idle, NoState, {}) /\ NoState.turns = 0 /\ working' = working \ {p}
        BY <3>2 DEF AbortPass, Ended, Goto, Moves, NoState
      <4>2. /\ pc'[p] = "idle" /\ snap'[p] = NoState
            /\ \A q \in Proc \ {p} : pc'[q] = pc[q] /\ snap'[q] = snap[q] /\ todo'[q] = todo[q]
        BY <4>1, OthersStay
      <4> QED BY <4>1, <4>2
    <3> QED BY <1>13, <3>1, <3>2
  <2>3. Credit' \in SUBSET (Credit \ {p})
    BY <2>2 DEF Credit
  <2>4. /\ IsFiniteSet(Credit \ {p}) /\ Cardinality(Credit) \in Nat
        /\ Cardinality(Credit \ {p}) = IF p \in Credit THEN Cardinality(Credit) - 1
                                       ELSE Cardinality(Credit)
    BY FS_RemoveElement, FS_CardinalityType DEF TurnInv
  <2>5. IsFiniteSet(Credit') /\ Cardinality(Credit') <= Cardinality(Credit \ {p})
    BY <2>3, <2>4, FS_Subset
  <2>6. Cardinality(Credit') \in Nat
    BY <2>5, FS_CardinalityType
  <2>7. p \in working \/ p \in Credit
    BY <2>1 DEF Credit
  <2>8. ~uncounted => spent' + Cardinality(Credit') <= disk.turns
    BY <1>3, <2>1, <2>4, <2>5, <2>6, <2>7 DEF TurnInv
  <2> QED BY <1>3, <2>1, <2>2, <2>5, <2>8 DEF TurnInv
<1>14. CASE AbortPass(p) \/ RunTask(p) \/ Save(p) \/ Kill(p)
  BY <1>11, <1>13, <1>14
<1> QED BY <1>2, <1>6, <1>7, <1>8, <1>9, <1>10, <1>12, <1>14

\* A step of p that changes nothing that others rely on: whoever is still in
\* `since' was there before, or is p with the digest of its copy.
LEMMA DigestKept ==
  ASSUME TaskInv, DigestInv, NEW p \in Proc,
         NEW step, NEW o, NEW s, NEW td, Moves(p, step, o, s, td),
         Tasks(s) \subseteq Task, Tasks(disk') \subseteq Task,
         artifacts' = artifacts \/ (artifacts' = artifacts + 1 /\ since' \subseteq {p}),
         calm' => Seen(disk)',
         since' \subseteq since \cup {p},
         p \in since' /\ o.kind = "pass" /\ step \in {"save", "save_digest"} =>
           s.digest = ProgressDigest(s, artifacts'),
         step \in {"pay", "exec"} => ~o.calm
  PROVE  DigestInv'
<1>1. /\ pc'[p] = step /\ op'[p] = o /\ snap'[p] = s
      /\ \A q \in Proc \ {p} : pc'[q] = pc[q] /\ op'[q] = op[q] /\ snap'[q] = snap[q]
  BY OthersStay
<1>2. ASSUME NEW q \in Proc
      PROVE  /\ Tasks(snap'[q]) \subseteq Task
             /\ pc'[q] \in {"pay", "exec"} => ~op'[q].calm
             /\ q \in since' /\ Closing(q)' => Seen(snap[q])'
  <2>1. CASE q = p
    BY <1>1, <2>1 DEF Closing, Seen
  <2>2. CASE q # p
    <3>1. pc'[q] = pc[q] /\ op'[q] = op[q] /\ snap'[q] = snap[q]
      BY <1>1, <2>2
    <3>2. q \in since' => q \in since /\ artifacts' = artifacts
      BY <2>2
    <3> QED BY <3>1, <3>2 DEF DigestInv, Closing, Seen
  <2> QED BY <2>1, <2>2
<1> QED BY <1>2 DEF DigestInv

LEMMA DigestStep ==
  ASSUME TaskInv, DigestInv, [Next]_vars
  PROVE  DigestInv'
<1>1. CASE UNCHANGED vars
  BY <1>1 DEF DigestInv, Closing, Seen, vars, histVars
<1>2. SUFFICES ASSUME NEW p \in Proc,
                      \/ AddTask(p) \/ UpdateTask(p) \/ BeginRunner(p) \/ BeginJudge(p)
                      \/ FinishRunner(p) \/ FinishJudge(p)
                      \/ BeginPass(p) \/ PayTurn(p) \/ RunTask(p) \/ AbortPass(p) \/ EndExec(p)
                      \/ SaveDigest(p) \/ Save(p) \/ Kill(p)
               PROVE  DigestInv'
  BY <1>1 DEF Next
<1>3. /\ GoodState(disk) /\ GoodState(snap[p]) /\ AtHand(pc[p], op[p], snap[p], todo[p])
      /\ Tasks(disk) \subseteq Task /\ Tasks(snap[p]) \subseteq Task
      /\ pc[p] \in {"pay", "exec"} => ~op[p].calm
      /\ artifacts \in Nat /\ (calm => Seen(disk))
      /\ p \in since /\ Closing(p) => Seen(snap[p])
  BY DEF TaskInv, DigestInv
<1>4. /\ op = [op EXCEPT ![p] = op[p]] /\ todo = [todo EXCEPT ![p] = todo[p]]
      /\ snap = [snap EXCEPT ![p] = snap[p]]
  BY Untouched
<1>5. UNCHANGED <<disk, artifacts, calm>> => (calm' => Seen(disk)')
  BY <1>3 DEF Seen
<1>6. Tasks(NoState) \subseteq Task
  BY DEF NoState, Tasks
<1>7. CASE AddTask(p) \/ UpdateTask(p) \/ BeginRunner(p) \/ BeginJudge(p)
  <2>1. UNCHANGED <<disk, artifacts, since, calm>> /\ \E step, o, s : Begun(p, step, o, s)
    BY <1>7, Starting DEF histVars
  <2>2. PICK step, o, s : Begun(p, step, o, s)
    BY <2>1
  <2>3. /\ step \notin {"pay", "exec"} /\ o.kind # "pass" /\ Moves(p, step, o, s, {})
        /\ Tasks(s) \subseteq Task
    BY <1>3, <2>2 DEF Begun
  <2> QED BY <1>3, <1>5, <2>1, <2>3, DigestKept
<1>8. CASE FinishRunner(p)
  <2>0. op[p].task \in Tasks(snap[p]) /\ op[p].command \in Command /\ op[p].kind = "runner"
    BY <1>3, <1>8 DEF AtHand, FinishRunner
  <2>1. PICK r \in RunnerResult(snap[p].tasks[op[p].task], op[p].command) :
          Goto(p, "save", [snap[p] EXCEPT !.tasks[op[p].task] = r])
    BY <1>8 DEF FinishRunner
  <2> DEFINE s == [snap[p] EXCEPT !.tasks[op[p].task] = r]
  <2>2. Tasks(s) = Tasks(snap[p])
    BY <1>3 DEF GoodState, Tasks
  <2>3. Moves(p, "save", op[p], s, todo[p])
    BY <1>4, <1>8, <2>1 DEF FinishRunner, Goto, Moves
  <2>4. UNCHANGED <<disk, artifacts, since, calm>> /\ op[p].kind # "pass"
    BY <1>8, <2>0 DEF FinishRunner, histVars
  <2> HIDE DEF s
  <2> QED BY <1>3, <1>5, <2>2, <2>3, <2>4, DigestKept
<1>9. CASE FinishJudge(p)
  <2>1. Moves(p, "save", op[p], snap[p], todo[p])
    BY <1>4, <1>9 DEF FinishJudge, Goto, Moves
  <2>2. /\ artifacts' = artifacts + 1 /\ since' = since \cap {p} /\ calm' = FALSE /\ disk' = disk
        /\ op[p].kind # "pass"
    BY <1>9 DEF FinishJudge
  <2> QED BY <1>3, <2>1, <2>2, DigestKept
<1>10. CASE BeginPass(p)
  <2>1. PICK mode \in Modes :
          /\ Started(p, [kind |-> "pass", mode |-> mode, calm |-> calm])
          /\ \/ /\ \/ Goto(p, "save", Digested(disk))
                   \/ Goto(p, "save_digest", Digested(disk))
                /\ since' = since \cup {p} /\ UNCHANGED todo
             \/ /\ HasProgressed(disk.digest, ProgressDigest(disk, artifacts))
                /\ \/ Goto(p, "pay", [disk EXCEPT !.turns = @ + 1])
                   \/ Goto(p, "exec", disk)
                /\ todo' = [todo EXCEPT ![p] = Runnable(disk, mode)]
                /\ UNCHANGED since
    BY <1>10 DEF BeginPass
  <2> DEFINE o == [kind |-> "pass", mode |-> mode, calm |-> calm]
  <2>2. op' = [op EXCEPT ![p] = o] /\ UNCHANGED <<disk, artifacts, calm>>
    BY <1>10, <2>1 DEF Started, BeginPass
  <2>3. o.calm = calm
    OBVIOUS
  <2> HIDE DEF o
  <2>4. ASSUME NEW step \in {"save", "save_digest"}, Goto(p, step, Digested(disk)), UNCHANGED todo,
               since' = since \cup {p}
        PROVE  DigestInv'
    <3>1. Moves(p, step, o, Digested(disk), todo[p])
      BY <1>4, <2>2, <2>4 DEF Goto, Moves
    <3>2. /\ Tasks(Digested(disk)) \subseteq Task
          /\ Digested(disk).digest = ProgressDigest(Digested(disk), artifacts')
      BY <1>3, <2>2, DigestIsSeen DEF Tasks, Seen
    <3> QED BY <1>3, <1>5, <2>2, <2>4, <3>1, <3>2, DigestKept
  <2>5. ASSUME NEW step \in {"pay", "exec"}, NEW s, s.tasks = disk.tasks, Goto(p, step, s),
               HasProgressed(disk.digest, ProgressDigest(disk, artifacts)),
               todo' = [todo EXCEPT ![p] = Runnable(disk, mode)], UNCHANGED since
        PROVE  DigestInv'
    <3>1. Moves(p, step, o, s, Runnable(disk, mode)) /\ Tasks(s) \subseteq Task
      BY <1>3, <2>2, <2>5 DEF Goto, Moves, Tasks
    <3>2. ~calm
      BY <1>3, <2>5, SeenIsStalled
    <3> QED BY <1>3, <1>5, <2>2, <2>3, <2>5, <3>1, <3>2, DigestKept
  <2>6. [disk EXCEPT !.turns = @ + 1].tasks = disk.tasks
    BY <1>3 DEF GoodState
  <2> QED BY <2>1, <2>4, <2>5, <2>6
<1>11. CASE PayTurn(p)
  <2>1. Moves(p, "exec", op[p], snap[p], todo[p]) /\ disk' = snap[p]
    BY <1>4, <1>11 DEF PayTurn, SaveRun, Goto, Moves
  <2>2. UNCHANGED artifacts /\ since' = since \cap {p} /\ calm' = FALSE /\ ~op[p].calm
    BY <1>3, <1>11 DEF PayTurn, SaveRun
  <2> QED BY <1>3, <2>1, <2>2, DigestKept
<1>12. CASE RunTask(p)
  <2>1. PICK t \in todo[p] :
          /\ \E r \in PassResult(snap[p].tasks[t], op[p].mode[2]) :
               Goto(p, "exec", [snap[p] EXCEPT !.tasks[t] = r])
          /\ todo' = [todo EXCEPT ![p] = todo[p] \ {t}]
    BY <1>12 DEF RunTask
  <2>2. PICK r \in PassResult(snap[p].tasks[t], op[p].mode[2]) :
          Goto(p, "exec", [snap[p] EXCEPT !.tasks[t] = r])
    BY <2>1
  <2> DEFINE s == [snap[p] EXCEPT !.tasks[t] = r]
  <2>3. Tasks(s) = Tasks(snap[p])
    BY <1>3 DEF GoodState, Tasks
  <2>4. Moves(p, "exec", op[p], s, todo[p] \ {t})
    BY <1>4, <1>12, <2>1, <2>2 DEF RunTask, Goto, Moves
  <2>5. UNCHANGED <<disk, artifacts, since, calm>> /\ ~op[p].calm
    BY <1>3, <1>12 DEF RunTask
  <2> HIDE DEF s
  <2> QED BY <1>3, <1>5, <2>3, <2>4, <2>5, DigestKept
<1>13. CASE EndExec(p)
  <2>1. Moves(p, "save_digest", op[p], Digested(snap[p]), todo[p])
    BY <1>4, <1>13 DEF EndExec, Goto, Moves
  <2>2. UNCHANGED <<disk, artifacts, calm>> /\ since' = since \cup {p}
    BY <1>13 DEF EndExec
  <2>3. /\ Tasks(Digested(snap[p])) \subseteq Task
        /\ Digested(snap[p]).digest = ProgressDigest(Digested(snap[p]), artifacts')
    BY <1>3, <2>2, DigestIsSeen DEF Tasks, Seen
  <2> QED BY <1>3, <1>5, <2>1, <2>2, <2>3, DigestKept
<1>14. CASE SaveDigest(p)
  <2>1. Moves(p, "save", op[p], snap[p], todo[p]) /\ disk' = snap[p]
    BY <1>4, <1>14 DEF SaveDigest, SaveRun, Goto, Moves
  <2>2. UNCHANGED artifacts /\ since' = since \cap {p} /\ calm' = FALSE /\ pc[p] = "save_digest"
    BY <1>14 DEF SaveDigest, SaveRun
  <2>3. p \in since' /\ op[p].kind = "pass" => snap[p].digest = ProgressDigest(snap[p], artifacts')
    BY <1>3, <2>2 DEF Closing, Seen
  <2> QED BY <1>3, <2>1, <2>2, <2>3, DigestKept
<1>15. CASE Save(p)
  <2>1. Moves(p, "idle", Idle, NoState, {}) /\ disk' = snap[p]
    BY <1>15 DEF Save, SaveRun, Ended, Goto, Moves
  <2>2. UNCHANGED artifacts /\ since' = since \cap {p} /\ pc[p] = "save"
    BY <1>15 DEF Save, SaveRun
  <2>3. calm' => op[p].kind = "pass" /\ p \in since
    BY <1>15, Zenon DEF Save
  <2>4. calm' => Seen(disk)'
    BY <1>3, <2>1, <2>2, <2>3 DEF Closing, Seen
  <2> QED BY <1>3, <1>6, <2>1, <2>2, <2>4, DigestKept
<1>16. CASE AbortPass(p) \/ Kill(p)
  <2>1. Moves(p, "idle", Idle, NoState, {})
    BY <1>16 DEF AbortPass, Kill, Ended, Goto, Moves
  <2>2. UNCHANGED <<disk, artifacts, since, calm>>
    BY <1>16 DEF AbortPass, Kill
  <2> QED BY <1>3, <1>5, <1>6, <2>1, <2>2, DigestKept
<1> QED BY <1>2, <1>7, <1>8, <1>9, <1>10, <1>11, <1>12, <1>13, <1>14, <1>15, <1>16

LEMMA EarnedInit == Init => TurnInv /\ DigestInv
<1> SUFFICES ASSUME Init PROVE TurnInv /\ DigestInv
  OBVIOUS
<1>1. PICK planned \in Backlogs :
        disk = [tasks |-> [t \in DOMAIN planned |-> NewTask(planned[t])],
                turns |-> 0, digest |-> NoDigest]
  BY DEF Init
<1>2. disk.turns = 0 /\ Tasks(disk) = DOMAIN planned
  BY <1>1 DEF Tasks
<1>3. Tasks(disk) \subseteq Task
  BY <1>2, BacklogAssumption
<1>4. \A p \in Proc : snap[p] = NoState /\ pc[p] = "idle"
  BY DEF Init
<1>5. NoState.turns = 0 /\ Tasks(NoState) \subseteq Task
  BY DEF NoState, Tasks
<1>6. Credit = {} /\ spent = 0 /\ artifacts = 0 /\ calm = FALSE
  BY <1>4 DEF Credit, Init
<1>7. TurnInv
  BY <1>2, <1>4, <1>5, <1>6, FS_EmptySet, AutopilotBounds DEF TurnInv
<1>8. artifacts \in Nat /\ ~calm /\ \A p \in Proc : ~Closing(p)
  BY <1>4, <1>6 DEF Closing
<1> QED BY <1>3, <1>4, <1>5, <1>7, <1>8 DEF DigestInv

\* The two brakes of cmd_autopilot work together: no more passes run commands than
\* turns were paid for, and these stay within max_turns, unless an older copy took
\* a turn back; and a pass that finds what the last one left runs nothing.
THEOREM PassTheorem == Spec => []PassIsEarned
<1>1. TaskInv /\ TurnInv /\ DigestInv /\ [Next]_vars => TaskInv' /\ TurnInv' /\ DigestInv'
  BY TaskInvStep, TurnStep, DigestStep
<1>2. TurnInv /\ DigestInv => PassIsEarned
  <2> SUFFICES ASSUME TurnInv, DigestInv PROVE PassIsEarned
    OBVIOUS
  <2>1. Cardinality(Credit) \in Nat
    BY FS_CardinalityType DEF TurnInv
  <2>2. ~uncounted => spent <= disk.turns /\ disk.turns <= MaxTurns
    BY <2>1, AutopilotBounds DEF TurnInv
  <2> QED BY <2>2 DEF DigestInv, PassIsEarned
<1> QED BY TaskInvInit, EarnedInit, <1>1, <1>2, PTL DEF Spec

=============================================================================
