------------------------------ MODULE EventLog ------------------------------
(***************************************************************************)
(* The append-only event log of one run: events.jsonl, its id counter      *)
(* (.events.count), the lock file that serialises emitters (.events.lock)  *)
(* and the flock that serialises reclaimers of a stale lock.               *)
(* Every lto command is a process of its own; any number of them emit into *)
(* the same run directory.  Each action is one file-system call (or one    *)
(* process probe) of events::emit, so every interleaving of the calls and  *)
(* a crash between any two of them is a behaviour.                         *)
(***************************************************************************)
EXTENDS Integers, Sequences

CONSTANTS
  Proc,            \* process ids; a pid is reused when a new command gets it
  MaxEmits,        \* bound: emits started under one pid
  MaxCrashes,      \* bound: commands killed in the middle of an emit
  HardStop,        \* HARD_STOP_AT
  CrashAt,         \* the steps a kill may interrupt
  Faults,          \* the calls that may fail (disk full, quota)
  HolderMayStall,  \* may a live emitter hold the lock past LOCK_STALE_AFTER?
  BinaryReplaced,  \* may lto's binary be replaced or renamed while commands run?
  NoFile           \* the lock path does not exist

\* The k-th emit under pid p creates at most one lock file, <<p, k>>.
Inode == Proc \X (0 .. MaxEmits)

\* A line of events.jsonl: the emit that wrote it, its id, and whether it parses.
Event == [by : Inode, id : Nat, whole : BOOLEAN]

LockSteps    == {"create", "own", "read1", "probe1", "guard", "read2",
                 "probe2", "link", "probe3", "ident", "unlink", "deadline"}
WriteSteps   == {"count", "truncate", "counter", "append", "drop"}
EmitSteps    == LockSteps \cup WriteSteps
GuardedSteps == {"read2", "probe2", "link", "probe3", "ident", "unlink"}
HoldingSteps == {"own"} \cup WriteSteps
Steps        == {"dead", "idle"} \cup EmitSteps
FaultKinds   == {"owner", "counter", "append", "torn"}

ASSUME BoundsAssumption ==
  /\ MaxEmits \in Nat
  /\ MaxCrashes \in Nat
  /\ HardStop \in Nat
ASSUME EnvironmentAssumption ==
  /\ CrashAt \subseteq EmitSteps
  /\ Faults \subseteq FaultKinds
  /\ {HolderMayStall, BinaryReplaced} \subseteq BOOLEAN
  /\ NoFile \notin Inode

\* What .events.count holds: a number, nothing (the file was truncated and
\* never rewritten), or the file is absent.
Absent == -1
Corrupt == -2

VARIABLES
  pc,       \* pid -> step of the emit in progress
  made,     \* pid -> emits started under this pid; names the lock inode
  lock,     \* inode at the path .events.lock
  named,    \* inodes whose owner record has been written
  aged,     \* inodes past LOCK_STALE_AFTER (LOCK_ABANDONED_AFTER if the pid runs)
  guard,    \* set of pids holding the flock on .events.lock.reclaiming
  seen,     \* pid -> inode read or hard-linked by the staleness check
  expired,  \* pid -> has LOCK_TIMEOUT passed since the emit began?
  cnt,      \* pid -> event count read under the lock
  counter,  \* .events.count
  log,      \* events.jsonl
  torn,     \* the last line has no newline
  acked,    \* inodes of the emits that returned Ok
  crashes   \* bound: kills so far

lockVars == <<lock, named, aged, guard, seen, expired>>
logVars  == <<counter, log, torn, acked>>
vars     == <<pc, made, lockVars, cnt, logVars, crashes>>

-----------------------------------------------------------------------------
Mine(p) == <<p, made[p]>>

Goto(p, step) == pc' = [pc EXCEPT ![p] = step]

\* The emit that created inode i is still running.
Live(i) == pc[i[1]] \in EmitSteps /\ made[i[1]] = i[2]

\* The answers events_lock_is_stale can give for inode i.  Without an owner
\* record only the age counts.  A dead owner is stale; a probe that could not
\* run ("Unknown"), or a foreign process now under that pid whose executable
\* cannot be read, leaves it to the age.  A live owner, or a later lto command
\* that got its pid, keeps the lock until it has aged, unless its executable
\* has another name now than the owner record gives (owner_exe_mismatch).
Staleness(i) ==
  LET old == i \in aged IN
  CASE i = NoFile        -> {FALSE}
    [] i \notin named    -> {old}
    [] pc[i[1]] = "dead" -> {TRUE, old}
    [] OTHER             -> {FALSE, old} \cup (IF BinaryReplaced THEN {TRUE} ELSE {})

\* read_event_counter: a number is believed; otherwise the lines are counted.
ReadCounter == IF counter >= 0 THEN counter ELSE Len(log)

Line(i, id, whole) == [by |-> i, id |-> id, whole |-> whole]

\* An append lands on the torn tail if there is one: that line stays garbage.
Appended(line) ==
  IF torn THEN log ELSE Append(log, line)

-----------------------------------------------------------------------------
Init ==
  /\ pc = [p \in Proc |-> "idle"]
  /\ made = [p \in Proc |-> 0]
  /\ lock = NoFile
  /\ named = {} /\ aged = {} /\ guard = {}
  /\ seen = [p \in Proc |-> NoFile]
  /\ expired = [p \in Proc |-> FALSE]
  /\ cnt = [p \in Proc |-> 0]
  /\ counter = Absent
  /\ log = << >>
  /\ torn = FALSE
  /\ acked = {}
  /\ crashes = 0

\* A command starts an emit whose event passed validation (a rejected event
\* touches no file); the lock deadline is set.
Begin(p) ==
  /\ pc[p] = "idle"
  /\ made[p] < MaxEmits
  /\ made' = [made EXCEPT ![p] = @ + 1]
  /\ expired' = [expired EXCEPT ![p] = FALSE]
  /\ Goto(p, "create")
  /\ UNCHANGED <<lock, named, aged, guard, seen, cnt, logVars, crashes>>

\* OpenOptions::create_new: the file is ours, or it exists; then the staleness
\* probe runs unless the last one is less than 500 ms old.
Create(p) ==
  /\ pc[p] = "create"
  /\ \/ /\ lock = NoFile
        /\ lock' = Mine(p)
        /\ Goto(p, "own")
     \/ /\ lock # NoFile
        /\ \E step \in {"read1", "deadline"} : Goto(p, step)
        /\ UNCHANGED lock
  /\ UNCHANGED <<made, named, aged, guard, seen, expired, cnt, logVars, crashes>>

\* write_lock_owner; if it fails the lock path is removed and the emit fails.
WriteOwner(p) ==
  /\ pc[p] = "own"
  /\ \/ /\ named' = named \cup {Mine(p)}
        /\ Goto(p, "count")
        /\ UNCHANGED lock
     \/ /\ "owner" \in Faults
        /\ lock' = NoFile
        /\ Goto(p, "idle")
        /\ UNCHANGED named
  /\ UNCHANGED <<made, aged, guard, seen, expired, cnt, logVars, crashes>>

\* events_lock_is_stale reads the owner record at the lock path ...
ReadOwner(p, from, to) ==
  /\ pc[p] = from
  /\ seen' = [seen EXCEPT ![p] = lock]
  /\ Goto(p, to)
  /\ UNCHANGED <<made, lock, named, aged, guard, expired, cnt, logVars, crashes>>

\* ... and then probes the pid it read.  The lock path may have changed hands
\* in between.
Probe(p, from, stale, fresh) ==
  /\ pc[p] = from
  /\ \E answer \in Staleness(seen[p]) :
       /\ Goto(p, IF answer THEN stale ELSE fresh)
       /\ guard' = IF answer THEN guard ELSE guard \ {p}
  /\ UNCHANGED <<made, lock, named, aged, seen, expired, cnt, logVars, crashes>>

\* Mutant of TryGuard: no flock among reclaimers.
TryGuardUnlocked(p) ==
  /\ pc[p] = "guard"
  /\ guard' = guard \cup {p}
  /\ Goto(p, "read2")
  /\ UNCHANGED <<made, lock, named, aged, seen, expired, cnt, logVars, crashes>>

\* try_acquire_reclaim_guard: a try-lock on a file that is never removed.
TryGuard(p) ==
  /\ pc[p] = "guard"
  /\ \/ /\ guard = {}
        /\ guard' = {p}
        /\ Goto(p, "read2")
     \/ /\ guard # {}
        /\ Goto(p, "deadline")
        /\ UNCHANGED guard
  /\ UNCHANGED <<made, lock, named, aged, seen, expired, cnt, logVars, crashes>>

\* fs::hard_link pins whatever inode is at the lock path now.
Link(p) ==
  /\ pc[p] = "link"
  /\ seen' = [seen EXCEPT ![p] = lock]
  /\ Goto(p, IF lock = NoFile THEN "deadline" ELSE "probe3")
  /\ guard' = IF lock = NoFile THEN guard \ {p} ELSE guard
  /\ UNCHANGED <<made, lock, named, aged, expired, cnt, logVars, crashes>>

\* same_file_identity of the lock path and the pinned inode.
Identify(p) ==
  /\ pc[p] = "ident"
  /\ Goto(p, IF lock = seen[p] THEN "unlink" ELSE "deadline")
  /\ guard' = IF lock = seen[p] THEN guard ELSE guard \ {p}
  /\ UNCHANGED <<made, lock, named, aged, seen, expired, cnt, logVars, crashes>>

\* remove_file by path, then the guard is dropped and the loop starts over.
Unlink(p) ==
  /\ pc[p] = "unlink"
  /\ lock' = NoFile
  /\ guard' = guard \ {p}
  /\ Goto(p, "create")
  /\ UNCHANGED <<made, named, aged, seen, expired, cnt, logVars, crashes>>

\* Mutant of Deadline: the deadline is never looked at.
DeadlineIgnored(p) ==
  /\ pc[p] = "deadline"
  /\ Goto(p, "create")
  /\ UNCHANGED <<made, lockVars, cnt, logVars, crashes>>

\* Fail closed once the deadline has passed, otherwise sleep and retry.
Deadline(p) ==
  /\ pc[p] = "deadline"
  /\ Goto(p, IF expired[p] THEN "idle" ELSE "create")
  /\ UNCHANGED <<made, lockVars, cnt, logVars, crashes>>

\* Read the counter (a corrupt file is deleted) and apply the hard stop; no
\* caller sets `force'.
Count(p) ==
  /\ pc[p] = "count"
  /\ cnt' = [cnt EXCEPT ![p] = ReadCounter]
  /\ counter' = IF counter = Corrupt THEN Absent ELSE counter
  /\ Goto(p, IF ReadCounter >= HardStop THEN "drop" ELSE "truncate")
  /\ UNCHANGED <<made, lockVars, log, torn, acked, crashes>>

\* write_event_counter is fs::write: open with truncation, then write.
Truncate(p) ==
  /\ pc[p] = "truncate"
  /\ counter' = Corrupt
  /\ Goto(p, "counter")
  /\ UNCHANGED <<made, lockVars, cnt, log, torn, acked, crashes>>

\* Mutant of WriteCounter: the count read is written back, not the new id.
WriteCounterOld(p) ==
  /\ pc[p] = "counter"
  /\ counter' = cnt[p]
  /\ Goto(p, "append")
  /\ UNCHANGED <<made, lockVars, cnt, log, torn, acked, crashes>>

WriteCounter(p) ==
  /\ pc[p] = "counter"
  /\ \/ /\ counter' = cnt[p] + 1
        /\ Goto(p, "append")
     \/ /\ "counter" \in Faults
        /\ Goto(p, "drop")
        /\ UNCHANGED counter
  /\ UNCHANGED <<made, lockVars, cnt, log, torn, acked, crashes>>

\* Mutant of AppendLine: a failed write is not noticed.
AppendLineUnchecked(p) ==
  /\ pc[p] = "append"
  /\ \/ log' = Appended(Line(Mine(p), cnt[p] + 1, TRUE))
     \/ "append" \in Faults /\ UNCHANGED log
  /\ torn' = FALSE
  /\ acked' = acked \cup {Mine(p)}
  /\ Goto(p, "drop")
  /\ UNCHANGED <<made, lockVars, cnt, counter, crashes>>

\* One write_all of the line.  It may fail before or after part of the line
\* reached the file.
AppendLine(p) ==
  /\ pc[p] = "append"
  /\ \/ /\ log' = Appended(Line(Mine(p), cnt[p] + 1, TRUE))
        /\ torn' = FALSE
        /\ acked' = acked \cup {Mine(p)}
     \/ /\ "append" \in Faults
        /\ UNCHANGED <<log, torn, acked>>
     \/ /\ "torn" \in Faults
        /\ log' = Appended(Line(Mine(p), cnt[p] + 1, FALSE))
        /\ torn' = TRUE
        /\ UNCHANGED acked
  /\ Goto(p, "drop")
  /\ UNCHANGED <<made, lockVars, cnt, counter, crashes>>

\* EventsLockGuard::drop removes whatever is at the lock path.
Drop(p) ==
  /\ pc[p] = "drop"
  /\ lock' = NoFile
  /\ Goto(p, "idle")
  /\ UNCHANGED <<made, named, aged, guard, seen, expired, cnt, logVars, crashes>>

-----------------------------------------------------------------------------
(* The environment: commands end and start, are killed, and time passes.   *)

Exit(p) ==
  /\ pc[p] = "idle"
  /\ Goto(p, "dead")
  /\ UNCHANGED <<made, lockVars, cnt, logVars, crashes>>

Spawn(p) ==
  /\ pc[p] = "dead"
  /\ Goto(p, "idle")
  /\ UNCHANGED <<made, lockVars, cnt, logVars, crashes>>

\* A kill releases the flock and leaves every file as it is.
Crash(p) ==
  /\ pc[p] \in CrashAt
  /\ crashes < MaxCrashes
  /\ crashes' = crashes + 1
  /\ guard' = guard \ {p}
  /\ Goto(p, "dead")
  /\ UNCHANGED <<made, lock, named, aged, seen, expired, cnt, logVars>>

\* The lock file becomes older than the limit that applies to it.
Age ==
  /\ lock \in Inode \ aged
  /\ HolderMayStall \/ ~Live(lock)
  /\ aged' = aged \cup {lock}
  /\ UNCHANGED <<pc, made, lock, named, guard, seen, expired, cnt, logVars, crashes>>

\* LOCK_TIMEOUT passes.
Expire(p) ==
  /\ pc[p] \in LockSteps
  /\ ~expired[p]
  /\ expired' = [expired EXCEPT ![p] = TRUE]
  /\ UNCHANGED <<pc, made, lock, named, aged, guard, seen, cnt, logVars, crashes>>

-----------------------------------------------------------------------------
Acquire(p) ==
  \/ Create(p) \/ WriteOwner(p)
  \/ ReadOwner(p, "read1", "probe1") \/ Probe(p, "probe1", "guard", "deadline")
  \/ TryGuard(p)
  \/ ReadOwner(p, "read2", "probe2") \/ Probe(p, "probe2", "link", "deadline")
  \/ Link(p) \/ Probe(p, "probe3", "ident", "deadline")
  \/ Identify(p) \/ Unlink(p) \/ Deadline(p)

Write(p) ==
  \/ Count(p) \/ Truncate(p) \/ WriteCounter(p) \/ AppendLine(p) \/ Drop(p)

Emit(p) == Acquire(p) \/ Write(p)

Next ==
  \/ \E p \in Proc : Begin(p) \/ Emit(p) \/ Exit(p) \/ Spawn(p)
                     \/ Crash(p) \/ Expire(p)
  \/ Age

Spec == Init /\ [][Next]_vars

\* A running command keeps executing and time passes; nothing makes a user
\* start commands or emits.
FairSpec ==
  Spec /\ \A p \in Proc : WF_vars(Emit(p)) /\ WF_vars(Expire(p))

-----------------------------------------------------------------------------
TypeOK ==
  /\ pc \in [Proc -> Steps]
  /\ made \in [Proc -> 0 .. MaxEmits]
  /\ lock \in Inode \cup {NoFile}
  /\ named \subseteq Inode
  /\ aged \subseteq Inode
  /\ guard \subseteq Proc
  /\ seen \in [Proc -> Inode \cup {NoFile}]
  /\ expired \in [Proc -> BOOLEAN]
  /\ cnt \in [Proc -> Nat]
  /\ counter \in Nat \cup {Absent, Corrupt}
  /\ log \in Seq(Event)
  /\ torn \in BOOLEAN
  /\ acked \subseteq Inode
  /\ crashes \in 0 .. MaxCrashes

\* No two emitters are ever between taking and dropping the lock, whatever
\* was reclaimed meanwhile (acquire_events_lock, try_reclaim_stale_events_lock).
MutualExclusion ==
  \A p, q \in Proc :
    pc[p] \in HoldingSteps /\ pc[q] \in HoldingSteps => p = q

\* Event ids grow along the file: a crash may burn an id, never repeat one
\* (emit writes the counter before the event for this reason).
MonotoneIds ==
  \A i, j \in 1 .. Len(log) : i < j => log[i].id < log[j].id

\* The file as a stream of events, and what became of every emit: it is what
\* EventStream promises, one event per Ok at one instant, ids growing.
EmitStatus ==
  [i \in Proc \X (1 .. MaxEmits) |->
    IF i \in acked THEN "ok"
    ELSE IF Live(i) THEN "pending"
    ELSE IF i[2] <= made[i[1]] THEN "failed" ELSE "none"]
Stream == INSTANCE EventStream
            WITH Request <- Proc \X (1 .. MaxEmits),
                 stream <- log, status <- EmitStatus
ImplementsStream == Stream!Spec

\* Every emit ends: it writes, fails closed at the deadline, or is killed.
EmitTerminates ==
  \A p \in Proc : pc[p] \in EmitSteps ~> pc[p] \in {"idle", "dead"}
-----------------------------------------------------------------------------
(* The inductive strengthening of MutualExclusion and MonotoneIds.         *)

\* The emit that created inode i has begun and has ended.
Over(i) == i[2] <= made[i[1]] /\ ~Live(i)

\* Whoever is between taking and dropping the lock finds its own inode there.
OwnsLock == \A p \in Proc : pc[p] \in HoldingSteps => lock = Mine(p)

\* Only the locks of ended emits grow old.
AgedIsOver == \A i \in aged : Over(i)

\* No file names an emit that has not begun.
NoFutureInode ==
  /\ lock # NoFile => lock[2] <= made[lock[1]]
  /\ \A p \in Proc : seen[p] # NoFile => seen[p][2] <= made[seen[p][1]]

\* One reclaimer at a time.
OneReclaimer == \A p \in Proc : pc[p] \in GuardedSteps => guard = {p}

\* A reclaimer about to remove the lock has pinned the inode of an ended emit,
\* and that inode is still at the path.
ReclaimsOver ==
  \A p \in Proc :
    /\ pc[p] \in {"probe3", "ident", "unlink"} => seen[p] # NoFile
    /\ pc[p] \in {"ident", "unlink"} => Over(seen[p])
    /\ pc[p] = "unlink" => lock = seen[p]

LockInv == /\ TypeOK /\ OwnsLock /\ AgedIsOver /\ NoFutureInode
           /\ OneReclaimer /\ ReclaimsOver

\* Every id in the file is below the next id of whoever is writing.
IdsUpTo(n) == \A i \in 1 .. Len(log) : log[i].id <= n

CounterInv ==
  /\ counter = Absent => log = << >>
  /\ counter \in Nat => IdsUpTo(counter)
  /\ counter = Corrupt => \E p \in Proc : pc[p] = "counter"
  /\ \A p \in Proc :
       /\ pc[p] \in {"truncate", "counter", "append"} => IdsUpTo(cnt[p])
       /\ pc[p] = "append" => counter = cnt[p] + 1

IdInv == LockInv /\ CounterInv /\ MonotoneIds
=============================================================================
