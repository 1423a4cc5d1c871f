----------------------------- MODULE StateStore -----------------------------
(***************************************************************************)
(* state.json of one run and the commands that write it.  A command is a   *)
(* process of its own.  Most read the file without a lock, keep the        *)
(* snapshot across slow work, and save through save_run, which takes the   *)
(* flock .state.lock, reads the file again, merges and renames a new file  *)
(* into place.  A few (decision record and reaffirm, contract set,         *)
(* preflight --record) hold the lock from before the read until after the  *)
(* write.  run-state.md repeats the contract fields for a human reader.    *)
(***************************************************************************)
EXTENDS StateMerge

CONSTANTS
  Proc,         \* process ids
  Commands,     \* the kinds of command that are run
  MaxCommands,  \* bound: commands run under one pid
  MaxCrashes,   \* bound: commands killed half-way
  Window,       \* ids of dispatch windows
  Job,          \* job ids of agent runs (a task id, "audit-codex", ...)
  EmitMayFail,  \* may appending an event fail?
  Free          \* nobody holds the lock

LockedKinds   == {"decide", "reaffirm", "contract", "preflight"}
UnlockedKinds == {"task", "phase", "dispatch", "collect"}
Collections   == {"windows", "transitions", "decisions", "agent_runs"}
Phases        == {"implementation", "closed"}

ASSUME CommandsAssumption == Commands \subseteq LockedKinds \cup UnlockedKinds
ASSUME StoreBounds == MaxCommands \in Nat /\ MaxCrashes \in Nat
ASSUME StoreEnvironment == EmitMayFail \in BOOLEAN /\ Free \notin Proc

VARIABLES
  pc,        \* pid -> step of the command
  kind,      \* pid -> kind of the command
  ran,       \* pid -> commands started
  lock,      \* holder of the flock .state.lock
  disk,      \* state.json
  mirror,    \* the contract fields as run-state.md shows them
  snap,      \* pid -> the command's copy of the state (ctx.state)
  orig,      \* pid -> contract fields of both files, kept for the rollback
  newest,    \* history: <<collection, key>> -> command that last edited it
  agreed,    \* history: the contract last set and not rolled back
  overlapped, \* history: has a file been written under a command's hands?
  crashes    \* bound: kills so far

fileVars == <<disk, mirror>>
histVars == <<newest, agreed, overlapped>>
vars == <<pc, kind, ran, lock, fileVars, snap, orig, histVars, crashes>>

-----------------------------------------------------------------------------
\* The command running under p; it signs what it writes.
Me(p) == <<p, ran[p]>>
NoOne == <<Free, 0>>

Goto(p, step) == pc' = [pc EXCEPT ![p] = step]

\* p writes a file while a command that reads without the lock has read it and
\* not yet written.
Overlap(p) ==
  overlapped' = (overlapped \/ \E q \in Proc \ {p} :
    kind[q] \in UnlockedKinds /\ pc[q] \in {"edit", "emit", "lock", "sync"})

\* A state: the fields save_run takes from the command (`rest' stands for
\* tasks, gates, budget, environment, ...), the contract fields it takes from
\* the disk, and the collections it merges.
Blank ==
  [phase |-> "implementation", rest |-> NoOne, contract |-> NoOne,
   items |-> [c \in Collections |-> << >>]]

\* The command goes on with its copies, or it ends and they are gone.
Stay(p, step) == Goto(p, step) /\ UNCHANGED <<kind, snap, orig>>
NoOrig == [contract |-> NoOne, mirror |-> NoOne]
Finish(p) ==
  /\ Goto(p, "idle")
  /\ kind' = [kind EXCEPT ![p] = "none"]
  /\ snap' = [snap EXCEPT ![p] = Blank]
  /\ orig' = [orig EXCEPT ![p] = NoOrig]

\* Mutants of Reconciled: the contract of the snapshot is written back; the
\* disk's items are merged into the snapshot's.
ReconciledContract(cur, nxt) ==
  [nxt EXCEPT !.items = [c \in Collections |-> Merged(cur.items[c], nxt.items[c])]]
ReconciledNextFirst(cur, nxt) ==
  [nxt EXCEPT !.items = [c \in Collections |-> Merged(nxt.items[c], cur.items[c])],
              !.contract = cur.contract]

\* merge_concurrent_state.
Reconciled(cur, nxt) ==
  [nxt EXCEPT !.items = [c \in Collections |-> Merged(cur.items[c], nxt.items[c])],
              !.contract = cur.contract]

Push(s, c, k, v) ==
  [s EXCEPT !.items[c] = Append(@, [key |-> k, val |-> v])]
Update(s, c, k, v) ==
  [s EXCEPT !.items[c] = [i \in 1 .. Len(@) |->
     IF @[i].key = k /\ IsLast(@, i) THEN [@[i] EXCEPT !.val = v] ELSE @[i]]]

\* decision::next_id: an id that no entry of the snapshot has.
NextId(s) ==
  CHOOSE n \in 1 .. Len(s.items["decisions"]) + 1 :
    n \notin Keys(s.items["decisions"])

\* What a command makes of its snapshot; the empty set if it finds nothing to do.
Edits(p, s) ==
  CASE kind[p] \in {"task", "preflight"} ->
         {[s EXCEPT !.rest = Me(p)]}
    [] kind[p] = "phase" ->
         {[Push(s, "transitions", <<s.phase, to, Me(p)>>, Me(p)) EXCEPT !.phase = to] :
            to \in Phases \ {s.phase}}
    [] kind[p] = "dispatch" ->
         {Push(s, "windows", w, Me(p)) : w \in Window}
           \cup {Update(s, "windows", w, Me(p)) : w \in Keys(s.items["windows"])}
    [] kind[p] = "collect" ->
         {Push(s, "agent_runs", <<j, 1>>, Me(p)) : j \in Job}
    [] kind[p] = "decide" ->
         {Push(s, "decisions", NextId(s), Me(p))}
    [] kind[p] = "reaffirm" ->
         {Update(s, "decisions", k, Me(p)) : k \in Keys(s.items["decisions"])}
    [] kind[p] = "contract" ->
         {[s EXCEPT !.contract = Me(p)]}

\* The items of s that p's command wrote.
Written(p, s) ==
  UNION {{<<c, k>> : k \in {j \in Keys(s.items[c]) : LastOf(s.items[c], j).val = Me(p)}} :
           c \in Collections}

-----------------------------------------------------------------------------
Init ==
  /\ pc = [p \in Proc |-> "idle"]
  /\ kind = [p \in Proc |-> "none"]
  /\ ran = [p \in Proc |-> 0]
  /\ lock = Free
  /\ disk = Blank
  /\ mirror = NoOne
  /\ snap = [p \in Proc |-> Blank]
  /\ orig = [p \in Proc |-> NoOrig]
  /\ newest = << >>
  /\ agreed = NoOne
  /\ overlapped = FALSE
  /\ crashes = 0

Begin(p) ==
  /\ pc[p] = "idle"
  /\ ran[p] < MaxCommands
  /\ \E k \in Commands :
       /\ kind' = [kind EXCEPT ![p] = k]
       /\ Goto(p, IF k \in LockedKinds THEN "lock" ELSE "load")
  /\ ran' = [ran EXCEPT ![p] = @ + 1]
  /\ UNCHANGED <<lock, fileVars, snap, orig, histVars, crashes>>

\* Mutant of Acquire: the lock file is opened, the lock is not taken.
AcquireUnlocked(p) ==
  /\ pc[p] = "lock"
  /\ lock' = p
  /\ Goto(p, IF kind[p] \in LockedKinds THEN "load" ELSE "reload")
  /\ UNCHANGED <<kind, ran, fileVars, snap, orig, histVars, crashes>>

\* lock_existing_state_path: a blocking exclusive flock.
Acquire(p) ==
  /\ pc[p] = "lock"
  /\ lock = Free
  /\ lock' = p
  /\ Goto(p, IF kind[p] \in LockedKinds THEN "load" ELSE "reload")
  /\ UNCHANGED <<kind, ran, fileVars, snap, orig, histVars, crashes>>

\* load_run: the rename of save_state makes the read see one whole file.
Load(p) ==
  /\ pc[p] = "load"
  /\ snap' = [snap EXCEPT ![p] = disk]
  /\ Goto(p, "edit")
  /\ UNCHANGED <<kind, ran, lock, fileVars, orig, histVars, crashes>>

\* The command's own change to its copy, or its early return.
Edit(p) ==
  /\ pc[p] = "edit"
  /\ \/ /\ snap' \in {[snap EXCEPT ![p] = s] : s \in Edits(p, snap[p])}
        /\ Goto(p, CASE kind[p] = "collect" -> "emit"
                     [] kind[p] \in LockedKinds -> "persist"
                     [] OTHER -> "lock")
        /\ orig' = [orig EXCEPT ![p] = [contract |-> snap[p].contract, mirror |-> mirror]]
        /\ UNCHANGED <<lock, kind>>
     \/ /\ Edits(p, snap[p]) = {}
        /\ Finish(p)
        /\ lock' = IF lock = p THEN Free ELSE lock
  /\ UNCHANGED <<ran, fileVars, histVars, crashes>>

\* collect-agent-run emits before it saves and gives up if that fails.
EmitFirst(p) ==
  /\ pc[p] = "emit"
  /\ \/ Stay(p, "lock")
     \/ EmitMayFail /\ Finish(p)
  /\ UNCHANGED <<ran, lock, fileVars, histVars, crashes>>

\* save_state_preserving_c2 reads the disk again and merges into ctx.state.
Reload(p) ==
  /\ pc[p] = "reload"
  /\ snap' = [snap EXCEPT ![p] = Reconciled(disk, snap[p])]
  /\ Goto(p, "persist")
  /\ UNCHANGED <<kind, ran, lock, fileVars, orig, histVars, crashes>>

\* save_state: write, fsync and rename a temporary file; then the lock is
\* released unless there is more to do under it.
Persist(p) ==
  /\ pc[p] = "persist"
  /\ disk' = snap[p]
  /\ newest' = [ck \in DOMAIN newest \cup Written(p, snap[p]) |->
                  IF ck \in Written(p, snap[p]) THEN Me(p) ELSE newest[ck]]
  /\ agreed' = IF kind[p] = "contract" THEN Me(p) ELSE agreed
  /\ Overlap(p)
  /\ IF kind[p] = "contract"
     THEN Stay(p, "mirror") /\ UNCHANGED lock
     ELSE /\ IF kind[p] = "phase" THEN Stay(p, "sync") ELSE Finish(p)
          /\ lock' = Free
  /\ UNCHANGED <<ran, mirror, crashes>>

\* cmd_phase writes run-state.md from its copy, after save_run has released
\* the lock.
Sync(p) ==
  /\ pc[p] = "sync"
  /\ mirror' = snap[p].contract
  /\ Finish(p)
  /\ UNCHANGED <<ran, lock, disk, histVars, crashes>>

\* contract set: run-state.md, then the event; if one fails, both files are put
\* back as they were read.
Mirror(p) ==
  /\ pc[p] = "mirror"
  /\ mirror' = snap[p].contract
  /\ Goto(p, "announce")
  /\ UNCHANGED <<kind, ran, lock, disk, snap, orig, histVars, crashes>>

\* Mutant of Announce: the lock guard is leaked.
AnnounceKeepsLock(p) ==
  /\ pc[p] = "announce"
  /\ Finish(p)
  /\ UNCHANGED <<ran, lock, fileVars, histVars, crashes>>

Announce(p) ==
  /\ pc[p] = "announce"
  /\ \/ /\ lock' = Free
        /\ Finish(p)
     \/ /\ EmitMayFail
        /\ Stay(p, "undo")
        /\ UNCHANGED lock
  /\ UNCHANGED <<ran, fileVars, histVars, crashes>>

\* Mutant of Undo: run-state.md is not put back.
UndoHalf(p) ==
  /\ pc[p] = "undo"
  /\ disk' = [snap[p] EXCEPT !.contract = orig[p].contract]
  /\ agreed' = orig[p].contract
  /\ Overlap(p)
  /\ lock' = Free
  /\ Finish(p)
  /\ UNCHANGED <<ran, mirror, newest, crashes>>

\* rollback_contract_update: the whole original state and the original
\* run-state.md are written back (snap differs from it in the contract only).
Undo(p) ==
  /\ pc[p] = "undo"
  /\ disk' = [snap[p] EXCEPT !.contract = orig[p].contract]
  /\ mirror' = orig[p].mirror
  /\ agreed' = orig[p].contract
  /\ Overlap(p)
  /\ lock' = Free
  /\ Finish(p)
  /\ UNCHANGED <<ran, newest, crashes>>

\* A kill: the kernel releases the flock, the files stay.
Crash(p) ==
  /\ pc[p] # "idle"
  /\ crashes < MaxCrashes
  /\ crashes' = crashes + 1
  /\ lock' = IF lock = p THEN Free ELSE lock
  /\ Finish(p)
  /\ UNCHANGED <<ran, fileVars, histVars>>

Step(p) ==
  \/ Acquire(p) \/ Load(p) \/ Edit(p) \/ EmitFirst(p) \/ Reload(p) \/ Persist(p)
  \/ Sync(p) \/ Mirror(p) \/ Announce(p) \/ Undo(p)

\* Everything has been run.
Quiet ==
  /\ \A p \in Proc : pc[p] = "idle" /\ ran[p] = MaxCommands
  /\ UNCHANGED vars

Next == Quiet \/ \E p \in Proc : Begin(p) \/ Step(p) \/ Crash(p)

Spec == Init /\ [][Next]_vars

\* A started command keeps running; a blocking flock is granted in the end.
FairSpec == Spec /\ \A p \in Proc : WF_vars(Step(p))
-----------------------------------------------------------------------------
Author == (Proc \X (1 .. MaxCommands)) \cup {NoOne}
KeyOf(c) ==
  CASE c = "windows"     -> Window
    [] c = "transitions" -> Phases \X Phases \X Author
    [] c = "decisions"   -> Nat
    [] c = "agent_runs"  -> Job \X {1}
Item(c) == [key : KeyOf(c), val : Author]

TypeOK ==
  /\ pc \in [Proc -> {"idle", "lock", "load", "edit", "emit", "reload", "persist",
                     "sync", "mirror", "announce", "undo"}]
  /\ kind \in [Proc -> Commands \cup {"none"}]
  /\ ran \in [Proc -> 0 .. MaxCommands]
  /\ lock \in Proc \cup {Free}
  /\ \A s \in {disk} \cup {snap[p] : p \in Proc} :
       /\ s.phase \in Phases
       /\ {s.rest, s.contract} \subseteq Author
       /\ \A c \in Collections : \A i \in 1 .. Len(s.items[c]) : s.items[c][i] \in Item(c)
  /\ {mirror, agreed} \subseteq Author
  /\ crashes \in 0 .. MaxCrashes

\* No save, stale or not, loses or reorders an item another command has put
\* into a merged collection, and neither does the rollback of contract set: the
\* keys on disk only ever grow at the end (save_state_preserving_c2).
HistoryKept ==
  [][\A c \in Collections : \A i \in 1 .. Len(disk.items[c]) :
       /\ i <= Len(disk'.items[c])
       /\ disk'.items[c][i].key = disk.items[c][i].key]_vars

\* contract set is the only writer of the contract fields: no command that
\* read the state before it puts the old ones back, and a contract set that
\* failed leaves them as they were (rollback_contract_update).
ContractKept == disk.contract = agreed

\* An item on disk is the version of the command that edited it last, one item
\* to a key, unless a command that read the state before that edit saved its
\* own copy of the item after it (merge_stable_by_key prefers the copy).
ItemsCurrent ==
  \A c \in Collections : \A i \in 1 .. Len(disk.items[c]) :
    /\ IsLast(disk.items[c], i)
    /\ overlapped \/ disk.items[c][i].val = newest[<<c, disk.items[c][i].key>>]

\* When nothing is running, and nothing was killed, run-state.md shows the
\* contract that state.json holds, unless cmd_phase wrote it from a copy that
\* contract set had overtaken.
MirrorAgrees ==
  crashes = 0 /\ ~overlapped /\ (\A p \in Proc : pc[p] = "idle") => mirror = disk.contract

\* Every command ends, whoever else is waiting for or holding the lock.
CommandEnds == \A p \in Proc : pc[p] # "idle" ~> pc[p] = "idle"
=============================================================================
