----------------------------- MODULE Lifecycle ------------------------------
(***************************************************************************)
(* One run from its start to its pruning, and the commands that work on it *)
(* as processes of their own: start --force, phase, judge (saves a copy    *)
(* loaded minutes before), audit (with risk discovery), closeout and       *)
(* prune, beside a host who edits state.json by hand.  They share the run  *)
(* directory: state.json (saved under a lock through save_run, StateStore),*)
(* audit-ledger.md and artifacts.json (read, then truncated and written,   *)
(* no lock), handoff.md and the bulk files that prune removes.             *)
(***************************************************************************)
EXTENDS Gates, Auditors

CONSTANTS
  Proc,          \* process ids
  Commands,      \* the kinds of command that are run
  MaxCommands,   \* bound: commands run under one pid
  MaxEdits,      \* bound: edits of state.json by hand
  MayCrash,      \* may commands be killed half-way?
  Block,         \* ids of gate blocks
  Pool,          \* AUDITOR_POOL, in order
  Replies,       \* replies an auditor may give
  Begins         \* a run and its audit ledger to begin with

ASSUME LifecycleKinds ==
  Commands \subseteq {"start", "phase", "judge", "audit", "closeout", "prune"}
ASSUME LifecycleBounds == MaxCommands \in Nat /\ MaxEdits \in Nat /\ MayCrash \in BOOLEAN
ASSUME LifecycleBegins ==
  \A b \in Begins :
    /\ DOMAIN b.ledger = {"file", "placeholder", "rows"}
    /\ b.ledger.file = "absent" => b.ledger.rows = << >>
    /\ b.ledger.rows \in Seq({b.ledger.rows[i] : i \in 1 .. Len(b.ledger.rows)})
    /\ \A i \in 1 .. Len(b.ledger.rows) : "by" \in DOMAIN b.ledger.rows[i]

VARIABLES
  pc, ran,    \* pid -> step; commands started
  edits,      \* edits by hand so far
  cmd,        \* pid -> kind and options of the command, and what it noted
  snap,       \* pid -> the command's copy of the state
  copy,       \* pid -> what it will write to the ledger or the manifest
  todo,       \* pid -> artifacts left to register, files left to remove
  run,        \* state.json
  ledger,     \* audit-ledger.md
  manifest,   \* artifacts.json
  handoff,    \* handoff.md
  files,      \* the bulk files that exist
  streaks,    \* runner -> audit failures in a row, as the events tell it
  late,       \* history: pid -> blocks, risks and rounds since its load
  alone,      \* history: pid -> has its read-modify-write been undisturbed?
  kept        \* history: rounds and artifacts written undisturbed

shared == <<run, ledger, manifest, handoff, files, streaks>>
local  == <<cmd, snap, copy, todo>>
hist   == <<late, alone, kept>>
vars   == <<pc, ran, edits, local, shared, hist>>

\* BULK_TARGETS, in order (events.jsonl.counter is never there: the counter
\* file has another name).
BulkTargets == <<"events", "live", "audit", "dispatch">>

Me(p) == <<p, ran[p]>>
Goto(p, step) == pc' = [pc EXCEPT ![p] = step]
Note(p, field, value) == cmd' = [cmd EXCEPT ![p] = [@ EXCEPT ![field] = value]]
Emits == files' = files \cup {"events"}

\* What start_run writes.
FreshRun(st) == [st EXCEPT !.phase = "intake", !.blocks = {}, !.risks = << >>,
                           !.tasks = {}, !.high = FALSE]

\* merge_concurrent_state, for the fields of this model.
Reconciled(cur, nxt) ==
  [nxt EXCEPT
     !.risks = [k \in DOMAIN cur.risks \cup DOMAIN nxt.risks |->
                  IF k \in DOMAIN nxt.risks THEN nxt.risks[k] ELSE cur.risks[k]],
     !.goal = cur.goal, !.doneWhen = cur.doneWhen, !.why = cur.why, !.host = cur.host,
     !.contract = cur.contract]

Unverified(st) == {k \in DOMAIN st.risks : st.risks[k].open /\ ~st.risks[k].verified}

\* What stands against closing a run with this state.
Owed(st) == {<<"block", b>> : b \in st.blocks} \cup {<<"risk", k>> : k \in Unverified(st)}
NewRound == <<"round", 0>>
Reopened == <<"reopened", 0>>

\* Record what this step adds, for the closeouts and prunes that have loaded
\* already and still act on their copy.
Arrives(new) ==
  late' = [q \in Proc |->
    IF pc[q] \in {"gates", "instruments", "last gates", "close", "scan", "remove"}
    THEN late[q] \cup new ELSE {}]
Save(st) ==
  /\ run' = st
  /\ Arrives((Owed(st) \ Owed(run)) \cup
             (IF run.phase = "closed" /\ st.phase # "closed" THEN {Reopened} ELSE {}))

\* p begins a read-modify-write that others do between the steps W.
EnterWindow(p, W) ==
  alone' = [q \in Proc |->
    IF q = p THEN \A r \in Proc \ {p} : pc[r] \notin W
    ELSE alone[q] /\ pc[q] \notin W]
LedgerWindow == {"ledger truncate", "ledger write"}

-----------------------------------------------------------------------------
NoState == [phase |-> "none"]
NoCommand == [kind |-> "none", force |-> FALSE, verify |-> FALSE, dirty |-> FALSE,
              discover |-> FALSE, auditors |-> << >>, row |-> Absent, next |-> "idle"]

Init ==
  /\ pc = [p \in Proc |-> "idle"]
  /\ ran = [p \in Proc |-> 0]
  /\ edits = 0
  /\ cmd = [p \in Proc |-> NoCommand]
  /\ \E b \in Begins : run = b.run /\ ledger = b.ledger
  /\ snap = [p \in Proc |-> NoState]
  /\ copy = [p \in Proc |-> Absent]
  /\ todo = [p \in Proc |-> << >>]
  /\ manifest = [torn |-> FALSE, ids |-> {}]
  /\ handoff = FALSE
  /\ files = {"events", "live"}
  /\ streaks = [r \in {Pool[i] : i \in 1 .. Len(Pool)} |-> 0]
  /\ late = [p \in Proc |-> {}]
  /\ alone = [p \in Proc |-> TRUE]
  /\ kept = [rounds |-> {}, ids |-> {}]

\* The command ends, well or with an error: its process forgets everything.
Ends(p) ==
  /\ Goto(p, "idle")
  /\ cmd' = [cmd EXCEPT ![p] = NoCommand]
  /\ snap' = [snap EXCEPT ![p] = NoState]
  /\ copy' = [copy EXCEPT ![p] = Absent]
  /\ todo' = [todo EXCEPT ![p] = << >>]

\* p has these artifacts to register before it goes on with step next; the
\* options of the command have done their work by then.
Plans(p, ids, next) ==
  /\ todo' = [todo EXCEPT ![p] = ids]
  /\ cmd' = [cmd EXCEPT ![p] = [@ EXCEPT !.next = next, !.force = FALSE, !.verify = FALSE,
                                          !.dirty = FALSE, !.discover = FALSE]]

Registers(p, ids, next) == Plans(p, ids, next) /\ Goto(p, "register")

Begin(p) ==
  /\ pc[p] = "idle"
  /\ ran[p] < MaxCommands
  /\ \E k \in Commands, force \in BOOLEAN, flag \in BOOLEAN :
       /\ (k # "closeout") => ~force
       /\ (k \notin {"closeout", "audit"}) => ~flag
       /\ cmd' = [cmd EXCEPT ![p] = [NoCommand EXCEPT !.kind = k, !.force = force,
                                       !.verify = flag, !.discover = flag]]
       /\ Goto(p, IF k = "start" THEN "start" ELSE "load")
  /\ ran' = [ran EXCEPT ![p] = @ + 1]
  /\ UNCHANGED <<edits, snap, copy, todo, shared, hist>>

\* start_run --force over the existing run: everything but state.json and
\* run-state.md stays as it was.
Start(p) ==
  /\ pc[p] = "start"
  /\ Save(FreshRun(run))
  /\ Emits
  /\ Registers(p, <<"state_json", "run_state_md">>, "idle")
  /\ UNCHANGED <<ran, edits, snap, copy, ledger, manifest, handoff, streaks, alone, kept>>

\* load_run; closeout reads the dirty paths of the worktree right after it.
Load(p) ==
  /\ pc[p] = "load"
  /\ snap' = [snap EXCEPT ![p] = run]
  /\ late' = [late EXCEPT ![p] = {}]
  /\ \E dirty \in BOOLEAN :
       /\ cmd[p].kind = "closeout" \/ ~dirty
       /\ Note(p, "dirty", dirty)
  /\ Goto(p, CASE cmd[p].kind = "closeout" -> "gates"
               [] cmd[p].kind = "audit"    -> "select"
               [] cmd[p].kind = "prune"    -> "scan"
               [] OTHER                    -> "edit")
  /\ UNCHANGED <<ran, edits, copy, todo, shared, alone, kept>>

\* What `lto phase' makes of its copy; the judge, after minutes with a runner,
\* adds a result to its copy (agent runs are left out here) and saves it.
Edits(p) ==
  IF cmd[p].kind = "phase"
  THEN {[snap[p] EXCEPT !.phase = to] : to \in {"implementation", "closed"} \ {snap[p].phase}}
  ELSE {snap[p]}

Edit(p) ==
  /\ pc[p] = "edit"
  /\ \E st \in Edits(p) : Save(Reconciled(run, st))
  /\ Emits
  /\ Ends(p)
  /\ UNCHANGED <<ran, edits, ledger, manifest, handoff, streaks, alone, kept>>

\* The host edits state.json by hand: a risk is verified, a gate block is
\* added or resolved (no command writes gates.unresolved_blocks).
HostEdits ==
  /\ edits < MaxEdits
  /\ edits' = edits + 1
  /\ \/ \E k \in Unverified(run) : Save([run EXCEPT !.risks[k].verified = TRUE])
     \/ \E b \in Block : Save([run EXCEPT !.blocks = IF b \in @ THEN @ \ {b} ELSE @ \cup {b}])
  /\ UNCHANGED <<pc, ran, local, ledger, manifest, handoff, files, streaks, alone, kept>>

-----------------------------------------------------------------------------
(* closeout *)

\* enforce_gates, first part: on the copy of the state and the ledger as it is.
FirstGates(p) ==
  /\ pc[p] = "gates"
  /\ Emits
  /\ IF GatesBefore(snap[p], ledger, cmd[p].force) = "none"
     THEN /\ Goto(p, IF /\ ~cmd[p].force /\ cmd[p].verify
                        /\ snap[p].contract.instruments # {}
                     THEN "instruments" ELSE "last gates")
          /\ UNCHANGED <<run, local>>
     ELSE UNCHANGED run /\ Ends(p)
  /\ UNCHANGED <<ran, edits, ledger, manifest, handoff, streaks, hist>>

\* The instruments run, one after the other, each until it ends or is killed
\* at the time limit; the first that fails stops the closeout.
Instruments(p) ==
  /\ pc[p] = "instruments"
  /\ \/ Goto(p, "last gates") /\ UNCHANGED <<run, local, files>>
     \/ Emits /\ UNCHANGED run /\ Ends(p)
  /\ UNCHANGED <<ran, edits, ledger, manifest, handoff, streaks, hist>>

\* enforce_gates, second part.  --allow-dirty is the choice of the command.
LastGates(p) ==
  /\ pc[p] = "last gates"
  /\ Emits
  /\ \E allow \in BOOLEAN :
       IF GatesAfter(snap[p], ledger, cmd[p].force, cmd[p].dirty, allow) = "none"
       THEN Goto(p, "close") /\ UNCHANGED <<run, local>>
       ELSE UNCHANGED run /\ Ends(p)
  /\ UNCHANGED <<ran, edits, ledger, manifest, handoff, streaks, hist>>

\* append_phase_transition, save_run and the two events; then the closeout
\* section of run-state.md.
Close(p) ==
  /\ pc[p] = "close"
  /\ Save(Reconciled(run, [snap[p] EXCEPT !.phase = "closed"]))
  /\ Emits
  /\ \E changelog \in BOOLEAN :
       Registers(p, <<"state_json", "run_state_md">>
                      \o (IF changelog THEN <<"changelog">> ELSE << >>), "handoff")
  /\ snap' = [snap EXCEPT ![p] = NoState]
  /\ UNCHANGED <<ran, edits, copy, ledger, manifest, handoff, streaks, alone, kept>>

\* handoff.md is written, registered and written again.
Handoff(p) ==
  /\ pc[p] = "handoff"
  /\ handoff' = TRUE
  /\ Registers(p, <<"handoff">>, "handoff again")
  /\ UNCHANGED <<ran, edits, snap, copy, run, ledger, manifest, files, streaks, hist>>

HandoffAgain(p) ==
  /\ pc[p] = "handoff again"
  /\ handoff' = TRUE
  /\ UNCHANGED run
  /\ Ends(p)
  /\ UNCHANGED <<ran, edits, ledger, manifest, files, streaks, hist>>

-----------------------------------------------------------------------------
(* register_artifact *)

\* The manifest is read and must parse, or the command fails: it does not
\* parse while another process is between truncating and writing it (fs::write)
\* and after one was killed there.
RegisterRead(p) ==
  /\ pc[p] = "register"
  /\ \/ /\ manifest.torn \/ \E q \in Proc \ {p} : pc[q] = "manifest"
        /\ UNCHANGED <<run, alone>>
        /\ Ends(p)
     \/ /\ ~manifest.torn
        /\ copy' = [copy EXCEPT ![p] = [ids |-> manifest.ids \cup {Head(todo[p])}]]
        /\ EnterWindow(p, {"manifest"})
        /\ Goto(p, "manifest")
        /\ UNCHANGED <<run, cmd, snap, todo>>
  /\ UNCHANGED <<ran, edits, ledger, manifest, handoff, files, streaks, late, kept>>

RegisterWrite(p) ==
  /\ pc[p] = "manifest"
  /\ manifest' = [torn |-> FALSE, ids |-> copy[p].ids]
  /\ Emits
  /\ kept' = IF alone[p] THEN [kept EXCEPT !.ids = @ \cup {Head(todo[p])}] ELSE kept
  /\ IF Len(todo[p]) > 1 \/ cmd[p].next # "idle"
     THEN /\ todo' = [todo EXCEPT ![p] = Tail(@)]
          /\ copy' = [copy EXCEPT ![p] = Absent]
          /\ Goto(p, IF Len(todo[p]) > 1 THEN "register" ELSE cmd[p].next)
          /\ UNCHANGED <<run, cmd, snap>>
     ELSE UNCHANGED run /\ Ends(p)
  /\ alone' = [alone EXCEPT ![p] = TRUE]
  /\ UNCHANGED <<ran, edits, ledger, handoff, streaks, late>>

-----------------------------------------------------------------------------
(* audit *)

\* cmd_audit up to the discovery: the auditors are picked from the events so far.
Select(p) ==
  /\ pc[p] = "select"
  /\ files' = files \cup {"audit", "events"}
  /\ \E prefer \in {<< >>} \cup {<<Pool[i]>> : i \in 1 .. Len(Pool)} :
       Note(p, "auditors", PickAuditorsForRun(Pool, snap[p].host, FALSE, prefer, streaks))
  /\ Goto(p, IF cmd[p].discover THEN "discoverer" ELSE "brief")
  /\ UNCHANGED <<ran, edits, snap, copy, todo, run, ledger, manifest, handoff, streaks, hist>>

\* pick_healthy_discoverer: some auditor is healthy, or the audit fails.
Discoverer(p) ==
  /\ pc[p] = "discoverer"
  /\ Emits
  /\ \/ /\ cmd[p].auditors # << >>
        /\ Registers(p, <<"audit_brief">>, "discover")
        /\ UNCHANGED <<run, snap, copy>>
     \/ UNCHANGED run /\ Ends(p)
  /\ UNCHANGED <<ran, edits, ledger, manifest, handoff, streaks, hist>>

\* dispatch_risk_discovery after the choice: the job runs, its result goes into
\* the state, and then a success is stored as a reply and a failure ends the
\* audit.  It ends at once if the job was refused or its events are not written.
Discover(p) ==
  /\ pc[p] = "discover"
  /\ files' = files \cup {"audit", "events"}
  /\ \/ \E i \in 1 .. Len(cmd[p].auditors), risky \in BOOLEAN :
          /\ streaks' = StreakAfter(streaks, cmd[p].auditors[i], "ok")
          /\ Plans(p, <<"risk_discovery_reply">>, IF risky THEN "risks load" ELSE "brief")
          /\ Goto(p, "results load")
          /\ UNCHANGED <<run, snap, copy>>
     \/ \E i \in 1 .. Len(cmd[p].auditors) :
          /\ streaks' = StreakAfter(streaks, cmd[p].auditors[i], "failed")
          /\ Plans(p, << >>, "idle")
          /\ Goto(p, "results load")
          /\ UNCHANGED <<run, snap, copy>>
     \/ UNCHANGED <<run, streaks>> /\ Ends(p)
  /\ UNCHANGED <<ran, edits, ledger, manifest, handoff, hist>>

\* The risks go into a copy of the state read for them.
RisksLoad(p) ==
  /\ pc[p] = "risks load"
  /\ copy' = [copy EXCEPT ![p] = run]
  /\ Goto(p, "risks")
  /\ UNCHANGED <<ran, edits, cmd, snap, todo, shared, hist>>

\* append_discovered_risk_points numbers from the length of its copy.
NewRiskId(st) == Cardinality(DOMAIN st.risks) + 1

SaveRisks(p) ==
  /\ pc[p] = "risks"
  /\ LET k == NewRiskId(copy[p])
         found == [by |-> Me(p), open |-> TRUE, verified |-> FALSE]
         st == [copy[p] EXCEPT !.risks = [j \in DOMAIN @ \cup {k} |->
                                            IF j = k THEN found ELSE @[j]]]
     IN  Save(Reconciled(run, st))
  /\ copy' = [copy EXCEPT ![p] = Absent]
  /\ Goto(p, "brief")
  /\ UNCHANGED <<ran, edits, cmd, snap, todo, ledger, manifest, handoff, files, streaks,
                 alone, kept>>

\* The brief for the auditors; without --auto-dispatch that is all.
Brief(p) ==
  /\ pc[p] = "brief"
  /\ files' = files \cup {"audit"}
  /\ \E auto \in BOOLEAN :
       Registers(p, <<"audit_brief">>, IF auto THEN "dispatch" ELSE "idle")
  /\ UNCHANGED <<ran, edits, snap, copy, run, ledger, manifest, handoff, streaks, hist>>

\* What a job that failed leaves.
NoReply == [json |-> FALSE, items |-> <<"failed">>, high |-> 0, critical |-> 0]

\* The counts of the replies, summed over the auditors that answered.
Counted(replies, rs) ==
  LET sum[i \in 0 .. Len(rs)] ==
        IF i = 0 THEN [high |-> 0, critical |-> 0]
        ELSE IF replies[rs[i]] = NoReply THEN sum[i - 1]
        ELSE AddReply(sum[i - 1], replies[rs[i]])
  IN  sum[Len(rs)]

\* submit_auto_dispatch and the collection of its results: the streaks as the
\* events will show them, a reply file for each, the counts of a new round.
\* Every auditor may fail; the round is recorded all the same.
Dispatch(p) ==
  /\ pc[p] = "dispatch"
  /\ files' = files \cup {"audit", "events"}
  /\ LET rs == cmd[p].auditors
         who == {rs[i] : i \in 1 .. Len(rs)}
     IN \/ /\ rs # << >>
           /\ \E replies \in [who -> Replies \cup {NoReply}] :
                LET c == Counted(replies, rs)
                    used == {r \in who : replies[r] # NoReply} IN
                /\ streaks' = [r \in DOMAIN streaks |->
                     IF r \notin who THEN streaks[r]
                     ELSE StreakAfter(streaks, r, IF r \in used THEN "ok" ELSE "failed")[r]]
                /\ cmd' = [cmd EXCEPT ![p].next = "ledger read", ![p].auditors = << >>,
                     ![p].row = [label |-> 0, high |-> c.high, critical |-> c.critical,
                                 by |-> Me(p), auditors |-> used,
                                 coverage |-> IF snap[p].tasks = {} THEN "empty" ELSE "filled"]]
           /\ todo' = [todo EXCEPT ![p] = [i \in 1 .. Len(rs) |-> "audit_reply"]]
           /\ Goto(p, "results load")
           /\ snap' = [snap EXCEPT ![p] = NoState]   \* of no more use
           /\ UNCHANGED <<run, copy>>
        \/ UNCHANGED <<run, streaks>> /\ Ends(p)   \* no auditors, or the batch failed
  /\ UNCHANGED <<ran, edits, ledger, manifest, handoff, hist>>

\* The results go into the state's agent runs (left out here) by a load and a
\* save of their own, in the discovery of risks as in the audit.
ResultsLoad(p) ==
  /\ pc[p] = "results load"
  /\ copy' = [copy EXCEPT ![p] = run]
  /\ Goto(p, "results")
  /\ UNCHANGED <<ran, edits, cmd, snap, todo, shared, hist>>

SaveResults(p) ==
  /\ pc[p] = "results"
  /\ Save(Reconciled(run, copy[p]))
  /\ \/ /\ todo[p] # << >>
        /\ copy' = [copy EXCEPT ![p] = Absent]
        /\ Goto(p, "register")
        /\ UNCHANGED <<cmd, snap, todo>>
     \/ todo[p] = << >> /\ Ends(p)   \* a discovery that failed
  /\ UNCHANGED <<ran, edits, ledger, manifest, handoff, files, streaks, alone, kept>>

\* audit_ledger::append up to the write: the template if there is no file, the
\* text read, the new text parsed back.
LedgerRead(p) ==
  /\ pc[p] = "ledger read"
  /\ LET l == EnsureExists(ledger) IN
       /\ ledger' = l
       /\ IF CanAppend(l)
          THEN /\ copy' = [copy EXCEPT ![p] = Appended(l, cmd[p].row)]
               /\ EnterWindow(p, LedgerWindow)
               /\ Goto(p, "ledger truncate")
               /\ UNCHANGED <<run, cmd, snap, todo>>
          ELSE UNCHANGED <<run, alone>> /\ Ends(p)
  /\ UNCHANGED <<ran, edits, manifest, handoff, files, streaks, late, kept>>

LedgerTruncate(p) ==
  /\ pc[p] = "ledger truncate"
  /\ ledger' = Torn
  /\ Arrives({NewRound})
  /\ Goto(p, "ledger write")
  /\ UNCHANGED <<ran, edits, local, run, manifest, handoff, files, streaks, alone, kept>>

LedgerWrite(p) ==
  /\ pc[p] = "ledger write"
  /\ ledger' = copy[p]
  /\ Arrives({NewRound})
  /\ Emits
  /\ kept' = IF alone[p] THEN [kept EXCEPT !.rounds = @ \cup {Me(p)}] ELSE kept
  /\ copy' = [copy EXCEPT ![p] = Absent]
  /\ alone' = [alone EXCEPT ![p] = TRUE]
  /\ Registers(p, <<"audit_ledger">>, "idle")
  /\ UNCHANGED <<ran, edits, snap, run, manifest, handoff, streaks>>

-----------------------------------------------------------------------------
(* prune *)

\* Mutant of Eligible: the phase is not looked at.
EligibleAny(st) == files # {}

\* collect_eligible for a run that is old enough, or named.
Eligible(st) == st.phase = "closed" /\ files # {}

Scan(p) ==
  /\ pc[p] = "scan"
  /\ IF Eligible(snap[p])
     THEN /\ todo' = [todo EXCEPT ![p] = BulkTargets]
          /\ Goto(p, "remove")
          /\ UNCHANGED <<run, cmd, snap, copy>>
     ELSE UNCHANGED run /\ Ends(p)
  /\ UNCHANGED <<ran, edits, ledger, manifest, handoff, files, streaks, hist>>

\* prune_run_dir, one target at a time; then the mark in run-state.md.
Remove(p) ==
  /\ pc[p] = "remove"
  /\ files' = files \ {Head(todo[p])}
  /\ UNCHANGED run
  /\ IF Len(todo[p]) > 1
     THEN todo' = [todo EXCEPT ![p] = Tail(@)] /\ UNCHANGED <<pc, cmd, snap, copy>>
     ELSE Ends(p)
  /\ UNCHANGED <<ran, edits, ledger, manifest, handoff, streaks, hist>>

-----------------------------------------------------------------------------
\* A command is killed; one that is writing the manifest may leave it empty.
Crash(p) ==
  /\ pc[p] # "idle"
  /\ MayCrash
  /\ \/ UNCHANGED manifest
     \/ pc[p] = "manifest" /\ manifest' = [torn |-> TRUE, ids |-> {}]
  /\ UNCHANGED run
  /\ Ends(p)
  /\ UNCHANGED <<ran, edits, ledger, handoff, files, streaks, hist>>

Closeout(p) ==
  \/ FirstGates(p) \/ Instruments(p) \/ LastGates(p) \/ Close(p)
  \/ Handoff(p) \/ HandoffAgain(p)
Register(p) == RegisterRead(p) \/ RegisterWrite(p)
Audit(p) ==
  \/ Select(p) \/ Discoverer(p) \/ Discover(p) \/ RisksLoad(p) \/ SaveRisks(p)
  \/ Brief(p) \/ Dispatch(p) \/ ResultsLoad(p) \/ SaveResults(p) \/ LedgerRead(p) \/ LedgerTruncate(p) \/ LedgerWrite(p)
Prune(p) == Scan(p) \/ Remove(p)

\* Every step of a command but its beginning.
Step(p) ==
  Start(p) \/ Load(p) \/ Edit(p) \/ Closeout(p) \/ Register(p) \/ Audit(p) \/ Prune(p)

AllDone == (\A p \in Proc : pc[p] = "idle" /\ ran[p] = MaxCommands) /\ UNCHANGED vars

Next ==
  \/ \E p \in Proc : Begin(p) \/ Step(p) \/ Crash(p)
  \/ HostEdits
  \/ AllDone

Spec == Init /\ [][Next]_vars

-----------------------------------------------------------------------------
Rows == ParseLedger(ledger)
Ok(v) == v \in {"CONVERGED", "NO_OBSERVATIONS"}

\* An unforced closeout closes a run only over what it could not know: every
\* block and every open risk on disk when it saves arrived after it
\* loaded the state (enforce_gates judges that copy, minutes before save_run),
\* and if no round was written since then, the ledger's verdict lets it pass
\* and a high-risk run has been audited down to zero.
CloseEarned ==
  [][\A p \in Proc :
       (pc[p] = "close" /\ pc'[p] = "register" /\ ~cmd[p].force) =>
         /\ Owed(run) \subseteq late[p]
         /\ NewRound \in late[p] \/ Ok(EvaluateLedger(Rows, FALSE))
         /\ NewRound \in late[p] \/ ~snap[p].high \/ EvaluateLedger(Rows, FALSE) = "CONVERGED"]_vars

\* What an unshared read-modify-write has added to audit-ledger.md or
\* artifacts.json is never lost: audit_ledger::append and register_artifact
\* take no lock, so only an overlapping writer may drop a round or an
\* artifact, or a kill between truncation and write may drop the file.
UndisturbedKept ==
  /\ ledger.file # "torn" =>
       kept.rounds \subseteq {Rows[i].by : i \in 1 .. Len(Rows)}
  /\ ~manifest.torn => kept.ids \subseteq manifest.ids

\* prune removes files of a run that is not closed only if the run was
\* reopened after prune had read its state.
PruneSpares ==
  [][\A p \in Proc :
       pc[p] = "remove" /\ files' # files /\ (todo'[p] # todo[p]) =>
         run.phase = "closed" \/ Reopened \in late[p]]_vars
=============================================================================
