------------------------------- MODULE Signals ------------------------------
(***************************************************************************)
(* How a dispatched agent gets heard.  dispatch-goal writes the completion *)
(* protocol into a copy of the goal, installs codex's Stop hook in the     *)
(* user's hooks.json (or removes the old agy hook) and sends the prompt.   *)
(* The agent reports by the command in the goal or the prompt, codex's     *)
(* hook at the end of a turn, a wrapper when the process exits; `lto       *)
(* agent-turn-completed' finds the run, logs the event and wakes the       *)
(* waiters that registered a port.  The two homes (~/.codex, ~/.gemini)    *)
(* belong to the user, who edits them, and to every lto process: nothing   *)
(* locks them.  Windows and the settling of reports are in Dispatch.       *)
(***************************************************************************)
EXTENDS Integers, Sequences, FiniteSets

CONSTANTS
  Agent, RunOf, RunnerOf, GoalOf,   \* dispatches: run, runner and goal file
  BinOf,          \* dispatch -> the lto binary, which names the hook's command
  Constrained,    \* dispatches with text for the runner to add to the goal
  OwnReport,      \* goal file -> the run its own text tells to report to; NoRun
  Remover,        \* dispatch-goal --uninstall-hooks
  Waiter, WaitsFor,   \* events --wait, and its run
  Casts,          \* which processes take part
  Runs, Here, Age, NoRun,   \* runs; those of the hand's directory; when started
  FirstHooks,     \* what the homes' settings may be to begin with
  UserEntry,      \* an entry the user adds
  MaxEdits, MaxHand, MaxReports, MaxKills, MaxCloses   \* bounds

Homes == {"codex", "gemini"}
Lto == {BinOf[a] : a \in Agent} \cup {"old"}    \* entries with the marker
Proc == Agent \cup Remover \cup Waiter

ASSUME SignalsEnvironment ==
  /\ UserEntry \notin Lto /\ NoRun \notin Runs /\ Here \subseteq Runs
  /\ {MaxEdits, MaxHand, MaxReports, MaxKills, MaxCloses} \subseteq Nat
ASSUME SignalsProcesses ==
  /\ Agent \cap Remover = {} /\ Agent \cap Waiter = {} /\ Remover \cap Waiter = {}
  /\ "hand" \notin Agent
  /\ RunOf \in [Agent -> Runs] /\ WaitsFor \in [Waiter -> Runs]
  /\ \A a \in Agent : OwnReport[GoalOf[a]] \in Runs \cup {NoRun}
ASSUME SignalsHomes ==
  \A first \in FirstHooks :
    /\ first = [h \in Homes |-> [file |-> first[h].file, entries |-> first[h].entries]]
    /\ \A h \in Homes : first[h].file \in {"no home", "absent"} => first[h].entries = {}

VARIABLES
  pc,          \* process -> step
  hooks,       \* home -> its settings: file ("no home", "absent", "ok", "broken"), entries
  script,      \* homes that have lto's script
  copy,        \* process -> entries it has read
  mine,        \* history: home -> entries the user put there
  overlapped,  \* history: homes changed under an lto process's hands
  goals,       \* goal file -> the run <stem>.dispatch.md tells to report to
  told,        \* agent -> the run its goal told it to report to
  log,         \* run -> events
  lost,        \* history: those with a report whose event was dropped
  waking,      \* runs whose reports have still to wake the waiters
  endpoints,   \* run -> waiters in notify-endpoints.json
  seat,        \* run -> holder of its lock
  esnap,       \* waiter -> endpoints it has read
  cursor,      \* waiter -> events it does not wait for
  woken,       \* waiters with a connection to accept
  closed, current,          \* closed runs, .lto/current
  edits, hand, reports, kills   \* bounds

hookVars == <<hooks, script, copy, mine, overlapped>>
goalVars == <<goals, told>>
waitVars == <<endpoints, seat, esnap, cursor, woken>>
logVars  == <<log, lost, waking>>
runVars  == <<closed, current>>
bounds   == <<edits, hand, reports, kills>>
vars == <<pc, hookVars, goalVars, waitVars, logVars, runVars, bounds>>

Goto(p, step) == pc' = [pc EXCEPT ![p] = step]

Start(p) == IF p \in Agent THEN "goal" ELSE IF p \in Remover THEN "codex read" ELSE "look"

Init ==
  /\ \E cast \in Casts : pc = [p \in Proc |-> IF p \in cast THEN Start(p) ELSE "off"]
  /\ hooks \in FirstHooks
  /\ script = {h \in Homes : hooks[h].entries \cap Lto # {}}
  /\ copy = [p \in Agent \cup Remover |-> {}]
  /\ mine = [h \in Homes |-> hooks[h].entries \ Lto]
  /\ overlapped = {}
  /\ goals = [g \in {GoalOf[a] : a \in Agent} |-> NoRun]
  /\ told = [a \in Agent |-> NoRun]
  /\ log = [r \in Runs |-> << >>] /\ lost = {} /\ waking = {}
  /\ endpoints = [r \in Runs |-> {}] /\ seat = [r \in Runs |-> {}]
  /\ esnap = [w \in Waiter |-> {}] /\ cursor = [w \in Waiter |-> 0] /\ woken = {}
  /\ closed = {} /\ current \in Runs \cup {NoRun}
  /\ edits = 0 /\ hand = 0 /\ reports = 0 /\ kills = 0

-----------------------------------------------------------------------------
(* The hooks in the homes.                                                 *)

\* Is q between its first and its last step on a home?
Busy(q, h) ==
  IF h = "codex" THEN pc[q] \in {"read", "write", "codex write", "codex script"}
  ELSE pc[q] \in {"gemini write", "gemini script"}
Overlap(p, h) ==
  overlapped' = overlapped \cup (IF \E q \in Proc \ {p} : Busy(q, h) THEN {h} ELSE {})

Missing(h) == hooks[h].file \in {"no home", "absent"}

\* After its hooks an agent is sent off, --uninstall-hooks is done.
After(p) == IF p \in Agent THEN "send" ELSE "done"

\* install_codex_hook_at: without codex's home nothing is installed; the script
\* is written first ...
InstallScript(a) ==
  /\ pc[a] = "script"
  /\ IF hooks["codex"].file = "no home"
     THEN Goto(a, "send") /\ UNCHANGED <<script, overlapped>>
     ELSE Goto(a, "read") /\ script' = script \cup {"codex"} /\ Overlap(a, "codex")
  /\ UNCHANGED <<hooks, copy, mine, goalVars, waitVars, logVars, runVars, bounds>>

\* ... then hooks.json is read; what does not parse degrades the hook, an entry
\* with the same command is left alone ...
InstallRead(a) ==
  /\ pc[a] = "read"
  /\ copy' = [copy EXCEPT ![a] = hooks["codex"].entries]
  /\ Goto(a, IF hooks["codex"].file = "broken" \/ BinOf[a] \in hooks["codex"].entries
             THEN "send" ELSE "write")
  /\ UNCHANGED <<hooks, script, mine, overlapped, goalVars, waitVars, logVars, runVars, bounds>>

\* Mutant of Installed: the file is begun anew.
InstalledFresh(entries, bin) == {bin}

\* codex_stop_hook_entry in the place of the marked entry, or at the end.
Installed(entries, bin) == (entries \ Lto) \cup {bin}

\* ... and a copy with the entry is renamed into place.
InstallWrite(a) ==
  /\ pc[a] = "write"
  /\ hooks' = [hooks EXCEPT !["codex"] = [file |-> "ok", entries |-> Installed(copy[a], BinOf[a])]]
  /\ Overlap(a, "codex")
  /\ Goto(a, "send")
  /\ UNCHANGED <<script, copy, mine, goalVars, waitVars, logVars, runVars, bounds>>

\* uninstall_codex_hook.  An error ends the command before the other home.
RemoveRead(p) ==
  /\ pc[p] = "codex read"
  /\ copy' = [copy EXCEPT ![p] = hooks["codex"].entries]
  /\ IF Missing("codex")
     THEN script' = script \ {"codex"} /\ Overlap(p, "codex") /\ Goto(p, "gemini read")
     ELSE /\ Goto(p, IF hooks["codex"].file = "broken" THEN "done" ELSE "codex write")
          /\ UNCHANGED <<script, overlapped>>
  /\ UNCHANGED <<hooks, mine, goalVars, waitVars, logVars, runVars, bounds>>

\* Mutant of RemoveWrite: the script goes first.
RemoveWriteLate(p) ==
  /\ pc[p] = "codex write"
  /\ script' = script \ {"codex"}
  /\ Overlap(p, "codex")
  /\ Goto(p, "codex script")
  /\ UNCHANGED <<hooks, copy, mine, goalVars, waitVars, logVars, runVars, bounds>>

RemoveWrite(p) ==
  /\ pc[p] = "codex write"
  /\ hooks' = [hooks EXCEPT !["codex"] = [file |-> "ok", entries |-> copy[p] \ Lto]]
  /\ Overlap(p, "codex")
  /\ Goto(p, "codex script")
  /\ UNCHANGED <<script, copy, mine, goalVars, waitVars, logVars, runVars, bounds>>

RemoveScript(p) ==
  /\ pc[p] = "codex script"
  /\ script' = script \ {"codex"}
  /\ Overlap(p, "codex")
  /\ Goto(p, "gemini read")
  /\ UNCHANGED <<hooks, copy, mine, goalVars, waitVars, logVars, runVars, bounds>>

\* uninstall_agy_hook_at: only what is there is removed.  For a dispatch an
\* error only degrades the hook.
AgyRead(p) ==
  /\ pc[p] = "gemini read"
  /\ copy' = [copy EXCEPT ![p] = hooks["gemini"].entries]
  /\ IF Missing("gemini")
     THEN script' = script \ {"gemini"} /\ Overlap(p, "gemini") /\ Goto(p, After(p))
     ELSE /\ Goto(p, IF hooks["gemini"].file = "broken" THEN After(p)
                     ELSE IF hooks["gemini"].entries \cap Lto # {} THEN "gemini write"
                     ELSE IF "gemini" \in script THEN "gemini script" ELSE After(p))
          /\ UNCHANGED <<script, overlapped>>
  /\ UNCHANGED <<hooks, mine, goalVars, waitVars, logVars, runVars, bounds>>

AgyWrite(p) ==
  /\ pc[p] = "gemini write"
  /\ hooks' = [hooks EXCEPT !["gemini"] = [file |-> "ok", entries |-> copy[p] \ Lto]]
  /\ Overlap(p, "gemini")
  /\ Goto(p, "gemini script")
  /\ UNCHANGED <<script, copy, mine, goalVars, waitVars, logVars, runVars, bounds>>

AgyScript(p) ==
  /\ pc[p] = "gemini script"
  /\ script' = script \ {"gemini"}
  /\ Overlap(p, "gemini")
  /\ Goto(p, After(p))
  /\ UNCHANGED <<hooks, copy, mine, goalVars, waitVars, logVars, runVars, bounds>>

\* The user saves the settings with one more entry; the text may be broken.
UserEdit(h, file) ==
  /\ edits < MaxEdits
  /\ edits' = edits + 1
  /\ hooks' = [hooks EXCEPT ![h] = [file |-> file, entries |-> @.entries \cup {UserEntry}]]
  /\ mine' = [mine EXCEPT ![h] = @ \cup {UserEntry}]
  /\ overlapped' = overlapped \cup (IF \E q \in Proc : Busy(q, h) THEN {h} ELSE {})
  /\ UNCHANGED <<pc, script, copy, goalVars, waitVars, logVars, runVars, hand, reports, kills>>

-----------------------------------------------------------------------------
(* The dispatch and the agent.                                             *)

\* materialize_goal_with_completion_protocol: aix has no session to report from.
NeedsProtocol(a) == RunnerOf[a] # "aix" /\ OwnReport[GoalOf[a]] = NoRun
Rewrites(a) == NeedsProtocol(a) \/ a \in Constrained
Materialize(a) ==
  /\ pc[a] = "goal"
  /\ goals' = IF Rewrites(a)
              THEN [goals EXCEPT ![GoalOf[a]] = IF NeedsProtocol(a) THEN RunOf[a] ELSE NoRun]
              ELSE goals
  /\ Goto(a, CASE RunnerOf[a] = "codex" -> "script"
               [] RunnerOf[a] = "agy"   -> "gemini read"
               [] OTHER                 -> "send")
  /\ UNCHANGED <<hookVars, told, waitVars, logVars, runVars, bounds>>

\* The prompt, and the agent that reads the goal it names.
ReadGoal(a) ==
  /\ pc[a] = "send"
  /\ told' = [told EXCEPT ![a] = IF OwnReport[GoalOf[a]] # NoRun THEN OwnReport[GoalOf[a]]
                                 ELSE IF Rewrites(a) THEN goals[GoalOf[a]] ELSE NoRun]
  /\ Goto(a, "work")
  /\ UNCHANGED <<hookVars, goals, waitVars, logVars, runVars, bounds>>

\* goal_prompt repeats the command, but not for aix.
Commands(a) == ({told[a]} \cup (IF RunnerOf[a] = "aix" THEN {} ELSE {RunOf[a]})) \ {NoRun}

\* route_run: the run that was named, else by directory: the current run if it
\* is open, else the one started last.
RouteRun(named) ==
  LET open == Here \ closed IN
  IF named # NoRun THEN named
  ELSE IF current \in open THEN current
  ELSE IF open = {} THEN NoRun
  ELSE CHOOSE r \in open : \A q \in open : Age[q] <= Age[r]

\* Mutant of Completes: who routed the report does not matter.
CompletesAny(source, named, proof) ==
  source \in {"self report", "process exit"} \/ (source = "stop hook" /\ proof)

\* A report completes a dispatch only if it named its run.  proof: does the
\* transcript show update_goal complete (transcript_has_goal_completion)?
Completes(source, named, proof) ==
  /\ source \in {"self report", "process exit"} \/ (source = "stop hook" /\ proof)
  /\ named # NoRun

\* cmd_agent_turn_completed from the run to wake_run.  safe_emit may drop the
\* event; the waiters are woken all the same.
Report(source, by, named, proof) ==
  LET r == RouteRun(named) IN
  /\ reports < MaxReports
  /\ reports' = reports + 1
  /\ IF r = NoRun THEN UNCHANGED logVars
     ELSE /\ \/ /\ log' = [log EXCEPT ![r] = Append(@, [by |-> by, source |-> source,
                    type |-> IF Completes(source, named, proof) THEN "completed" ELSE "turn"])]
                /\ UNCHANGED lost
             \/ lost' = lost \cup {by} /\ UNCHANGED log
          /\ waking' = waking \cup {r}

\* The agent runs a command it was told.
SelfReport(a) ==
  /\ pc[a] = "work"
  /\ \E r \in Commands(a) : Report("self report", a, r, FALSE)
  /\ Goto(a, "reported")
  /\ UNCHANGED <<hookVars, goalVars, waitVars, runVars, edits, hand, kills>>

\* A turn of codex ends, and the Stop hook runs if it can.
HookInstalled == hooks["codex"].file = "ok" /\ hooks["codex"].entries \cap Lto # {} /\ "codex" \in script
StopHook(a) ==
  /\ pc[a] \in {"work", "reported"} /\ RunnerOf[a] = "codex" /\ HookInstalled
  /\ \E proof \in BOOLEAN : Report("stop hook", a, RunOf[a], proof)
  /\ UNCHANGED <<pc, hookVars, goalVars, waitVars, runVars, edits, hand, kills>>

\* process_exit_wrapper; codex has none.
ProcessExit(a) ==
  /\ pc[a] \in {"work", "reported"}
  /\ IF RunnerOf[a] = "codex" THEN UNCHANGED <<logVars, reports>>
     ELSE Report("process exit", a, RunOf[a], FALSE)
  /\ Goto(a, "ended")
  /\ UNCHANGED <<hookVars, goalVars, waitVars, runVars, edits, hand, kills>>

\* A codex that somebody started by hand in the repository ends a turn: it has
\* the same hook and no LTO_RUN_ID.
HandTurn ==
  /\ hand < MaxHand /\ HookInstalled
  /\ hand' = hand + 1
  /\ \E proof \in BOOLEAN : Report("stop hook", "hand", NoRun, proof)
  /\ UNCHANGED <<pc, hookVars, goalVars, waitVars, runVars, edits, kills>>

\* wake_run reads the endpoints without the lock and connects to each.
WakeRun(r) ==
  /\ r \in waking
  /\ waking' = waking \ {r}
  /\ woken' = woken \cup endpoints[r]
  /\ UNCHANGED <<pc, hookVars, goalVars, endpoints, seat, esnap, cursor, log, lost, runVars, bounds>>

-----------------------------------------------------------------------------
(* The waiters.                                                            *)

Completion(w, after) == \E i \in after + 1 .. Len(log[WaitsFor[w]]) : log[WaitsFor[w]][i].type = "completed"

\* wait_for: the log is read once, from --after or from its end.
Look(w) ==
  /\ pc[w] = "look"
  /\ \E after \in {0, Len(log[WaitsFor[w]])} :
       /\ cursor' = [cursor EXCEPT ![w] = after]
       /\ Goto(w, IF Completion(w, after) THEN "done" ELSE "enroll")
  /\ UNCHANGED <<hookVars, goalVars, endpoints, seat, esnap, woken, logVars, runVars, bounds>>

\* Mutant of Lock: the lock file is opened, not locked.
LockOpened(w, from, to) ==
  /\ pc[w] = from
  /\ seat' = seat
  /\ Goto(w, to)

\* with_endpoints_locked: lock, read, edit, rename, unlock.
Lock(w, from, to) ==
  /\ pc[w] = from
  /\ seat[WaitsFor[w]] = {}
  /\ seat' = [seat EXCEPT ![WaitsFor[w]] = {w}]
  /\ Goto(w, to)
Enter(w) ==
  /\ Lock(w, "enroll", "enroll read") \/ Lock(w, "leave", "leave read")
  /\ UNCHANGED <<hookVars, goalVars, endpoints, esnap, cursor, woken, logVars, runVars, bounds>>
ReadEndpoints(w) ==
  /\ pc[w] \in {"enroll read", "leave read"}
  /\ esnap' = [esnap EXCEPT ![w] = endpoints[WaitsFor[w]]]
  /\ Goto(w, IF pc[w] = "enroll read" THEN "enroll write" ELSE "leave write")
  /\ UNCHANGED <<hookVars, goalVars, endpoints, seat, cursor, woken, logVars, runVars, bounds>>
\* add_endpoint, remove_endpoint.
WriteEndpoints(w) ==
  /\ pc[w] \in {"enroll write", "leave write"}
  /\ endpoints' = [endpoints EXCEPT ![WaitsFor[w]] =
                     IF pc[w] = "enroll write" THEN esnap[w] \cup {w} ELSE esnap[w] \ {w}]
  /\ seat' = [seat EXCEPT ![WaitsFor[w]] = @ \ {w}]
  /\ Goto(w, IF pc[w] = "enroll write" THEN "poll" ELSE "done")
  /\ UNCHANGED <<hookVars, goalVars, esnap, cursor, woken, logVars, runVars, bounds>>

\* Registration fails: the waiter polls without it.
EnrollFails(w) ==
  /\ pc[w] = "enroll"
  /\ Goto(w, "poll bare")
  /\ UNCHANGED <<hookVars, goalVars, waitVars, logVars, runVars, bounds>>

\* The loop drains its connections and reads the log; it ends with the event
\* or at the deadline, which may come at any turn.
Poll(w) ==
  /\ pc[w] \in {"poll", "poll bare"}
  /\ woken' = woken \ {w}
  /\ \/ Goto(w, IF pc[w] = "poll" THEN "leave" ELSE "done")
     \/ ~Completion(w, cursor[w]) /\ UNCHANGED pc
  /\ UNCHANGED <<hookVars, goalVars, endpoints, seat, esnap, cursor, logVars, runVars, bounds>>

-----------------------------------------------------------------------------
\* A run is closed by some other command.
CloseRun(r) ==
  /\ r \notin closed /\ Cardinality(closed) < MaxCloses
  /\ closed' = closed \cup {r}
  /\ UNCHANGED <<pc, hookVars, goalVars, waitVars, logVars, current, bounds>>

\* An lto process is killed; the kernel drops its lock.
Kill(p) ==
  /\ kills < MaxKills
  /\ pc[p] \notin {"off", "work", "reported", "ended", "done", "dead"}
  /\ kills' = kills + 1
  /\ seat' = [r \in Runs |-> seat[r] \ {p}]
  /\ Goto(p, "dead")
  /\ UNCHANGED <<hookVars, goalVars, endpoints, esnap, cursor, woken, logVars, runVars,
                 edits, hand, reports>>

Next ==
  \/ \E a \in Agent :
       \/ Materialize(a) \/ InstallScript(a) \/ InstallRead(a) \/ InstallWrite(a)
       \/ ReadGoal(a) \/ SelfReport(a) \/ StopHook(a) \/ ProcessExit(a)
  \/ \E p \in Remover : RemoveRead(p) \/ RemoveWrite(p) \/ RemoveScript(p)
  \/ \E p \in Agent \cup Remover : AgyRead(p) \/ AgyWrite(p) \/ AgyScript(p)
  \/ \E w \in Waiter :
       Look(w) \/ Enter(w) \/ ReadEndpoints(w) \/ WriteEndpoints(w) \/ EnrollFails(w) \/ Poll(w)
  \/ \E h \in Homes, file \in {"ok", "broken"} : UserEdit(h, file)
  \/ \E r \in Runs : WakeRun(r) \/ CloseRun(r)
  \/ HandTurn
  \/ \E p \in Proc : Kill(p)

Spec == Init /\ [][Next]_vars

-----------------------------------------------------------------------------
\* The user's own hooks survive every install and uninstall of lto's, killed
\* half-way or not, unless the file was changed between lto's read and its
\* write (install_codex_hook_at, uninstall_*: read, edit, rename, no lock).
UserHooksKept == \A h \in Homes \ overlapped : mine[h] \subseteq hooks[h].entries

\* An entry of lto in the user's settings names a script that is there: the
\* script is written before and removed after the entry, so a kill in between
\* leaves no hook that fails at every turn, unless an install and an uninstall
\* overlapped.
HookRuns == \A h \in Homes \ overlapped : hooks[h].entries \cap Lto # {} => h \in script

\* A waiter that polls with a port can be found by wake_run, and one that went
\* home by itself cannot, whichever waiters of the run came, went or were
\* killed meanwhile (the endpoints' lock).
EndpointsAgree ==
  \A w \in Waiter : /\ pc[w] = "poll" => w \in endpoints[WaitsFor[w]]
                    /\ pc[w] = "done" => w \notin endpoints[WaitsFor[w]]

\* Who completes a run: a completion in its log was told by an agent that was
\* dispatched for the run, or that the goal's own text, or another dispatch
\* with the same goal file, told to report there; never by a session somebody
\* started by hand (routed_by_cwd).  An aix with a goal of its own has
\* completed exactly once when it has ended, or never if safe_emit dropped that
\* event, however its dispatch was interleaved with others.
ReportIsOwn ==
  /\ \A r \in Runs : \A i \in 1 .. Len(log[r]) :
       LET e == log[r][i] IN
       e.type = "completed" =>
         /\ e.by # "hand"
         /\ \E b \in Agent : GoalOf[b] = GoalOf[e.by] /\ r \in {RunOf[b], OwnReport[GoalOf[b]]}
  /\ \A a \in Agent :
       (/\ RunnerOf[a] = "aix" /\ pc[a] = "ended" /\ OwnReport[GoalOf[a]] = NoRun
        /\ \A b \in Agent \ {a} : GoalOf[b] # GoalOf[a])
       => Cardinality({i \in 1 .. Len(log[RunOf[a]]) :
            log[RunOf[a]][i].by = a /\ log[RunOf[a]][i].type = "completed"})
            = IF a \in lost THEN 0 ELSE 1
=============================================================================
