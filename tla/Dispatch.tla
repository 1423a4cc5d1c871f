------------------------------ MODULE Dispatch ------------------------------
(***************************************************************************)
(* A goal dispatched to an agent in a terminal window of its own.          *)
(* Three parties act on one run: `lto dispatch-and-wait' (or dispatch-goal *)
(* followed by events --wait) opens the window, sends the prompt and waits *)
(* for agent.dispatch.completed; the agent works and reports, once by      *)
(* itself and perhaps once more when its process exits; each report is an  *)
(* `lto agent-turn-completed' process that emits the event and settles the *)
(* window.  Saves of state.json are single steps here: StateStore shows    *)
(* what the lock and the merge make of them.                               *)
(***************************************************************************)
EXTENDS StateMerge

CONSTANTS
  Dispatcher,    \* the dispatching commands
  Window,        \* terminal windows
  Closing,       \* which dispatches may have --close-window: sets of dispatchers
  Modes,         \* which dispatches may be done by hand: sets of dispatchers
  EmitMayFail,   \* may appending the completion event fail?
  SaveMayFail,   \* may writing state.json fail?
  ReporterDies,  \* may a report be killed half-way?
  MaxReports     \* bound: reports in all

ASSUME DispatchEnvironment ==
  /\ Closing \subseteq SUBSET Dispatcher /\ Modes \subseteq SUBSET Dispatcher
  /\ {EmitMayFail, SaveMayFail, ReporterDies} \subseteq BOOLEAN
  /\ MaxReports \in Nat

VARIABLES
  windows,  \* dispatch_windows of state.json: items with key, status (val) and
            \* cleanup_on_success (close)
  log,      \* the completion events; ids are positions
  byHand,   \* dispatchers that are dispatch-goal and then events --wait --after
  closing,  \* dispatchers with --close-window
  target,   \* dispatcher -> the window it creates or is pointed at
  dpc,      \* dispatcher -> step
  dsnap,    \* dispatcher -> its copy of dispatch_windows
  cursor,   \* dispatcher -> wait only for events after this id
  result,   \* dispatcher -> how it ended
  open,     \* windows that exist and are not about to be closed
  agent,    \* window -> "none", "working" or "gone"
  rpc,      \* window -> step of the report in progress
  rsnap,    \* window -> the report's copy of dispatch_windows
  rc,       \* window -> the report's return code
  reports,  \* bound: reports so far
  failed,   \* history: windows that reported failure since they were dispatched
  asked,    \* history: windows that a dispatch with --close-window has recorded
  granted   \* history: windows of which that was so when their report began

dispatchVars == <<byHand, closing, target, dpc, dsnap, cursor, result>>
reportVars   == <<rpc, rsnap, rc, reports, failed, asked, granted>>
vars == <<windows, log, dispatchVars, open, agent, reportVars>>

-----------------------------------------------------------------------------
At(s, w, status) ==
  {i \in 1 .. Len(s) : s[i].key = w /\ s[i].val = status}
Active(s) == {i \in 1 .. Len(s) : s[i].val = "active"}
Status(s, w) == IF w \in Keys(s) THEN LastOf(s, w).val ELSE "none"

LastIn(S) == CHOOSE i \in S : \A j \in S : j <= i

\* s with the last record in positions S given a new status.
Settle(s, S, status) == [s EXCEPT ![LastIn(S)].val = status]

\* persist_dispatch_window: the last record of the window that is not cleaned
\* becomes active again, with the options of this dispatch; otherwise a record
\* is added.
Recorded(s, w, close) ==
  LET old  == {i \in 1 .. Len(s) : s[i].key = w /\ s[i].val # "cleaned"}
      item == [key |-> w, val |-> "active", close |-> close]
  IN  IF old # {} THEN [s EXCEPT ![LastIn(old)] = item] ELSE Append(s, item)

Save(s) == windows' = Merged(windows, s)

DGoto(d, step) == dpc' = [dpc EXCEPT ![d] = step]
RGoto(w, step) == rpc' = [rpc EXCEPT ![w] = step]
End(d, how) == DGoto(d, "done") /\ result' = [result EXCEPT ![d] = how]

Init ==
  /\ windows = << >> /\ log = << >>
  /\ byHand \in Modes /\ closing \in Closing
  /\ target \in [Dispatcher -> Window]
  /\ dpc = [d \in Dispatcher |-> "load"]
  /\ dsnap = [d \in Dispatcher |-> << >>]
  /\ cursor = [d \in Dispatcher |-> 0]
  /\ result = [d \in Dispatcher |-> "none"]
  /\ open = {}
  /\ agent = [w \in Window |-> "none"]
  /\ rpc = [w \in Window |-> "idle"]
  /\ rsnap = [w \in Window |-> << >>]
  /\ rc = [w \in Window |-> 0]
  /\ reports = 0
  /\ failed = {} /\ asked = {} /\ granted = {}

-----------------------------------------------------------------------------
(* The dispatching command.                                                *)

Load(d) ==
  /\ dpc[d] = "load"
  /\ dsnap' = [dsnap EXCEPT ![d] = windows]
  /\ cursor' = [cursor EXCEPT ![d] = Len(log)]
  /\ DGoto(d, "prepare")
  /\ UNCHANGED <<byHand, closing, target, windows, log, result, open, agent, reportVars>>

\* prepare_dispatch_target (tmux): the window is created, or it is there and no
\* agent is busy in it; otherwise nothing is recorded and the command fails.
Ready(w) == agent[w] = "none" \/ (agent[w] = "gone" /\ w \in open)

Prepare(d) ==
  /\ dpc[d] = "prepare"
  /\ \/ /\ Ready(target[d])
        /\ open' = open \cup {target[d]}
        /\ DGoto(d, "persist")
        /\ UNCHANGED result
     \/ /\ End(d, "failed")
        /\ UNCHANGED open
  /\ UNCHANGED <<byHand, closing, target, windows, log, dsnap, cursor, agent, reportVars>>

\* persist_dispatch_window; if the save fails nothing marks the window and the
\* command ends.
PersistWindow(d) ==
  /\ dpc[d] = "persist"
  /\ \/ /\ LET next == Recorded(dsnap[d], target[d], d \in closing) IN
             /\ Save(next)
             /\ dsnap' = [dsnap EXCEPT ![d] = Merged(windows, next)]
        /\ failed' = failed \ {target[d]}
        /\ asked' = asked \cup (IF d \in closing THEN {target[d]} ELSE {})
        /\ DGoto(d, "send")
        /\ UNCHANGED result
     \/ /\ SaveMayFail
        /\ End(d, "failed")
        /\ UNCHANGED <<windows, dsnap, failed, asked>>
  /\ UNCHANGED <<byHand, closing, target, log, cursor, open, agent>>
  /\ UNCHANGED <<rpc, rsnap, rc, reports, granted>>

\* The environment, the launch line and the prompt go to the window; any of
\* these calls may fail before the agent has started, and do without a window.
Send(d) ==
  /\ dpc[d] = "send"
  /\ \/ /\ target[d] \in open
        /\ agent' = [agent EXCEPT ![target[d]] = "working"]
        /\ DGoto(d, "confirm")
     \/ /\ DGoto(d, "retain")
        /\ UNCHANGED agent
  /\ UNCHANGED <<byHand, closing, target, windows, log, dsnap, cursor, result, open, reportVars>>

\* wait_for_capture_patterns sees the prompt accepted, or gives up while the
\* agent may already be working.
Confirm(d) ==
  /\ dpc[d] = "confirm"
  /\ \E step \in {"wait", "retain"} : DGoto(d, step)
  /\ UNCHANGED <<byHand, closing, target, windows, log, dsnap, cursor, result, open, agent>>
  /\ UNCHANGED reportVars

\* retain_dispatch_window after a failed dispatch, on the command's own copy,
\* in which the window is always active.
RetainOwn(d) ==
  /\ dpc[d] = "retain"
  /\ Save(Settle(dsnap[d], At(dsnap[d], target[d], "active"), "retained"))
  /\ End(d, "failed")
  /\ UNCHANGED <<byHand, closing, target, log, dsnap, cursor, open, agent, reportVars>>

\* check_events: the first completion event after the cursor decides.
Seen(after) == Len(log) > after

Outcome(after) == IF log[after + 1].rc = 0 THEN "ok" ELSE "bad"

\* Mutant of StartCursor: --after is ignored.
StartCursorNewest(d) == Len(log)

\* Without --after the wait starts behind the newest event there is.
StartCursor(d) == IF d \in byHand THEN cursor[d] ELSE Len(log)

\* events::wait_for reads the log once and looks back; with a zero timeout it
\* does not look again.
StartWait(d) ==
  /\ dpc[d] = "wait"
  /\ cursor' = [cursor EXCEPT ![d] = StartCursor(d)]
  /\ \/ /\ Seen(StartCursor(d))
        /\ End(d, Outcome(StartCursor(d)))
     \/ /\ ~ Seen(StartCursor(d))
        /\ \E step \in {"poll", "late"} : DGoto(d, step)
        /\ UNCHANGED result
  /\ UNCHANGED <<byHand, closing, target, windows, log, dsnap, open, agent, reportVars>>

\* Mutant of Poll: the newest event counts, whatever the cursor.
PollNewest(d) ==
  /\ dpc[d] = "poll"
  /\ Len(log) > 0
  /\ End(d, IF log[Len(log)].rc = 0 THEN "ok" ELSE "bad")
  /\ UNCHANGED <<byHand, closing, target, windows, log, dsnap, cursor, open, agent, reportVars>>

Poll(d) ==
  /\ dpc[d] = "poll"
  /\ Seen(cursor[d])
  /\ End(d, Outcome(cursor[d]))
  /\ UNCHANGED <<byHand, closing, target, windows, log, dsnap, cursor, open, agent, reportVars>>

\* Mutant of Timeout: the loop has no deadline.
TimeoutNever(d) ==
  /\ dpc[d] = "poll"
  /\ ~ Seen(cursor[d])
  /\ UNCHANGED vars

\* A read finds nothing and the deadline has passed.
Timeout(d) ==
  /\ dpc[d] = "poll"
  /\ ~ Seen(cursor[d])
  /\ DGoto(d, "late")
  /\ UNCHANGED <<byHand, closing, target, windows, log, dsnap, cursor, result, open, agent>>
  /\ UNCHANGED reportVars

\* events --wait only fails; dispatch-and-wait goes on to
\* retain_latest_dispatch_window, which reads the state ...
LoadLatest(d) ==
  /\ dpc[d] = "late"
  /\ result' = [result EXCEPT ![d] = "timeout"]
  /\ dsnap' = [dsnap EXCEPT ![d] = windows]
  /\ DGoto(d, IF d \in byHand THEN "done" ELSE "expire")
  /\ UNCHANGED <<byHand, closing, target, windows, log, cursor, open, agent, reportVars>>

\* ... and saves the last active record as retained.
RetainLatest(d) ==
  /\ dpc[d] = "expire"
  /\ IF Active(dsnap[d]) # {}
     THEN Save(Settle(dsnap[d], Active(dsnap[d]), "retained"))
     ELSE UNCHANGED windows
  /\ DGoto(d, "done")
  /\ UNCHANGED <<byHand, closing, target, log, dsnap, cursor, result, open, agent, reportVars>>

-----------------------------------------------------------------------------
(* The agent and its reports (cmd_agent_turn_completed).                   *)

\* The agent reports with its return code; reports of one window follow each
\* other.  The report reads the state first.
Report(w, code) ==
  /\ agent[w] = "working"
  /\ rpc[w] = "idle"
  /\ reports < MaxReports
  /\ reports' = reports + 1
  /\ rc' = [rc EXCEPT ![w] = code]
  /\ rsnap' = [rsnap EXCEPT ![w] = windows]
  /\ granted' = granted \cup (asked \cap {w})
  /\ RGoto(w, "emit")
  /\ UNCHANGED <<windows, log, dispatchVars, open, agent, failed, asked>>

\* safe_emit, then the waiters are woken; a dropped event is only printed.
EmitCompleted(w) ==
  /\ rpc[w] = "emit"
  /\ \/ log' = Append(log, [win |-> w, rc |-> rc[w]])
     \/ EmitMayFail /\ UNCHANGED log
  /\ failed' = IF rc[w] # 0 /\ w \in open THEN failed \cup {w} ELSE failed
  /\ RGoto(w, "finish")
  /\ UNCHANGED <<windows, dispatchVars, open, agent, rsnap, rc, reports, asked, granted>>

\* Mutant of FinishWindow: the return code is not looked at.
FinishWindowAnyCode(w) ==
  /\ rpc[w] = "finish"
  /\ RGoto(w, IF At(rsnap[w], w, "active") = {} THEN "idle" ELSE "close")
  /\ UNCHANGED <<windows, log, dispatchVars, open, agent, rsnap, rc, reports, failed, asked,
                 granted>>

\* Mutant of FinishWindow: the flag is read from the file, the rest from the copy.
FinishWindowNewFlag(w) ==
  /\ rpc[w] = "finish"
  /\ LET mine == At(rsnap[w], w, "active") IN
       \/ /\ mine = {} \/ rc[w] # 0 \/ ~ LastOf(windows, w).close
          /\ RGoto(w, "idle")
       \/ /\ mine # {} /\ rc[w] = 0 /\ LastOf(windows, w).close
          /\ RGoto(w, "close")
  /\ UNCHANGED <<windows, log, dispatchVars, open, agent, rsnap, rc, reports, failed, asked,
                 granted>>

\* finish_dispatch_window on the copy read before the event: nothing if that
\* copy has no active record; a failure, or a record without
\* cleanup_on_success, retains the window.
Keeps(w, mine) == rc[w] # 0 \/ ~ rsnap[w][LastIn(mine)].close

FinishWindow(w) ==
  /\ rpc[w] = "finish"
  /\ LET mine == At(rsnap[w], w, "active") IN
       \/ /\ mine = {}
          /\ RGoto(w, "idle")
          /\ UNCHANGED windows
       \/ /\ mine # {} /\ Keeps(w, mine)
          /\ Save(Settle(rsnap[w], mine, "retained"))
          /\ RGoto(w, "idle")
       \/ /\ mine # {} /\ Keeps(w, mine) /\ SaveMayFail
          /\ RGoto(w, "recheck")
          /\ UNCHANGED windows
       \/ /\ mine # {} /\ ~ Keeps(w, mine)
          /\ RGoto(w, "close")
          /\ UNCHANGED windows
  /\ UNCHANGED <<log, dispatchVars, open, agent, rsnap, rc, reports, failed, asked, granted>>

\* Mutant of Close: a window that could not be closed is taken for closed.
CloseUnchecked(w) ==
  /\ rpc[w] = "close"
  /\ \E now \in {open, open \ {w}} : open' = now
  /\ RGoto(w, "clean")
  /\ UNCHANGED <<windows, log, dispatchVars, agent, rsnap, rc, reports, failed, asked, granted>>

\* The backend closes the window (tmux: half a second later).  If it cannot,
\* that is saved, unless the backend's command could not even be started.
Close(w) ==
  /\ rpc[w] = "close"
  /\ \/ /\ open' = open \ {w}
        /\ RGoto(w, "clean")
        /\ UNCHANGED windows
     \/ /\ \/ Save(Settle(rsnap[w], At(rsnap[w], w, "active"), "retained"))
           \/ UNCHANGED windows
        /\ RGoto(w, "recheck")
        /\ UNCHANGED open
  /\ UNCHANGED <<log, dispatchVars, agent, rsnap, rc, reports, failed, asked, granted>>

\* retain_active_window_after_cleanup_error on a fresh copy.
Recheck(w) ==
  /\ rpc[w] = "recheck"
  /\ LET mine == At(windows, w, "active") IN
       IF mine # {} THEN Save(Settle(windows, mine, "retained"))
       ELSE UNCHANGED windows
  /\ RGoto(w, "idle")
  /\ UNCHANGED <<log, dispatchVars, open, agent, rsnap, rc, reports, failed, asked, granted>>

\* Mutant of Clean: the record is not settled.
CleanUnrecorded(w) ==
  /\ rpc[w] = "clean"
  /\ RGoto(w, "idle")
  /\ UNCHANGED <<windows, log, dispatchVars, open, agent, rsnap, rc, reports, failed, asked,
                 granted>>

\* The window is recorded as cleaned; a failed save is taken for a failed
\* cleanup.
Clean(w) ==
  /\ rpc[w] = "clean"
  /\ \/ /\ Save(Settle(rsnap[w], At(rsnap[w], w, "active"), "cleaned"))
        /\ RGoto(w, "idle")
     \/ /\ SaveMayFail
        /\ RGoto(w, "recheck")
        /\ UNCHANGED windows
  /\ UNCHANGED <<log, dispatchVars, open, agent, rsnap, rc, reports, failed, asked, granted>>

\* The agent's process ends, by itself or with its window.
Gone(w) ==
  /\ agent[w] = "working"
  /\ rpc[w] = "idle"
  /\ agent' = [agent EXCEPT ![w] = "gone"]
  /\ UNCHANGED <<windows, log, dispatchVars, open, reportVars>>

\* The report runs inside the window it settles and can go down with it.
Die(w) ==
  /\ ReporterDies
  /\ rpc[w] # "idle"
  /\ RGoto(w, "idle")
  /\ agent' = [agent EXCEPT ![w] = "gone"]
  /\ UNCHANGED <<windows, log, dispatchVars, open, rsnap, rc, reports, failed, asked, granted>>

\* Every command has ended and no agent is left.
Quiet ==
  /\ \A d \in Dispatcher : dpc[d] = "done"
  /\ \A w \in Window : agent[w] # "working" /\ rpc[w] = "idle"
  /\ UNCHANGED vars

DStep(d) ==
  \/ Load(d) \/ Prepare(d) \/ PersistWindow(d) \/ Send(d) \/ Confirm(d)
  \/ RetainOwn(d) \/ StartWait(d) \/ Poll(d) \/ Timeout(d) \/ LoadLatest(d)
  \/ RetainLatest(d)
RStep(w) ==
  \/ EmitCompleted(w) \/ FinishWindow(w) \/ Close(w) \/ Recheck(w) \/ Clean(w)

Next ==
  \/ \E d \in Dispatcher : DStep(d)
  \/ \E w \in Window : (\E code \in {0, 1} : Report(w, code)) \/ RStep(w)
                       \/ Gone(w) \/ Die(w)
  \/ Quiet

Spec == Init /\ [][Next]_vars

\* A running command keeps running and its deadline comes; an agent's process
\* ends some day.  Nothing makes an agent report.
FairSpec ==
  /\ Spec
  /\ \A d \in Dispatcher : WF_vars(DStep(d))
  /\ \A w \in Window : WF_vars(RStep(w)) /\ WF_vars(Gone(w))

-----------------------------------------------------------------------------
\* Windows are closed and recorded honestly, whatever saves from older copies
\* follow: a window is closed only for a report of success from it, and only if
\* a dispatch with --close-window had recorded it before that report began, so
\* never if all its dispatches keep it; it is recorded as cleaned only when it
\* is closed (persist_dispatch_window, finish_dispatch_window).
ClosedOnSuccess ==
  /\ [][\A w \in open \ open' : rpc[w] = "close" /\ rc[w] = 0 /\ w \in granted]_vars
  /\ [](\A w \in Window : Status(windows, w) = "cleaned" => w \notin open)

\* The outcome printed is the return code of a report from the dispatched
\* window made after the dispatch began, and a wait that was given --after the
\* id read before the dispatch times out only if the agent had not completed
\* when it began (events::wait_for).
ResultIsOwn ==
  \A d \in Dispatcher :
    /\ result[d] \in {"ok", "bad"} =>
         /\ cursor[d] < Len(log)
         /\ log[cursor[d] + 1].win = target[d]
         /\ (log[cursor[d] + 1].rc = 0) = (result[d] = "ok")
    /\ d \in byHand /\ result[d] = "timeout" =>
         ~ \E i \in 1 .. cursor[d] : log[i].win = target[d]

\* Every dispatch-and-wait ends.
WaitEnds == \A d \in Dispatcher : <>(dpc[d] = "done")

\* What a report decides stays decided: a window that reported does not stay
\* recorded as active, and one that reported failure is left open for
\* troubleshooting whatever reports follow, until something new is dispatched
\* to it.
ReportSettles ==
  /\ \A w \in Window : rpc[w] = "finish" ~> Status(windows, w) # "active"
  /\ [][\A w \in failed : w \in open => w \in open']_vars
=============================================================================
