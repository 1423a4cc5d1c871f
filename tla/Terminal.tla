------------------------------ MODULE Terminal ------------------------------
(***************************************************************************)
(* How a goal or a job gets into a terminal: dispatch-goal through tmux,   *)
(* herdr, orca or paseo, and the scheduler's jobs that run in tmux.  All a *)
(* driver has is the text on the screen and the keys it can send; between  *)
(* a look and a key the program in the window may come, go or ask, and     *)
(* others type as well.  The record of the window in state.json and what   *)
(* follows the hand-over is in Dispatch.                                   *)
(*                                                                         *)
(* A window is what runs in the foreground, the input line as a sequence   *)
(* of texts not yet entered, and the screen as the set of marks that the   *)
(* code's patterns tell apart, scrollback included.                        *)
(***************************************************************************)
EXTENDS Integers, Sequences, FiniteSets

CONSTANTS
  Goal, Job,     \* dispatch-goal commands; tmux jobs of the scheduler
  Old, New,      \* windows that are there; windows that may be opened
  Options,       \* what the processes are told: functions from Proc to
                 \* [backend, runner, aim], for a job also [mode, patterns]
  SetupLines,    \* lines sent before the launch line
  MaxTries       \* bound: attempts of a job

Proc == Goal \cup Job
Windows == Old \cup New
NoOne == "no one"
NoWindow == "no window"

ASSUME TerminalWorld ==
  /\ Goal \cap Job = {} /\ Old \cap New = {}
  /\ SetupLines \in Nat /\ MaxTries \in Nat \ {0}
  /\ \A o \in Options : \A p \in Job : o[p].backend = "tmux"

VARIABLES
  opt,          \* process -> its options
  at,           \* process -> where it is, see Start
  term,         \* window -> what is in it, see TerminalInit
  signals,      \* tmux signals sent
  sentinel,     \* jobs whose sentinel file is there
  fresh         \* history: jobs whose last command has run since the attempt began

marks == <<signals, sentinel, fresh>>
terminalVars  == <<opt, at, term, signals, sentinel, fresh>>

-----------------------------------------------------------------------------
(* runner_plan, blocked_patterns, default_skip_prompts, skip_prompts       *)

InTmux(p) == opt[p].backend = "tmux"
OneShot(p) == opt[p].runner = "aix"      \* the launch line carries the prompt

\* What a goal sends before it waits: two exports and cd, the launch line.
Lines == [i \in 1 .. SetupLines + 1 |-> IF i <= SetupLines THEN "setup" ELSE "launch"]

\* Mutant of ReadyMarks: the launch line's own echo counts.
ReadyMarksEcho(p) == {"ready", "echo"}

\* The idle input box of the runner, or what the job's patterns name; without
\* patterns a screen that does not change is taken for ready.
ReadyMarks(p) == {"ready"}
HasPatterns(p) == IF p \in Goal THEN ~OneShot(p) ELSE opt[p].patterns

\* Two patterns match the update menu of a runner; the first question about
\* trust is on both lists for agy.  A job has its own list (skip_prompts).
MenuMarks == {"update", "press enter"}
SkipMarks(p) ==
  MenuMarks \cup IF p \in Goal /\ opt[p].runner = "agy" THEN {"trust"} ELSE {}
BlockedMarks(p) == IF p \in Goal THEN {"trust"} ELSE {}

\* "Read the file" is part of the prompt itself.
ConfirmMarks(p) == IF OneShot(p) THEN {"banner"} ELSE {"work", "prompt"}

\* agent_present, agent_status of herdr.
AgentIn(w) == term[w].fg \in {"boot", "idle", "work", "trust", "update"}

-----------------------------------------------------------------------------
(* A process: its step, its window, what it still has to send, the attempt *)
(* it is in, whether the deadline of its wait has passed, the prompts it   *)
(* answered and the screen it saw in this wait, how it ended, and as a     *)
(* history what came between it and its window.                            *)

Start(n) == [pc |-> "prepare", win |-> NoWindow, left |-> << >>, try |-> n, due |-> FALSE,
             skipped |-> {}, prev |-> {}, result |-> "none", excuse |-> {}]

Here(p) == term[at[p].win]
WindowGone(p) == Here(p).fg = "gone"

Goes(r, step) == [r EXCEPT !.pc = step]
Waits(r, step) == [r EXCEPT !.pc = step, !.due = FALSE, !.skipped = {}, !.prev = {}]
Ended(r, how) == [Start(r.try) EXCEPT !.pc = "done", !.result = how]

Moves(p, r) == at' = [at EXCEPT ![p] = r]

\* p touches the window that others may be using.
Touches(p, r) ==
  at' = [q \in Proc |->
    IF q = p THEN r
    ELSE IF at[q].win = at[p].win THEN [at[q] EXCEPT !.excuse = @ \cup {"shared"}]
    ELSE at[q]]

Puts(w, t) == term' = [term EXCEPT ![w] = t]

Text(p)  == [by |-> p, try |-> at[p].try, what |-> Head(at[p].left)]
Key(p)   == [by |-> p, try |-> 0, what |-> "key"]
Probe(p) == [by |-> p, try |-> 0, what |-> "probe"]
HalfTyped == [by |-> NoOne, try |-> 0, what |-> "user"]

\* A window: what has the foreground, who launched the agent, the input line,
\* the marks on the screen, the prompts that were taken and not finished.
TerminalInit ==
  /\ opt \in Options
  /\ at = [p \in Proc |-> IF opt[p].aim = "absent" THEN Ended(Start(1), "none") ELSE Start(1)]
  /\ \E f \in [Old -> {"shell", "busy", "idle"}], half, stale \in SUBSET Old :
       /\ \A w \in half : f[w] = "shell"     \* somebody left a half-typed line
       /\ \A w \in Old : f[w] = "idle" => w \in stale   \* an agent is or was there
       /\ term = [w \in Windows |->
            [fg |-> IF w \in Old THEN f[w] ELSE "none", owner |-> NoOne,
             line |-> IF w \in half THEN <<HalfTyped>> ELSE << >>,
             screen |-> (IF w \in Old THEN {"$"} ELSE {}) \cup
                        (IF w \in stale THEN {"ready"} ELSE {}),
             tasks |-> {}]]
  /\ signals = {} /\ sentinel = {} /\ fresh = {}

-----------------------------------------------------------------------------
(* prepare_target, prepare_dispatch_target                                 *)

\* p goes on in window w; somebody may be at work in it already, and an agent
\* may be running in it.
Takes(p, w, step) ==
  LET there == {q \in Proc \ {p} : at[q].win = w} IN
  /\ at' = [q \in Proc |->
       IF q = p THEN [at[p] EXCEPT
         !.pc = step, !.win = w, !.left = IF p \in Goal THEN Lines ELSE <<"prompt">>,
         !.excuse = (IF there = {} THEN {} ELSE {"shared"})
                    \cup (IF AgentIn(w) THEN {"agent"} ELSE {})]
       ELSE IF q \in there THEN [at[q] EXCEPT !.excuse = @ \cup {"shared"}]
       ELSE at[q]]
  /\ fresh' = fresh \ {p}

Opens(p, step) ==
  LET free == {w \in New : term[w].fg = "none"}
      w == CHOOSE v \in free : TRUE IN
  /\ free # {}
  /\ Puts(w, [term[w] EXCEPT !.fg = "shell"])
  /\ Takes(p, w, step)

\* Mutant of MayUse: the busy target is not looked at.
MayUseAny(p, w) == TRUE

\* ensure_target_is_idle_shell: tmux only, and only for dispatch-goal.
MayUse(p, w) == (p \in Goal /\ InTmux(p)) => term[w].fg = "shell"

\* current_anchor: the pane the command was started from.
CallerPanes == Old

\* A window is asked for, or there is nothing else the backend could use.
WantsWindow(p) == opt[p].aim = "window" \/ (opt[p].aim = "default" /\ ~InTmux(p))

\* ensure_server, ensure_runtime: the backend's server does not answer.
Unreachable(p) ==
  /\ at[p].pc = "prepare" /\ ~InTmux(p)
  /\ Moves(p, Ended(at[p], "failed"))
  /\ UNCHANGED <<opt, term, marks>>

\* The step after the window is there.
Begins(p) == IF p \in Goal THEN "send" ELSE "ready"

FindWindow(p) ==
  /\ at[p].pc = "prepare"
  /\ \/ /\ opt[p].aim = "target"
        /\ \E w \in Old :
             IF term[w].fg # "gone" /\ MayUse(p, w) THEN Takes(p, w, Begins(p))
             ELSE Moves(p, Ended(at[p], "failed")) /\ UNCHANGED fresh
        /\ UNCHANGED term
     \/ /\ opt[p].aim = "default" /\ InTmux(p)   \* the pane of the caller
        /\ \E w \in CallerPanes :
             IF term[w].fg = "shell" THEN Takes(p, w, Begins(p)) /\ UNCHANGED term
             ELSE Opens(p, Begins(p))
     \/ /\ WantsWindow(p)
        /\ Opens(p, IF InTmux(p) THEN Begins(p) ELSE "shell")
  /\ UNCHANGED <<opt, signals, sentinel>>

\* wait_for_shell_ready (herdr, orca, paseo): anything on the screen will do.
ShellReady(p) ==
  /\ at[p].pc = "shell"
  /\ \/ ~WindowGone(p) /\ Here(p).screen # {} /\ Moves(p, Waits(at[p], "send"))
     \/ /\ WindowGone(p) \/ (at[p].due /\ Here(p).screen = {})
        /\ Moves(p, Ended(at[p], "failed"))
  /\ UNCHANGED <<opt, term, marks>>

-----------------------------------------------------------------------------
(* send_text, send_dispatch_text                                           *)

Shown(s, t) ==
  s \cup CASE t.what = "launch" -> {"echo"}
           [] t.what = "prompt" -> {"prompt"}
           [] OTHER             -> {}

PromptsIn(c) ==
  {[by |-> c[i].by, try |-> c[i].try] :
     i \in {k \in 1 .. Len(c) : c[k].what = "prompt" \/
              (c[k].what = "launch" /\ c[k].by \in Proc /\ OneShot(c[k].by))}}

\* The name of the signal has the time of the attempt in it (parse_signal_name);
\* the sentinel file is named after the job alone (resolve_sentinel_path).
SignalOf(p)   == [by |-> p, try |-> at[p].try]
SentinelOf(p) == p

\* The last line of a job's prompt sends its signal or writes its sentinel.
Completes(T) ==
  /\ signals' = signals \cup {t \in T : t.by \in Job /\ opt[t.by].mode = "signal"}
  /\ sentinel' = sentinel \cup
       {SentinelOf(t.by) : t \in {s \in T : s.by \in Job /\ opt[s.by].mode = "sentinel"}}
  /\ fresh' = fresh \cup {t.by : t \in {s \in T : s.by \in Job}}

\* The content c of the input line is entered in window t.
IsLaunch(c) == Len(c) = 1 /\ c[1].what = "launch"
Entered(w, t, c) ==
  \/ /\ t.fg = "shell" /\ IsLaunch(c)
     /\ Puts(w, IF OneShot(c[1].by)
                THEN [t EXCEPT !.fg = "work", !.owner = c[1].by, !.tasks = @ \cup PromptsIn(c),
                               !.screen = @ \cup {"banner"}]
                ELSE [t EXCEPT !.fg = "boot", !.owner = c[1].by])
     /\ UNCHANGED marks
  \/ /\ t.fg = "shell" /\ ~IsLaunch(c)
     /\ Completes(PromptsIn(c))              \* line by line, as commands
     /\ Puts(w, t)
  \/ /\ t.fg \in {"idle", "work"}
     /\ Puts(w, IF PromptsIn(c) = {} THEN t
                ELSE [t EXCEPT !.fg = "work", !.tasks = @ \cup PromptsIn(c),
                               !.screen = @ \cup {"work"}])
     /\ UNCHANGED marks
  \/ /\ t.fg \in {"update", "trust"}         \* Enter picks the menu's default
     /\ Puts(w, [t EXCEPT !.fg = "idle", !.screen = @ \cup {"ready"}])
     /\ UNCHANGED marks
  \/ /\ t.fg \in {"boot", "busy"}            \* nobody there who understands it
     /\ Puts(w, t)
     /\ UNCHANGED marks

\* The step after the text at the head of left has been entered.
AfterSend(p, r) ==
  IF Len(at[p].left) > 1 THEN Goes(r, "send")
  ELSE IF Head(at[p].left) = "launch" THEN Waits(r, "ready")
  ELSE IF p \in Goal THEN Waits(r, "confirm")
  ELSE IF opt[p].mode = "fire" THEN Ended(r, "ok")
  ELSE Waits(r, "complete")

\* The screen already shows what the wait after the launch looks for.
Noticed(p) ==
  IF Head(at[p].left) = "launch" /\ Here(p).screen \cap {"ready", "trust"} # {}
  THEN [at[p] EXCEPT !.excuse = @ \cup {"stale"}] ELSE at[p]

Sent(p, c) ==
  /\ Entered(at[p].win, [Here(p) EXCEPT !.line = << >>, !.screen = Shown(@, Text(p))], c)
  /\ Touches(p, AfterSend(p, [Noticed(p) EXCEPT !.left = Tail(@)]))

\* Mutant of Clear: C-u is not sent.
ClearNot(p) ==
  /\ at[p].pc = "send" /\ InTmux(p) /\ ~WindowGone(p)
  /\ Moves(p, Goes(at[p], "paste"))
  /\ UNCHANGED <<opt, term, marks>>

\* tmux: leave copy mode, C-u.
Clear(p) ==
  /\ at[p].pc = "send" /\ InTmux(p) /\ ~WindowGone(p)
  /\ Puts(at[p].win, [Here(p) EXCEPT !.line = << >>])
  /\ Touches(p, Goes(at[p], "paste"))
  /\ UNCHANGED <<opt, marks>>

\* load-buffer under a name of its own, paste-buffer.
Paste(p) ==
  /\ at[p].pc = "paste" /\ ~WindowGone(p)
  /\ Puts(at[p].win, [Here(p) EXCEPT !.line = Append(@, Text(p)),
                                     !.screen = Shown(@, Text(p))])
  /\ Touches(p, Goes(Noticed(p), "enter"))
  /\ UNCHANGED <<opt, marks>>

Enter(p) ==
  /\ at[p].pc = "enter" /\ ~WindowGone(p)
  /\ Sent(p, Here(p).line)
  /\ UNCHANGED opt

\* The others send text and Enter in one call; herdr refuses a prompt where it
\* knows no agent.
SendAll(p) ==
  /\ at[p].pc = "send" /\ ~InTmux(p) /\ ~WindowGone(p)
  /\ LET refused == opt[p].backend = "herdr" /\ Head(at[p].left) = "prompt"
                    /\ ~AgentIn(at[p].win)
     IN \/ ~refused /\ Sent(p, Append(Here(p).line, Text(p)))
        \/ refused /\ Moves(p, Ended(at[p], "failed")) /\ UNCHANGED <<term, marks>>
  /\ UNCHANGED opt

\* Any command fails when the window is gone.
Loses(p) ==
  /\ at[p].pc \notin {"prepare", "shell", "done", "complete"}
  /\ WindowGone(p)
  /\ Moves(p, Ended(at[p], "failed"))
  /\ UNCHANGED <<opt, term, marks>>

SendText(p) == Clear(p) \/ Paste(p) \/ Enter(p) \/ SendAll(p) \/ Loses(p)

-----------------------------------------------------------------------------
(* wait_until_ready, wait_for_stable_capture, wait_for_dispatch_ready      *)

\* tmux looks for these only where the runner has patterns for being ready.
Blocked(p) ==
  /\ Here(p).screen \cap BlockedMarks(p) # {}
  /\ InTmux(p) => HasPatterns(p)

\* Mutant of Unanswered: prompts are answered again and again.
UnansweredEver(p) == IF InTmux(p) THEN Here(p).screen \cap SkipMarks(p) ELSE {}

\* apply_skip_prompts: each pattern once in a wait; only tmux answers.
Unanswered(p) ==
  IF InTmux(p) THEN (Here(p).screen \cap SkipMarks(p)) \ at[p].skipped ELSE {}

\* One key for each pattern.  The first may answer a menu; what is left over
\* is typed into whatever has the input line then.
Answers(p) ==
  LET t == Here(p)
      menu == t.fg \in {"update", "trust"}
      over == Cardinality(Unanswered(p)) - (IF menu THEN 1 ELSE 0)
      typed == \E i \in 1 .. Len(t.line) : t.line[i] = Key(p)
  IN /\ Puts(at[p].win,
          [t EXCEPT !.fg = IF menu THEN "idle" ELSE @,
                    !.screen = @ \cup IF menu THEN {"ready"} ELSE {},
                    !.line = IF over > 0 /\ ~typed THEN Append(@, Key(p)) ELSE @])
     /\ Touches(p, [at[p] EXCEPT !.skipped = @ \cup Unanswered(p), !.prev = {}])

\* wait_for_stable_capture: the same text twice.
Stable(p) == Here(p).screen # {} /\ at[p].prev = Here(p).screen

\* herdr asks its server what the agent is doing; the rest read the screen.
HerdrReady(p)  == Here(p).fg \in {"idle", "trust"}
ScreenReady(p) == Here(p).screen \cap ReadyMarks(p) # {}

SeesReady(p) ==
  IF ~HasPatterns(p) THEN Stable(p)
  ELSE IF opt[p].backend = "herdr" THEN HerdrReady(p) ELSE ScreenReady(p)

\* After ready: a probe for a goal that is typed in, or the prompt at once.
AfterReady(p) ==
  LET r == [at[p] EXCEPT !.left = IF OneShot(p) THEN << >> ELSE <<"prompt">>] IN
  Waits(r, IF OneShot(p) THEN "confirm" ELSE IF p \in Goal THEN "probe" ELSE "send")

\* Mutant of FreshRun: the old sentinel file stays.
FreshRunNot(p) == UNCHANGED sentinel

\* run_sentinel removes what an earlier attempt left.
FreshRun(p) ==
  sentinel' = IF p \in Job /\ opt[p].mode = "sentinel" THEN sentinel \ {SentinelOf(p)} ELSE sentinel

AwaitReady(p) ==
  /\ at[p].pc = "ready" /\ ~WindowGone(p)
  /\ \/ /\ Blocked(p)
        /\ Moves(p, Ended(at[p], "failed"))
        /\ UNCHANGED <<term, sentinel>>
     \/ /\ ~Blocked(p) /\ Unanswered(p) # {}
        /\ Answers(p)
        /\ UNCHANGED sentinel
     \/ /\ ~Blocked(p) /\ Unanswered(p) = {} /\ SeesReady(p)
        /\ Moves(p, AfterReady(p))
        /\ FreshRun(p)
        /\ UNCHANGED term
     \/ /\ ~Blocked(p) /\ Unanswered(p) = {} /\ ~SeesReady(p)
        /\ Moves(p, IF at[p].due THEN Ended(at[p], IF p \in Job THEN "timeout" ELSE "failed")
                    ELSE IF HasPatterns(p) THEN at[p]
                    ELSE [at[p] EXCEPT !.prev = Here(p).screen])
        /\ UNCHANGED <<term, sentinel>>
  /\ UNCHANGED <<opt, signals, fresh>>

\* confirm_tui_input: tmux types a probe, waits until it is on the screen and
\* takes it back; the others only ask whether the terminal or the agent is there.
TypeProbe(p) ==
  /\ at[p].pc = "probe" /\ ~WindowGone(p)
  /\ \/ /\ InTmux(p)
        /\ Puts(at[p].win, [Here(p) EXCEPT !.line = Append(@, Probe(p))])
        /\ Touches(p, Waits(at[p], "probed"))
     \/ /\ ~InTmux(p)
        /\ Moves(p, IF opt[p].backend = "herdr" /\ ~AgentIn(at[p].win)
                    THEN Ended(at[p], "failed") ELSE Goes(at[p], "send"))
        /\ UNCHANGED term
  /\ UNCHANGED <<opt, marks>>

SeesProbe(p) ==
  LET c == Here(p).line IN
  /\ Here(p).fg \in {"shell", "idle", "work", "busy"}
  /\ \E i \in 1 .. Len(c) : c[i] = Probe(p)

Probed(p) ==
  /\ at[p].pc = "probed" /\ ~WindowGone(p)
  /\ \/ /\ SeesProbe(p)
        /\ Puts(at[p].win, [Here(p) EXCEPT !.line = << >>])
        /\ Touches(p, Waits(at[p], "send"))
     \/ /\ ~SeesProbe(p) /\ at[p].due
        /\ Moves(p, Ended(at[p], "failed"))
        /\ UNCHANGED term
  /\ UNCHANGED <<opt, marks>>

\* wait_for_capture_patterns; herdr also takes the agent's word.
HerdrWorks(p)  == opt[p].backend = "herdr" /\ Here(p).fg = "work"
SeesConfirm(p) == Here(p).screen \cap ConfirmMarks(p) # {} \/ HerdrWorks(p)

\* reject_blocked.
Refuses(p) == ~InTmux(p) /\ Here(p).screen \cap BlockedMarks(p) # {}

AwaitConfirm(p) ==
  /\ at[p].pc = "confirm" /\ ~WindowGone(p)
  /\ \/ ~Refuses(p) /\ SeesConfirm(p) /\ Moves(p, Ended(at[p], "ok"))
     \/ Refuses(p) /\ Moves(p, Ended(at[p], "failed"))
     \/ ~Refuses(p) /\ ~SeesConfirm(p) /\ at[p].due /\ Moves(p, Ended(at[p], "failed"))
  /\ UNCHANGED <<opt, term, marks>>

-----------------------------------------------------------------------------
(* run_signal, run_sentinel, and the scheduler's next attempt              *)

\* The prompt's last command has been seen, and so has the window after it.
Succeeds(p, seen) ==
  /\ seen
  /\ Moves(p, Ended(at[p], IF opt[p].mode = "signal" /\ WindowGone(p) THEN "failed" ELSE "ok"))
  /\ UNCHANGED term

\* A snapshot fails with its window, and otherwise answers what has come up.
Snapshot(p) ==
  \/ WindowGone(p) /\ Moves(p, Ended(at[p], "failed")) /\ UNCHANGED term
  \/ ~WindowGone(p) /\ Unanswered(p) # {} /\ Answers(p)

TimesOut(p) == at[p].due /\ Moves(p, Ended(at[p], "timeout")) /\ UNCHANGED term

\* Where signal and deadline have both come either may be taken.
RunSignal(p) ==
  /\ at[p].pc = "complete" /\ opt[p].mode = "signal"
  /\ LET seen == SignalOf(p) \in signals IN
       Succeeds(p, seen) \/ TimesOut(p) \/ (~seen /\ ~at[p].due /\ Snapshot(p))
  /\ UNCHANGED <<opt, marks>>

\* The file is looked for before the clock.
RunSentinel(p) ==
  /\ at[p].pc = "complete" /\ opt[p].mode = "sentinel"
  /\ LET seen == SentinelOf(p) \in sentinel IN
       Succeeds(p, seen) \/ (~seen /\ TimesOut(p)) \/ (~seen /\ ~at[p].due /\ Snapshot(p))
  /\ UNCHANGED <<opt, marks>>

\* A timeout is retried where the job's policy says so (Scheduler).
MayRetry(p) == p \in Job /\ at[p].result = "timeout" /\ at[p].try < MaxTries
Retry(p) ==
  /\ MayRetry(p)
  /\ Moves(p, Start(at[p].try + 1))
  /\ UNCHANGED <<opt, term, marks>>

\* Time passes.
Deadline(p) ==
  /\ at[p].pc \in {"shell", "ready", "probed", "confirm", "complete"}
  /\ ~at[p].due
  /\ Moves(p, [at[p] EXCEPT !.due = TRUE])
  /\ UNCHANGED <<opt, term, marks>>

-----------------------------------------------------------------------------
(* The programs in the windows and the people before them.                 *)

\* A new shell prints its prompt.
ShellPrints(w) ==
  /\ term[w].fg = "shell" /\ term[w].screen = {}
  /\ Puts(w, [term[w] EXCEPT !.screen = {"$"}])
  /\ UNCHANGED <<at, marks>>

\* The agent is up, or asks something first.
Boots(w) ==
  /\ term[w].fg = "boot"
  /\ \E to \in {"idle", "trust", "update"} :
       Puts(w, [term[w] EXCEPT !.fg = to, !.screen = @ \cup
            CASE to = "idle"   -> {"ready"}
              [] to = "trust"  -> {"trust"}
              [] to = "update" -> {"update", "press enter"}])
  /\ UNCHANGED <<at, marks>>

\* The agent ends a task with the task's last command.
Finishes(w) ==
  /\ term[w].fg = "work"
  /\ \E t \in term[w].tasks :
       /\ Puts(w, [term[w] EXCEPT !.tasks = @ \ {t}, !.fg =
            IF term[w].tasks # {t} THEN "work"
            ELSE IF term[w].owner # NoOne /\ OneShot(term[w].owner) THEN "shell" ELSE "idle"])
       /\ Completes({t})
  /\ UNCHANGED at

\* p hears that its window is no longer what it was.
Disturbs(w, why) ==
  at' = [p \in Proc |-> IF at[p].win = w THEN [at[p] EXCEPT !.excuse = @ \cup {why}] ELSE at[p]]

\* The agent exits or dies; the screen may keep what it showed.
Exits(w) ==
  /\ AgentIn(w)
  /\ \E keep \in {term[w].screen, {"$"}} :
       Puts(w, [term[w] EXCEPT !.fg = "shell", !.owner = NoOne, !.tasks = {}, !.screen = keep])
  /\ Disturbs(w, "exited")
  /\ UNCHANGED marks

\* Somebody answers a question, starts or leaves a program, closes the window.
Human(w) ==
  /\ \/ /\ term[w].fg \in {"trust", "update"}
        /\ Puts(w, [term[w] EXCEPT !.fg = "idle", !.screen = @ \cup {"ready"}])
        /\ UNCHANGED at
     \/ /\ w \in Old /\ term[w].fg = "shell" /\ term[w].line = << >>
        /\ Puts(w, [term[w] EXCEPT !.fg = "busy"])
        /\ Disturbs(w, "user")
     \/ /\ term[w].fg = "busy"
        /\ Puts(w, [term[w] EXCEPT !.fg = "shell"])
        /\ UNCHANGED at
     \/ /\ w \in Old /\ term[w].fg # "gone"
        /\ Puts(w, [fg |-> "gone", owner |-> NoOne, line |-> << >>, screen |-> {}, tasks |-> {}])
        /\ UNCHANGED at
  /\ UNCHANGED marks

\* Nobody watches a window once every command has returned.
Returned(p) == at[p].pc = "done" /\ ~MayRetry(p)

World(w) ==
  /\ \E p \in Proc : ~Returned(p)
  /\ ShellPrints(w) \/ Boots(w) \/ Finishes(w) \/ Exits(w) \/ Human(w)
  /\ UNCHANGED opt

Step(p) ==
  \/ FindWindow(p) \/ Unreachable(p) \/ ShellReady(p) \/ SendText(p) \/ AwaitReady(p)
  \/ TypeProbe(p) \/ Probed(p) \/ AwaitConfirm(p) \/ RunSignal(p) \/ RunSentinel(p) \/ Deadline(p)

Finished == (\A p \in Proc : at[p].pc = "done") /\ UNCHANGED terminalVars

TerminalNext == (\E p \in Proc : Step(p) \/ Retry(p)) \/ (\E w \in Windows : World(w)) \/ Finished

\* The commands of the drivers return and every wait has a deadline; nothing
\* is assumed of the programs in the windows or of people.
TerminalSpec ==
  TerminalInit /\ [][TerminalNext]_terminalVars /\ \A p \in Proc : WF_terminalVars(Step(p))

-----------------------------------------------------------------------------
\* p enters the text it is sending in this step.
Types(p) ==
  /\ at[p].pc \in {"enter", "send"} /\ at[p].left # << >>
  /\ at'[p].left = Tail(at[p].left) /\ at'[p].result # "failed"

\* dispatch-goal enters the prompt only where the agent it launched itself is
\* waiting for input, unless an earlier agent was in the window or still on
\* its screen, the agent has gone since, or somebody else has typed there:
\* readiness is read off a mark that the launch line cannot produce, and the
\* probe and the confirmation would both be satisfied by a shell.
PromptReachesAgent ==
  [][\A p \in Goal : Types(p) /\ Head(at[p].left) = "prompt" =>
       \/ Here(p).fg = "idle" /\ Here(p).owner = p
       \/ at[p].excuse # {}]_terminalVars

\* What tmux's Enter submits is exactly the text that was pasted, whatever was
\* on the input line before and however many keys the answers to menus left
\* over, as long as nobody else types into the window (send_text's C-u).
TextWhole ==
  [][\A p \in Proc : Types(p) /\ InTmux(p) =>
       Here(p).line = <<Text(p)>> \/ "shared" \in at[p].excuse]_terminalVars

\* dispatch-goal in tmux never types into a program that was already running
\* in the window when it was told to use it (reject_busy_target).
BusyIsSpared ==
  [][\A p \in Goal :
       Types(p) /\ InTmux(p) /\ Here(p).fg = "busy" => "user" \in at[p].excuse]_terminalVars

\* A tmux job is reported as done only if its last command has run since the
\* attempt began: what an earlier attempt left behind is not mistaken for it.
CompletionIsOwn ==
  [][\A p \in Job : at[p].pc = "complete" /\ at'[p].result = "ok" => p \in fresh]_terminalVars

\* Every dispatch and every attempt ends, whatever the program in the window
\* does: no answer to a menu and no screen keeps a wait from its deadline.
DispatchEnds == \A p \in Proc : (at[p].pc = "prepare") ~> (at[p].pc = "done")
=============================================================================
