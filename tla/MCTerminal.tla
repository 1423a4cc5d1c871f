---------------------------- MODULE MCTerminal ------------------------------
(* Instances of Terminal for TLC.                                          *)
EXTENDS Terminal, TLC

CONSTANTS g1, j1

Goals(backend, runner, aims) == [backend : {backend}, runner : {runner}, aim : aims]
SomeGoals ==
  Goals("tmux", "codex", {"target", "window", "default"}) \cup Goals("tmux", "agy", {"window"})
    \cup Goals("tmux", "aix", {"target"}) \cup Goals("herdr", "codex", {"target", "window"})
    \cup Goals("orca", "codex", {"target", "default"})
    \cup Goals("paseo", "codex", {"window"})

Jobs(mode, patterns, aim) ==
  [backend |-> "tmux", runner |-> "none", aim |-> aim, mode |-> mode, patterns |-> patterns]
SomeJobs ==
  {Jobs("signal", TRUE, "target"), Jobs("sentinel", FALSE, "target"),
   Jobs("sentinel", TRUE, "window"), Jobs("fire", TRUE, "target")}

NoGoal == [backend |-> "tmux", runner |-> "none", aim |-> "absent"]
NoJob  == Jobs("fire", FALSE, "absent")

Told(g, j) == (g1 :> g) @@ (j1 :> j)
\* Each alone, and those that may meet in a window together.
Alone == {Told(g, NoJob) : g \in SomeGoals} \cup {Told(NoGoal, j) : j \in SomeJobs}
Together ==
  {Told(g, j) : g \in {o \in SomeGoals : o.aim = "target" /\ o.runner = "codex" /\ o.backend # "herdr"},
                j \in {o \in SomeJobs : o.aim = "target" /\ ~o.patterns}}
SomeOptions == Alone \cup Together
=============================================================================
