------------------------------ MODULE MCRules -------------------------------
(* An instance of Rules for TLC.                                           *)
EXTENDS Rules

\* A run and the values its fields take.
SomeRun ==
  [phase |-> "implementation", goal |-> TRUE, doneWhen |-> TRUE, why |-> FALSE,
   host |-> {"claude"}, blocks |-> {}, risks |-> << >>, tasks |-> {"proven"}, high |-> FALSE,
   contract |-> [targets |-> TRUE, constraints |-> FALSE, entropy |-> FALSE,
                 instruments |-> {"runs"}]]
SomeFields == {"phase", "goal", "doneWhen", "blocks", "risks", "tasks", "high", "contract"}
Risk(v) == <<[by |-> 0, open |-> TRUE, verified |-> v]>>
SomeChoices ==
  [phase |-> {"spec", "implementation", "closed"}, goal |-> BOOLEAN, doneWhen |-> BOOLEAN,
   blocks |-> {{}, {"b1"}}, risks |-> {<< >>, Risk(FALSE), Risk(TRUE)},
   tasks |-> {{}, {"pending"}, {"blocked", "proven"}, {"skipped"}, {"bare"}, {"proven"}},
   high |-> BOOLEAN,
   contract |-> [targets : BOOLEAN, constraints : {FALSE}, entropy : {FALSE},
                 instruments : {{}, {"runs"}, {"empty"}}]]
Row(n, high) == [label |-> n, high |-> high, critical |-> 0, by |-> 0, auditors |-> {},
                 coverage |-> "filled"]
Filled(rows) == [file |-> "ok", placeholder |-> FALSE, rows |-> rows]
SomeLedgers == {Absent, Torn, Garbled, Template, Filled(<<Row(1, 1), Row(2, 0)>>),
                Filled(<<Row(1, 1), Row(2, 1)>>)}

\* Two tasks, one of the five patterns, and names no list knows; the sources
\* "codex" and "gpt" are of one family.
Vote(d, v, s) == [decision |-> d, value |-> v, source |-> s]
SomeVotes ==
  {Vote("pick_task", 1, {"codex"}), Vote("pick_task", 1, {"gpt"}), Vote("pick_task", 2, {"pi"}),
   Vote("pick_task", 9, {"agy"}), Vote("pick_pattern", 1, {"pi"}), Vote("needs_human", 0, {"agy"})}
Malformed == Vote("malformed", 0, {})
Reply(r, ok, findings, text) == [runner |-> r, ok |-> ok, findings |-> findings, text |-> text]
SomeCandidates ==
  {Reply("codex", TRUE, <<Vote("pick_task", 1, {})>>, << >>),
   Reply("pi", TRUE, <<Malformed>>, <<Vote("pick_task", 2, {}), Vote("pick_task", 9, {})>>),
   Reply("agy", FALSE, <<Vote("pick_task", 1, {})>>, << >>)}
Review(r, ok, findings, text, items) ==
  [runner |-> r, ok |-> ok, findings |-> findings, text |-> text, items |-> items]
SomeReviews ==
  {Review("codex", TRUE, <<"bad", "high">>, "prose", << >>),
   Review("gpt", TRUE, <<"bad">>, "json", <<"low", "bad">>),
   Review("pi", TRUE, << >>, "json", <<"low">>), Review("pi", TRUE, << >>, "json", << >>),
   Review("agy", FALSE, << >>, "blank", << >>)}

\* Three jobs of one runner, two of them in one run; agents report in both.
JobRun == [j1 |-> "r1", j2 |-> "r1", j3 |-> "r2"]
JobWork == [j \in {"j1", "j2", "j3"} |-> "codex implements"]

\* Every runner the program knows and one it does not; what a job file says.
SomeRunners == {"codex", "pi", "agy", "aix", "gemini", "claude", "tmux", "other"}
SomeFileChoices ==
  [runner |-> SomeRunners, sandbox |-> {"read-only", "workspace-write", "danger-full-access"},
   reason |-> BOOLEAN, approved |-> BOOLEAN, headless |-> BOOLEAN,
   tools |-> {{}, {"read"}, {"read", "bash"}},
   env |-> {[k \in {} |-> "1"], [CODEX_SANDBOX |-> "read-only"], [CODEX_SANDBOX |-> "workspace-write"]},
   type |-> {"audit", "write"}, isolation |-> {"none", "worktree", "other"},
   worktree |-> BOOLEAN, prompt |-> BOOLEAN]
=============================================================================
