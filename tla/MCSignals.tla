----------------------------- MODULE MCSignals -----------------------------
(* Signals with four agents, one uninstaller and two waiters, at most three  *)
(* of them at a time.                                                        *)
EXTENDS Signals

MCAgent    == {"a1", "a2", "a3", "a4"}
\* a1 and a2 are two codex of two lto binaries with the same goal, for two runs.
MCRunOf    == [a1 |-> "r1", a2 |-> "r2", a3 |-> "r1", a4 |-> "r2"]
MCRunnerOf == [a1 |-> "codex", a2 |-> "codex", a3 |-> "agy", a4 |-> "aix"]
MCGoalOf   == [a1 |-> "g1", a2 |-> "g1", a3 |-> "g2", a4 |-> "g3"]
MCBinOf    == [a1 |-> "b1", a2 |-> "b2", a3 |-> "b1", a4 |-> "b1"]
\* a3's goal is one that was written for r2.
MCOwnReport == [g1 |-> "none", g2 |-> "r2", g3 |-> "none"]
MCWaitsFor == [w1 |-> "r1", w2 |-> "r1"]
MCAge      == [r1 |-> 1, r2 |-> 2]
MCCasts    == {{"a1", "a2"}, {"a1", "u1"}, {"a3", "a4"}, {"a3", "u1"}, {"w1", "w2", "a4"}}
Home(file, entries) == [file |-> file, entries |-> entries]
MCFirstHooks ==
  {[codex |-> Home("no home", {}), gemini |-> Home("ok", {"mine", "old"})],
   [codex |-> Home("absent", {}), gemini |-> Home("absent", {})],
   [codex |-> Home("ok", {"mine", "old"}), gemini |-> Home("ok", {"mine"})]}
=============================================================================
