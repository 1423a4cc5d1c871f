---------------------------- MODULE MCLifecycle -----------------------------
(* Instances of Lifecycle for TLC.                                         *)
EXTENDS Lifecycle, TLC

AllCommands == {"start", "phase", "judge", "audit", "closeout", "prune"}
OnePool == <<"codex">>

Prose == [json |-> FALSE, items |-> << >>, high |-> 1, critical |-> 1]
SomeReplies == {Prose}

Contract(t, i) == [targets |-> t, constraints |-> FALSE, entropy |-> FALSE, instruments |-> i]
Run(c, high) ==
  [phase |-> "implementation", goal |-> TRUE, doneWhen |-> TRUE, why |-> FALSE,
   host |-> {"claude"}, contract |-> c, blocks |-> {}, risks |-> << >>,
   tasks |-> {"proven"}, high |-> high]
HighRun == Run(Contract(TRUE, {"runs"}), TRUE)
ClosedRun == [Run(Contract(TRUE, {"runs", "empty"}), FALSE) EXCEPT !.phase = "closed"]
SomeBegins == {[run |-> HighRun,   ledger |-> Absent],
               [run |-> ClosedRun, ledger |-> Garbled]}
Symmetric == Permutations(Proc)
=============================================================================
