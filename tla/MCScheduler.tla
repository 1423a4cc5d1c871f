---------------------------- MODULE MCScheduler -----------------------------
(* Instances of Scheduler for TLC.                                         *)
EXTENDS Scheduler, TLC

CONSTANTS a, b, c, d, r1, r2

OneRunner == [j \in Job |-> r1]
TwoRunners == a :> r1 @@ b :> r2 @@ c :> r1 @@ d :> r2

\* c waits for a and for b; d for nothing.
Join == a :> {c} @@ b :> {c} @@ c :> {} @@ d :> {}
\* c waits for b, which waits for a.
Chain == a :> {b} @@ b :> {c} @@ c :> {}
=============================================================================
