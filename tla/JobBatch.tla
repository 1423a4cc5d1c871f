------------------------------ MODULE JobBatch ------------------------------
(***************************************************************************)
(* What Scheduler::submit promises for a batch of jobs: every job gets one *)
(* outcome, for good; a job has run only if all its parents succeeded and  *)
(* left nothing for the host to merge; a job is passed over only because   *)
(* of such a parent or of its runner; and unless the batch as a whole is   *)
(* refused, every job has an outcome in the end.                           *)
(***************************************************************************)
CONSTANTS
  Job,       \* the jobs of the batch
  Children   \* job -> the jobs that must wait for it

VARIABLES
  outcome,   \* job -> "none" or how it ended
  verdict    \* "open", "done" or "refused"

Ran == {"good", "review", "bad"}
Parents(j) == {p \in Job : j \in Children[p]}

TypeOK ==
  /\ outcome \in [Job -> Ran \cup {"none", "skipped"}]
  /\ verdict \in {"open", "done", "refused"}

Init ==
  /\ outcome = [j \in Job |-> "none"]
  /\ verdict = "open"

\* Jobs of S get their outcomes together.
Settle(S, how) ==
  /\ verdict = "open"
  /\ \A j \in S :
       /\ outcome[j] = "none"
       /\ \/ how[j] \in Ran \cup {"skipped"}
             /\ \A p \in Parents(j) : outcome[p] = "good"
          \/ how[j] = "skipped"
             /\ \E p \in Parents(j) : outcome[p] \notin {"none", "good"}
  /\ outcome' = [j \in Job |-> IF j \in S THEN how[j] ELSE outcome[j]]
  /\ UNCHANGED verdict

Return ==
  /\ verdict = "open"
  /\ \A j \in Job : outcome[j] # "none"
  /\ verdict' = "done"
  /\ UNCHANGED outcome

\* The batch is refused: as invalid before anything ran, or later because no
\* job can be started.  Some jobs may have been passed over in the same pass.
Refuse(S) ==
  /\ verdict = "open"
  /\ \A j \in S :
       /\ outcome[j] = "none"
       /\ \E p \in Parents(j) : outcome[p] \notin {"none", "good"}
  /\ verdict' = "refused"
  /\ outcome' = [j \in Job |-> IF j \in S THEN "skipped" ELSE outcome[j]]

Next ==
  \/ \E S \in SUBSET Job : \E how \in [S -> Ran \cup {"skipped"}] : Settle(S, how)
  \/ \E S \in SUBSET Job : Refuse(S)
  \/ Return

Spec == Init /\ [][Next]_<<outcome, verdict>>
=============================================================================
